------------------------------- MODULE KeyGrabs -------------------------------
(***************************************************************************)
(* The keystroke listeners of registryd and the passive X key grabs held   *)
(* for them (registryd/deviceeventcontroller.c).                           *)
(*                                                                         *)
(* A client registers a listener with a modifier mask and a list of keys   *)
(* (none: every key).  For a listener that is global, each key adds one    *)
(* reference to an entry of keygrabs_list, and the entry's first reference *)
(* makes registryd grab the key in the X server; the last one gone         *)
(* releases it.  Every change of the counts is followed at once by         *)
(* spi_controller_update_key_grabs, so pending_add and pending_remove are  *)
(* FALSE between two requests and the state has only the counts.           *)
(*                                                                         *)
(* Keys may be named by a symbol; the X library's keymap tells the keycode *)
(* of one, at the registration, at the deregistration and for each key     *)
(* that arrives.  The user changes that keymap, and so does registryd,     *)
(* which lends a reserved key to a symbol that has none.                   *)
(***************************************************************************)
EXTENDS Integers, Sequences, FiniteSets

CONSTANTS
    KeyListeners, \* device listeners: a client's bus name and an object path
    KeyOwner,     \* KeyOwner[l]: the bus name of listener l
    Masks,        \* modifier masks
    Keys,         \* keycodes
    AnyKey,       \* the keycode that stands for all of them
    Symbols,      \* keysyms, or the strings that name them
    ReservedKey,  \* priv->reserved_keycode
    ReservedSymbol, \* priv->reserved_keysym
    KeyLists,     \* the key lists clients send: keycodes and symbols
    Scenarios,    \* what happens in one behaviour, see scenario
    MaxEntries,   \* bound: length of key_listeners
    MaxRefs,      \* bound: references to one entry of keygrabs_list
    MaxResets     \* bound: timers that take the reserved key back

KeyDefinitions == Keys \cup {AnyKey} \cup Symbols
Grabs == Masks \X (Keys \cup {AnyKey})
KeyClients == {KeyOwner[l] : l \in KeyListeners}

ASSUME KeyGrabsAssumption ==
    /\ AnyKey \notin Keys
    /\ Symbols \cap (Keys \cup {AnyKey}) = {}
    /\ ReservedKey \in Keys /\ ReservedSymbol \in Symbols
    /\ KeyLists \subseteq Seq(KeyDefinitions)
    /\ {MaxEntries, MaxRefs, MaxResets} \subseteq Nat

ASSUME ScenariosAssumption ==
    \A s \in Scenarios :
        /\ s.lists \subseteq KeyLists
        /\ s.rivals \subseteq Masks \X Keys
        /\ s.layouts \subseteq [Symbols -> Keys \cup {AnyKey}]
        /\ s.careless \in BOOLEAN

VARIABLES
    scenario,     \* bound: the key lists clients send, and whether their requests are
                  \* careless; the grabs other X clients want (rivals); the keymaps
                  \* the user sets (layouts)
    keyListeners, \* controller->key_listeners, the newest first
    keygrabs,     \* ref_count of each entry of keygrabs_list; 0: no entry
    xGrabs,       \* the X server: the keys grabbed for registryd
    taken,        \* the X server: the keys grabbed for somebody else
    keycodes,     \* XKeysymToKeycode: the key a symbol has; AnyKey, which is 0: none
    resets,       \* timers that will put the reserved key's own symbol back
    reply,        \* the grabs the last registration was for, and its answer
    ended,        \* how registryd has ended: by the assertion of
                  \* spi_controller_update_key_grabs or by writing through NULL
    trapped,      \* display.c's X error handler is the one installed
    leaving,      \* {c} while the listeners of c, which has left, are removed
    refused,      \* history: grabs the X server has refused
    cut,          \* history: grabs that lost keys when others were released
    spoilt        \* history: grabs touched by a deregistration that gave back other
                  \* ones than its listener took

daemonVars == <<keyListeners, keygrabs, reply, ended>>
serverVars == <<xGrabs, taken, refused, cut>>
mapVariables == <<scenario, keycodes, resets>>
vars == <<daemonVars, serverVars, mapVariables, trapped, leaving, spoilt>>

\* registryd runs and takes the next request.
Running == ended = "no"
Ready == Running /\ leaving = {}

\* A listener; took is history: the grabs of its registration.
Entry == [id: KeyListeners, mask: Masks, keys: KeyLists, global: BOOLEAN, took: Seq(Grabs)]
Registered == {keyListeners[i] : i \in DOMAIN keyListeners}

(***************************************************************************)
(* handle_keygrab: the grabs a list of keys stands for, one after another, *)
(* with the keymap of the moment.  A symbol that no key has becomes        *)
(* keycode 0, which is AnyKey.                                             *)
(***************************************************************************)
Keycode(key) == IF key \in Symbols THEN keycodes[key] ELSE key

GrabsFor(mask, keys) ==
    IF keys = <<>> THEN <<<<mask, AnyKey>>>>
    ELSE [i \in DOMAIN keys |-> <<mask, Keycode(keys[i])>>]

\* Mutant: a key listed twice counts once.
MutantUses(grabs, g) == IF \E i \in DOMAIN grabs : grabs[i] = g THEN 1 ELSE 0

Uses(grabs, g) == Cardinality({i \in DOMAIN grabs : grabs[i] = g})
RangeOf(s) == {s[i] : i \in DOMAIN s}

\* External: the keys of the X server that a grab stands for.  Grabbing or
\* releasing AnyKey does so for every key with that mask.
Covered(g) == IF g[2] = AnyKey THEN {g[1]} \X Keys ELSE {g}
CoveredBy(S) == UNION {Covered(g) : g \in S}

(***************************************************************************)
(* The keymap: the user sets another, and registryd gives the reserved key *)
(* to a symbol that has no key (keycode_for_keysym), for which a timer     *)
(* puts the own symbol back.  A symbol on another key stays there.         *)
(***************************************************************************)
SetReserved(symbol) ==
    keycodes' = [s \in Symbols |->
                    IF s = symbol /\ keycodes[s] = AnyKey THEN ReservedKey
                    ELSE IF s # symbol /\ keycodes[s] = ReservedKey THEN AnyKey
                    ELSE keycodes[s]]

Lend(symbol) ==
    /\ keycodes[symbol] = AnyKey
    /\ resets < MaxResets
    /\ resets' = resets + 1
    /\ SetReserved(symbol)

ResetReservedKey ==
    /\ Ready
    /\ resets > 0
    /\ resets' = resets - 1
    /\ SetReserved(ReservedSymbol)
    /\ UNCHANGED <<daemonVars, serverVars, scenario, trapped, leaving, spoilt>>

UserRemaps ==
    /\ Running
    /\ keycodes' \in scenario.layouts
    /\ UNCHANGED <<daemonVars, scenario, serverVars, resets, trapped, leaving, spoilt>>

(***************************************************************************)
(* _register_keygrab for each grab, then spi_controller_update_key_grabs.  *)
(* A new entry whose XGrabKey failed loses all its references and leaves    *)
(* the list.  New entries are visited the last first, and the answer tells *)
(* how the last visit went, which is that of the first new grab.           *)
(***************************************************************************)
NewGrabs(grabs) == {g \in RangeOf(grabs) : keygrabs[g] = 0}
RefusedGrabs(grabs) == {g \in NewGrabs(grabs) : Covered(g) \cap taken # {}}

\* Mutant: a refused grab is never noticed.
MutantNoticed(denied) == {}

\* spi_clear_error_state: the refused grabs that registryd learns of, those
\* whose X error comes to its own handler.
Noticed(denied) == IF trapped THEN {} ELSE denied

FailedGrabs(grabs) == Noticed(RefusedGrabs(grabs))

UpdateSucceeds(grabs) ==
    \A i \in DOMAIN grabs :
        (/\ grabs[i] \in NewGrabs(grabs)
         /\ \A j \in 1..(i - 1) : grabs[j] \notin NewGrabs(grabs))
        => grabs[i] \notin FailedGrabs(grabs)

\* handle_keygrab of each key, then spi_controller_update_key_grabs.
RegisterGrabs(grabs) ==
    /\ \A g \in Grabs : keygrabs[g] + Uses(grabs, g) <= MaxRefs
    /\ keygrabs' = [g \in Grabs |->
                       IF g \in FailedGrabs(grabs) THEN 0
                       ELSE keygrabs[g] + Uses(grabs, g)]
    /\ xGrabs' = xGrabs \cup CoveredBy(NewGrabs(grabs) \ RefusedGrabs(grabs))
    /\ refused' = refused \cup RefusedGrabs(grabs)
    /\ UNCHANGED cut

RegisterKeystrokeListener(l, mask, keys, global) ==
    LET grabs == GrabsFor(mask, keys)
        entry == [id |-> l, mask |-> mask, keys |-> keys, global |-> global,
                  took |-> IF global THEN grabs ELSE <<>>]
    IN  /\ Ready
        /\ Len(keyListeners) < MaxEntries
        /\ keyListeners' = <<entry>> \o keyListeners
        /\ IF global
           THEN /\ RegisterGrabs(grabs)
                /\ reply' = [for |-> grabs, ok |-> UpdateSucceeds(grabs)]
           ELSE /\ UNCHANGED <<keygrabs, xGrabs, refused, cut>>
                /\ reply' = [for |-> <<>>, ok |-> TRUE]
        /\ UNCHANGED <<taken, ended, mapVariables, trapped, leaving, spoilt>>

\* Ungrabbing all keys takes those grabbed singly, and the other way round.
CutGrabs(gone) ==
    {g \in Grabs \ gone : keygrabs[g] > 0 /\ Covered(g) \cap CoveredBy(gone) # {}}

\* Mutant: off by one, the key stays grabbed when its count reaches 0.
MutantReleaseLate(released) ==
    LET gone == {g \in Grabs : keygrabs[g] > 0 /\ released[g] > keygrabs[g]}
    IN  /\ keygrabs' = [g \in Grabs |->
                           IF keygrabs[g] = 0 \/ g \in gone THEN 0
                           ELSE keygrabs[g] - released[g]]
        /\ xGrabs' = xGrabs \ CoveredBy(gone)
        /\ cut' = cut \cup CutGrabs(gone)

(***************************************************************************)
(* _deregister_keygrab for each grab, then spi_controller_update_key_grabs,*)
(* where released[g] is how often g is given back.  A count that reaches 0 *)
(* marks the entry for removal.  One that should go below 0 is unsigned,   *)
(* so it wraps, and the assertion on removal ends the daemon.              *)
(***************************************************************************)
ReleaseGrabs(released) ==
    LET gone == {g \in Grabs : keygrabs[g] > 0 /\ released[g] >= keygrabs[g]}
    IN  /\ keygrabs' = [g \in Grabs |->
                           IF keygrabs[g] = 0 \/ g \in gone THEN 0
                           ELSE keygrabs[g] - released[g]]
        /\ xGrabs' = xGrabs \ CoveredBy(gone)
        /\ cut' = cut \cup CutGrabs(gone)

\* remove_listener_cb: every entry with the listener's bus name and path goes,
\* whatever its mask and keys; the others stay in their order.
DropEntries(ids) ==
    LET kept == {i \in DOMAIN keyListeners : keyListeners[i].id \notin ids}
    IN  \E order \in [1..Cardinality(kept) -> kept] :
            /\ \A i, j \in DOMAIN order : i < j => order[i] < order[j]
            /\ keyListeners' = [i \in DOMAIN order |-> keyListeners[order[i]]]

\* A deregistration matches if it is of a listener registered once, and gives back
\* the grabs that took.
Matches(l, grabs) ==
    LET places == {i \in DOMAIN keyListeners : keyListeners[i].id = l}
    IN  \E i \in places : places = {i} /\ keyListeners[i].took = grabs

TookBy(l) == UNION {RangeOf(e.took) : e \in {e \in Registered : e.id = l}}

\* spi_deregister_controller_key_listener.  The keys of the list entry are
\* copied for a caller that sent none, but the grabs given back are those of
\* the caller's own list, whether or not the listener is registered, and globally.
DeregisterKeyListener(l, mask, keys) ==
    LET grabs == GrabsFor(mask, keys)
        released == [g \in Grabs |-> Uses(grabs, g)]
    IN  /\ ended' = IF \E g \in Grabs : 0 < keygrabs[g] /\ keygrabs[g] < released[g]
                    THEN "assertion" ELSE "no"
        /\ ReleaseGrabs(released)
        /\ DropEntries({l})
        /\ spoilt' = IF Matches(l, grabs) THEN spoilt
                     ELSE spoilt \cup RangeOf(grabs) \cup TookBy(l)

DeregisterKeystrokeListener(l, mask, keys) ==
    /\ Ready
    /\ DeregisterKeyListener(l, mask, keys)
    /\ UNCHANGED <<taken, reply, mapVariables, trapped, leaving, refused>>

(***************************************************************************)
(* The keyboard half of spi_remove_device_listeners: an application left.  *)
(* Its entries are deregistered one by one from the head of the list, each *)
(* with its own mask and keys; deregistering one also drops the later ones *)
(* with the same path, whose keys are therefore never given back.          *)
(***************************************************************************)
ClientLeaves(c) ==
    /\ Ready
    /\ leaving' = {c}
    /\ UNCHANGED <<daemonVars, serverVars, mapVariables, trapped, spoilt>>

EntriesOf(clients) == {i \in DOMAIN keyListeners : KeyOwner[keyListeners[i].id] \in clients}

\* A turn of the loop over the listeners of a client that has left.
RemoveKeyListener ==
    \E i \in EntriesOf(leaving) :
        LET entry == keyListeners[i]
        IN  /\ \A j \in EntriesOf(leaving) : i <= j
            /\ DeregisterKeyListener(entry.id, entry.mask, entry.keys)
            /\ UNCHANGED <<taken, reply, mapVariables, trapped, leaving, refused>>

RemovalEnds ==
    /\ EntriesOf(leaving) = {}
    /\ leaving' = {}
    /\ UNCHANGED <<daemonVars, serverVars, mapVariables, trapped, spoilt>>

RemovalProceeds ==
    /\ Running /\ leaving # {}
    /\ RemoveKeyListener \/ RemovalEnds

\* spi_controller_update_key_grabs for a key event: key k is grabbed again under
\* every entry whose mask has a modifier that is down (those in pressed).  An entry
\* whose XGrabKey fails now is forgotten.
ReissueGrabs(k, pressed) ==
    LET again == {<<m, k>> : m \in {n \in pressed : keygrabs[<<n, k>>] > 0}}
        denied == again \cap taken
    IN  /\ keygrabs' = [g \in Grabs |->
                           IF g \in Noticed(denied) THEN 0 ELSE keygrabs[g]]
        /\ xGrabs' = xGrabs \cup (again \ denied)
        /\ refused' = refused \cup denied

\* spi_device_event_controller_forward_key_event: a grabbed key arrives and is read
\* as a symbol, whose key is looked for: it may be another one that has it too.
ForwardKeyEvent ==
    /\ Ready
    /\ \E x \in xGrabs, pressed \in SUBSET Masks :
          \E k \in {x[2]} \cup {keycodes[s] : s \in Symbols} :
             k # AnyKey /\ ReissueGrabs(k, pressed)
    /\ UNCHANGED <<keyListeners, taken, reply, ended, mapVariables, trapped, leaving, cut,
                   spoilt>>

\* A grabbed key is read as a symbol that no key has (there is none on the key, or
\* Caps Lock makes one of a letter): the reserved key is lent to it, then
\* keycode_for_keysym writes through modmask, which is NULL here.  The grabs go with
\* registryd's connection to the X server, the symbol stays on the reserved key.
ForwardUnmapped ==
    /\ Ready
    /\ xGrabs # {}
    /\ \E symbol \in Symbols : Lend(symbol)
    /\ ended' = "null"
    /\ UNCHANGED <<keyListeners, keygrabs, reply, serverVars, scenario, trapped, leaving,
                   spoilt>>

\* impl_generate_keyboard_event traps X errors and never releases the trap, so
\* the errors of XGrabKey go to display.c's handler from then on.  A symbol without
\* a key gets the reserved one.
GenerateKeyboardEvent ==
    /\ Ready
    /\ trapped' = TRUE
    /\ (\E symbol \in Symbols : Lend(symbol)) \/ UNCHANGED mapVariables
    /\ UNCHANGED <<daemonVars, serverVars, scenario, leaving, spoilt>>

\* External: some other X client grabs a key that is free, or lets go of one.
RivalGrabs ==
    /\ Ready
    /\ \E g \in scenario.rivals \ (xGrabs \cup taken) : taken' = taken \cup {g}
    /\ UNCHANGED <<daemonVars, xGrabs, refused, cut, mapVariables, trapped, leaving, spoilt>>

RivalReleases ==
    /\ Ready
    /\ \E g \in taken : taken' = taken \ {g}
    /\ UNCHANGED <<daemonVars, xGrabs, refused, cut, mapVariables, trapped, leaving, spoilt>>

-----------------------------------------------------------------------------

NoReply == [for |-> <<>>, ok |-> TRUE]

Init ==
    /\ keyListeners = <<>>
    /\ keygrabs = [g \in Grabs |-> 0]
    /\ xGrabs = {}
    /\ taken = {}
    /\ scenario \in Scenarios
    /\ keycodes \in scenario.layouts
    /\ resets = 0
    /\ reply = NoReply
    /\ ended = "no"
    /\ trapped = FALSE
    /\ leaving = {}
    /\ refused = {} /\ cut = {} /\ spoilt = {}

(***************************************************************************)
(* What clients do.  A careless one sends what D-Bus lets it: a listener   *)
(* once more, or for its own window, and at its deregistration other keys  *)
(* or another mask, as the client library does, which sends the address of *)
(* the caller's array.  The others deregister what they have registered.   *)
(***************************************************************************)
MayRegister(l, global) ==
    scenario.careless \/ (global /\ \A e \in Registered : e.id # l)

MayDeregister(l, mask, keys) ==
    scenario.careless \/ \E e \in Registered : e.id = l /\ e.mask = mask /\ e.keys = keys

Next ==
    \/ \E l \in KeyListeners, mask \in Masks, keys \in scenario.lists :
          \E global \in BOOLEAN :
              /\ MayRegister(l, global)
              /\ RegisterKeystrokeListener(l, mask, keys, global)
    \/ \E l \in KeyListeners, mask \in Masks, keys \in scenario.lists \cup {<<>>} :
          /\ MayDeregister(l, mask, keys)
          /\ DeregisterKeystrokeListener(l, mask, keys)
    \/ \E c \in KeyClients : ClientLeaves(c)
    \/ RemovalProceeds
    \/ ForwardKeyEvent
    \/ ForwardUnmapped
    \/ GenerateKeyboardEvent
    \/ ResetReservedKey
    \/ UserRemaps
    \/ RivalGrabs
    \/ RivalReleases

Spec == Init /\ [][Next]_vars

-----------------------------------------------------------------------------

TypeOK ==
    /\ scenario \in Scenarios
    /\ keyListeners \in Seq(Entry)
    /\ keygrabs \in [Grabs -> Nat]
    /\ xGrabs \subseteq Masks \X Keys
    /\ taken \subseteq Masks \X Keys
    /\ keycodes \in [Symbols -> Keys \cup {AnyKey}]
    /\ resets \in 0..MaxResets
    /\ reply \in [for: Seq(Grabs), ok: BOOLEAN]
    /\ ended \in {"no", "assertion", "null"}
    /\ trapped \in BOOLEAN
    /\ leaving \in {{}} \cup {{c} : c \in KeyClients}
    /\ refused \cup cut \cup spoilt \subseteq Grabs

\* How many times the registered listeners took g.
Asked(g) ==
    LET places == UNION {{i} \X DOMAIN keyListeners[i].took : i \in DOMAIN keyListeners}
    IN  Cardinality({p \in places : keyListeners[p[1]].took[p[2]] = g})

\* Whatever clients send, no key stays grabbed in the X server unless an entry
\* of keygrabs_list accounts for it: the user's keyboard is never held by a
\* grab that registryd has forgotten and can no longer release.
NoForgottenGrab ==
    \A x \in xGrabs : \E g \in Grabs : keygrabs[g] > 0 /\ x \in Covered(g)

\* A deregistration that does not give back what its listener took (other keys or
\* another mask, a listener registered twice or for its own window, a symbol that
\* has moved to another key since) spoils the counts of the grabs it names and of
\* those it should have named, and of no others: an entry that none has touched
\* never holds more references than there are listeners left to give them back.
NoLeakedGrab == \A g \in Grabs \ spoilt : keygrabs[g] <= Asked(g)

\* ... nor fewer, unless the X server has refused it.
CountsExact == \A g \in Grabs \ (spoilt \cup refused) : keygrabs[g] = Asked(g)

\* Every key that a listener took reaches registryd, whoever else registered,
\* deregistered or left meanwhile, unless the X server refused it, a deregistration
\* that did not match has touched it, or a release of all keys met it.
ListenersGrabbed ==
    \A e \in Registered : \A g \in RangeOf(e.took) \ (spoilt \cup refused \cup cut) :
        Covered(g) \subseteq xGrabs

\* "g_assert (grab_mask->ref_count <= 0)" holds whenever an entry is removed, as
\* long as no grab was refused and every deregistration gave back what was taken.
AssertionHolds == ended = "assertion" => refused \cup spoilt # {}

\* The counts, the X server and the listeners agree.
Consistent ==
    TypeOK /\ NoLeakedGrab /\ CountsExact /\ ListenersGrabbed /\ AssertionHolds

\* While registryd hears of refused grabs, a client told TRUE had the keys of its
\* request grabbed, if that was for one key or all keys and no release has cut it.
OneKeyReplyHonest ==
    [][(reply' # reply /\ reply'.ok /\ ~trapped /\ Len(reply'.for) = 1)
          => CoveredBy(RangeOf(reply'.for) \ cut) \subseteq xGrabs']_vars

\* "g_assert (grab_mask->ref_count <= 0)": no entry is removed with references.
AssertionNeverFails == ended # "assertion"
=============================================================================
