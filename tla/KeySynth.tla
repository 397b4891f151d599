------------------------------- MODULE KeySynth -------------------------------
(***************************************************************************)
(* GenerateKeyboardEvent and GenerateMouseEvent in registryd, and the XKB  *)
(* latches it restores (registryd/deviceeventcontroller.c).                *)
(*                                                                         *)
(* A symbol that no key has is typed by lending it a reserved key: the     *)
(* symbol replaces the key's own in the server's keymap, and a timer puts  *)
(* the own one back, late enough for the application that has the focus to *)
(* have looked the key up.  Modifiers the symbol needs and the user is not *)
(* holding are locked around the key.  A handler runs to its end before    *)
(* anything else in registryd; the user and the application act between    *)
(* its requests to the server, of which the model tells apart the two      *)
(* halves of one symbol: up to the press, and from the release on.         *)
(***************************************************************************)
EXTENDS Ucs2Keysym, FiniteSets

CONSTANTS
    Codes,      \* keycodes
    Buttons,    \* buttons of the pointer
    Mods,       \* modifiers
    Keymap,     \* the keys as the user set them up: [code, mods, keysym]
    Matters,    \* Matters[k]: the modifiers that change what key k types
    Spare,      \* the keycodes with one symbol, a sequence: the search's order
    NumberSign, \* the keycode that has '#'
    Taken,      \* what other X clients may have grabbed: a set of sets of keys
    LookedUp,   \* the sets of modifiers keysym_mod_mask looks a symbol up under
    Sessions,   \* what clients and the user do in one behaviour, see session
    None,       \* no key
    ResetDelay, \* spi_dec_reset_reserved runs this many ticks after the loan
    Patience,   \* ... and the application reads its keys within so many
    MaxLoans,   \* bound: timers of loans at one time
    MaxUnread,  \* bound: keys the application has not read
    MaxNotes    \* bound: XkbStateNotify events on their way

\* A key types one symbol under the same modifiers, which matter to it, and those the
\* search chooses from have one at their first level.
ASSUME KeySynthAssumption ==
    /\ Codes \subseteq Nat
    /\ Keymap \subseteq [code: Codes, mods: SUBSET Mods, keysym: Nat]
    /\ \A e, f \in Keymap : e.code = f.code /\ e.mods = f.mods => e = f
    /\ \A e \in Keymap : e.mods \subseteq Matters[e.code]
    /\ Spare \in Seq(Codes)
    /\ NumberSign \in Codes
    /\ \A k \in {Spare[i] : i \in DOMAIN Spare} \cup {NumberSign} :
          \E e \in Keymap : e.code = k /\ e.mods = {}
    /\ None \notin Codes
    /\ LookedUp \subseteq SUBSET Mods
    /\ {ResetDelay, Patience, MaxLoans, MaxUnread, MaxNotes} \subseteq Nat
    /\ Patience < ResetDelay

\* Strings are not empty.
ASSUME SessionsAssumption ==
    \A s \in Sessions :
        /\ s.symbols \subseteq Nat
        /\ s.strings \subseteq Seq(UCS) \ {<<>>}
        /\ s.raw \cup s.types \subseteq Codes /\ s.buttons \subseteq Buttons
        /\ s.holds \cup s.locks \cup s.latches \subseteq Mods

VARIABLES
    session,    \* bound: the symbols, strings, keys (raw) and buttons clients ask
                \* for; the keys the user types and the modifiers the user holds,
                \* locks and latches
    reserved,   \* priv->reserved_keycode
    ownSymbol,  \* priv->reserved_keysym
    base,       \* the X server: the symbol at the first level of that key
    loans,      \* ages of the timers that put the own symbol back, oldest first
    held,       \* the X server: modifiers the user holds down
    locked,     \* ... modifiers that are locked
    latched,    \* ... modifiers that are latched
    down,       \* ... keys and buttons XTest has pressed and not released
    notes,      \* ... XkbStateNotify events registryd has not handled
    maskState,  \* mouse_mask_state: the modifiers of the last poll
    latchMask,  \* priv->xkb_latch_mask
    relatch,    \* priv->pending_xkb_mod_relatch_mask
    clicked,    \* the user has pressed a button the poll has not seen
    lastPress,  \* priv->last_press_keycode
    lastRelease,\* priv->last_release_keycode
    delay,      \* the X server: the keys its slow and bounce keys wait for
    synth,      \* dec_synth_keystring: the symbol between press and release
    unread,     \* the focused application: keys it has not read
    asked,      \* history: keys and buttons pressed by a client's request
    dropped     \* history: did slow or bounce keys drop a symbol?

mapVars == <<session, reserved, ownSymbol, base, loans>>
modVars == <<held, locked>>
latchVars == <<latched, notes, latchMask, relatch, clicked>>
keyVars == <<down, lastPress, lastRelease, delay, asked, dropped>>
synthVars == <<mapVars, modVars, latchVars, keyVars, maskState, synth, unread>>

Idle == [todo |-> <<>>, code |-> None, lock |-> {}, before |-> {}, calm |-> TRUE]

\* No handler is running; one that types a string is between two symbols.
MainLoop == synth.code = None /\ synth.todo = <<>>
BetweenSymbols == synth.code = None /\ synth.todo # <<>>

\* What XQueryPointer answers.
Effective == held \cup locked \cup latched

-----------------------------------------------------------------------------
(* The keymap and the loan of the reserved key.                            *)

\* spi_controller_register_with_devices: the first spare key that nobody has
\* grabbed.  x_error_code stays set once a grab was refused, so that the keys
\* after a refusal are passed over as well.
SearchReserved(taken) ==
    IF Spare # <<>> /\ Spare[1] \notin taken THEN Spare[1] ELSE NumberSign

\* The symbol a key has at its first level.
FirstLevel(k) == (CHOOSE e \in Keymap : e.code = k /\ e.mods = {}).keysym

\* The symbol the search's end records as the key's own.
OwnSymbol(k) == IF k = NumberSign THEN 35 ELSE FirstLevel(k)

\* The keymap with the symbol the reserved key has now.
CurrentMap ==
    {e \in Keymap : ~(e.code = reserved /\ e.mods = {})}
        \cup {[code |-> reserved, mods |-> {}, keysym |-> base]}

\* XKeysymToKeycode: the place of a symbol in the keymap, if it has one.
Reach(keysym) == {e \in CurrentMap : e.keysym = keysym}
KeyFor(keysym) == CHOOSE e \in Reach(keysym) : \A f \in Reach(keysym) : e.code <= f.code

\* keysym_mod_mask: every modifier (0xFFFF) for a symbol under others than those
\* looked up.
ModMask(e) == IF e.mods \in LookedUp THEN e.mods ELSE Mods

\* What an application reads from key k under the modifiers.
Reads(k, mods) == {e.keysym : e \in {f \in CurrentMap :
                                        f.code = k /\ f.mods = mods \cap Matters[k]}}

\* spi_dec_reset_reserved: each loan has its own timer.
ResetReserved ==
    /\ MainLoop
    /\ loans # <<>> /\ Head(loans) >= ResetDelay
    /\ base' = ownSymbol
    /\ loans' = Tail(loans)
    /\ UNCHANGED <<session, reserved, ownSymbol, modVars, latchVars, keyVars, maskState, synth, unread>>

-----------------------------------------------------------------------------
(* Keys through XTest, with the delays of slow and bounce keys.            *)

NoDelay == [slow |-> None, bounce |-> None, users |-> FALSE]

\* A key other than a modifier uses up the latches.
UseLatches ==
    IF latched = {} THEN UNCHANGED <<latched, notes>>
    ELSE latched' = {} /\ notes' = Append(notes, {})

\* dec_synth_keycode_press waits out bounce keys for the key it released last.
WaitsBounce(k) == k = lastRelease
Bounced(k) == ~WaitsBounce(k) /\ delay.bounce = k

Press(k) ==
    /\ down' = down \cup {k}
    /\ lastPress' = k
    /\ delay' = IF WaitsBounce(k) THEN [NoDelay EXCEPT !.slow = k]
                ELSE [delay EXCEPT !.slow = k]

\* dec_synth_keycode_release waits out slow keys for the key it pressed last.
WaitsSlow(k) == k = lastPress
TooShort(k) == ~WaitsSlow(k) /\ delay.slow = k

Release(k) ==
    /\ down' = down \ {k}
    /\ lastRelease' = k
    /\ delay' = [slow |-> IF WaitsSlow(k) \/ delay.slow = k THEN None ELSE delay.slow,
                 bounce |-> k, users |-> FALSE]

-----------------------------------------------------------------------------
(* dec_synth_keysym.                                                       *)

\* Keys not read yet are read as something else once the reserved key changes.
Confused ==
    [i \in DOMAIN unread |-> [unread[i] EXCEPT !.calm = @ /\ unread[i].code # reserved]]

LockModifiers(mods) == locked' = locked \cup mods
UnlockModifiers(mods) == locked' = locked \ mods

\* Mutant: locks the modifiers that are locked already, too.
MutantLocksFor(mods) == mods

LocksFor(mods) == mods \ maskState

\* Calm conditions, before key k is pressed for a symbol: registryd knows the
\* modifiers the server has; the search has found those the symbol needs; there are
\* no others that change the key, for nothing unlocks them ("TODO: set the modifiers
\* accordingly!"); and no timer of an earlier loan ends while the key is unread.
CalmFor(k, mods, needed) ==
    /\ maskState = Effective
    /\ mods = needed
    /\ Effective \cap Matters[k] \subseteq needed
    /\ k = reserved => \A i \in DOMAIN loans : loans[i] + Patience < ResetDelay

\* Key k is pressed with the modifiers of a symbol locked; more are to follow.
PressKeysym(keysym, k, mods, needed, todo) ==
    LET lock == LocksFor(mods)
        under == Effective \cup lock
    IN  /\ LockModifiers(lock)
        /\ Press(k)
        /\ UseLatches
        /\ dropped' = (dropped \/ (Bounced(k) /\ ~delay.users))
        /\ synth' = [todo |-> todo, code |-> k, lock |-> lock, before |-> locked,
                     calm |-> maskState = Effective]
        /\ unread' = Append(IF base' = base THEN unread ELSE Confused,
                         [code |-> k, mods |-> under, meant |-> keysym, age |-> 0,
                          calm |-> CalmFor(k, mods, needed)])
        /\ UNCHANGED <<held, latchMask, relatch, clicked, lastRelease, asked, maskState,
                       session, reserved, ownSymbol>>

\* keycode_for_keysym finds a key for the symbol ...
PressMapped(keysym, todo) ==
    /\ Reach(keysym) # {}
    /\ UNCHANGED <<base, loans>>
    /\ LET e == KeyFor(keysym) IN PressKeysym(keysym, e.code, ModMask(e), e.mods, todo)

\* Mutant: the timer fires at once.
MutantPressLentBriefly(keysym, todo) ==
    /\ Reach(keysym) = {}
    /\ base' = keysym
    /\ loans' = Append(loans, ResetDelay)
    /\ PressKeysym(keysym, reserved, {}, {}, todo)

\* Mutant: a timer is started for the last symbol of a string only, which may be
\* one that needs no loan.
MutantPressLentForGood(keysym, todo) ==
    /\ Reach(keysym) = {}
    /\ base' = keysym
    /\ loans' = IF todo = <<>> THEN Append(loans, 0) ELSE loans
    /\ PressKeysym(keysym, reserved, {}, {}, todo)

\* ... or lends it the reserved one, whose first level takes no modifiers.
PressLent(keysym, todo) ==
    /\ Reach(keysym) = {}
    /\ base' = keysym
    /\ loans' = Append(loans, 0)
    /\ PressKeysym(keysym, reserved, {}, {}, todo)

SynthKeysym(keysym, todo) ==
    /\ Len(unread) < MaxUnread
    /\ PressMapped(keysym, todo) \/ PressLent(keysym, todo)

\* The second half: the key is released and what was locked is unlocked.  After
\* the last symbol the handler forgets the latches (spi_dec_clear_unlatch_pending).
ReleaseKeysym ==
    LET k == synth.code
    IN  /\ k # None
        /\ Release(k)
        /\ dropped' = (dropped \/ TooShort(k))
        /\ UnlockModifiers(synth.lock)
        /\ synth' = [Idle EXCEPT !.todo = synth.todo]
        /\ latchMask' = IF synth.todo = <<>> THEN {} ELSE latchMask
        /\ UNCHANGED <<mapVars, held, latched, notes, relatch, clicked, lastPress, asked,
                       maskState, unread>>

NextSymbol == BetweenSymbols /\ SynthKeysym(Head(synth.todo), Tail(synth.todo))

-----------------------------------------------------------------------------
(* The requests of clients.                                                *)

\* Bounds: the loans a request may add, and the notes on their way.
Room(symbols) == Len(loans) + symbols <= MaxLoans /\ Len(notes) < MaxNotes

\* KEY_SYM, and KEY_STRING: dec_synth_keystring converts all, then types.
GenerateKeysym(keysym) == MainLoop /\ Room(1) /\ SynthKeysym(keysym, <<>>)
GenerateString(string) ==
    LET keysyms == [i \in DOMAIN string |-> ucs2keysym(string[i])]
    IN  MainLoop /\ Room(Len(string)) /\ SynthKeysym(Head(keysyms), Tail(keysyms))

RawRequest ==
    /\ MainLoop
    /\ Len(notes) < MaxNotes
    /\ UNCHANGED <<mapVars, modVars, relatch, maskState, synth, unread, dropped>>

\* Mutant: KEY_PRESSRELEASE does not run into KEY_RELEASE.
MutantGeneratePressRelease(k) ==
    /\ RawRequest
    /\ Press(k)
    /\ UseLatches
    /\ asked' = asked \ {k}
    /\ latchMask' = {}
    /\ UNCHANGED <<clicked, lastRelease>>

\* KEY_PRESS, KEY_RELEASE and KEY_PRESSRELEASE, whose case runs into the next.
GeneratePress(k) ==
    /\ RawRequest
    /\ Press(k)
    /\ UseLatches
    /\ asked' = asked \cup {k}
    /\ latchMask' = {}
    /\ UNCHANGED <<clicked, lastRelease>>

GenerateRelease(k) ==
    /\ RawRequest
    /\ Release(k)
    /\ asked' = asked \ {k}
    /\ latchMask' = {}
    /\ UNCHANGED <<latched, notes, clicked, lastPress>>

GeneratePressRelease(k) ==
    /\ RawRequest
    /\ down' = down \ {k}
    /\ lastPress' = k
    /\ lastRelease' = k
    /\ delay' = [NoDelay EXCEPT !.bounce = k]
    /\ UseLatches
    /\ asked' = asked \ {k}
    /\ latchMask' = {}
    /\ UNCHANGED clicked

\* GenerateMouseEvent: the third character says press, release, click or double
\* click; the last two end with a release.
Presses(how) == how # "r"
EndsUp(how) == how # "p"
GenerateMouseEvent(b, how) ==
    /\ RawRequest
    /\ down' = IF EndsUp(how) THEN down \ {b} ELSE down \cup {b}
    /\ asked' = IF how = "p" THEN asked \cup {b} ELSE asked \ {b}
    /\ IF Presses(how) THEN UseLatches ELSE UNCHANGED <<latched, notes>>
    /\ clicked' = (clicked \/ Presses(how))
    /\ UNCHANGED <<lastPress, lastRelease, delay, latchMask>>

-----------------------------------------------------------------------------
(* The XKB latches.                                                        *)

\* A button press is seen, by the poll or as an event, and a listener consumes
\* it or not: the latches it used up are to be set again.
UnlatchPending(consumed) == IF consumed THEN relatch \cup latchMask ELSE relatch

SeeClick ==
    /\ MainLoop
    /\ clicked
    /\ clicked' = FALSE
    /\ \E consumed \in BOOLEAN : relatch' = UnlatchPending(consumed)
    /\ UNCHANGED <<mapVars, modVars, latched, notes, latchMask, keyVars, maskState, synth,
                   unread>>

\* Mutant: what the check of the pointer sees is left for the next notify.
MutantXkbStateNotify ==
    /\ MainLoop
    /\ notes # <<>>
    /\ \E consumed \in BOOLEAN :
        LET sees == clicked /\ relatch = {}
        IN  /\ clicked' = (clicked /\ ~sees)
            /\ IF relatch # {}
               THEN /\ latched' = latched \cup relatch
                    /\ notes' = Append(Tail(notes), latched \cup relatch)
                    /\ relatch' = {}
                    /\ UNCHANGED latchMask
               ELSE /\ latchMask' = Head(notes)
                    /\ notes' = Tail(notes)
                    /\ relatch' = IF sees THEN UnlatchPending(consumed) ELSE {}
                    /\ UNCHANGED latched
    /\ UNCHANGED <<mapVars, modVars, keyVars, maskState, synth, unread>>

\* The filter's XkbStateNotify: a check of the pointer first, unless latches are
\* pending already; then those are set again, or the state's latches noted.
XkbStateNotify ==
    /\ MainLoop
    /\ notes # <<>>
    /\ \E consumed \in BOOLEAN :
        LET sees == clicked /\ relatch = {}
            pending == IF sees THEN UnlatchPending(consumed) ELSE relatch
        IN  /\ clicked' = (clicked /\ ~sees)
            /\ relatch' = {}
            /\ IF pending # {}
               THEN /\ latched' = latched \cup pending
                    /\ notes' = Append(Tail(notes), latched \cup pending)
                    /\ UNCHANGED latchMask
               ELSE /\ latchMask' = Head(notes)
                    /\ notes' = Tail(notes)
                    /\ UNCHANGED latched
    /\ UNCHANGED <<mapVars, modVars, keyVars, maskState, synth, unread>>

\* spi_dec_poll_mouse_moved takes over the modifiers.
PollModifiers ==
    /\ MainLoop
    /\ maskState' = Effective
    /\ UNCHANGED <<mapVars, modVars, latchVars, keyVars, synth, unread>>

-----------------------------------------------------------------------------
(* The user, the application and time.                                     *)

UserUnchanged == UNCHANGED <<mapVars, latchMask, relatch, maskState, unread,
                             down, lastPress, lastRelease, asked, dropped>>

UserHolds(m) ==
    /\ UserUnchanged
    /\ held' = IF m \in held THEN held \ {m} ELSE held \cup {m}
    /\ UNCHANGED <<locked, latched, notes, clicked, delay, synth>>

UserLocks(m) ==
    /\ UserUnchanged
    /\ locked' = IF m \in locked THEN locked \ {m} ELSE locked \cup {m}
    /\ synth' = IF synth.code = None THEN synth ELSE [synth EXCEPT !.calm = FALSE]
    /\ UNCHANGED <<held, latched, notes, clicked, delay>>

UserLatches(m) ==
    /\ UserUnchanged
    /\ m \notin latched /\ Len(notes) < MaxNotes
    /\ latched' = latched \cup {m}
    /\ notes' = Append(notes, latched')
    /\ UNCHANGED <<modVars, clicked, delay, synth>>

UserTypes(k) ==
    /\ UserUnchanged
    /\ Len(notes) < MaxNotes
    /\ UseLatches
    /\ delay' = [slow |-> None, bounce |-> k, users |-> TRUE]
    /\ UNCHANGED <<modVars, clicked, synth>>

UserClicks ==
    /\ UserUnchanged
    /\ ~clicked /\ Len(notes) < MaxNotes
    /\ clicked' = TRUE
    /\ UseLatches
    /\ UNCHANGED <<modVars, delay, synth>>

\* Every other change of the modifiers is told as well.
ModifiersNotify ==
    /\ UserUnchanged
    /\ Len(notes) < MaxNotes
    /\ notes' = Append(notes, latched)
    /\ UNCHANGED <<modVars, latched, clicked, delay, synth>>

ApplicationReads ==
    /\ unread # <<>>
    /\ unread' = Tail(unread)
    /\ UNCHANGED <<mapVars, modVars, latchVars, keyVars, maskState, synth>>

Tick ==
    /\ \A i \in DOMAIN unread : unread[i].age < Patience
    /\ unread' = [i \in DOMAIN unread |-> [unread[i] EXCEPT !.age = @ + 1]]
    /\ loans' = [i \in DOMAIN loans |-> IF loans[i] < ResetDelay THEN loans[i] + 1 ELSE ResetDelay]
    /\ delay' = NoDelay
    /\ UNCHANGED <<session, reserved, ownSymbol, base, modVars, latchVars, down, lastPress,
                   lastRelease, asked, dropped, maskState, synth>>

-----------------------------------------------------------------------------
SynthInit ==
    /\ session \in Sessions
    /\ \E taken \in Taken : reserved = SearchReserved(taken)
    /\ ownSymbol = OwnSymbol(reserved)
    /\ base = FirstLevel(reserved)
    /\ loans = <<>> /\ unread = <<>> /\ notes = <<>>
    /\ held = {} /\ locked = {} /\ latched = {} /\ maskState = {}
    /\ latchMask = {} /\ relatch = {} /\ clicked = FALSE
    /\ down = {} /\ asked = {} /\ dropped = FALSE
    /\ lastPress = None /\ lastRelease = None
    /\ delay = NoDelay
    /\ synth = Idle

Requests ==
    \/ \E keysym \in session.symbols : GenerateKeysym(keysym)
    \/ \E string \in session.strings : GenerateString(string)
    \/ \E k \in session.raw : GeneratePress(k) \/ GenerateRelease(k) \/ GeneratePressRelease(k)
    \/ \E b \in session.buttons, how \in {"p", "r", "c", "d"} : GenerateMouseEvent(b, how)

User ==
    \/ \E m \in session.holds : UserHolds(m)
    \/ \E m \in session.locks : UserLocks(m)
    \/ \E m \in session.latches : UserLatches(m) \/ UserClicks \/ ModifiersNotify
    \/ \E k \in session.types : UserTypes(k)

SynthNext ==
    \/ Requests \/ NextSymbol \/ ReleaseKeysym
    \/ ResetReserved \/ SeeClick \/ XkbStateNotify \/ PollModifiers
    \/ User \/ ApplicationReads \/ Tick

\* The main loop serves its timers and the X connection as well as requests; the
\* application reads its keys and time passes.
Fairness ==
    /\ WF_synthVars(NextSymbol) /\ WF_synthVars(ReleaseKeysym)
    /\ SF_synthVars(ResetReserved) /\ SF_synthVars(XkbStateNotify)
    /\ WF_synthVars(ApplicationReads) /\ WF_synthVars(Tick)

SynthSpec == SynthInit /\ [][SynthNext]_synthVars /\ Fairness

-----------------------------------------------------------------------------
SynthTypeOK ==
    /\ reserved \in Codes
    /\ {ownSymbol, base} \subseteq Nat
    /\ loans \in Seq(0..ResetDelay) /\ Len(loans) <= MaxLoans
    /\ held \cup locked \cup latched \cup maskState \cup latchMask \cup relatch \subseteq Mods
    /\ down \cup asked \subseteq Codes \cup Buttons
    /\ notes \in Seq(SUBSET Mods)
    /\ clicked \in BOOLEAN /\ dropped \in BOOLEAN
    /\ {lastPress, lastRelease, delay.slow, delay.bounce, synth.code} \subseteq Codes \cup {None}
    /\ synth.lock \cup synth.before \subseteq Mods
    /\ \A i \in DOMAIN unread : unread[i].code \in Codes /\ unread[i].age \in 0..Patience

\* What the application reads is the symbol that was asked for, if conditions were calm
\* when its key was pressed and the reserved key was not lent again before it was read:
\* what is locked makes up for what is missing, latches and the user's doings in between
\* change nothing, and no timer, its own loan's or an earlier one's, comes too soon.
TypedAsMeant ==
    [][unread # <<>> /\ unread' = Tail(unread) /\ Head(unread).calm =>
         Reads(Head(unread).code, Head(unread).mods) = {Head(unread).meant}]_synthVars

\* After a symbol the locked modifiers are those there were before it, if the
\* modifiers were known and the user left them alone meanwhile.
LocksRestored ==
    [][synth.code # None /\ synth'.code = None /\ synth.calm => locked' = synth.before]_synthVars

\* Keystrokes are whole: between requests no key or button is down that a client
\* has not pressed for itself, so no symbol, string, click or keystroke leaves one
\* stuck; and no symbol is lost to the slow or bounce keys, unless the bounce keys
\* wait for a key of the user's own.
KeystrokesWhole == (MainLoop => down \subseteq asked) /\ ~dropped

\* The values the variables take, and whole keystrokes.
SynthConsistent == SynthTypeOK /\ KeystrokesWhole

\* A lent key is given back, however many loans there are, when the search has
\* found a spare one.
GivenBack == (reserved # NumberSign /\ base # ownSymbol) ~> (base = ownSymbol)

\* Latches used up by a click that was consumed are set again.
RelatchHappens == \A m \in Mods : (m \in relatch) ~> (m \in latched)
=============================================================================
