------------------------------ MODULE KeyEvents -------------------------------
(***************************************************************************)
(* From the keyboard to the focused application, past the keystroke        *)
(* listeners of registryd (registryd/deviceeventcontroller.c).             *)
(*                                                                         *)
(* A press of a grabbed key freezes the keyboard in the X server.          *)
(* registryd reads the event, asks the matching listeners one after        *)
(* another, the longest registered first, whether they consume it, and     *)
(* then lets the server go on: consumed, the grab stays until the key is   *)
(* up; not consumed, the event is replayed to the application, and as      *)
(* registryd will not see the release, a timer watches for it.             *)
(*                                                                         *)
(* XAllowEvents acts on whatever event has frozen the keyboard when it     *)
(* arrives at the server, which may be another one than registryd has just *)
(* handled: the server and the user go on while listeners are asked.       *)
(***************************************************************************)
EXTENDS Lists

CONSTANTS
    KeyListeners, \* device listeners: a client's bus name and an object path
    Profile,      \* Profile[l]: whose it is and what it was registered with
    Keys,         \* keycodes; the modifiers are the same all the time
    MaxPresses,   \* bound: key presses
    MaxSyncs      \* bound: calls of NotifyListenersSync or Async

EventTypes == {"press", "release"}

ASSUME KeyEventsAssumption ==
    /\ Keys \subseteq Nat \ {0}
    /\ \A l \in KeyListeners :
          /\ {"owner", "keys", "types", "global", "preemptive"} = DOMAIN Profile[l]
          /\ Profile[l].keys \subseteq Keys
          /\ Profile[l].types \subseteq EventTypes
          /\ {Profile[l].global, Profile[l].preemptive} \subseteq BOOLEAN
    /\ MaxPresses \in Nat /\ MaxSyncs \in Nat

VARIABLES
    \* The X server and the user.
    down,         \* keys that are down
    grab,         \* {k} while the passive grab of key k is active
    frozen,       \* the number of the press that froze the keyboard; 0: none
    unread,       \* events sent to registryd that it has not read
    presses,      \* how many key presses there were
    raced,        \* history: did a key event overtake the handling of another?
    \* registryd.
    keyListeners, \* controller->key_listeners, the newest first
    connected,    \* the clients on the bus
    dispatching,  \* event_dispatch is in its loop
    task,         \* the spi_controller_notify_keylisteners at work
    pressed,      \* pressed_event
    timers,       \* check_release timers alive
    syncs,        \* how many NotifyListeners calls there were
    \* What became of the presses, by number.
    consumed, relayed, swallowed

serverVars == <<down, grab, frozen, unread, presses, raced>>
listenerVars == <<keyListeners, connected>>
taskVars == <<dispatching, task>>
releaseVars == <<pressed, timers>>
fateVars == <<consumed, relayed, swallowed>>
vars == <<serverVars, listenerVars, taskVars, releaseVars, syncs, fateVars>>

NoTask == [at |-> "none"]
Events == [key: Keys, type: EventTypes, number: Nat]
Tasks == [at: {"x", "release", "sync", "allow"}, event: Events,
          left: Seq(KeyListeners), consumed: BOOLEAN, pending: BOOLEAN]

OwnerOf(l) == Profile[l].owner
Clients == {OwnerOf(l) : l \in KeyListeners}
Registered == {keyListeners[i] : i \in DOMAIN keyListeners}

\* The keys grabbed in the X server, see KeyGrabs.
Grabbed == UNION {Profile[l].keys : l \in {m \in Registered : Profile[m].global}}

(***************************************************************************)
(* External: the X server.  While the keyboard is frozen, what the user    *)
(* does waits in the server, as if it were done later.  The focused        *)
(* application gets what registryd does not.                               *)
(***************************************************************************)
Handling == unread # <<>> \/ task.at \in {"x", "allow"}

Send(event) ==
    /\ unread' = Append(unread, event)
    /\ raced' = (raced \/ Handling \/ (grab # {} /\ event.type = "press"))

Press(k) ==
    /\ frozen = 0 /\ k \notin down
    /\ presses < MaxPresses
    /\ presses' = presses + 1
    /\ down' = down \cup {k}
    /\ IF grab # {} \/ k \in Grabbed
       THEN /\ Send([key |-> k, type |-> "press", number |-> presses'])
            /\ UNCHANGED relayed
       ELSE /\ relayed' = relayed \cup {presses'}
            /\ UNCHANGED <<unread, raced>>
    /\ IF grab = {} /\ k \in Grabbed
       THEN grab' = {k} /\ frozen' = presses'
       ELSE UNCHANGED <<grab, frozen>>
    /\ UNCHANGED <<listenerVars, taskVars, releaseVars, syncs, consumed, swallowed>>

Release(k) ==
    /\ frozen = 0 /\ k \in down
    /\ down' = down \ {k}
    /\ IF grab # {}
       THEN Send([key |-> k, type |-> "release", number |-> 0])
       ELSE UNCHANGED <<unread, raced>>
    /\ grab' = grab \ {k}
    /\ UNCHANGED <<frozen, presses, listenerVars, taskVars, releaseVars, syncs,
                   fateVars>>

\* XAllowEvents (ReplayKeyboard).
ReplayKeyboard ==
    IF frozen # 0
    THEN /\ relayed' = relayed \cup {frozen}
         /\ frozen' = 0
         /\ grab' = {}
    ELSE UNCHANGED <<relayed, frozen, grab>>

(***************************************************************************)
(* spi_controller_notify_keylisteners: clones of the listeners that match, *)
(* the longest registered first.                                           *)
(***************************************************************************)
Matches(l, event, global) ==
    /\ event.key \in Profile[l].keys
    /\ event.type \in Profile[l].types
    /\ Profile[l].global = global

Matching(event, global) ==
    LET count == Len(keyListeners)
        oldest == [i \in 1..count |-> keyListeners[count + 1 - i]]
    IN  Only(oldest, {l \in KeyListeners : Matches(l, event, global)})

Notify(at, event, global) ==
    task' = [at |-> at, event |-> event, left |-> Matching(event, global),
             consumed |-> FALSE, pending |-> FALSE]

\* Mutant: D-Bus calls are handled while a listener is asked.
MutantMainLoop == ~dispatching /\ IF task = NoTask THEN TRUE ELSE task.left # <<>>

\* The main loop runs the next callback.
MainLoop == task = NoTask /\ ~dispatching

Consumes(l, yes) == yes /\ Profile[l].preemptive

\* A listener was called and answers; a timeout or a client that has left says
\* no.
ListenerAnswers ==
    /\ task # NoTask /\ task.at # "allow"
    /\ task.left # <<>> /\ ~task.consumed
    /\ LET l == Head(task.left)
       IN  \E yes \in IF OwnerOf(l) \in connected THEN BOOLEAN ELSE {FALSE} :
              task' = [task EXCEPT !.left = Tail(@), !.consumed = Consumes(l, yes)]
    /\ UNCHANGED <<serverVars, listenerVars, dispatching, releaseVars, syncs,
                   fateVars>>

Asked == task.left = <<>> \/ task.consumed

(***************************************************************************)
(* event_dispatch and global_filter_fn.                                    *)
(***************************************************************************)
ReadEvent ==
    /\ task = NoTask
    /\ unread # <<>>
    /\ dispatching' = TRUE
    /\ unread' = Tail(unread)
    /\ Notify("x", Head(unread), TRUE)
    /\ UNCHANGED <<down, grab, frozen, presses, raced, listenerVars, releaseVars,
                   syncs, fateVars>>

EndDispatch ==
    /\ dispatching /\ task = NoTask
    /\ unread = <<>>
    /\ dispatching' = FALSE
    /\ UNCHANGED <<serverVars, listenerVars, task, releaseVars, syncs, fateVars>>

\* The presses among them.
NumbersIn(events) == {events[i].number : i \in DOMAIN events} \ {0}

\* Consumed: whatever else the server has sent meanwhile is thrown away.
SwallowPending ==
    /\ task.at = "x" /\ task.consumed
    /\ swallowed' = swallowed \cup NumbersIn(unread)
    /\ unread' = <<>>
    /\ consumed' = consumed \cup NumbersIn(<<task.event>>)
    /\ task' = [task EXCEPT !.at = "allow", !.pending = unread # <<>>]
    /\ UNCHANGED <<down, grab, frozen, presses, raced, listenerVars, dispatching,
                   releaseVars, syncs, relayed>>

\* Mutants: the keyboard is let go only if something was thrown away; the event
\* is replayed.
MutantAllowConsumed ==
    /\ task.at = "allow"
    /\ IF task.pending THEN frozen' = 0 /\ grab' = {} ELSE UNCHANGED <<frozen, grab>>
    /\ task' = NoTask
    /\ UNCHANGED <<down, unread, presses, raced, listenerVars, dispatching,
                   releaseVars, syncs, fateVars>>

MutantAllowReplays ==
    /\ task.at = "allow"
    /\ ReplayKeyboard
    /\ task' = NoTask
    /\ UNCHANGED <<down, unread, presses, raced, listenerVars, dispatching,
                   releaseVars, syncs, consumed, swallowed>>

\* XAllowEvents (AsyncKeyboard), and XUngrabKeyboard if something was thrown away.
AllowConsumed ==
    /\ task.at = "allow"
    /\ frozen' = 0
    /\ grab' = IF task.pending THEN {} ELSE grab
    /\ task' = NoTask
    /\ UNCHANGED <<down, unread, presses, raced, listenerVars, dispatching,
                   releaseVars, syncs, fateVars>>

\* Not consumed: wait_for_release_event for a press, then the replay.
AllowUnconsumed ==
    /\ task.at = "x" /\ Asked /\ ~task.consumed
    /\ IF task.event.type = "press"
       THEN pressed' = task.event /\ timers' = timers + 1
       ELSE UNCHANGED releaseVars
    /\ ReplayKeyboard
    /\ task' = NoTask
    /\ UNCHANGED <<down, unread, presses, raced, listenerVars, dispatching, syncs,
                   consumed, swallowed>>

\* Mutant: the timer goes on after the release.
MutantCheckRelease ==
    /\ MainLoop
    /\ timers > 0 /\ pressed.key \notin down
    /\ pressed' = [pressed EXCEPT !.type = "release"]
    /\ Notify("release", pressed', TRUE)
    /\ UNCHANGED <<serverVars, listenerVars, dispatching, timers, syncs, fateVars>>

\* A check_release timer finds its key up.  Whichever press it was started for,
\* it looks at the latest.
CheckRelease ==
    /\ MainLoop
    /\ timers > 0 /\ pressed.key \notin down
    /\ timers' = timers - 1
    /\ pressed' = [pressed EXCEPT !.type = "release"]
    /\ Notify("release", pressed', TRUE)
    /\ UNCHANGED <<serverVars, listenerVars, dispatching, syncs, fateVars>>

NotifyEnds ==
    /\ task.at \in {"release", "sync"} /\ Asked
    /\ task' = NoTask
    /\ UNCHANGED <<serverVars, listenerVars, dispatching, releaseVars, syncs, fateVars>>

(***************************************************************************)
(* Clients.  Their calls are handled by an idle callback, and their        *)
(* departure wherever the bus is dispatched, see Registryd.                *)
(***************************************************************************)
NotifyListeners(event) ==
    /\ MainLoop
    /\ syncs < MaxSyncs
    /\ syncs' = syncs + 1
    /\ Notify("sync", event, FALSE)
    /\ UNCHANGED <<serverVars, listenerVars, dispatching, releaseVars, fateVars>>

RegisterKeystrokeListener(l) ==
    /\ MainLoop
    /\ OwnerOf(l) \in connected /\ l \notin Registered
    /\ keyListeners' = <<l>> \o keyListeners
    /\ UNCHANGED <<serverVars, connected, taskVars, releaseVars, syncs, fateVars>>

Remaining(gone) == Only(keyListeners, KeyListeners \ gone)

DeregisterKeystrokeListener(l) ==
    /\ MainLoop
    /\ OwnerOf(l) \in connected /\ l \in Registered
    /\ keyListeners' = Remaining({l})
    /\ UNCHANGED <<serverVars, connected, taskVars, releaseVars, syncs, fateVars>>

ClientLeaves(c) ==
    /\ MainLoop \/ (task # NoTask /\ task.at # "allow" /\ ~Asked)
    /\ c \in connected
    /\ connected' = connected \ {c}
    /\ keyListeners' = Remaining({l \in KeyListeners : OwnerOf(l) = c})
    /\ UNCHANGED <<serverVars, taskVars, releaseVars, syncs, fateVars>>

-----------------------------------------------------------------------------

\* A static variable, all zero.
NoPress == [key |-> 0, type |-> "press", number |-> 0]

Init ==
    /\ down = {}
    /\ grab = {}
    /\ frozen = 0
    /\ unread = <<>>
    /\ presses = 0
    /\ raced = FALSE
    /\ keyListeners = <<>>
    /\ connected = Clients
    /\ dispatching = FALSE
    /\ task = NoTask
    /\ pressed = NoPress
    /\ timers = 0
    /\ syncs = 0
    /\ consumed = {} /\ relayed = {} /\ swallowed = {}

Keyboard == \E k \in Keys : Press(k) \/ Release(k)

Handles ==
    \/ ReadEvent
    \/ ListenerAnswers
    \/ SwallowPending
    \/ AllowConsumed
    \/ AllowUnconsumed
    \/ NotifyEnds
    \/ EndDispatch

Requests ==
    \/ \E l \in KeyListeners :
          RegisterKeystrokeListener(l) \/ DeregisterKeystrokeListener(l)
    \/ \E c \in Clients : ClientLeaves(c)
    \/ \E k \in Keys, type \in EventTypes :
          NotifyListeners([key |-> k, type |-> type, number |-> 0])

Next == Keyboard \/ Handles \/ CheckRelease \/ Requests

\* registryd reads what the server sends and asks on, since a call of a listener
\* ends with its answer or with the D-Bus timeout; the timer runs when the main
\* loop does.  The user and the clients need do nothing.
Fairness == WF_vars(Handles) /\ SF_vars(CheckRelease)

Spec == Init /\ [][Next]_vars
FairSpec == Spec /\ Fairness

-----------------------------------------------------------------------------

Numbers == 1..MaxPresses

TypeOK ==
    /\ down \subseteq Keys
    /\ grab \subseteq Keys /\ Cardinality(grab) <= 1
    /\ frozen \in 0..MaxPresses
    /\ unread \in Seq(Events)
    /\ presses \in 0..MaxPresses
    /\ raced \in BOOLEAN
    /\ keyListeners \in Seq(KeyListeners)
    /\ connected \subseteq Clients
    /\ dispatching \in BOOLEAN
    /\ task \in Tasks \cup {NoTask}
    /\ pressed \in Events \cup {NoPress}
    /\ timers \in Nat
    /\ syncs \in 0..MaxSyncs
    /\ consumed \subseteq Numbers
    /\ relayed \subseteq Numbers
    /\ swallowed \subseteq Numbers

\* A keyboard that is frozen has its press on the way to the XAllowEvents that
\* lets it go, however presses, replays and thrown-away events have crossed.
FrozenAccounted ==
    frozen # 0 => frozen \in NumbersIn(unread) \/ task.at \in {"x", "allow"}

\* Whatever listeners answer or fail to, the keyboard does not stay frozen.
KeyboardThaws == frozen # 0 ~> frozen = 0

\* While no key event came before the one before it was handled, every press is
\* either consumed by a listener or relayed to the application, and never both.
PressesOnce ==
    ~raced => /\ consumed \cap relayed = {}
              /\ ~Handling => consumed \cup relayed = 1..presses

\* A listener is called only while it is registered or its client has left: once
\* a client has had the answer to its deregistration it is called no more.
CalledStillListen ==
    task # NoTask =>
        \A i \in DOMAIN task.left :
            task.left[i] \in Registered \/ OwnerOf(task.left[i]) \notin connected

\* The values the variables take, who is called, and what freezes the keyboard.
Consistent == TypeOK /\ CalledStillListen /\ FrozenAccounted

\* The release of the latest press that was relayed is told to the listeners, and
\* the timers of earlier presses end with it.
ReleaseTold ==
    (timers > 0 /\ pressed.key \notin down)
        ~> (pressed.key \in down \/ (timers = 0 /\ pressed.type = "release"))
=============================================================================
