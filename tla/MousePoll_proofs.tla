--------------------------- MODULE MousePoll_proofs ---------------------------
(***************************************************************************)
(* The pointer poller for any number of listeners, buttons and timers: a   *)
(* registered listener is never without a timer, the flags that start and  *)
(* stop the timers agree with the list, and no check outlives its timer.   *)
(* PollerAlive and FlagMatchesList each need the other and the types; that *)
(* a timer's check leaves the number of timers unchanged needs             *)
(* TickHasTimer.  The four together are inductive.                         *)
(***************************************************************************)
EXTENDS MousePoll, TLAPS

IInv ==
    /\ TypeOK
    /\ FlagMatchesList
    /\ PollerAlive
    /\ TickHasTimer

\* The check in progress, the pointer last seen and what clients were told.
PointerTypes ==
    /\ lastMousePos \in Positions
    /\ mouseMaskState \in SUBSET Bits
    /\ check \in Checks
    /\ told \in Pointer

-----------------------------------------------------------------------------

\* The state the daemon starts in: nobody listens, no timer runs.
LEMMA InitIInv == Init => IInv
<1> SUFFICES ASSUME Init
             PROVE  IInv
  OBVIOUS
<1>1. AtHome \in Pointer
  BY MousePollAssumption DEF AtHome, Pointer
<1>2. TypeOK
  BY <1>1, MousePollAssumption DEF Init, TypeOK, Checks, NoCheck
<1> QED
  BY <1>2 DEF Init, IInv, FlagMatchesList, PollerAlive, TickHasTimer,
              Listening, NoCheck

\* Flipping one button in a mask leaves a mask.
LEMMA FlipType ==
    ASSUME NEW mask \in SUBSET Bits, NEW b \in Buttons
    PROVE  Flip(mask, b) \in SUBSET Bits
BY DEF Flip, Bits

\* A new device listener, a device listener withdrawn, a client gone, and the
\* two calls of the registry: the requests, none of which touches the check.
LEMMA RequestsKeepIInv == IInv /\ Requests => IInv'
<1> SUFFICES ASSUME IInv, Requests
             PROVE  IInv'
  OBVIOUS
<1> USE DEF IInv, TypeOK, FlagMatchesList, PollerAlive, TickHasTimer,
            Listening, Timers, TimersOf, pollVars, pointerVars
<1>1. ASSUME NEW l \in Listeners, RegisterMouseListener(l)
      PROVE  IInv'
  <2>1. /\ haveMouseListener' = TRUE
        /\ haveMouseEventListener' = haveMouseEventListener
        /\ mouseListeners' # {} /\ mouseListeners' \subseteq Listeners
    BY <1>1, Zenon DEF RegisterMouseListener
  <2>2. /\ idleTimers' \in Nat /\ idleTimers' >= idleTimers
        /\ movingTimers' = movingTimers
        /\ idleTimers' + movingTimers' > 0
    <3>1. CASE Listening
      BY <1>1, <3>1 DEF RegisterMouseListener, StartTimerUnless
    <3>2. CASE ~Listening
      BY <1>1, <3>2 DEF RegisterMouseListener, StartTimerUnless
    <3> QED
      BY <3>1, <3>2
  <2>3. check' = check /\ pointer' = pointer /\ PointerTypes'
    BY <1>1 DEF RegisterMouseListener, PointerTypes
  <2>4. TypeOK'
    BY <2>1, <2>2, <2>3 DEF PointerTypes
  <2>5. FlagMatchesList'
    BY <2>1, Zenon
  <2>6. PollerAlive'
    BY <2>2
  <2>7. TickHasTimer'
    BY <2>2, <2>3
  <2> QED
    BY <2>4, <2>5, <2>6, <2>7 DEF IInv
<1>2. ASSUME NEW l \in Listeners, DeregisterMouseListener(l)
      PROVE  IInv'
  BY <1>2 DEF DeregisterMouseListener, DropListeners
<1>3. ASSUME NEW c \in Clients, ClientLeaves(c)
      PROVE  IInv'
  BY <1>3 DEF ClientLeaves, RemoveMouseListenersOf, DropListeners
<1>4. ASSUME RegisterMouseEvent
      PROVE  IInv'
  <2>1. /\ haveMouseListener' = haveMouseListener
        /\ haveMouseEventListener' = TRUE
        /\ mouseListeners' = mouseListeners
    BY <1>4, Zenon DEF RegisterMouseEvent, StartPollMouse
  <2>2. /\ idleTimers' \in Nat /\ idleTimers' >= idleTimers
        /\ movingTimers' = movingTimers
        /\ idleTimers' + movingTimers' > 0
    <3>1. CASE Listening
      BY <1>4, <3>1 DEF RegisterMouseEvent, StartPollMouse, StartTimerUnless
    <3>2. CASE ~Listening
      BY <1>4, <3>2 DEF RegisterMouseEvent, StartPollMouse, StartTimerUnless
    <3> QED
      BY <3>1, <3>2
  <2>3. check' = check /\ pointer' = pointer /\ PointerTypes'
    BY <1>4 DEF RegisterMouseEvent, PointerTypes
  <2>4. TypeOK'
    BY <2>1, <2>2, <2>3 DEF PointerTypes
  <2>5. FlagMatchesList'
    BY <2>1, Zenon
  <2>6. PollerAlive'
    BY <2>2
  <2>7. TickHasTimer'
    BY <2>2, <2>3
  <2> QED
    BY <2>4, <2>5, <2>6, <2>7 DEF IInv
<1>5. ASSUME DeregisterMouseEvent
      PROVE  IInv'
  BY <1>5 DEF DeregisterMouseEvent, StopPollMouse
<1> QED
  BY <1>1, <1>2, <1>3, <1>4, <1>5 DEF Requests

\* A timer fires, or the XKB state changes: a check begins or a timer dies.
LEMMA TimersKeepIInv ==
    ASSUME IInv,
           XkbStateNotify \/ \E kind \in {"idle", "moving"} : TimerFires(kind)
    PROVE  IInv'
<1> USE DEF IInv, TypeOK, FlagMatchesList, PollerAlive, TickHasTimer,
            Listening, Timers, TimersOf, pollVars
<1>1. ASSUME NEW kind \in {"idle", "moving", "xkb"}
      PROVE  [kind |-> kind, at |-> pointer, waiting |-> FALSE] \in Checks
  BY DEF Checks
<1>2. ASSUME XkbStateNotify
      PROVE  IInv'
  BY <1>1, <1>2 DEF XkbStateNotify, BeginCheck
<1>3. ASSUME NEW kind \in {"idle", "moving"}, TimerTicks(kind)
      PROVE  IInv'
  BY <1>1, <1>3 DEF TimerTicks, BeginCheck
<1>4. ASSUME NEW kind \in {"idle", "moving"}, TimerDies(kind)
      PROVE  IInv'
  BY <1>4 DEF TimerDies, MainLoop, pointerVars
<1> QED
  BY <1>2, <1>3, <1>4 DEF TimerFires

\* The turns of a check: a button reported, a listener's answer, the end.
LEMMA CheckKeepsIInv == IInv /\ CheckProceeds => IInv'
<1> SUFFICES ASSUME IInv, CheckProceeds
             PROVE  IInv'
  OBVIOUS
<1> USE DEF IInv, FlagMatchesList, PollerAlive, TickHasTimer,
            Listening, Timers, TimersOf, pollVars
<1>1. ASSUME ReportButton
      PROVE  IInv'
  <2>1. mouseMaskState' \in SUBSET Bits /\ told' \in Pointer
    BY <1>1, FlipType DEF ReportButton, ChangedButtons, TypeOK, Pointer
  <2>2. check' \in Checks /\ check'.kind = check.kind
    BY <1>1 DEF ReportButton, TypeOK, Checks
  <2> QED
    BY <1>1, <2>1, <2>2 DEF ReportButton, TypeOK
<1>2. ASSUME ListenerAnswers
      PROVE  IInv'
  <2>1. check' \in Checks /\ check'.kind = check.kind
    BY <1>2 DEF ListenerAnswers, TypeOK, Checks
  <2> QED
    BY <1>2, <2>1 DEF ListenerAnswers, TypeOK
<1>3. ASSUME EndCheck
      PROVE  IInv'
  <2>1. PointerTypes'
    <3>1. check.at \in Pointer /\ NoCheck \in Checks
      BY MousePollAssumption DEF TypeOK, Checks, NoCheck, AtHome, Pointer
    <3>2. mouseMaskState' \in SUBSET Bits /\ told' \in Pointer
      BY <1>3, <3>1 DEF EndCheck, TypeOK, Pointer, ButtonsOf, ModifiersOf, Bits
    <3> QED
      BY <1>3, <3>1, <3>2 DEF EndCheck, PointerTypes, Pointer
  <2>2. /\ idleTimers' \in Nat
        /\ movingTimers' \in Nat
        /\ idleTimers' + movingTimers' = idleTimers + movingTimers
    <3>1. CASE check.kind = "idle" /\ Moved
      BY <1>3, <3>1 DEF EndCheck, Rearm, TypeOK
    <3>2. CASE check.kind = "moving" /\ ~Moved
      BY <1>3, <3>2 DEF EndCheck, Rearm, TypeOK
    <3>3. CASE ~(check.kind = "idle" /\ Moved) /\ ~(check.kind = "moving" /\ ~Moved)
      BY <1>3, <3>3 DEF EndCheck, Rearm, TypeOK
    <3> QED
      BY <3>1, <3>2, <3>3
  <2> QED
    BY <1>3, <2>1, <2>2 DEF EndCheck, PointerTypes, TypeOK, NoCheck
<1> QED
  BY <1>1, <1>2, <1>3 DEF CheckProceeds

\* Every step keeps the invariant.
LEMMA StepKeepsIInv == IInv /\ [Next]_vars => IInv'
<1> SUFFICES ASSUME IInv, [Next]_vars
             PROVE  IInv'
  OBVIOUS
<1>1. CASE PointerChanges
  <2>1. pointer' \in Pointer
    <3>1. ASSUME NEW p \in Positions, pointer' = [pointer EXCEPT !.pos = p]
          PROVE  pointer' \in Pointer
      BY <3>1 DEF IInv, TypeOK, Pointer
    <3>2. ASSUME NEW b \in Bits, pointer' = [pointer EXCEPT !.mask = Flip(@, b)]
          PROVE  pointer' \in Pointer
      BY <3>2 DEF IInv, TypeOK, Pointer, Flip
    <3> QED
      BY <1>1, <3>1, <3>2 DEF PointerChanges
  <2> QED
    BY <1>1, <2>1 DEF PointerChanges, IInv, TypeOK, FlagMatchesList, PollerAlive,
                TickHasTimer, Listening, Timers, TimersOf, pollVars, pointerVars
<1>2. CASE UNCHANGED vars
  BY <1>2 DEF vars, IInv, TypeOK, FlagMatchesList, PollerAlive,
              TickHasTimer, Listening, Timers, TimersOf, pollVars, pointerVars
<1> QED
  BY <1>1, <1>2, RequestsKeepIInv, TimersKeepIInv, CheckKeepsIInv DEF Next

\* The inductive invariant holds in every reachable state.
THEOREM InductiveInvariant == Spec => []IInv
<1> QED
  BY InitIInv, StepKeepsIInv, PTL DEF Spec

\* The poller's variables keep their types; in particular neither timer count
\* falls below zero.
THEOREM TypeCorrect == Spec => []TypeOK
<1>1. IInv => TypeOK
  BY DEF IInv
<1> QED
  BY <1>1, InductiveInvariant, PTL

\* have_mouse_listener says whether mouse_listeners is empty, for any sequence
\* of registrations and departures, those in the middle of a check included.
THEOREM FlagCorrect == Spec => []FlagMatchesList
<1>1. IInv => FlagMatchesList
  BY DEF IInv
<1> QED
  BY <1>1, InductiveInvariant, PTL

\* Whoever listens for the mouse is polled for: at least one timer is alive
\* whenever either flag is up.
THEOREM PollerNeverLost == Spec => []PollerAlive
<1>1. IInv => PollerAlive
  BY DEF IInv
<1> QED
  BY <1>1, InductiveInvariant, PTL

\* A timer's check ends with that timer still counted: no other step of the
\* daemon, and none that a client causes meanwhile, takes it away.
THEOREM CheckKeepsItsTimer == Spec => []TickHasTimer
<1>1. IInv => TickHasTimer
  BY DEF IInv
<1> QED
  BY <1>1, InductiveInvariant, PTL

\* Types, flag, timers and the poller agree at any time, for any number of clients,
\* buttons and modifiers.
THEOREM AlwaysConsistent == Spec => []Consistent
<1>1. IInv => Consistent
  BY DEF IInv, Consistent
<1> QED
  BY <1>1, InductiveInvariant, PTL

-----------------------------------------------------------------------------

\* mouse_mask_state is the mask clients were told of: it is never taken over
\* without an event for each bit in it that changed.
ToldMask == told.mask = mouseMaskState

MInv == IInv /\ ToldMask

\* A check that ends has told clients of every button and, on a timer, of every
\* modifier that XQueryPointer answered.
LEMMA EndTellsAll ==
    ASSUME MInv, EndCheck
    PROVE  /\ told'.pos = check.at.pos
           /\ ButtonsOf(told'.mask) = ButtonsOf(check.at.mask)
           /\ check.kind # "xkb" => told'.mask = check.at.mask
           /\ ToldMask'
<1>1. /\ told = [pos |-> told.pos, mask |-> mouseMaskState]
      /\ mouseMaskState \subseteq Bits
      /\ check.at.mask \subseteq Bits
  BY DEF MInv, IInv, TypeOK, ToldMask, Checks, Pointer
<1>2. ButtonsOf(mouseMaskState) = ButtonsOf(check.at.mask)
  BY DEF EndCheck, ChangedButtons, ButtonsOf
<1>3. CASE ReportsModifiers
  <2>1. /\ told'.pos = check.at.pos
        /\ told'.mask = ButtonsOf(told.mask) \cup ModifiersOf(check.at.mask)
        /\ mouseMaskState' = check.at.mask
    BY <1>3 DEF EndCheck
  <2>2. told'.mask = check.at.mask
    BY <2>1, <1>1, <1>2 DEF ToldMask, MInv, ButtonsOf, ModifiersOf, Bits
  <2> QED
    BY <2>1, <2>2 DEF ToldMask
<1>4. CASE ~ReportsModifiers
  <2>1. /\ told'.pos = check.at.pos
        /\ told'.mask = mouseMaskState
        /\ mouseMaskState' = mouseMaskState
    BY <1>1, <1>4 DEF EndCheck
  <2>2. check.kind # "xkb" => mouseMaskState = check.at.mask
    BY <1>1, <1>2, <1>4 DEF ReportsModifiers, ButtonsOf, ModifiersOf, Bits
  <2> QED
    BY <2>1, <2>2, <1>2 DEF ToldMask
<1> QED
  BY <1>3, <1>4

\* A button recorded in mouse_mask_state is a button told.
LEMMA ReportKeepsToldMask == MInv /\ ReportButton => ToldMask'
<1> SUFFICES ASSUME MInv, ReportButton
             PROVE  ToldMask'
  OBVIOUS
<1>1. told = [pos |-> told.pos, mask |-> told.mask]
  BY DEF MInv, IInv, TypeOK, Pointer
<1> QED
  BY <1>1 DEF ReportButton, MInv, ToldMask

\* Clients never miss a button or modifier that a check has seen change.
THEOREM EveryChangeTold == Spec => CheckTellsAll
<1>1. Init => ToldMask
  BY DEF Init, ToldMask, AtHome
<1>2. MInv /\ [Next]_vars => ToldMask'
  <2> SUFFICES ASSUME MInv, [Next]_vars
               PROVE  ToldMask'
    OBVIOUS
  <2>1. CASE UNCHANGED <<told, mouseMaskState>>
    BY <2>1 DEF MInv, ToldMask
  <2>2. CASE ReportButton
    BY <2>2, ReportKeepsToldMask
  <2>3. CASE EndCheck
    BY <2>3, EndTellsAll
  <2>4. Requests => UNCHANGED <<told, mouseMaskState>>
    BY DEF Requests, RegisterMouseListener, DeregisterMouseListener,
           ClientLeaves, RegisterMouseEvent, DeregisterMouseEvent, pointerVars
  <2>5. ASSUME NEW kind, TimerFires(kind)
        PROVE  UNCHANGED <<told, mouseMaskState>>
    BY <2>5 DEF TimerFires, TimerTicks, TimerDies, BeginCheck, pointerVars
  <2>6. XkbStateNotify \/ ListenerAnswers \/ PointerChanges \/ UNCHANGED vars
            => UNCHANGED <<told, mouseMaskState>>
    BY DEF XkbStateNotify, BeginCheck, ListenerAnswers, PointerChanges, vars,
           pointerVars
  <2> QED
    BY <2>1, <2>2, <2>3, <2>4, <2>5, <2>6 DEF Next, CheckProceeds
<1>3. ASSUME MInv, Next, check.kind # "none", check'.kind = "none"
      PROVE  EndCheck
  <2>1. ~Requests /\ ~PointerChanges
    BY <1>3 DEF Requests, RegisterMouseListener, DeregisterMouseListener,
                ClientLeaves, RegisterMouseEvent, DeregisterMouseEvent,
                PointerChanges, pointerVars
  <2>2. ~XkbStateNotify /\ \A kind : ~TimerFires(kind)
    BY <1>3 DEF XkbStateNotify, TimerFires, TimerTicks, TimerDies, MainLoop
  <2>3. ~ReportButton /\ ~ListenerAnswers
    BY <1>3 DEF ReportButton, ListenerAnswers, MInv, IInv, TypeOK, Checks
  <2> QED
    BY <1>3, <2>1, <2>2, <2>3 DEF Next, CheckProceeds
<1>4. MInv /\ [Next]_vars
        => [check.kind # "none" /\ check'.kind = "none"
             => /\ told'.pos = check.at.pos
                /\ ButtonsOf(told'.mask) = ButtonsOf(check.at.mask)
                /\ check.kind # "xkb" => told'.mask = check.at.mask]_vars
  BY <1>3, EndTellsAll
<1>5. IInv /\ ToldMask => MInv
  BY DEF MInv
<1> QED
  BY <1>1, <1>2, <1>4, <1>5, InductiveInvariant, PTL DEF Spec, CheckTellsAll
=============================================================================
