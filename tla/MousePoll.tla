------------------------------ MODULE MousePoll ------------------------------
(***************************************************************************)
(* How registryd watches the pointer (registryd/deviceeventcontroller.c).  *)
(*                                                                         *)
(* The X server does not tell registryd where the pointer is, so GLib      *)
(* timers poll it: every 100 ms while the pointer rests (idleTimers), every*)
(* 20 ms while it moves (movingTimers).  Two flags say whether anybody     *)
(* wants to know: have_mouse_listener (some client registered a device     *)
(* listener) and have_mouse_event_listener (some client registered for     *)
(* "Mouse:" events).  A timer dies at its first tick with both flags       *)
(* FALSE; it is started when a flag rises while the other is FALSE.        *)
(*                                                                         *)
(* Telling a device listener about a button waits for its answer and       *)
(* dispatches the bus meanwhile (send_and_allow_reentry), so the registry's*)
(* own handlers run in the middle of a tick.  Calls to the device event    *)
(* controller do not: they are queued for an idle callback.                *)
(***************************************************************************)
EXTENDS Integers, FiniteSets

CONSTANTS
    Listeners,   \* device listeners: a client's bus name and an object path
    Owner,       \* Owner[l]: the bus name of listener l
    NButtons,    \* the buttons polled are 1..NButtons (five in the code)
    Modifiers,   \* the keyboard modifiers of the pointer mask
    Positions,   \* places the pointer can be
    Home,        \* last_mouse_pos when the daemon starts
    MaxTimers    \* bound: timers alive at once

Buttons == 1..NButtons
Bits == Buttons \cup Modifiers
Clients == {Owner[l] : l \in Listeners}

ASSUME MousePollAssumption ==
    /\ NButtons \in Nat
    /\ Buttons \cap Modifiers = {}
    /\ Home \in Positions
    /\ MaxTimers \in Nat

VARIABLES
    mouseListeners,         \* controller->mouse_listeners
    haveMouseListener,
    haveMouseEventListener,
    idleTimers,             \* GLib sources running spi_dec_poll_mouse_idle
    movingTimers,           \* GLib sources running spi_dec_poll_mouse_moving
    pointer,                \* what XQueryPointer would answer now
    lastMousePos,
    mouseMaskState,
    check,                  \* the mouse check in progress, if any
    told                    \* where clients were last told the pointer is

pollVars == <<mouseListeners, haveMouseListener, haveMouseEventListener,
              idleTimers, movingTimers>>
pointerVars == <<lastMousePos, mouseMaskState, check, told>>
vars == <<pollVars, pointer, pointerVars>>

Pointer == [pos: Positions, mask: SUBSET Bits]
Checks == [kind: {"none", "idle", "moving", "xkb"}, at: Pointer,
           waiting: BOOLEAN]
AtHome == [pos |-> Home, mask |-> {}]
NoCheck == [kind |-> "none", at |-> AtHome, waiting |-> FALSE]

Listening == haveMouseListener \/ haveMouseEventListener
Timers == idleTimers + movingTimers

\* One mouse check runs to its end before the main loop runs anything else,
\* but for the bus messages dispatched while it waits for a listener.
\* Mutant: timers run while a check waits as well.
MutantMainLoop == check.kind = "none" \/ check.waiting

MainLoop == check.kind = "none"
BusDispatch == MainLoop \/ check.waiting

(***************************************************************************)
(* Who listens.  A listener registered twice sits twice in the list, but   *)
(* both entries are always removed together, so a set tells no less.       *)
(***************************************************************************)

\* Mutant: the condition the wrong way round.
MutantStartTimerUnless(listening) ==
    IF ~listening THEN UNCHANGED idleTimers
    ELSE Timers < MaxTimers /\ idleTimers' = idleTimers + 1

\* g_timeout_add (100, spi_dec_poll_mouse_idle, ...), only when nothing was
\* listening before.
StartTimerUnless(listening) ==
    IF listening THEN UNCHANGED idleTimers
    ELSE /\ Timers < MaxTimers
         /\ idleTimers' = idleTimers + 1

RegisterMouseListener(l) ==
    /\ MainLoop
    /\ mouseListeners' = mouseListeners \cup {l}
    /\ IF haveMouseListener
       THEN UNCHANGED <<haveMouseListener, idleTimers>>
       ELSE /\ haveMouseListener' = TRUE
            /\ StartTimerUnless(haveMouseEventListener)
    /\ UNCHANGED <<haveMouseEventListener, movingTimers, pointer, pointerVars>>

\* Removes the listeners gone from the list and lowers the flag when the
\* list is found empty.
DropListeners(gone) ==
    /\ mouseListeners' = mouseListeners \ gone
    /\ haveMouseListener' = (haveMouseListener /\ mouseListeners' # {})

DeregisterMouseListener(l) ==
    /\ MainLoop
    /\ DropListeners({l})
    /\ UNCHANGED <<haveMouseEventListener, idleTimers, movingTimers, pointer,
                   pointerVars>>

\* The mouse half of spi_remove_device_listeners: an application left.  The
\* list is searched again from its head after each removal, and the flag is
\* looked at only when something was removed.
RemoveMouseListenersOf(c) ==
    LET gone == {l \in mouseListeners : Owner[l] = c}
    IN  IF gone = {} THEN UNCHANGED <<mouseListeners, haveMouseListener>>
        ELSE DropListeners(gone)

ClientLeaves(c) ==
    /\ BusDispatch
    /\ RemoveMouseListenersOf(c)
    /\ UNCHANGED <<haveMouseEventListener, idleTimers, movingTimers, pointer,
                   pointerVars>>

\* spi_device_event_controller_start_poll_mouse and ..._stop_poll_mouse: the
\* registry calls them as listeners for "Mouse:" events come and go.
StartPollMouse ==
    IF haveMouseEventListener
    THEN UNCHANGED <<haveMouseEventListener, idleTimers>>
    ELSE /\ haveMouseEventListener' = TRUE
         /\ StartTimerUnless(haveMouseListener)

StopPollMouse == haveMouseEventListener' = FALSE

RegisterMouseEvent ==
    /\ BusDispatch
    /\ StartPollMouse
    /\ UNCHANGED <<mouseListeners, haveMouseListener, movingTimers, pointer,
                   pointerVars>>

DeregisterMouseEvent ==
    /\ BusDispatch
    /\ StopPollMouse
    /\ UNCHANGED <<mouseListeners, haveMouseListener, idleTimers, movingTimers,
                   pointer, pointerVars>>

(***************************************************************************)
(* The mouse check: spi_dec_mouse_check, and spi_dec_poll_mouse_moved      *)
(* around it when a timer calls it.                                        *)
(***************************************************************************)

TimersOf(kind) == IF kind = "idle" THEN idleTimers ELSE movingTimers

\* Mutant: spi_dec_poll_mouse_moving does not look whether anybody listens.
MutantTimerDies(kind) ==
    /\ MainLoop
    /\ kind = "idle" /\ idleTimers > 0
    /\ ~Listening
    /\ idleTimers' = idleTimers - 1
    /\ UNCHANGED <<mouseListeners, haveMouseListener, haveMouseEventListener,
                   movingTimers, pointer, pointerVars>>

\* A timer fires.  Nobody listening: the source returns FALSE and is gone.
TimerDies(kind) ==
    /\ MainLoop
    /\ TimersOf(kind) > 0
    /\ ~Listening
    /\ IF kind = "idle"
       THEN idleTimers' = idleTimers - 1 /\ UNCHANGED movingTimers
       ELSE movingTimers' = movingTimers - 1 /\ UNCHANGED idleTimers
    /\ UNCHANGED <<mouseListeners, haveMouseListener, haveMouseEventListener,
                   pointer, pointerVars>>

\* XQueryPointer: the check works on this answer to its end.
BeginCheck(kind) ==
    /\ check' = [kind |-> kind, at |-> pointer, waiting |-> FALSE]
    /\ UNCHANGED <<pollVars, pointer, lastMousePos, mouseMaskState, told>>

TimerTicks(kind) ==
    /\ MainLoop
    /\ TimersOf(kind) > 0
    /\ Listening
    /\ BeginCheck(kind)

\* An XKB state change makes global_filter_fn check the mouse as well, on no
\* timer and whoever listens.
XkbStateNotify ==
    /\ MainLoop
    /\ BeginCheck("xkb")

ButtonsOf(mask) == mask \cap Buttons
ModifiersOf(mask) == mask \cap Modifiers
Flip(mask, b) == IF b \in mask THEN mask \ {b} ELSE mask \cup {b}

\* Mutant: only presses are looked for.
MutantChangedButtons == {b \in Buttons : b \in check.at.mask /\ b \notin mouseMaskState}

ChangedButtons == {b \in Buttons : (b \in check.at.mask) # (b \in mouseMaskState)}

\* One turn of "while (spi_dec_button_update_and_emit (...))": the lowest
\* button that changed is recorded, the device listeners interested are called
\* one after the other, the Button signal is sent unless one consumed it.
ReportButton ==
    /\ check.kind # "none"
    /\ ~check.waiting
    /\ \E b \in ChangedButtons :
          /\ \A c \in ChangedButtons : b <= c
          /\ mouseMaskState' = Flip(mouseMaskState, b)
          /\ told' = [told EXCEPT !.mask = Flip(@, b)]
    /\ \E waiting \in {FALSE, mouseListeners # {}} :
          check' = [check EXCEPT !.waiting = waiting]
    /\ UNCHANGED <<pollVars, pointer, lastMousePos>>

\* The listener answered, or the D-Bus call timed out.
ListenerAnswers ==
    /\ check.waiting
    /\ check' = [check EXCEPT !.waiting = FALSE]
    /\ UNCHANGED <<pollVars, pointer, lastMousePos, mouseMaskState, told>>

Moved == check.at.pos # lastMousePos

\* spi_dec_emit_modifier_event, then the whole mask is taken over; only on a
\* timer.
ReportsModifiers ==
    /\ check.kind # "xkb"
    /\ ModifiersOf(check.at.mask) # ModifiersOf(mouseMaskState)

\* Mutant: the idle timer that saw motion ends and none is started.
MutantRearmForgets ==
    /\ idleTimers' = idleTimers - IF check.kind = "idle" /\ Moved THEN 1 ELSE 0
    /\ UNCHANGED movingTimers

\* The idle timer that saw motion is replaced by a moving timer and the other
\* way round; a timer that saw what it expected stays.
Rearm ==
    CASE check.kind = "idle" /\ Moved ->
            /\ idleTimers' = idleTimers - 1
            /\ movingTimers' = movingTimers + 1
      [] check.kind = "moving" /\ ~Moved ->
            /\ idleTimers' = idleTimers + 1
            /\ movingTimers' = movingTimers - 1
      [] OTHER -> UNCHANGED <<idleTimers, movingTimers>>

EndCheck ==
    /\ check.kind # "none"
    /\ ~check.waiting
    /\ ChangedButtons = {}
    /\ lastMousePos' = check.at.pos
    /\ IF ReportsModifiers
       THEN /\ mouseMaskState' = check.at.mask
            /\ told' = [pos |-> check.at.pos,
                        mask |-> ButtonsOf(told.mask) \cup ModifiersOf(check.at.mask)]
       ELSE /\ UNCHANGED mouseMaskState
            /\ told' = [told EXCEPT !.pos = check.at.pos]
    /\ Rearm
    /\ check' = NoCheck
    /\ UNCHANGED <<mouseListeners, haveMouseListener, haveMouseEventListener,
                   pointer>>

\* The user moves the pointer, or presses or releases a button or modifier; as much of
\* it as there is time for between two ticks.
PointerChanges ==
    /\ \/ \E p \in Positions \ {pointer.pos} : pointer' = [pointer EXCEPT !.pos = p]
       \/ \E b \in Bits : pointer' = [pointer EXCEPT !.mask = Flip(@, b)]
    /\ UNCHANGED <<pollVars, pointerVars>>

-----------------------------------------------------------------------------

Init ==
    /\ mouseListeners = {}
    /\ haveMouseListener = FALSE
    /\ haveMouseEventListener = FALSE
    /\ idleTimers = 0
    /\ movingTimers = 0
    /\ pointer \in Pointer
    /\ lastMousePos = Home
    /\ mouseMaskState = {}
    /\ check = NoCheck
    /\ told = AtHome

Requests ==
    \/ \E l \in Listeners : RegisterMouseListener(l) \/ DeregisterMouseListener(l)
    \/ \E c \in Clients : ClientLeaves(c)
    \/ RegisterMouseEvent
    \/ DeregisterMouseEvent

TimerFires(kind) == TimerTicks(kind) \/ TimerDies(kind)

CheckProceeds == ReportButton \/ ListenerAnswers \/ EndCheck

Next ==
    \/ Requests
    \/ \E kind \in {"idle", "moving"} : TimerFires(kind)
    \/ XkbStateNotify
    \/ CheckProceeds
    \/ PointerChanges

\* GLib runs every timer that is due; a call to a listener ends with its
\* answer or with the D-Bus timeout.  Nothing makes clients call, the pointer
\* move or the XKB state change.
Fairness ==
    /\ \A kind \in {"idle", "moving"} : SF_vars(TimerFires(kind))
    /\ WF_vars(CheckProceeds)

Spec == Init /\ [][Next]_vars
FairSpec == Spec /\ Fairness

-----------------------------------------------------------------------------

TypeOK ==
    /\ mouseListeners \subseteq Listeners
    /\ haveMouseListener \in BOOLEAN
    /\ haveMouseEventListener \in BOOLEAN
    /\ idleTimers \in Nat
    /\ movingTimers \in Nat
    /\ pointer \in Pointer
    /\ lastMousePos \in Positions
    /\ mouseMaskState \in SUBSET Bits
    /\ check \in Checks
    /\ told \in Pointer

\* The flag that stops the timers agrees with the list it stands for, whichever
\* way listeners came and went.
FlagMatchesList == haveMouseListener = (mouseListeners # {})

\* Somebody listens, so a timer is alive: no order of registrations, departures
\* and ticks, nor a client leaving in the middle of a tick, leaves a listener
\* registered with nobody polling for it.
PollerAlive == Listening => Timers > 0

\* The tick in progress is that of a timer still counted.
TickHasTimer ==
    check.kind \in {"idle", "moving"} => TimersOf(check.kind) > 0

\* What the poller keeps agrees with itself at any time, in the middle of ticks
\* as well: the types, the flag, the timers.
Consistent == TypeOK /\ FlagMatchesList /\ TickHasTimer /\ PollerAlive

\* Whatever number of buttons and modifiers changed since the last tick, the
\* tick tells clients of each of them: when a timer's check ends, they know
\* what XQueryPointer answered.  (The XKB check leaves modifiers to the timer.)
CheckTellsAll ==
    [][check.kind # "none" /\ check'.kind = "none"
          => /\ told'.pos = check.at.pos
             /\ ButtonsOf(told'.mask) = ButtonsOf(check.at.mask)
             /\ check.kind # "xkb" => told'.mask = check.at.mask]_vars

\* A pointer resting elsewhere than where clients saw it is reported as long as
\* somebody listens.
MotionReported ==
    \A p \in Positions :
        (Listening /\ pointer.pos = p)
            ~> (~Listening \/ pointer.pos # p \/ told.pos = p)

\* So is a button held that they do not know of.
PressReported ==
    \A b \in Bits :
        (Listening /\ b \in pointer.mask)
            ~> (~Listening \/ b \notin pointer.mask \/ b \in told.mask)

\* Listeners learn of every change that lasts, though timers hand over to one
\* another, die and are started anew.
ChangesReported == MotionReported /\ PressReported

\* When the last listener is gone for good, every timer dies: the daemon does
\* not go on waking up fifty times a second for nobody.
PollersDie == <>[](~Listening) => <>[](Timers = 0)
=============================================================================
