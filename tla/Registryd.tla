------------------------------ MODULE Registryd -------------------------------
(***************************************************************************)
(* registryd as a whole: the bus, the main loop, the registry (Registry)   *)
(* and the device event controller's watch on the pointer (MousePoll).     *)
(*                                                                         *)
(* The bus delivers what clients send, and their departures, in one order. *)
(* The registry's calls are handled as they are dispatched.  The device    *)
(* event controller's are put in message_queue and handled by an idle      *)
(* callback, because handling one may wait for a client's answer, and      *)
(* waiting dispatches the bus.  So a registry call, or a departure, may    *)
(* overtake a device call sent before it, and may run in the middle of a   *)
(* mouse check or of another client's call.                                *)
(***************************************************************************)
EXTENDS Integers, Sequences, FiniteSets

CONSTANTS
    Names,       \* bus names of the clients; each may have one device listener
    EmbedFirst,  \* do device calls come only from clients that embedded first?
    Calls,       \* the calls that clients make
    MaxCalls,    \* bound: calls of each client
    MaxWaiting,  \* bound: messages not yet dispatched
    NButtons,
    MaxTimers

VARIABLES
    online,      \* the clients on the bus
    made,        \* how many calls each client has made
    embedded,    \* the clients that have called Embed
    inbox,       \* messages the bus has not yet delivered to registryd
    queue,       \* controller->message_queue
    idle,        \* message_queue_idle: message_queue_dispatch is scheduled
    draining,    \* message_queue_dispatch runs
    notifying,   \* the NotifyListenersSync that waits for a listener, if any
    answered,    \* the last device call of each client that was answered
    apps, id, events, view, cleanup, known, crashed, strayed,
    polling, mouseListeners, haveMouseListener, idleTimers, movingTimers,
    pointer, lastMousePos, mouseMaskState, check, told

clientVars == <<online, made, embedded>>
queueVars == <<queue, idle, draining, notifying, answered>>
registryVars == <<apps, id, events, view, cleanup, known, crashed, strayed>>
mouseVars == <<mouseListeners, haveMouseListener, idleTimers, movingTimers,
               pointer, lastMousePos, mouseMaskState, check, told>>
vars == <<clientVars, inbox, queueVars, registryVars, polling, mouseVars>>

Mouse == INSTANCE MousePoll
            WITH Listeners <- Names, Owner <- [c \in Names |-> c],
                 Modifiers <- {}, Positions <- {"home"}, Home <- "home",
                 haveMouseEventListener <- polling

Reg == INSTANCE Registry
          WITH Paths <- {"root"}, EventNames <- {<<"Mouse", "Abs">>},
               Removals <- {<<>>}, Reembeds <- FALSE, Unembeds <- FALSE,
               OwnsNames <- {}, Rereads <- {FALSE},
               MaxEmbeds <- Cardinality(Names), connected <- known

NoCall == [number |-> 0]

ASSUME RegistrydAssumption ==
    /\ Calls \subseteq {"Embed", "RegisterEvent", "DeregisterEvent",
                        "RegisterDeviceEventListener",
                        "DeregisterDeviceEventListener", "NotifyListenersSync"}
    /\ IsFiniteSet(Names)
    /\ MaxCalls \in [Names -> Nat] /\ MaxWaiting \in Nat
    /\ NButtons \in Nat /\ MaxTimers \in Nat

DeviceCalls == {"RegisterDeviceEventListener", "DeregisterDeviceEventListener",
                "NotifyListenersSync"}
Messages == [from: Names, call: Calls \cup {"NameOwnerChanged"}, number: Nat]

(***************************************************************************)
(* When what runs: one callback of the main loop at a time, and the bus    *)
(* also while a callback waits for an answer.                              *)
(***************************************************************************)
Waiting == check.waiting \/ notifying # NoCall
Between == check.kind = "none" /\ ~draining
\* Mutant: the main loop runs while a callback waits.
MutantMainLoop == Reg!Ready /\ (Between \/ Waiting)
MainLoop == Reg!Ready /\ Between
\* Mutant: the bus is dispatched in the middle of a cleanup.
MutantBusDispatch == ~crashed /\ (Between \/ Waiting)
BusDispatch == Reg!Ready /\ (Between \/ Waiting)

(***************************************************************************)
(* Clients.                                                                *)
(***************************************************************************)
Send(c, call) ==
    /\ c \in online
    /\ made[c] < MaxCalls[c] /\ Len(inbox) < MaxWaiting
    /\ EmbedFirst /\ call \in DeviceCalls => c \in embedded
    /\ call = "Embed" => c \notin embedded
    /\ embedded' = IF call = "Embed" THEN embedded \cup {c} ELSE embedded
    /\ made' = [made EXCEPT ![c] = @ + 1]
    /\ inbox' = Append(inbox, [from |-> c, call |-> call, number |-> made'[c]])
    /\ UNCHANGED <<online, queueVars, registryVars, polling, mouseVars>>

Leave(c) ==
    /\ c \in online
    /\ online' = online \ {c}
    /\ inbox' = Append(inbox, [from |-> c, call |-> "NameOwnerChanged",
                               number |-> made[c]])
    /\ UNCHANGED <<made, embedded, queueVars, registryVars, polling, mouseVars>>

(***************************************************************************)
(* Dispatch: the handlers of registry.c, and handle_dec_method.            *)
(***************************************************************************)
HandleEmbed(c) ==
    /\ Reg!Embed([name |-> c, path |-> "root"])
    /\ UNCHANGED <<queueVars, events, cleanup, known, crashed, strayed, polling,
                   mouseVars>>

\* RegisterEvent calls spi_device_event_controller_start_poll_mouse.
HandleRegisterEvent(c) ==
    /\ Reg!RegisterEvent(c, <<"Mouse", "Abs">>)
    /\ Mouse!StartPollMouse
    /\ UNCHANGED <<queueVars, apps, id, view, cleanup, known, crashed, strayed,
                   mouseListeners, haveMouseListener, movingTimers,
                   pointer, lastMousePos, mouseMaskState, check, told>>

HandleDeregisterEvent(c) ==
    /\ Reg!RemoveEvents(c, <<>>)
    /\ UNCHANGED <<queueVars, apps, id, view, cleanup, known, crashed, strayed,
                   mouseVars>>

HandleNameOwnerChanged(c) ==
    /\ Reg!NameOwnerChanged(c)
    /\ known' = known \ {c}
    /\ UNCHANGED <<queueVars, id, strayed, mouseVars>>

\* Mutants: the newest call is handled first; no callback is scheduled by a call
\* that arrives while another waits.
MutantQueueFront(message) ==
    /\ queue' = <<message>> \o queue
    /\ idle' = TRUE
    /\ UNCHANGED <<draining, notifying, answered, registryVars, polling, mouseVars>>

MutantQueueUnscheduled(message) ==
    /\ queue' = Append(queue, message)
    /\ idle' = (idle \/ ~Waiting)
    /\ UNCHANGED <<draining, notifying, answered, registryVars, polling, mouseVars>>

HandleDecMethod(message) ==
    /\ queue' = Append(queue, message)
    /\ idle' = TRUE
    /\ UNCHANGED <<draining, notifying, answered, registryVars, polling, mouseVars>>

Handle(message) ==
    LET c == message.from
    IN  \/ message.call = "Embed" /\ HandleEmbed(c)
        \/ message.call = "RegisterEvent" /\ HandleRegisterEvent(c)
        \/ message.call = "DeregisterEvent" /\ HandleDeregisterEvent(c)
        \/ message.call = "NameOwnerChanged" /\ HandleNameOwnerChanged(c)
        \/ message.call \in DeviceCalls /\ HandleDecMethod(message)

Dispatch ==
    /\ BusDispatch
    /\ inbox # <<>>
    /\ inbox' = Tail(inbox)
    /\ Handle(Head(inbox))
    /\ UNCHANGED clientVars

\* Mutants: device listeners stay; they go and the flag stays up.
MutantCleanupKeeps ==
    /\ Reg!CleanupProceeds
    /\ UNCHANGED <<clientVars, inbox, queueVars, mouseVars>>

MutantCleanupKeepsFlag ==
    /\ Reg!CleanupProceeds
    /\ mouseListeners' = mouseListeners \ {cleanup.name}
    /\ UNCHANGED <<clientVars, inbox, queueVars, haveMouseListener, idleTimers,
                   movingTimers, pointer, lastMousePos, mouseMaskState, check,
                   told>>

\* The loop of handle_disconnection, with the device listeners that
\* remove_application removes.
Cleanup ==
    /\ Reg!CleanupProceeds
    /\ IF apps' # apps
       THEN Mouse!RemoveMouseListenersOf(apps[cleanup.at + 1].name)
       ELSE UNCHANGED <<mouseListeners, haveMouseListener>>
    /\ UNCHANGED <<clientVars, inbox, queueVars, idleTimers, movingTimers,
                   pointer, lastMousePos, mouseMaskState, check, told>>

(***************************************************************************)
(* message_queue_dispatch and handle_dec_method_from_idle.                 *)
(***************************************************************************)
IdleBegins ==
    /\ MainLoop
    /\ idle
    /\ idle' = FALSE
    /\ draining' = TRUE
    /\ UNCHANGED <<clientVars, inbox, queue, notifying, answered, registryVars,
                   polling, mouseVars>>

Answer(message) == answered' = [answered EXCEPT ![message.from] = message.number]

\* NotifyListenersSync calls the matching key listeners one after the other;
\* with none it is answered at once.
HandleNotify(message) ==
    /\ \/ notifying' = message /\ UNCHANGED answered
       \/ Answer(message) /\ UNCHANGED notifying
    /\ UNCHANGED <<polling, mouseVars>>

HandleRegisterDevice(message) ==
    /\ Mouse!RegisterMouseListener(message.from)
    /\ Answer(message)
    /\ UNCHANGED notifying

HandleDeregisterDevice(message) ==
    /\ Mouse!DeregisterMouseListener(message.from)
    /\ Answer(message)
    /\ UNCHANGED notifying

IdleHandles ==
    /\ Reg!Ready /\ draining /\ notifying = NoCall
    /\ queue # <<>>
    /\ queue' = Tail(queue)
    /\ LET message == Head(queue)
       IN  \/ message.call = "RegisterDeviceEventListener"
                /\ HandleRegisterDevice(message)
           \/ message.call = "DeregisterDeviceEventListener"
                /\ HandleDeregisterDevice(message)
           \/ message.call = "NotifyListenersSync" /\ HandleNotify(message)
    /\ UNCHANGED <<clientVars, inbox, idle, draining, registryVars>>

\* The last listener answered, or its D-Bus timeout did.
NotifyEnds ==
    /\ Reg!Ready /\ notifying # NoCall
    /\ Answer(notifying)
    /\ notifying' = NoCall
    /\ UNCHANGED <<clientVars, inbox, queue, idle, draining, registryVars,
                   polling, mouseVars>>

IdleEnds ==
    /\ Reg!Ready /\ draining /\ notifying = NoCall
    /\ queue = <<>>
    /\ draining' = FALSE
    /\ UNCHANGED <<clientVars, inbox, queue, idle, notifying, answered,
                   registryVars, polling, mouseVars>>

(***************************************************************************)
(* The pointer.                                                            *)
(***************************************************************************)
otherVars == <<clientVars, inbox, queueVars, registryVars>>

TimerFires ==
    /\ MainLoop
    /\ \E kind \in {"idle", "moving"} : Mouse!TimerFires(kind)
    /\ UNCHANGED otherVars

CheckProceeds == Reg!Ready /\ Mouse!CheckProceeds /\ UNCHANGED otherVars

XkbStateNotify == MainLoop /\ Mouse!XkbStateNotify /\ UNCHANGED otherVars

PointerChanges == Mouse!PointerChanges /\ UNCHANGED otherVars

-----------------------------------------------------------------------------

Init ==
    /\ Mouse!Init
    /\ Reg!Init
    /\ online = Names
    /\ made = [c \in Names |-> 0]
    /\ embedded = {}
    /\ inbox = <<>>
    /\ queue = <<>>
    /\ idle = FALSE
    /\ draining = FALSE
    /\ notifying = NoCall
    /\ answered = [c \in Names |-> 0]

IdleProceeds == IdleBegins \/ IdleHandles \/ NotifyEnds \/ IdleEnds

Next ==
    \/ \E c \in Names : Leave(c) \/ \E call \in Calls : Send(c, call)
    \/ Dispatch
    \/ Cleanup
    \/ IdleProceeds
    \/ TimerFires
    \/ CheckProceeds
    \/ XkbStateNotify
    \/ PointerChanges

\* The main loop dispatches what the bus delivers, and runs the idle callback
\* again and again between mouse checks.  A wait ends with an answer or with
\* the timeout of the D-Bus call.
Fairness ==
    /\ SF_vars(Dispatch)
    /\ WF_vars(Cleanup)
    /\ SF_vars(IdleProceeds)
    /\ WF_vars(CheckProceeds)

Spec == Init /\ [][Next]_vars
FairSpec == Spec /\ Fairness

-----------------------------------------------------------------------------

TypeOK ==
    /\ Mouse!TypeOK
    /\ Reg!TypeOK
    /\ online \subseteq known
    /\ \A c \in Names : made[c] \in 0..MaxCalls[c]
    /\ embedded \subseteq Names
    /\ inbox \in Seq(Messages)
    /\ queue \in Seq(Messages)
    /\ idle \in BOOLEAN
    /\ draining \in BOOLEAN
    /\ notifying \in Messages \cup {NoCall}
    /\ \A c \in Names : answered[c] \in 0..made[c]

\* A device call that waits in the queue has a callback coming for it, also when
\* it arrives while the callback is at work or a mouse check waits.
DrainScheduled == queue # <<>> => idle \/ draining

\* The device calls of one client are answered in the order it made them.
AnswersInOrder ==
    [][\A c \in Names : answered'[c] # answered[c] => answered'[c] > answered[c]]_vars

\* One callback at a time: a device call is never handled, nor a check started,
\* in the middle of another.
OneCallback == ~(draining /\ check.kind # "none")

\* The values the variables take, the queue's callback and what runs in its middle.
Consistent == TypeOK /\ DrainScheduled /\ OneCallback

\* Handled in the middle of whatever it may be, the departure of an application
\* leaves none of its device listeners behind: of those registered by then.
DepartureCleansListeners ==
    [][cleanup # Reg!NoCleanup /\ cleanup' = Reg!NoCleanup
          => cleanup.name \notin mouseListeners']_vars

\* The registry and the poller behave as specified by themselves, although each
\* is also driven by the other and by what runs in the middle of its handlers.
RegistryAsSpecified == Reg!Spec
PollerAsSpecified == Mouse!Spec

\* Every device call is answered, those of clients that have left included.
DeviceCallsAnswered ==
    \A c \in Names : \A number \in 1..MaxCalls[c] :
        (\E i \in DOMAIN inbox : /\ inbox[i].from = c
                                 /\ inbox[i].call \in DeviceCalls
                                 /\ inbox[i].number = number)
            ~> answered[c] >= number
=============================================================================
