------------------------------ MODULE ClientCalls ------------------------------
(***************************************************************************)
(* The calls of a client (atspi/atspi-misc.c, dbind/dbind.c), of its       *)
(* device listeners (atspi/atspi-device-listener.c, atspi-registry.c) and  *)
(* of its accessibles (atspi/atspi-accessible.c and the interfaces).       *)
(*                                                                         *)
(* The client has one thread.  While it waits for an answer, it answers    *)
(* nobody: not registryd, which may be waiting for it before it goes on to *)
(* the client's call.  The client gives up first.                          *)
(*                                                                         *)
(* A behaviour is about one of two worlds: "devices", listeners of one     *)
(* client and registryd, or "objects", a widget of an application and the  *)
(* desktop, and what functions about them return.                          *)
(***************************************************************************)
EXTENDS Interfaces, DesktopObject, Lists, SequencesExt

CONSTANTS
    Listeners,  \* device listeners, in the order of their making: numbers
    Callbacks,
    Kinds,      \* what listeners are registered for: "key", "mouse"
    Worlds,     \* bound: "devices", "objects"
    MaxNodes,   \* bound: callbacks added
    MaxCalls,   \* bound: calls of the client in the world of devices
    MaxAsks,    \* bound: functions called in the world of objects
    MaxEvents   \* bound: events of registryd

ASSUME ClientCallsAssumption ==
    /\ Listeners \subseteq Nat
    /\ Kinds \subseteq {"key", "mouse"}
    /\ Worlds \subseteq {"devices", "objects"}
    /\ MaxNodes \in Nat /\ MaxCalls \in Nat /\ MaxAsks \in Nat /\ MaxEvents \in Nat

VARIABLES
    world,
    \* The client's listeners.
    callbacks,  \* of each listener: nodes, the youngest first
    freed,      \* listeners that were finalized
    made,       \* how many nodes were made
    wanted,     \* history: the callbacks added and not removed, of each listener
    \* The client's thread.
    inbox,      \* NotifyEvent calls on their way or not yet read
    deferred,   \* deferred_messages
    idle,       \* process_deferred_messages_id is set
    draining,   \* _atspi_process_deferred_messages: "no", "idle" or "call"
    walk,       \* atspi_device_event_dispatch
    waiting,    \* the call it waits for
    calls,      \* how many calls there were
    strayed,    \* freed memory was read
    told,       \* history: registrations answered with TRUE, and not taken back
    \* registryd.
    held,       \* its listeners, the newest first
    queue,      \* message_queue
    asking,     \* listeners it will ask about an event
    awaited,    \* the NotifyEvent it waits for; 0: none
    sent,       \* how many NotifyEvent calls there were
    events,     \* how many events there were
    answered    \* NotifyEvent calls that were answered

callbackVars == <<callbacks, freed, made, wanted>>
threadVars == <<inbox, deferred, idle, draining, walk, strayed>>
callVars == <<waiting, calls, told>>
registrydVars == <<held, queue, asking, awaited, sent, events>>
deviceVars == <<callbackVars, threadVars, callVars, registrydVars, answered>>

VARIABLES
    link,       \* of each object: the connection of its application, see Interfaces
    kept,       \* what objects and their applications keep
    flags,      \* cached_properties
    last,       \* what the program was returned last
    aborted,    \* the program was ended, by libdbus or the system, or never gets on
    asks        \* how many functions were called

objectVars == <<link, kept, flags, last, aborted, asks>>
clientVars == <<world, deviceVars, objectVars>>

NoWalk == [id |-> 0]
NoCall == [op |-> "none"]
End == 0

Nodes(l) == {e.node : e \in ToSet(callbacks[l])}
CallbackAt(l, n) == (CHOOSE e \in ToSet(callbacks[l]) : e.node = n).callback
FirstNode(l) == IF callbacks[l] = <<>> THEN End ELSE Head(callbacks[l]).node

\* Nodes are numbered as they are made; the list begins with the youngest.
NextNode(l, n) ==
    LET older == {m \in Nodes(l) : m < n}
    IN  IF older = {} THEN End ELSE CHOOSE m \in older : \A k \in older : k <= m

Devices == world = "devices"
Walking == walk # NoWalk
Waiting == waiting # NoCall

\* The program runs: on its own, or in a callback.
ProgramRuns == Devices /\ ~aborted /\ ~Waiting /\ (draining = "no" \/ Walking)

\* A callback is never called in the middle of another.
ClientMainLoop == Devices /\ ~aborted /\ ~Waiting /\ draining = "no"

-----------------------------------------------------------------------------
(***************************************************************************)
(* Callbacks of a listener.                                                *)
(***************************************************************************)

\* atspi_device_listener_add_callback.
AddCallback(l, c) ==
    /\ ProgramRuns
    /\ l \notin freed
    /\ made < MaxNodes
    /\ made' = made + 1
    /\ callbacks' = [callbacks EXCEPT ![l] = <<[node |-> made', callback |-> c]>> \o @]
    /\ wanted' = [wanted EXCEPT ![l] = @ \cup {c}]
    /\ UNCHANGED <<world, objectVars, freed, threadVars, callVars, registrydVars, answered>>

\* Mutant: the first node of the callback is removed.
MutantRemoveByCb(list, c) ==
    LET at == {i \in DOMAIN list : list[i].callback = c}
    IN  IF at = {} THEN list ELSE RemoveAt(list, CHOOSE i \in at : \A j \in at : i <= j)

\* event_list_remove_by_cb.
RemoveByCb(list, c) == Only(list, {e \in ToSet(list) : e.callback # c})

\* atspi_device_listener_remove_callback.  A walk may be at a node of it.
RemoveCallback(l, c) ==
    /\ ProgramRuns
    /\ l \notin freed
    /\ callbacks' = [callbacks EXCEPT ![l] = RemoveByCb(@, c)]
    /\ wanted' = [wanted EXCEPT ![l] = @ \ {c}]
    /\ walk' = IF Walking /\ walk.listener = l
               THEN [walk EXCEPT !.standing = @ \ {c}] ELSE walk
    /\ UNCHANGED <<world, objectVars, freed, made, inbox, deferred, idle, draining,
                   strayed, callVars, registrydVars, answered>>

\* atspi_device_listener_finalize: device_listeners keeps the listener.  A walk takes
\* no reference, so it may be of the listener whose callbacks are being called.
Finalize(l) ==
    /\ ProgramRuns
    /\ l \notin freed
    /\ freed' = freed \cup {l}
    /\ callbacks' = [callbacks EXCEPT ![l] = <<>>]
    /\ wanted' = [wanted EXCEPT ![l] = {}]
    /\ walk' = IF Walking /\ walk.listener = l THEN [walk EXCEPT !.standing = {}] ELSE walk
    /\ UNCHANGED <<world, objectVars, made, inbox, deferred, idle, draining, strayed,
                   callVars, registrydVars, answered>>

-----------------------------------------------------------------------------
(***************************************************************************)
(* Events in the client.                                                   *)
(***************************************************************************)

\* The filter: defer_message.
Dispatch ==
    /\ ClientMainLoop
    /\ inbox # <<>>
    /\ deferred' = Append(deferred, Head(inbox))
    /\ inbox' = Tail(inbox)
    /\ idle' = TRUE
    /\ UNCHANGED <<world, objectVars, callbackVars, draining, walk, strayed, callVars,
                   registrydVars, answered>>

\* The idle callback begins.
RunIdle ==
    /\ ClientMainLoop
    /\ idle
    /\ draining' = "idle"
    /\ UNCHANGED <<world, objectVars, callbackVars, inbox, deferred, idle, walk, strayed,
                   callVars, registrydVars, answered>>

DrainEnds ==
    /\ draining # "no" /\ ~Walking /\ deferred = <<>>
    /\ draining' = "no"
    /\ idle' = (idle /\ draining = "call")
    /\ UNCHANGED <<world, objectVars, callbackVars, inbox, deferred, walk, strayed, callVars,
                   registrydVars, answered>>

\* The reply to NotifyEvent.  registryd waits for one; a reply it has given up is
\* dropped.  A listener that consumes the event is the last that is asked (key
\* listeners are registered as ones that can).
Reply(id, consumed) ==
    /\ answered' = answered \cup {id}
    /\ awaited' = IF awaited = id THEN 0 ELSE awaited
    /\ asking' = IF awaited = id /\ consumed THEN <<>> ELSE asking

\* _atspi_dbus_handle_DeviceEvent: a search that comes by a freed listener reads it.
HandleDeviceEvent ==
    /\ draining # "no" /\ ~Walking /\ deferred # <<>>
    /\ LET m == Head(deferred)
           l == m.listener
       IN  IF l \notin freed /\ callbacks[l] # <<>>
           THEN /\ walk' = [id |-> m.id, listener |-> l, node |-> FirstNode(l),
                            asked |-> <<CallbackAt(l, FirstNode(l))>>,
                            standing |-> wanted[l]]
                /\ UNCHANGED <<answered, awaited, asking>>
           ELSE /\ Reply(m.id, FALSE)
                /\ UNCHANGED walk
    /\ strayed' = (strayed \/ \E k \in freed : k <= Head(deferred).listener)
    /\ deferred' = Tail(deferred)
    /\ UNCHANGED <<world, objectVars, callbackVars, inbox, idle, draining, callVars,
                   held, queue, sent, events>>

\* atspi_device_event_dispatch goes on: from a node that was removed meanwhile, and
\* so freed, nobody knows where to.
CallbackReturns(consumed) ==
    /\ Walking /\ ~Waiting /\ ~aborted
    /\ LET l == walk.listener
           next == NextNode(l, walk.node)
           lost == ~consumed /\ walk.node \notin Nodes(l)
       IN  /\ strayed' = (strayed \/ lost)
           /\ IF consumed \/ lost \/ next = End
              THEN /\ walk' = NoWalk
                   /\ Reply(walk.id, consumed)
              ELSE /\ walk' = [walk EXCEPT !.node = next,
                                           !.asked = Append(@, CallbackAt(l, next))]
                   /\ UNCHANGED <<answered, awaited, asking>>
    /\ UNCHANGED <<world, objectVars, callbackVars, inbox, deferred, idle, draining, callVars,
                   held, queue, sent, events>>

-----------------------------------------------------------------------------
(***************************************************************************)
(* Calls of the client in the world of devices.                            *)
(***************************************************************************)
Calls == [op : {"register", "deregister"}, kind : Kinds, listener : Listeners]

\* Mutant: the youngest call is handled first.
MutantQueued(entry) == <<entry>> \o queue

\* handle_dec_method: a call waits behind those in message_queue.
Queued(entry) == Append(queue, entry)

\* atspi_register_keystroke_listener, atspi_register_device_event_listener and the
\* functions that take them back.  registryd receives the call whatever it does,
\* and puts it in its queue.  The keys that a deregistration sends are whatever lies
\* at &key_set; KeyGrabs has what they do there, here the listener is its path.
CallRegistryd(call) ==
    /\ ProgramRuns
    /\ calls < MaxCalls
    /\ calls' = calls + 1
    /\ waiting' = [op |-> call.op, id |-> calls']
    /\ queue' = Queued([call |-> call, id |-> calls'])
    /\ told' = IF call.op = "deregister" THEN told \ {<<call.kind, call.listener>>} ELSE told
    /\ UNCHANGED <<world, objectVars, callbackVars, threadVars, held, asking, awaited, sent,
                   events, answered>>

\* atspi_deregister_keystroke_listener passes &key_set for the array: what lies there
\* is read as a length and strings, and the call is made with it, as above, or the
\* program ends before it is sent.
DeregistrationCrashes ==
    /\ ProgramRuns
    /\ "key" \in Kinds
    /\ calls < MaxCalls
    /\ aborted' = TRUE
    /\ UNCHANGED <<world, deviceVars, link, kept, flags, last, asks>>

\* Any function of an accessible.
CallApplication ==
    /\ ProgramRuns
    /\ calls < MaxCalls
    /\ calls' = calls + 1
    /\ waiting' = [op |-> "ask", id |-> calls']
    /\ UNCHANGED <<world, objectVars, callbackVars, threadVars, told, registrydVars, answered>>

\* _atspi_dbus_call and its like handle the deferred messages before they return,
\* if they are not being handled already.  Calls to registryd's device event
\* controller are made with dbind_method_call_reentrant alone.
ApplicationReturns ==
    /\ Waiting /\ waiting.op = "ask"
    /\ waiting' = NoCall
    /\ draining' = IF draining = "no" THEN "call" ELSE draining
    /\ UNCHANGED <<world, objectVars, callbackVars, inbox, deferred, idle, walk, strayed,
                   calls, told, registrydVars, answered>>

\* Mutant: the client waits as long as it takes.
MutantTimeOut == FALSE /\ UNCHANGED clientVars

\* dbind_set_timeout (1000): FALSE is returned for a registration, and what came
\* back for the others is not looked at.
TimeOut ==
    /\ Waiting /\ waiting.op # "ask"
    /\ waiting' = NoCall
    /\ UNCHANGED <<world, objectVars, callbackVars, threadVars, calls, told, registrydVars,
                   answered>>

-----------------------------------------------------------------------------
(***************************************************************************)
(* registryd, as far as this client sees it: see Registryd and KeyEvents.  *)
(***************************************************************************)
AtRest == Devices /\ awaited = 0 /\ asking = <<>>

\* The idle callback of the queue.  For a pointer listener the answer is FALSE
\* although it is registered.
HandleQueue ==
    /\ AtRest
    /\ queue # <<>>
    /\ LET call == Head(queue).call
           entry == <<call.kind, call.listener>>
           heard == Waiting /\ waiting.id = Head(queue).id
       IN  /\ held' = IF call.op = "register" THEN <<entry>> \o held
                      ELSE Only(held, ToSet(held) \ {entry})
           /\ told' = IF heard /\ call.op = "register" /\ call.kind = "key"
                      THEN told \cup {entry} ELSE told
           /\ waiting' = IF heard THEN NoCall ELSE waiting
    /\ queue' = Tail(queue)
    /\ UNCHANGED <<world, objectVars, callbackVars, threadVars, calls, asking, awaited, sent,
                   events, answered>>

\* A device event: clones of the listeners for it, the oldest first.
Event(kind) ==
    /\ AtRest
    /\ events < MaxEvents
    /\ events' = events + 1
    /\ asking' = Reverse(Only(held, {kind} \X Listeners))
    /\ UNCHANGED <<world, objectVars, callbackVars, threadVars, callVars, held, queue,
                   awaited, sent, answered>>

\* Accessibility_DeviceEventListener_NotifyEvent.
NotifyEvent ==
    /\ Devices /\ awaited = 0 /\ asking # <<>>
    /\ sent' = sent + 1
    /\ awaited' = sent'
    /\ inbox' = Append(inbox, [id |-> sent', listener |-> Head(asking)[2]])
    /\ asking' = Tail(asking)
    /\ UNCHANGED <<world, objectVars, callbackVars, deferred, idle, draining, walk, strayed,
                   callVars, held, queue, events, answered>>

\* libdbus gives up a call after 25 seconds; the event counts as not consumed.
GiveUp ==
    /\ awaited # 0
    /\ awaited' = 0
    /\ UNCHANGED <<world, objectVars, callbackVars, threadVars, callVars, held, queue,
                   asking, sent, events, answered>>

-----------------------------------------------------------------------------
(***************************************************************************)
(* Functions of accessibles.                                               *)
(***************************************************************************)
Objects == {"widget", "desktop"}
OfApplication == Members(KeptByApplication)
Flagged == Members(Kept) \ OfApplication
NoLast == [of |-> "nothing"]
Unset == "unset"

\* The widget's application, registryd, or the bus itself.
BacksOf(o, m) ==
    IF AsksBus(m) THEN Backs
    ELSE IF o = "desktop" THEN DesktopBacks(m) ELSE ApplicationBacks(m)

Asks ==
    /\ world = "objects"
    /\ ~aborted
    /\ asks < MaxAsks
    /\ asks' = asks + 1

Returns(o, m, result) ==
    /\ last' = [of |-> m, link |-> link[o], value |-> result.value, error |-> result.error]
    /\ aborted' = (result \in Ends)

\* A function that keeps nothing.
CallFunction(o, m) ==
    /\ Asks
    /\ \E back \in BacksOf(o, m) : \E r \in Outcomes(m, link[o], back) : Returns(o, m, r)
    /\ UNCHANGED <<world, deviceVars, link, kept, flags>>

\* _atspi_accessible_test_cache: of an object whose application is gone nothing is
\* kept; its states are not kept as soon as the application is disposed.
IsKept(o, m) ==
    IF m \in OfApplication THEN kept[o][m] # Unset
    ELSE m \in flags[o] /\ (Connected(link[o]) \/ m # "Accessible.GetState")

\* Mutant: the role is marked as kept whatever came back.
MutantMarked(m, result) ==
    m \in Flagged /\ (result.value = "answer" \/ m \in {"Accessible.GetAttributes", "Accessible.GetRole"})

\* _atspi_accessible_add_cache: after an answer; attributes are marked whatever
\* came back.
Marked(m, result) ==
    m \in Flagged /\ (result.value = "answer" \/ m = "Accessible.GetAttributes")

\* atspi_accessible_get_role returns the role it has, an older one perhaps.
ReturnsOlder(o, m, result) ==
    IF m = "Accessible.GetRole" /\ result.value = "invalid" /\ kept[o][m] # Unset
    THEN [result EXCEPT !.value = kept[o][m]] ELSE result

\* What an application keeps is not asked for without an application, nor is the
\* parent.
NotAsked(o, m) == link[o] = "gone" /\ m \in OfApplication \cup {"Accessible.Parent"}

\* atspi_accessible_get_name and the others that keep what they were answered.
GetKept(o, m) ==
    /\ Asks
    /\ IF link[o] # "gone" /\ IsKept(o, m)
       THEN /\ Returns(o, m, Result(kept[o][m], FALSE))
            /\ UNCHANGED <<kept, flags>>
       ELSE IF NotAsked(o, m)
       THEN /\ Returns(o, m, Result("null", FALSE))
            /\ UNCHANGED <<kept, flags>>
       ELSE \E back \in BacksOf(o, m) : \E r \in Outcomes(m, link[o], back) :
            /\ Returns(o, m, ReturnsOlder(o, m, r))
            /\ kept' = IF r.value = "answer" \/ m = "Accessible.GetAttributes"
                       THEN [kept EXCEPT ![o][m] = r.value] ELSE kept
            /\ flags' = IF link[o] # "gone" /\ Marked(m, r)
                        THEN [flags EXCEPT ![o] = @ \cup {m}] ELSE flags
    /\ UNCHANGED <<world, deviceVars, link>>

\* atspi_accessible_clear_cache.
ClearCache(o) ==
    /\ world = "objects" /\ ~aborted
    /\ flags[o] # {}
    /\ flags' = [flags EXCEPT ![o] = {}]
    /\ UNCHANGED <<world, deviceVars, link, kept, last, aborted, asks>>

\* handle_get_bus_address: the application has a connection of its own.
OwnConnection ==
    /\ world = "objects" /\ ~aborted
    /\ link["widget"] = "bus"
    /\ link' = [link EXCEPT !["widget"] = "own"]
    /\ UNCHANGED <<world, deviceVars, kept, flags, last, aborted, asks>>

\* atspi_application_dispose, in the middle of which the listeners of defunct
\* objects run.
DisposeApplication ==
    /\ world = "objects" /\ ~aborted
    /\ Connected(link["widget"])
    /\ link' = [link EXCEPT !["widget"] = "none"]
    /\ UNCHANGED <<world, deviceVars, kept, flags, last, aborted, asks>>

\* atspi_accessible_dispose: with its application, or because the application says
\* so (RemoveAccessible).  Flags stay.
DisposeAccessible ==
    /\ world = "objects" /\ ~aborted
    /\ link["widget"] # "gone"
    /\ link' = [link EXCEPT !["widget"] = "gone"]
    /\ kept' = [kept EXCEPT !["widget"]["Accessible.GetState"] = Unset,
                            !["widget"]["Accessible.Parent"] = Unset]
    /\ UNCHANGED <<world, deviceVars, flags, last, aborted, asks>>

-----------------------------------------------------------------------------
ClientInit ==
    /\ world \in Worlds
    /\ callbacks = [l \in Listeners |-> <<>>]
    /\ freed = {} /\ made = 0
    /\ wanted = [l \in Listeners |-> {}]
    /\ inbox = <<>> /\ deferred = <<>> /\ idle = FALSE /\ draining = "no"
    /\ walk = NoWalk /\ strayed = FALSE
    /\ waiting = NoCall /\ calls = 0 /\ told = {}
    /\ held = <<>> /\ queue = <<>> /\ asking = <<>> /\ awaited = 0
    /\ sent = 0 /\ events = 0 /\ answered = {}
    /\ link = [o \in Objects |-> "bus"]
    /\ kept = [o \in Objects |-> [m \in Members(Kept) |-> Unset]]
    /\ flags = [o \in Objects |-> {}]
    /\ last = NoLast /\ aborted = FALSE /\ asks = 0

ClientRuns ==
    \/ Dispatch \/ RunIdle \/ DrainEnds \/ HandleDeviceEvent
    \/ ApplicationReturns \/ TimeOut

RegistrydRuns == HandleQueue \/ NotifyEvent

DevicesNext ==
    \/ \E l \in Listeners : \/ \E c \in Callbacks : AddCallback(l, c) \/ RemoveCallback(l, c)
                            \/ Finalize(l)
    \/ \E consumed \in BOOLEAN : CallbackReturns(consumed)
    \/ \E call \in Calls : CallRegistryd(call)
    \/ DeregistrationCrashes
    \/ CallApplication
    \/ ClientRuns
    \/ RegistrydRuns
    \/ \E kind \in Kinds : Event(kind)
    \/ GiveUp

ObjectsNext ==
    \/ \E o \in Objects : \/ \E m \in Wrappers : CallFunction(o, m)
                          \/ \E m \in Members(Kept) : GetKept(o, m)
                          \/ ClearCache(o)
    \/ OwnConnection \/ DisposeApplication \/ DisposeAccessible

ClientNext == DevicesNext \/ ObjectsNext

\* The client's main loop and registryd go on, callbacks return, and a call of the
\* client ends: with its answer or after the time it has.
ClientFairness ==
    /\ WF_clientVars(ClientRuns)
    /\ WF_clientVars(\E consumed \in BOOLEAN : CallbackReturns(consumed))
    /\ WF_clientVars(RegistrydRuns)

ClientSpec == ClientInit /\ [][ClientNext]_clientVars /\ ClientFairness

-----------------------------------------------------------------------------
Message == [id : Nat, listener : Listeners]
Node == [node : 1..MaxNodes, callback : Callbacks]
Entry == Kinds \X Listeners
Value == MadeUp \cup {"answer", "null", "invalid", "defunct", Unset}

ClientTypeOK ==
    /\ world \in Worlds /\ strayed \in BOOLEAN /\ idle \in BOOLEAN
    /\ callbacks \in [Listeners -> Seq(Node)] /\ freed \subseteq Listeners
    /\ made \in 0..MaxNodes /\ calls \in 0..MaxCalls /\ events \in 0..MaxEvents
    /\ wanted \in [Listeners -> SUBSET Callbacks]
    /\ inbox \in Seq(Message) /\ deferred \in Seq(Message)
    /\ draining \in {"no", "idle", "call"}
    /\ Walking => /\ walk.listener \in Listeners /\ walk.asked \in Seq(Callbacks)
                  /\ walk.node \in 1..MaxNodes /\ walk.standing \subseteq Callbacks
    /\ Waiting => waiting.op \in {"register", "deregister", "ask"}
    /\ told \subseteq Entry /\ held \in Seq(Entry) /\ asking \in Seq(Entry)
    /\ queue \in Seq([call : Calls, id : 1..MaxCalls])
    /\ awaited \in 0..sent /\ answered \subseteq 1..sent
    /\ link \in [Objects -> Links] /\ flags \in [Objects -> SUBSET Flagged]
    /\ kept \in [Objects -> [Members(Kept) -> Value]]
    /\ aborted \in BOOLEAN /\ asks \in 0..MaxAsks

InFlight(id) ==
    \/ \E m \in ToSet(inbox) \cup ToSet(deferred) : m.id = id
    \/ Walking /\ walk.id = id

\* Every NotifyEvent call is replied to, although the client may be waiting for
\* registryd while registryd waits for the client, in a callback or before it has
\* seen the call; unless the program has ended, or read memory it had freed.
EventsAnswered ==
    \A id \in 1..(MaxEvents * MaxCalls) :
        InFlight(id) ~> (id \in answered \/ strayed \/ aborted)

\* A keystroke listener whose registration was answered with TRUE, and that was not
\* deregistered since, is one of registryd's, whatever calls the client has given
\* up before.
ToldHeld == told \subseteq ToSet(held)

\* While the callbacks of a listener are called, and add and remove callbacks, none
\* is called that was removed; and when the list ends, each was called that was
\* there all the time.
WalkWhole ==
    [][/\ Walking' /\ (~Walking \/ walk'.node # walk.node) =>
            Last(walk'.asked) \in wanted[walk'.listener]
       /\ Walking /\ ~Walking' /\ ~strayed' /\ NextNode(walk.listener, walk.node) = End =>
            walk.standing \subseteq ToSet(walk.asked)]_clientVars

\* Functions whose value is taken for an answer when there was none, and of which the
\* program hears no error: those that ask for a property of the kind that has a
\* value to begin with, that ask nobody or for something else, that read what they
\* were not answered, or that drop part of the answer or the error.
Unnoticed ==
    {"Text.CharacterCount", "Action.NActions", "Table.Summary", "Value.MinimumValue",
     "Value.CurrentValue", "Value.MaximumValue", "Value.MinimumIncrement",
     "Accessible.Name", "Accessible.Description", "Accessible.GetInterfaces",
     "Collection.IsAncestorOf", "Table.GetRowColumnExtentsAtIndex", "Text.GetAttributes",
     "Selection.SelectChild", "Selection.DeselectChild", "Selection.IsChildSelected"}

\* Functions that end the program when they are not answered, and one that never
\* returns when it is.
Fatal == {"Component.SetExtents", "Value.SetCurrentValue", "Hypertext.GetLink",
          "Accessible.GetProcessId", "Text.GetBoundedRanges"}

\* A program that looks at the error, and knows -1, NULL and the like, never takes
\* for an answer of an application on the bus what is none, but for the functions
\* named above; over an application's own connection no error is certain.
FailureSeen ==
    /\ last # NoLast /\ last.link # "own" /\ ~last.error
            /\ last.value \in MadeUp \cup {"other", "partly"} =>
        last.of \in Unnoticed
    /\ aborted /\ world = "objects" => last.of \in Fatal

\* What is marked as kept, and so never asked for again, was answered, whatever
\* became of the application between; attributes alone may not have been.
CachedAnswered ==
    \A o \in Objects : \A m \in flags[o] \ {"Accessible.GetAttributes"} :
        link[o] # "gone" => kept[o][m] = "answer"

\* The values the variables take, and what is kept.
ClientConsistent == ClientTypeOK /\ CachedAnswered
=============================================================================
