----------------------------- MODULE ClientCache ------------------------------
(***************************************************************************)
(* The client library's copy of an application's accessibles               *)
(* (atspi/atspi-misc.c, atspi-accessible.c, atspi-event-listener.c).       *)
(*                                                                         *)
(* An accessible with children that come and go and a name stands for the  *)
(* application.  The client asks for everything once (GetItems), from then *)
(* on follows signals, and asks for what it has not cached.  Signals do not*)
(* take effect when they are dispatched: they are put off                  *)
(* (deferred_messages) until an idle callback, or until a call has had its *)
(* answer.  Answers overtake them: a call blocks and leaves what came      *)
(* before its answer undispatched, GetItems is handled when dispatched,    *)
(* and an application with a bus of its own answers there.                 *)
(***************************************************************************)
EXTENDS Integers, Sequences, FiniteSets, SequencesExt

CONSTANTS
    Objects,     \* accessibles that are or will be children
    FirstKids,   \* children at the start, each once
    MaxChanges,  \* bound: changes of the application
    MaxCalls     \* bound: calls the client makes for the name

ASSUME ClientCacheAssumption ==
    /\ FirstKids \in Seq(Objects) /\ IsInjective(FirstKids)
    /\ MaxChanges \in Nat /\ MaxCalls \in Nat

VARIABLES
    \* The application.
    kids,        \* the children, in their order
    title,       \* the name, by version
    announced,   \* objects it has told of with AddAccessible or GetItems
    gone,        \* objects that were destroyed
    \* Messages on their way to the client.
    inbox,       \* signals the client's connection has, in order
    stage,       \* how far the client's first questions have got
    direct,      \* the application's own bus: none, opened, in the main loop
    answer,      \* the answer to the current one of these questions
    \* The client library.
    deferred,    \* deferred_messages
    idle,        \* process_deferred_messages_id # -1
    process,     \* who runs _atspi_process_deferred_messages
    handler,     \* what its callback is in the middle of
    nested,      \* the callback runs a main loop of its own
    calls,       \* blocking calls for the name, the innermost last
    \* The cache.
    known,       \* app->hash
    parented,    \* those whose accessible_parent is the parent
    children, hasKids, name, hasName,
    \* History.
    sent, handled, \* how many signals were sent and handled
    asked,         \* how many calls were made
    overtaken,     \* an answer was stored that tells less than signals
                   \* handled before it
    replayed       \* signals are handled that GetItems has told of

appVars == <<kids, title, announced, gone>>
busVars == <<inbox, stage, direct, answer>>
clientVars == <<deferred, idle, process, handler, nested, calls>>
cacheVars == <<known, parented, children, hasKids, name, hasName>>
historyVars == <<overtaken, replayed>>
vars == <<appVars, busVars, clientVars, cacheVars, sent, handled, asked, historyVars>>

NoAnswer == [kind |-> "none"]
Failed == [kind |-> "failed"]
NoHandler == [kind |-> "none"]
RangeOf(s) == {s[i] : i \in DOMAIN s}

\* g_list_remove: the first one goes, if there is one.
PlaceOf(s, x) == CHOOSE i \in DOMAIN s : s[i] = x /\ \A j \in 1..(i - 1) : s[j] # x
Without(s, x) == IF x \in RangeOf(s) THEN RemoveAt(s, PlaceOf(s, x)) ELSE s

Smaller(i, j) == IF i < j THEN i ELSE j

\* g_list_insert: a position past the end is the end.
InsertedAt(s, x, i) ==
    LET at == Smaller(i, Len(s))
    IN  SubSeq(s, 1, at) \o <<x>> \o SubSeq(s, at + 1, Len(s))

(***************************************************************************)
(* External: the application.  It tells of an object once, whether before  *)
(* or after the object becomes a child, and of every change.               *)
(***************************************************************************)
Signal(message) ==
    /\ sent' = sent + 1
    /\ inbox' = Append(inbox, message)

Change(message) ==
    /\ sent < MaxChanges
    /\ Signal(message)
    /\ UNCHANGED <<stage, direct, answer, clientVars, cacheVars, handled, asked,
                   historyVars>>

Rename ==
    /\ title' = title + 1
    /\ Change([kind |-> "PropertyChange", name |-> title', number |-> sent + 1])
    /\ UNCHANGED <<kids, announced, gone>>

AddChild(o, i) ==
    /\ o \notin gone /\ o \notin RangeOf(kids)
    /\ i \in 0..Len(kids)
    /\ kids' = InsertedAt(kids, o, i)
    /\ Change([kind |-> "add", object |-> o, index |-> i, number |-> sent + 1])
    /\ UNCHANGED <<title, announced, gone>>

RemoveChild(o) ==
    /\ o \in RangeOf(kids)
    /\ kids' = Without(kids, o)
    /\ Change([kind |-> "remove", object |-> o, number |-> sent + 1])
    /\ UNCHANGED <<title, announced, gone>>

Announce(o) ==
    /\ o \notin announced \cup gone
    /\ announced' = announced \cup {o}
    /\ Change([kind |-> "AddAccessible", object |-> o, child |-> o \in RangeOf(kids),
               number |-> sent + 1])
    /\ UNCHANGED <<kids, title, gone>>

Destroy(o) ==
    /\ o \in announced \ RangeOf(kids)
    /\ announced' = announced \ {o}
    /\ gone' = gone \cup {o}
    /\ Change([kind |-> "RemoveAccessible", object |-> o, number |-> sent + 1])
    /\ UNCHANGED <<kids, title>>

\* The answers to the questions of get_application and handle_get_bus_address.
\* An answer on the same bus comes after the signals that were sent before it.
AnswerAddress ==
    /\ stage = "address"
    /\ answer = NoAnswer
    /\ \E own \in {"no", "opened"} :
          answer' = [kind |-> "address", direct |-> own, number |-> sent]
    /\ UNCHANGED <<appVars, inbox, stage, direct, clientVars, cacheVars, sent,
                   handled, asked, historyVars>>

AnswerItems ==
    /\ stage = "items"
    /\ answer = NoAnswer
    /\ answer' = [kind |-> "items", kids |-> kids, name |-> title,
                  announced |-> announced, number |-> sent]
    /\ UNCHANGED <<appVars, inbox, stage, direct, clientVars, cacheVars, sent,
                   handled, asked, historyVars>>

AnswerCall ==
    /\ calls # <<>>
    /\ calls[Len(calls)] = NoAnswer
    /\ direct = "no" \/ answer = NoAnswer   \* it answers in order
    /\ calls' = [calls EXCEPT ![Len(calls)] =
                    [kind |-> "name", name |-> title, number |-> sent]]
    /\ UNCHANGED <<appVars, busVars, deferred, idle, process, handler, nested,
                   cacheVars, sent, handled, asked, historyVars>>

-----------------------------------------------------------------------------
(***************************************************************************)
(* What messages do to the cache.                                          *)
(***************************************************************************)

\* add_accessible_from_iter for each item: the parent's and those of objects
\* the application has announced.
SetItems(items) ==
    /\ known' = known \cup RangeOf(items.kids) \cup items.announced
    /\ parented' = (parented \ items.announced)
                     \cup (items.announced \cap RangeOf(items.kids))
    /\ children' = items.kids
    /\ name' = items.name
    /\ hasKids' = TRUE /\ hasName' = TRUE
    /\ overtaken' = (overtaken \/ handled > items.number)
    /\ replayed' = (replayed \/ handled < items.number)

\* ref_accessible makes the accessible when the table does not have it.
RefAccessible(o) == known' = known \cup {o}

\* handle_add_accessible for an object without children.
AddAccessible(o, child) ==
    /\ RefAccessible(o)
    /\ parented' = IF child THEN parented \cup {o} ELSE parented \ {o}
    /\ UNCHANGED <<children, hasKids, name, hasName>>

\* Mutant: a child that is there already is inserted again.
MutantChildrenChanged(m) ==
    /\ RefAccessible(m.object)
    /\ children' = IF ~hasKids THEN children
                   ELSE IF m.kind = "remove" THEN Without(children, m.object)
                   ELSE InsertedAt(children, m.object, m.index)
    /\ UNCHANGED <<parented, hasKids, name, hasName>>

\* cache_process_children_changed, with the child the event brings.
ChildrenChanged(m) ==
    /\ RefAccessible(m.object)
    /\ children' =
          IF ~hasKids THEN children
          ELSE IF m.kind = "remove" THEN Without(children, m.object)
          ELSE IF m.object \in RangeOf(children) THEN children
          ELSE InsertedAt(children, m.object, m.index)
    /\ UNCHANGED <<parented, hasKids, name, hasName>>

\* cache_process_property_change.
PropertyChange(m) ==
    /\ name' = m.name
    /\ hasName' = TRUE
    /\ UNCHANGED <<known, parented, children, hasKids>>

\* _atspi_dbus_handle_event: the cache first, then the listeners.
HandleEvent(m) ==
    /\ IF m.kind = "PropertyChange" THEN PropertyChange(m) ELSE ChildrenChanged(m)
    /\ handler' = [kind |-> "event"]

\* Mutant: a disposed accessible stays in the table.
MutantDisposeKept(o) ==
    /\ children' = IF o \in parented THEN Without(children, o) ELSE children
    /\ parented' = parented \ {o}
    /\ UNCHANGED <<known, hasKids, name, hasName>>

\* handle_remove_accessible and atspi_accessible_dispose after its event.
Dispose(o) ==
    /\ children' = IF o \in parented THEN Without(children, o) ELSE children
    /\ known' = known \ {o}
    /\ parented' = parented \ {o}
    /\ UNCHANGED <<hasKids, name, hasName>>

-----------------------------------------------------------------------------
(***************************************************************************)
(* The main loop, the deferred queue and calls.                            *)
(***************************************************************************)
Blocked == calls # <<>> /\ calls[Len(calls)] = NoAnswer

\* User code runs: called by the main loop, or by a handler.
UserRuns == ~Blocked /\ ~nested /\ (process = "no" \/ handler # NoHandler)
MainLoop == nested \/ (process = "no" /\ calls = <<>>)

\* Mutant: the queue is a stack.
MutantDeferFirst(m) ==
    /\ deferred' = <<m>> \o deferred
    /\ idle' = TRUE

\* defer_message.
DeferMessage(m) ==
    /\ deferred' = Append(deferred, m)
    /\ idle' = TRUE

\* On a shared bus the answer waits for the signals sent before it.
AnswerDue ==
    /\ answer # NoAnswer
    /\ direct # "no" \/ \A i \in DOMAIN inbox : inbox[i].number > answer.number

SignalDue == inbox # <<>> /\ (direct # "no" \/ ~AnswerDue)

\* atspi_dbus_filter.
Dispatch ==
    /\ MainLoop
    /\ SignalDue
    /\ inbox' = Tail(inbox)
    /\ DeferMessage(Head(inbox))
    /\ UNCHANGED <<appVars, stage, direct, answer, process, handler, nested, calls,
                   cacheVars, sent, handled, asked, historyVars>>

\* handle_get_bus_address asks for the items, on the bus it has now;
\* handle_get_items stores them.  A bus of the application's own has no unique
\* name: a call on it puts it into the main loop, and dispatches it (and it
\* alone) until the answer is there (dbind_send_and_allow_reentry).
DispatchAnswer ==
    /\ \/ MainLoop /\ direct # "opened"
       \/ Blocked /\ direct # "no"
    /\ AnswerDue
    /\ answer' = NoAnswer
    /\ \/ /\ answer.kind = "address"
          /\ direct' = answer.direct /\ stage' = "items"
          /\ UNCHANGED <<cacheVars, historyVars>>
       \/ /\ answer.kind = "items"
          /\ SetItems(answer)
          /\ stage' = "done" /\ UNCHANGED direct
    /\ UNCHANGED <<appVars, inbox, clientVars, sent, handled, asked>>

\* A question that waits for 2 s is answered with an error.
QuestionFails ==
    /\ MainLoop /\ direct # "opened"
    /\ stage \in {"address", "items"}
    /\ stage' = IF stage = "address" THEN "items" ELSE "done"
    /\ answer' = NoAnswer
    /\ UNCHANGED <<appVars, inbox, direct, clientVars, cacheVars, sent, handled,
                   asked, historyVars>>

\* _atspi_process_deferred_messages, from the idle callback or with the answer of
\* a call; one that is called in the middle of another returns at once.
ProcessBegins ==
    /\ process = "no"
    /\ \/ /\ idle /\ calls = <<>> /\ process' = "idle"
       \/ /\ calls # <<>> /\ ~Blocked /\ process' = "call"
    /\ UNCHANGED <<appVars, busVars, deferred, idle, handler, nested, calls,
                   cacheVars, sent, handled, asked, historyVars>>

Processing == process # "no" /\ handler = NoHandler /\ ~nested

\* process_deferred_message, up to the user's callback.
HandleMessage ==
    /\ Processing /\ ~Blocked
    /\ deferred # <<>>
    /\ deferred' = Tail(deferred)
    /\ handled' = handled + 1
    /\ LET m == Head(deferred)
       IN  CASE m.kind = "AddAccessible" ->
                    AddAccessible(m.object, m.child) /\ UNCHANGED handler
             [] m.kind = "RemoveAccessible" ->
                    /\ RefAccessible(m.object)
                    /\ handler' = [kind |-> "dispose", object |-> m.object]
                    /\ UNCHANGED <<parented, children, hasKids, name, hasName>>
             [] OTHER -> HandleEvent(m)
    /\ UNCHANGED <<appVars, busVars, idle, process, nested, calls, sent, asked,
                   historyVars>>

\* The callback has no call of its own under way.
InCallback == handler # NoHandler /\ (calls = <<>> \/ (process = "call" /\ Len(calls) = 1))

CallbackReturns ==
    /\ InCallback /\ ~nested
    /\ IF handler.kind = "dispose" THEN Dispose(handler.object) ELSE UNCHANGED cacheVars
    /\ handler' = NoHandler
    /\ UNCHANGED <<appVars, busVars, deferred, idle, process, nested, calls, sent,
                   handled, asked, historyVars>>

\* A main loop of the callback's own; the idle callback, which may run there,
\* finds in_process_deferred_messages set.
EnterLoop ==
    /\ InCallback /\ ~nested
    /\ nested' = TRUE
    /\ UNCHANGED <<appVars, busVars, deferred, idle, process, handler, calls,
                   cacheVars, sent, handled, asked, historyVars>>

LeaveLoop ==
    /\ nested
    /\ nested' = FALSE
    /\ UNCHANGED <<appVars, busVars, deferred, idle, process, handler, calls,
                   cacheVars, sent, handled, asked, historyVars>>

\* atspi_accessible_get_name, when the call it made has come back: an error
\* leaves the cache alone.
StoreName(reply) ==
    IF reply = Failed
    THEN UNCHANGED <<cacheVars, overtaken>>
    ELSE /\ name' = reply.name
         /\ hasName' = TRUE
         /\ overtaken' = (overtaken \/ handled > reply.number)
         /\ UNCHANGED <<known, parented, children, hasKids>>

ProcessEnds ==
    /\ Processing /\ deferred = <<>>
    /\ process' = "no"
    /\ idle' = (idle /\ process = "call")
    /\ IF process = "call"
       THEN StoreName(calls[1]) /\ calls' = <<>>
       ELSE UNCHANGED <<calls, cacheVars, overtaken>>
    /\ UNCHANGED <<appVars, busVars, deferred, handler, nested, sent, handled, asked,
                   replayed>>

\* atspi_accessible_get_name: _atspi_dbus_get_property when not cached.
GetName ==
    /\ UserRuns
    /\ calls = <<>> \/ InCallback
    /\ ~hasName
    /\ asked < MaxCalls
    /\ asked' = asked + 1
    /\ calls' = Append(calls, NoAnswer)
    /\ direct' = IF direct = "opened" THEN "watched" ELSE direct
    /\ UNCHANGED <<appVars, inbox, stage, answer, deferred, idle, process, handler,
                   nested, cacheVars, sent, handled, historyVars>>

\* The answer of a call made in a callback: the messages are being processed
\* already.
InnerCallReturns ==
    /\ handler # NoHandler /\ ~InCallback
    /\ ~Blocked
    /\ StoreName(calls[Len(calls)])
    /\ calls' = SubSeq(calls, 1, Len(calls) - 1)
    /\ UNCHANGED <<appVars, busVars, deferred, idle, process, handler, nested,
                   sent, handled, asked, replayed>>

\* The call's timeout, or an error.
CallFails ==
    /\ Blocked
    /\ calls' = [calls EXCEPT ![Len(calls)] = Failed]
    /\ UNCHANGED <<appVars, busVars, deferred, idle, process, handler, nested,
                   cacheVars, sent, handled, asked, historyVars>>

\* atspi_accessible_clear_cache.
ClearCache ==
    /\ UserRuns /\ (calls = <<>> \/ InCallback)
    /\ hasKids' = FALSE /\ hasName' = FALSE
    /\ UNCHANGED <<appVars, busVars, clientVars, known, parented, children, name,
                   sent, handled, asked, historyVars>>

-----------------------------------------------------------------------------
Init ==
    /\ kids = FirstKids /\ title = 0
    /\ announced = RangeOf(FirstKids) /\ gone = {}
    /\ inbox = <<>> /\ stage = "address" /\ direct = "no" /\ answer = NoAnswer
    /\ deferred = <<>> /\ idle = FALSE /\ process = "no"
    /\ handler = NoHandler /\ nested = FALSE /\ calls = <<>>
    /\ known = {} /\ parented = {} /\ children = <<>> /\ hasKids = FALSE
    /\ name = 0 /\ hasName = FALSE
    /\ sent = 0 /\ handled = 0 /\ asked = 0
    /\ overtaken = FALSE /\ replayed = FALSE

AppNext ==
    \/ Rename \/ AnswerAddress \/ AnswerItems \/ AnswerCall
    \/ \E o \in Objects :
          \/ \E i \in 0..Len(kids) : AddChild(o, i)
          \/ RemoveChild(o) \/ Announce(o) \/ Destroy(o)

ClientNext ==
    \/ Dispatch \/ DispatchAnswer \/ QuestionFails \/ ProcessBegins \/ HandleMessage
    \/ CallbackReturns \/ EnterLoop \/ LeaveLoop \/ ProcessEnds \/ GetName \/ InnerCallReturns
    \/ CallFails \/ ClearCache

Next == AppNext \/ ClientNext

Spec == Init /\ [][Next]_vars

-----------------------------------------------------------------------------
Message ==
    [kind : {"PropertyChange"}, name : Nat, number : Nat]
    \cup [kind : {"add"}, object : Objects, index : Nat, number : Nat]
    \cup [kind : {"remove", "RemoveAccessible"}, object : Objects, number : Nat]
    \cup [kind : {"AddAccessible"}, object : Objects, child : BOOLEAN, number : Nat]

QuestionAnswer ==
    {NoAnswer}
    \cup [kind : {"address"}, direct : {"no", "opened"}, number : Nat]
    \cup [kind : {"items"}, kids : Seq(Objects), name : Nat,
          announced : SUBSET Objects, number : Nat]

CallAnswer == {NoAnswer, Failed} \cup [kind : {"name"}, name : Nat, number : Nat]

\* The values the variables take.
TypeOK ==
    /\ kids \in Seq(Objects) /\ title \in Nat
    /\ announced \subseteq Objects /\ gone \subseteq Objects
    /\ inbox \in Seq(Message) /\ stage \in {"address", "items", "done"}
    /\ direct \in {"no", "opened", "watched"} /\ answer \in QuestionAnswer
    /\ deferred \in Seq(Message) /\ idle \in BOOLEAN
    /\ process \in {"no", "idle", "call"}
    /\ handler \in {NoHandler} \cup [kind : {"event"}]
                   \cup [kind : {"dispose"}, object : Objects]
    /\ nested \in BOOLEAN /\ calls \in Seq(CallAnswer)
    /\ known \subseteq Objects /\ parented \subseteq Objects
    /\ children \in Seq(Objects) /\ hasKids \in BOOLEAN
    /\ name \in Nat /\ hasName \in BOOLEAN
    /\ sent \in Nat /\ handled \in Nat /\ asked \in Nat
    /\ overtaken \in BOOLEAN /\ replayed \in BOOLEAN

\* A message that was put off will be looked at: the idle callback is there, or
\* somebody is processing the queue (defer_message adds the callback only when
\* the id says there is none).
IdleScheduled == deferred # <<>> => idle \/ process # "no"

\* Signals are handled in the order in which they were sent and none is lost,
\* through the bus, the deferred queue, calls and nested main loops.
NoneLostOrSwapped ==
    LET pending == deferred \o inbox
    IN  /\ Len(pending) = sent - handled
        /\ \A i \in DOMAIN pending : pending[i].number = handled + i

Quiet == inbox = <<>> /\ deferred = <<>> /\ process = "no" /\ calls = <<>>

\* Once everything is handled, what is cached is what the application has,
\* though signals were handled twice over: as part of GetItems' answer and, put
\* off, after it.  Only the order of children may then differ.  An answer that
\* was overtaken by the signals it tells less of is excepted.
CacheSettles ==
    Quiet /\ ~overtaken =>
        /\ hasName => name = title
        /\ hasKids => /\ RangeOf(children) = RangeOf(kids)
                      /\ Len(children) = Len(kids)
                      /\ ~replayed => children = kids

\* Cached children are those of the application's table, so that
\* RemoveAccessible reaches them.
ChildrenKnown == hasKids /\ ~overtaken => RangeOf(children) \subseteq known

\* Once everything is handled no destroyed object is left in the table: none was
\* made again by a late message that mentions it.
NothingLeftBehind == Quiet /\ ~overtaken => known \cap gone = {}

\* The table, the cache and the queue agree with one another.
Consistent == TypeOK /\ IdleScheduled /\ ChildrenKnown /\ NothingLeftBehind
=============================================================================
