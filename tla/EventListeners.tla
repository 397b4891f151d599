---------------------------- MODULE EventListeners ----------------------------
(***************************************************************************)
(* The event listeners of a client (atspi/atspi-event-listener.c).         *)
(*                                                                         *)
(* Callbacks are called while the list of listeners is walked, and may     *)
(* register and deregister listeners.  Both make a call to registryd, with *)
(* whose answer the events that were put off are handled: callbacks run    *)
(* again in the middle of it, unless events are being handled already.  An *)
(* accessible whose last reference goes tells the listeners so at once, out*)
(* of turn, whoever drops the reference.  The stack below is the C stack:  *)
(* who is in the middle of what, the innermost last.                       *)
(***************************************************************************)
EXTENDS Integers, Sequences, FiniteSets, SequencesExt

CONSTANTS
    Callbacks,
    Wanted,        \* the event types listeners are registered for
    Broader,       \* other types they may be deregistered with
    Events,        \* what applications send, and what accessibles do
    Defunct,       \* the event of an accessible that goes
    MaxListeners,  \* bound: registrations
    MaxDeregs,     \* bound: deregistrations
    MaxEvents      \* bound: events

Types == Wanted \cup Broader

\* A type is its parts, and a shorter one stands for all it begins.
Covers(t, u) == IsPrefix(t, u)

\* Types of different lengths are not mixed: is_superset and _atspi_send_event
\* hand strcmp a NULL for a part that only one of them has.
ASSUME EventListenersAssumption ==
    /\ \A t \in Wanted, u \in Wanted : Covers(t, u) => t = u
    /\ \A t \in Broader, u \in Wanted : ~Covers(u, t)
    /\ \A t \in Wanted, e \in Events : ~Covers(e, t) \/ e = t
    /\ Defunct \in Events
    /\ MaxListeners \in Nat /\ MaxDeregs \in Nat /\ MaxEvents \in Nat

VARIABLES
    listeners,   \* event_listeners: nodes, the youngest first
    refs,        \* callbacks: references to each
    stack,       \* what is in process
    deferred,    \* deferred_messages: events by number and type
    rules,       \* match rules on the bus, by type
    registered,  \* registrations registryd has from this client, by type
    made, dropped, sent,  \* registrations, deregistrations and events so far
    stray        \* somebody walks on from a freed node

vars == <<listeners, refs, stack, deferred, rules, registered, made, dropped, sent,
          stray>>

Nodes == 1..MaxListeners
End == 0
Freed == -1

PlaceOf(n) == CHOOSE i \in DOMAIN listeners : listeners[i].node = n
Node(n) == listeners[PlaceOf(n)]
NodesNow == {e.node : e \in ToSet(listeners)}
FirstNode == IF listeners = <<>> THEN End ELSE Head(listeners).node

\* Nodes are numbered as they are made and the list begins with the youngest.
NextNode(n) ==
    LET older == {m \in NodesNow : m < n}
    IN  IF older = {} THEN End ELSE CHOOSE m \in older : \A k \in older : k <= m

Top == stack[Len(stack)]
Running(op) == stack # <<>> /\ Top.op = op
SetTop(frame) == [stack EXCEPT ![Len(stack)] = frame]
Pop == Front(stack)

\* in_process_deferred_messages.
Processing == \E i \in DOMAIN stack : stack[i].op = "process"

\* User code runs: the program's, or a callback.
UserRuns == stack = <<>> \/ (Running("walk") /\ Top.calling)

\* A call has had its answer: _atspi_process_deferred_messages.
AfterCall(frames) ==
    IF Processing THEN frames ELSE Append(frames, [op |-> "process", at |-> End])

-----------------------------------------------------------------------------
(***************************************************************************)
(* Registering and deregistering.                                          *)
(***************************************************************************)

\* Mutant: one rule for all the listeners of a type.
MutantAddRule(t) == rules' = [rules EXCEPT ![t] = 1]

\* External: the message bus counts equal rules, and refuses to remove none.
AddRule(t) == rules' = [rules EXCEPT ![t] = @ + 1]

RemoveRule(t) == rules' = [rules EXCEPT ![t] = IF @ = 0 THEN 0 ELSE @ - 1]

\* registryd's RegisterEvent and DeregisterEvent (module Registry): it forgets
\* every registration of the client that the type covers.
RegisterEvent(t) == registered' = [registered EXCEPT ![t] = @ + 1]

DeregisterEvent(t) ==
    registered' = [u \in Types |-> IF Covers(t, u) THEN 0 ELSE registered[u]]

\* atspi_event_listener_register_from_callback.
Register(c, t) ==
    /\ UserRuns
    /\ made < MaxListeners
    /\ made' = made + 1
    /\ listeners' = <<[node |-> made', callback |-> c, type |-> t]>> \o listeners
    /\ refs' = [refs EXCEPT ![c] = @ + 1]
    /\ AddRule(t)
    /\ RegisterEvent(t)
    /\ stack' = AfterCall(stack)
    /\ UNCHANGED <<deferred, dropped, sent, stray>>

\* atspi_event_listener_deregister_from_callback.
Deregister(c, t) ==
    /\ UserRuns
    /\ dropped < MaxDeregs
    /\ dropped' = dropped + 1
    /\ stack' = Append(stack, [op |-> "deregister", at |-> FirstNode, callback |-> c,
                               type |-> t, held |-> FALSE])
    /\ UNCHANGED <<listeners, refs, deferred, rules, registered, made, sent, stray>>

Deregistering == Running("deregister") /\ ~Top.held

ToBeDropped(e) == e.callback = Top.callback /\ Covers(Top.type, e.type)

DeregisterSkips ==
    /\ Deregistering
    /\ Top.at \in NodesNow
    /\ ~ToBeDropped(Node(Top.at))
    /\ stack' = SetTop([Top EXCEPT !.at = NextNode(Top.at)])
    /\ UNCHANGED <<listeners, refs, deferred, rules, registered, made, dropped, sent,
                   stray>>

\* The node is freed at once, under whoever else is at it; the entry when the
\* call to registryd is over.
FreeNode(n, frames) ==
    [i \in DOMAIN frames |->
        LET f == [frames[i] EXCEPT !.at = IF @ = n THEN Freed ELSE @]
        IN  IF f.op = "walk" THEN [f EXCEPT !.due = @ \ {n}] ELSE f]

DeregisterTakes ==
    /\ Deregistering
    /\ Top.at \in NodesNow
    /\ ToBeDropped(Node(Top.at))
    /\ listeners' = RemoveAt(listeners, PlaceOf(Top.at))
    /\ RemoveRule(Top.type)
    /\ DeregisterEvent(Top.type)
    /\ LET held == [Top EXCEPT !.at = NextNode(Top.at), !.held = TRUE]
       IN  stack' = AfterCall(FreeNode(Top.at, SetTop(held)))
    /\ UNCHANGED <<refs, deferred, made, dropped, sent, stray>>

\* Mutant: the entry is freed without callback_unref.
MutantFreesBare ==
    /\ Running("deregister") /\ Top.held
    /\ stack' = SetTop([Top EXCEPT !.held = FALSE])
    /\ UNCHANGED <<listeners, refs, deferred, rules, registered, made, dropped, sent, stray>>

\* listener_entry_free, callback_unref.
DeregisterFrees ==
    /\ Running("deregister") /\ Top.held
    /\ refs' = [refs EXCEPT ![Top.callback] = @ - 1]
    /\ stack' = SetTop([Top EXCEPT !.held = FALSE])
    /\ UNCHANGED <<listeners, deferred, rules, registered, made, dropped, sent, stray>>

DeregisterEnds ==
    /\ Deregistering
    /\ Top.at = End
    /\ stack' = Pop
    /\ UNCHANGED <<listeners, refs, deferred, rules, registered, made, dropped, sent,
                   stray>>

-----------------------------------------------------------------------------
(***************************************************************************)
(* Events.                                                                 *)
(***************************************************************************)

\* An event somebody has a rule for is put off (module ClientCache).
EventArrives(e) ==
    /\ sent < MaxEvents
    /\ \E t \in Types : rules[t] > 0 /\ Covers(t, e)
    /\ sent' = sent + 1
    /\ deferred' = Append(deferred, [number |-> sent', type |-> e])
    /\ UNCHANGED <<listeners, refs, stack, rules, registered, made, dropped, stray>>

IdleProcesses ==
    /\ stack = <<>> /\ deferred # <<>>
    /\ stack' = AfterCall(stack)
    /\ UNCHANGED <<listeners, refs, deferred, rules, registered, made, dropped, sent,
                   stray>>

\* The beginning of _atspi_send_event.  (due: whom to tell.)
Tell(event) ==
    stack' = Append(stack,
        [op |-> "walk", at |-> FirstNode, event |-> event, calling |-> FALSE,
         due |-> {n \in NodesNow : Covers(Node(n).type, event.type)}])

\* _atspi_dbus_handle_event.
HandleEvent ==
    /\ Running("process")
    /\ deferred # <<>>
    /\ deferred' = Tail(deferred)
    /\ Tell(Head(deferred))
    /\ UNCHANGED <<listeners, refs, rules, registered, made, dropped, sent, stray>>

\* Not a message: nobody's turn was waited for.
NoNumber == 0

\* User code, or a message being handled (the source of an event that has been
\* told, an object that is removed), drops the last reference of an accessible:
\* atspi_accessible_dispose.
DisposeTells ==
    /\ UserRuns \/ Running("process")
    /\ sent < MaxEvents
    /\ sent' = sent + 1
    /\ Tell([number |-> NoNumber, type |-> Defunct])
    /\ UNCHANGED <<listeners, refs, deferred, rules, registered, made, dropped, stray>>

ProcessEnds ==
    /\ Running("process")
    /\ deferred = <<>>
    /\ stack' = Pop
    /\ UNCHANGED <<listeners, refs, deferred, rules, registered, made, dropped, sent,
                   stray>>

Walking == Running("walk") /\ ~Top.calling

WalkSkips ==
    /\ Walking
    /\ Top.at \in NodesNow
    /\ ~Covers(Node(Top.at).type, Top.event.type)
    /\ stack' = SetTop([Top EXCEPT !.at = NextNode(Top.at)])
    /\ UNCHANGED <<listeners, refs, deferred, rules, registered, made, dropped, sent,
                   stray>>

WalkCalls ==
    /\ Walking
    /\ Top.at \in NodesNow
    /\ Covers(Node(Top.at).type, Top.event.type)
    /\ stack' = SetTop([Top EXCEPT !.calling = TRUE, !.due = @ \ {Top.at}])
    /\ UNCHANGED <<listeners, refs, deferred, rules, registered, made, dropped, sent,
                   stray>>

\* Mutant: the walk goes on to the node after the next one.
MutantCallbackReturns ==
    /\ Running("walk") /\ Top.calling
    /\ Top.at # Freed
    /\ stack' = SetTop([Top EXCEPT !.calling = FALSE, !.at = NextNode(NextNode(Top.at))])
    /\ UNCHANGED <<listeners, refs, deferred, rules, registered, made, dropped, sent,
                   stray>>

\* A callback returns to the walk that has called it.
CallbackReturns ==
    /\ Running("walk") /\ Top.calling
    /\ Top.at # Freed
    /\ stack' = SetTop([Top EXCEPT !.calling = FALSE, !.at = NextNode(Top.at)])
    /\ UNCHANGED <<listeners, refs, deferred, rules, registered, made, dropped, sent,
                   stray>>

WalkEnds ==
    /\ Walking
    /\ Top.at = End
    /\ stack' = Pop
    /\ UNCHANGED <<listeners, refs, deferred, rules, registered, made, dropped, sent,
                   stray>>

\* The next node is read from one that was freed: what is there may be NULL or
\* still lead on.
GoAstray ==
    /\ stack # <<>> /\ Top.at = Freed
    /\ \/ Running("walk") /\ Top.calling
       \/ Deregistering
    /\ stray' = TRUE
    /\ \E n \in NodesNow \cup {End} :
          stack' = SetTop(IF Top.op = "walk"
                          THEN [Top EXCEPT !.at = n, !.calling = FALSE]
                          ELSE [Top EXCEPT !.at = n])
    /\ UNCHANGED <<listeners, refs, deferred, rules, registered, made, dropped, sent>>

-----------------------------------------------------------------------------
Init ==
    /\ listeners = <<>>
    /\ refs = [c \in Callbacks |-> 0]
    /\ stack = <<>>
    /\ deferred = <<>>
    /\ rules = [t \in Types |-> 0]
    /\ registered = [t \in Types |-> 0]
    /\ made = 0 /\ dropped = 0 /\ sent = 0
    /\ stray = FALSE

LibraryNext ==
    \/ DeregisterSkips \/ DeregisterTakes \/ DeregisterFrees \/ DeregisterEnds
    \/ IdleProcesses \/ HandleEvent \/ ProcessEnds
    \/ WalkSkips \/ WalkCalls \/ WalkEnds \/ GoAstray

Next ==
    \/ LibraryNext \/ DisposeTells \/ CallbackReturns
    \/ \E c \in Callbacks :
          \/ \E t \in Wanted : Register(c, t)
          \/ \E t \in Types : Deregister(c, t)
    \/ \E e \in Events : EventArrives(e)

Spec == Init /\ [][Next]_vars

-----------------------------------------------------------------------------
Frame ==
    [op : {"process"}, at : {End}]
    \cup [op : {"deregister"}, at : Nodes \cup {End, Freed}, callback : Callbacks,
          type : Types, held : BOOLEAN]
    \cup [op : {"walk"}, at : Nodes \cup {End, Freed},
          event : [number : 0..MaxEvents, type : Events], calling : BOOLEAN,
          due : SUBSET Nodes]

\* The values the variables take; no callback loses a reference it does not have.
TypeOK ==
    /\ listeners \in Seq([node : Nodes, callback : Callbacks, type : Wanted])
    /\ refs \in [Callbacks -> Nat]
    /\ stack \in Seq(Frame)
    /\ deferred \in Seq([number : 1..MaxEvents, type : Events])
    /\ rules \in [Types -> Nat] /\ registered \in [Types -> Nat]
    /\ made \in 0..MaxListeners /\ dropped \in 0..MaxDeregs /\ sent \in 0..MaxEvents
    /\ stray \in BOOLEAN

\* An event reaches every listener that was registered when its turn came and
\* still is, though callbacks change the list meanwhile and tell of accessibles
\* that go (_atspi_send_event).  Once a callback has removed the very listener it,
\* or a callback around it, is called for, all bets are off.
AllTold ==
    ~stray => \A i \in DOMAIN stack :
                 stack[i].op = "walk" /\ stack[i].at = End => stack[i].due = {}

\* Events from applications are handled one after another: no callback is told of
\* one while another callback has yet to be told of an earlier one
\* (in_process_deferred_messages), whatever accessibles go in between.
OneAtATime ==
    \A i, j \in DOMAIN stack :
        /\ stack[i].op = "walk" /\ stack[i].event.number # NoNumber
        /\ stack[j].op = "walk" /\ stack[j].event.number # NoNumber
        => i = j

\* Nobody is deaf: there are as many match rules for a type as listeners, at
\* least, whatever broader types listeners were deregistered with.
NobodyDeaf ==
    \A t \in Wanted :
        rules[t] >= Cardinality({n \in NodesNow : Node(n).type = t})

\* A callback has a reference for each of its listeners, and for each one that is
\* about to be freed.
ReferencesHeld ==
    \A c \in Callbacks :
        refs[c] = Cardinality({n \in NodesNow : Node(n).callback = c})
                + Cardinality({i \in DOMAIN stack :
                      stack[i].op = "deregister" /\ stack[i].held
                          /\ stack[i].callback = c})

\* The values the variables take, the callbacks that run and the references.
Consistent == TypeOK /\ OneAtATime /\ ReferencesHeld
=============================================================================
