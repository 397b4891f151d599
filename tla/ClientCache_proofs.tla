------------------------- MODULE ClientCache_proofs ---------------------------
(***************************************************************************)
(* No signal that was put off is forgotten, lost or handled out of order;  *)
(* and the cache follows the application: what it holds is what the        *)
(* application had after the signals that were handled, and the signals on *)
(* their way lead from there to what the application has now.  The queues  *)
(* come first; then lists of children, what one signal changes about what  *)
(* is on its way (Coming, a set of signals numbered without a gap), and    *)
(* the step of each action.                                                *)
(***************************************************************************)
EXTENDS ClientCache, SequenceTheorems, FiniteSetTheorems, TLAPS

\* The two queues hold the signals between the last one handled and the last
\* one sent, in order.
Pending(d, b, s, h) ==
    /\ s \in Nat /\ h \in Nat
    /\ Len(d) + Len(b) = s - h
    /\ \A i \in 1..Len(d) : d[i].number = h + i
    /\ \A i \in 1..Len(b) : b[i].number = h + Len(d) + i

\* Both are sequences, of whatever.
Sequences2(d, b) == \E S : d \in Seq(S) /\ b \in Seq(S)

QueueInv ==
    /\ Sequences2(deferred, inbox)
    /\ Pending(deferred, inbox, sent, handled)
    /\ IdleScheduled

\* What a step does to the queues.
Sends ==
    /\ \E m : inbox' = Append(inbox, m) /\ m.number = sent + 1
    /\ sent' = sent + 1
    /\ UNCHANGED <<deferred, handled, idle, process>>

Defers ==
    /\ inbox # <<>>
    /\ inbox' = Tail(inbox)
    /\ deferred' = Append(deferred, Head(inbox))
    /\ idle' = TRUE
    /\ UNCHANGED <<sent, handled, process>>

Handles ==
    /\ deferred # <<>> /\ process # "no"
    /\ deferred' = Tail(deferred)
    /\ handled' = handled + 1
    /\ UNCHANGED <<inbox, sent, idle, process>>

Leaves ==
    /\ UNCHANGED <<deferred, inbox, sent, handled>>
    /\ \/ UNCHANGED <<idle, process>>
       \/ idle' = idle /\ process' # "no"
       \/ deferred = <<>>

LEMMA AppSteps == ASSUME AppNext PROVE Sends \/ Leaves
<1>1. CASE Rename
  BY <1>1 DEF Rename, Change, Signal, Sends, clientVars
<1>2. CASE AnswerAddress \/ AnswerItems \/ AnswerCall
  BY <1>2 DEF AnswerAddress, AnswerItems, AnswerCall, Leaves, clientVars, busVars
<1>3. ASSUME NEW o \in Objects, NEW i \in 0..Len(kids), AddChild(o, i) PROVE Sends
  BY <1>3 DEF AddChild, Change, Signal, Sends, clientVars
<1>4. ASSUME NEW o \in Objects, RemoveChild(o) PROVE Sends
  BY <1>4 DEF RemoveChild, Change, Signal, Sends, clientVars
<1>5. ASSUME NEW o \in Objects, Announce(o) PROVE Sends
  BY <1>5 DEF Announce, Change, Signal, Sends, clientVars
<1>6. ASSUME NEW o \in Objects, Destroy(o) PROVE Sends
  BY <1>6 DEF Destroy, Change, Signal, Sends, clientVars
<1> QED BY <1>1, <1>2, <1>3, <1>4, <1>5, <1>6 DEF AppNext

LEMMA ClientSteps == ASSUME ClientNext PROVE Defers \/ Handles \/ Leaves
<1>1. CASE Dispatch
  BY <1>1 DEF Dispatch, SignalDue, DeferMessage, Defers
<1>2. CASE DispatchAnswer \/ QuestionFails
  BY <1>2 DEF DispatchAnswer, QuestionFails, Leaves, clientVars
<1>3. CASE HandleMessage
  BY <1>3 DEF HandleMessage, Processing, Handles, busVars
<1>4. CASE ProcessBegins
  BY <1>4 DEF ProcessBegins, Leaves, busVars
<1>5. CASE CallbackReturns \/ EnterLoop \/ LeaveLoop
  BY <1>5 DEF CallbackReturns, EnterLoop, LeaveLoop, Leaves, busVars
<1>6. CASE ProcessEnds
  BY <1>6 DEF ProcessEnds, Leaves, busVars
<1>7. CASE GetName \/ InnerCallReturns \/ CallFails \/ ClearCache
  BY <1>7 DEF GetName, InnerCallReturns, CallFails, ClearCache, Leaves, busVars, clientVars
<1> QED BY <1>1, <1>2, <1>3, <1>4, <1>5, <1>6, <1>7 DEF ClientNext

LEMMA SeqGrows == ASSUME NEW S, NEW T, S \subseteq T, NEW s \in Seq(S) PROVE s \in Seq(T)
  OBVIOUS

\* A signal is sent.
LEMMA SendKeeps == ASSUME QueueInv, Sends PROVE QueueInv'
<1>1. PICK S : deferred \in Seq(S) /\ inbox \in Seq(S)
  BY DEF QueueInv, Sequences2
<1>2. PICK m : inbox' = Append(inbox, m) /\ m.number = sent + 1
  BY DEF Sends
<1>3. inbox \in Seq(S \cup {m}) /\ deferred \in Seq(S \cup {m})
  BY <1>1, SeqGrows
<1>4. inbox' \in Seq(S \cup {m})
  BY <1>2, <1>3
<1>5. /\ Len(inbox') = Len(inbox) + 1
      /\ \A i \in 1..Len(inbox) : inbox'[i] = inbox[i]
      /\ inbox'[Len(inbox) + 1] = m
  BY <1>2, <1>3
<1>6. Sequences2(deferred, inbox)'
  BY <1>3, <1>4 DEF Sequences2, Sends
<1>7. Pending(deferred, inbox, sent, handled)'
  <2>1. Len(deferred) \in Nat /\ Len(inbox) \in Nat
    BY <1>1
  <2>2. ASSUME NEW i \in 1..Len(inbox') PROVE inbox'[i].number = handled + Len(deferred) + i
    BY <2>1, <1>2, <1>5 DEF QueueInv, Pending
  <2>3. /\ sent' = sent + 1 /\ handled' = handled /\ deferred' = deferred
        /\ sent \in Nat /\ handled \in Nat /\ Len(deferred) + Len(inbox) = sent - handled
        /\ \A i \in 1..Len(deferred) : deferred[i].number = handled + i
    BY DEF QueueInv, Pending, Sends
  <2>4. sent' \in Nat /\ Len(deferred') + Len(inbox') = sent' - handled'
    BY <2>1, <2>3, <1>5
  <2> QED BY <2>2, <2>3, <2>4 DEF Pending
<1>8. IdleScheduled'
  BY DEF QueueInv, IdleScheduled, Sends
<1> QED BY <1>6, <1>7, <1>8 DEF QueueInv

\* A signal moves from one queue to the other.
LEMMA DeferKeeps == ASSUME QueueInv, Defers PROVE QueueInv'
<1>1. PICK S : deferred \in Seq(S) /\ inbox \in Seq(S)
  BY DEF QueueInv, Sequences2
<1>2. inbox # <<>> /\ Head(inbox) \in S /\ Tail(inbox) \in Seq(S) /\ Head(inbox) = inbox[1]
  BY <1>1 DEF Defers
<1>3. Sequences2(deferred, inbox)'
  BY <1>1, <1>2 DEF Sequences2, Defers
<1>4. /\ Len(inbox') = Len(inbox) - 1 /\ Len(inbox) \in Nat \ {0}
      /\ \A i \in 1..Len(inbox') : inbox'[i] = inbox[i + 1]
  BY <1>1, <1>2 DEF Defers
<1>5. /\ Len(deferred') = Len(deferred) + 1 /\ Len(deferred) \in Nat
      /\ \A i \in 1..Len(deferred) : deferred'[i] = deferred[i]
      /\ deferred'[Len(deferred) + 1] = inbox[1]
  BY <1>1, <1>2 DEF Defers
<1>6. inbox[1].number = handled + Len(deferred) + 1
  BY <1>4 DEF QueueInv, Pending
<1>7. ASSUME NEW i \in 1..Len(deferred') PROVE deferred'[i].number = handled + i
  <2>1. CASE i = Len(deferred) + 1
    BY <2>1, <1>5, <1>6 DEF QueueInv, Pending
  <2>2. CASE i \in 1..Len(deferred)
    BY <2>2, <1>5 DEF QueueInv, Pending
  <2> QED BY <2>1, <2>2, <1>5
<1>8. ASSUME NEW i \in 1..Len(inbox')
      PROVE  inbox'[i].number = handled + Len(deferred') + i
  <2>1. i + 1 \in 1..Len(inbox)
    BY <1>4
  <2>2. inbox[i + 1].number = handled + Len(deferred) + (i + 1)
    BY <2>1 DEF QueueInv, Pending
  <2> QED BY <2>2, <1>4, <1>5 DEF QueueInv, Pending
<1>9. Pending(deferred, inbox, sent, handled)'
  <2>1. /\ sent' = sent /\ handled' = handled
        /\ sent \in Nat /\ handled \in Nat /\ Len(deferred) + Len(inbox) = sent - handled
    BY DEF QueueInv, Pending, Defers
  <2>2. Len(deferred') + Len(inbox') = sent' - handled'
    <3>1. Len(inbox') = Len(inbox) - 1 /\ Len(inbox) \in Nat
      BY <1>4
    <3>2. Len(deferred') = Len(deferred) + 1 /\ Len(deferred) \in Nat
      BY <1>5
    <3> HIDE DEF Defers
    <3> QED BY <2>1, <3>1, <3>2, SMT
  <2>3. \A i \in 1..Len(deferred') : deferred'[i].number = handled' + i
    BY <2>1, <1>7
  <2>4. \A i \in 1..Len(inbox') : inbox'[i].number = handled' + Len(deferred') + i
    BY <2>1, <1>8
  <2> QED BY <2>1, <2>2, <2>3, <2>4 DEF Pending
<1>10. IdleScheduled'
  BY DEF IdleScheduled, Defers
<1> QED BY <1>3, <1>9, <1>10 DEF QueueInv

\* The first signal is handled.
LEMMA HandleKeeps == ASSUME QueueInv, Handles PROVE QueueInv'
<1>1. PICK S : deferred \in Seq(S) /\ inbox \in Seq(S)
  BY DEF QueueInv, Sequences2
<1>2. Tail(deferred) \in Seq(S)
  BY <1>1 DEF Handles
<1>3. Sequences2(deferred, inbox)'
  BY <1>1, <1>2 DEF Sequences2, Handles
<1>4. /\ Len(deferred') = Len(deferred) - 1 /\ Len(deferred) \in Nat \ {0}
      /\ \A i \in 1..Len(deferred') : deferred'[i] = deferred[i + 1]
      /\ Len(inbox) \in Nat
  BY <1>1 DEF Handles
<1>5. ASSUME NEW i \in 1..Len(deferred') PROVE deferred'[i].number = handled' + i
  <2>1. i + 1 \in 1..Len(deferred)
    BY <1>4
  <2>2. deferred[i + 1].number = handled + (i + 1)
    BY <2>1 DEF QueueInv, Pending
  <2> QED BY <2>2, <1>4 DEF QueueInv, Pending, Handles
<1>6. ASSUME NEW i \in 1..Len(inbox') PROVE inbox'[i].number = handled' + Len(deferred') + i
  BY <1>4 DEF QueueInv, Pending, Handles
<1>7. Pending(deferred, inbox, sent, handled)'
  BY <1>4, <1>5, <1>6 DEF QueueInv, Pending, Handles
<1>8. IdleScheduled'
  BY DEF IdleScheduled, Handles
<1> QED BY <1>3, <1>7, <1>8 DEF QueueInv

LEMMA LeaveKeeps == ASSUME QueueInv, Leaves PROVE QueueInv'
  BY DEF QueueInv, Leaves, IdleScheduled, Pending, Sequences2

\* The queues of the client hold exactly the signals not handled yet, in order,
\* and a queue that is not empty has somebody to empty it.
THEOREM QueueCorrect == Spec => []QueueInv
<1>1. Init => QueueInv
  <2> SUFFICES ASSUME Init PROVE QueueInv
    OBVIOUS
  <2>1. <<>> \in Seq({})
    OBVIOUS
  <2>2. Sequences2(deferred, inbox)
    BY <2>1 DEF Init, Sequences2
  <2> QED BY <2>2 DEF Init, QueueInv, IdleScheduled, Pending
<1>2. QueueInv /\ [Next]_vars => QueueInv'
  <2> SUFFICES ASSUME QueueInv, [Next]_vars PROVE QueueInv'
    OBVIOUS
  <2>1. CASE AppNext
    BY <2>1, AppSteps, SendKeeps, LeaveKeeps
  <2>2. CASE ClientNext
    BY <2>2, ClientSteps, DeferKeeps, HandleKeeps, LeaveKeeps
  <2>3. CASE UNCHANGED vars
    BY <2>3, LeaveKeeps DEF vars, busVars, clientVars, Leaves
  <2> QED BY <2>1, <2>2, <2>3 DEF Next
<1> QED BY <1>1, <1>2, PTL DEF Spec

\* A message that was put off is never left without an idle callback or a caller
\* that processes the queue.
THEOREM DrainAlwaysScheduled == Spec => []IdleScheduled
<1>1. QueueInv => IdleScheduled
  BY DEF QueueInv
<1> QED BY <1>1, QueueCorrect, PTL

\* No signal is lost and no two are swapped.
THEOREM SignalsInOrder == Spec => []NoneLostOrSwapped
<1>1. QueueInv => NoneLostOrSwapped
  <2> SUFFICES ASSUME QueueInv PROVE NoneLostOrSwapped
    OBVIOUS
  <2>1. PICK S : deferred \in Seq(S) /\ inbox \in Seq(S)
    BY DEF QueueInv, Sequences2
  <2> DEFINE pending == deferred \o inbox
  <2>2. /\ Len(pending) = Len(deferred) + Len(inbox)
        /\ Len(deferred) \in Nat /\ Len(inbox) \in Nat
        /\ DOMAIN pending = 1..Len(pending)
    BY <2>1
  <2>3. ASSUME NEW i \in DOMAIN pending PROVE pending[i].number = handled + i
    <3>1. CASE i \in 1..Len(deferred)
      <4>1. pending[i] = deferred[i]
        BY <2>1, <3>1
      <4> QED BY <4>1, <3>1 DEF QueueInv, Pending
    <3>2. CASE i \notin 1..Len(deferred)
      <4>1. i - Len(deferred) \in 1..Len(inbox)
        BY <2>2, <3>2
      <4>2. pending[i] = inbox[i - Len(deferred)]
        BY <2>1, <2>2, <3>2
      <4>3. inbox[i - Len(deferred)].number = handled + Len(deferred) + (i - Len(deferred))
        BY <4>1 DEF QueueInv, Pending
      <4> QED BY <4>2, <4>3, <2>2 DEF QueueInv, Pending
    <3> QED BY <3>1, <3>2
  <2> QED BY <2>2, <2>3 DEF NoneLostOrSwapped, QueueInv, Pending
<1> QED BY <1>1, QueueCorrect, PTL

-----------------------------------------------------------------------------
(* Lists of children.                                                      *)

\* A list is a child's place in it and what comes before and after.
LEMMA ListParts ==
    ASSUME NEW S, NEW L \in Seq(S), NEW i \in Nat, NEW j \in Nat, i <= j, j <= Len(L)
    PROVE  /\ SubSeq(L, 1, i) \in Seq(S) /\ Len(SubSeq(L, 1, i)) = i
           /\ \A k \in 1..i : SubSeq(L, 1, i)[k] = L[k]
           /\ SubSeq(L, j + 1, Len(L)) \in Seq(S) /\ Len(SubSeq(L, j + 1, Len(L))) = Len(L) - j
           /\ \A k \in 1..(Len(L) - j) : SubSeq(L, j + 1, Len(L))[k] = L[j + k]
  OBVIOUS

LEMMA Joined ==
    ASSUME NEW S, NEW a \in Seq(S), NEW b \in Seq(S)
    PROVE  /\ a \o b \in Seq(S) /\ Len(a \o b) = Len(a) + Len(b)
           /\ \A k \in 1..(Len(a) + Len(b)) :
                 (a \o b)[k] = IF k <= Len(a) THEN a[k] ELSE b[k - Len(a)]
  OBVIOUS

LEMMA InRange ==
    ASSUME NEW S, NEW L \in Seq(S)
    PROVE  /\ Len(L) \in Nat /\ DOMAIN L = 1..Len(L)
           /\ RangeOf(L) \subseteq S
           /\ \A i \in 1..Len(L) : L[i] \in RangeOf(L)
           /\ \A x \in RangeOf(L) : \E i \in 1..Len(L) : L[i] = x
  BY DEF RangeOf

\* g_list_remove from a list that has nothing twice.
LEMMA WithoutFacts ==
    ASSUME NEW S, NEW L \in Seq(S), IsInjective(L), NEW x
    PROVE  /\ Without(L, x) \in Seq(S)
           /\ IsInjective(Without(L, x))
           /\ RangeOf(Without(L, x)) = RangeOf(L) \ {x}
<1>1. CASE x \notin RangeOf(L)
  BY <1>1 DEF Without
<1>2. CASE x \in RangeOf(L)
  <2> DEFINE at == PlaceOf(L, x)
             a == SubSeq(L, 1, at - 1)
             b == SubSeq(L, at + 1, Len(L))
             fewer == Without(L, x)
             from(k) == IF k < at THEN k ELSE k + 1
  <2>1. at \in 1..Len(L) /\ L[at] = x
    <3>1. PICK i \in 1..Len(L) : L[i] = x
      BY <1>2, InRange
    <3>2. \A j \in 1..(i - 1) : L[j] # x
      BY <3>1, InRange DEF IsInjective
    <3>3. \E k \in DOMAIN L : L[k] = x /\ \A j \in 1..(k - 1) : L[j] # x
      BY <3>1, <3>2, InRange
    <3> QED  BY <3>3, InRange DEF PlaceOf
  <2> HIDE DEF at
  <2>2. /\ a \in Seq(S) /\ Len(a) = at - 1 /\ (\A k \in 1..(at - 1) : a[k] = L[k])
        /\ b \in Seq(S) /\ Len(b) = Len(L) - at /\ (\A k \in 1..(Len(L) - at) : b[k] = L[at + k])
    <3>1. at - 1 \in Nat /\ at \in Nat /\ at - 1 <= at /\ at <= Len(L)
      BY <2>1, InRange
    <3> QED  BY <3>1, ListParts
  <2>3. fewer = a \o b
    BY <1>2 DEF Without, RemoveAt, at
  <2> HIDE DEF a, b, fewer
  <2>4. fewer \in Seq(S) /\ Len(fewer) = Len(L) - 1 /\ DOMAIN fewer = 1..(Len(L) - 1)
    BY <2>1, <2>2, <2>3, Joined, InRange
  <2>5. ASSUME NEW k \in 1..(Len(L) - 1)
        PROVE  fewer[k] = L[from(k)] /\ from(k) \in 1..Len(L) /\ from(k) # at
    <3>1. fewer[k] = IF k <= at - 1 THEN a[k] ELSE b[k - (at - 1)]
      <4>1. k \in 1..(Len(a) + Len(b))
        BY <2>1, <2>2, InRange
      <4> QED  BY <2>2, <2>3, <4>1, Joined
    <3>2. CASE k < at
      BY <2>1, <2>2, <3>1, <3>2, InRange
    <3>3. CASE ~(k < at)
      <4>1. k - (at - 1) \in 1..(Len(L) - at) /\ at + (k - (at - 1)) = k + 1
        BY <2>1, <3>3, InRange
      <4>2. fewer[k] = b[k - (at - 1)]
        BY <2>1, <3>1, <3>3, InRange
      <4> QED  BY <2>1, <2>2, <3>3, <4>1, <4>2, InRange
    <3> QED  BY <3>2, <3>3
  <2>6. IsInjective(fewer)
    <3> SUFFICES ASSUME NEW i \in 1..(Len(L) - 1), NEW j \in 1..(Len(L) - 1), fewer[i] = fewer[j]
                 PROVE  i = j
      BY <2>4 DEF IsInjective
    <3>1. from(i) = from(j)
      BY <2>5, InRange DEF IsInjective
    <3> QED  BY <2>1, <3>1, InRange
  <2>7. ASSUME NEW y \in RangeOf(fewer) PROVE y \in RangeOf(L) \ {x}
    <3>1. PICK k \in 1..(Len(L) - 1) : fewer[k] = y
      BY <2>4, InRange
    <3>2. y = L[from(k)] /\ from(k) \in 1..Len(L) /\ from(k) # at
      BY <2>5, <3>1
    <3> HIDE DEF from
    <3> QED  BY <2>1, <3>2, InRange DEF IsInjective
  <2>8. ASSUME NEW y \in RangeOf(L) \ {x} PROVE y \in RangeOf(fewer)
    <3>1. PICK i \in 1..Len(L) : L[i] = y
      BY InRange
    <3>2. \E k \in 1..(Len(L) - 1) : from(k) = i
      <4>1. CASE i < at
        <5>1. i \in 1..(Len(L) - 1) /\ from(i) = i
          BY <2>1, <4>1, InRange
        <5> QED  BY <5>1
      <4>2. CASE i > at
        <5>1. i - 1 \in 1..(Len(L) - 1) /\ from(i - 1) = i
          BY <2>1, <4>2, InRange
        <5> QED  BY <5>1
      <4>3. i # at
        BY <2>1, <3>1
      <4> QED  BY <2>1, <4>1, <4>2, <4>3
    <3>3. PICK k \in 1..(Len(L) - 1) : from(k) = i
      BY <3>2
    <3>4. fewer[k] = y
      BY <2>5, <3>1, <3>3
    <3> QED  BY <2>4, <3>4, InRange
  <2> QED  BY <2>4, <2>6, <2>7, <2>8 DEF fewer
<1> QED  BY <1>1, <1>2

\* g_list_insert of what the list has not.
LEMMA InsertedFacts ==
    ASSUME NEW S, NEW L \in Seq(S), IsInjective(L), NEW x \in S, x \notin RangeOf(L),
           NEW place \in Nat
    PROVE  /\ InsertedAt(L, x, place) \in Seq(S)
           /\ IsInjective(InsertedAt(L, x, place))
           /\ RangeOf(InsertedAt(L, x, place)) = RangeOf(L) \cup {x}
<1> DEFINE at == Smaller(place, Len(L))
           a == SubSeq(L, 1, at)
           b == SubSeq(L, at + 1, Len(L))
           ax == a \o <<x>>
           more == InsertedAt(L, x, place)
           from(k) == IF k <= at THEN k ELSE k - 1
<1>1. at \in Nat /\ at <= Len(L) /\ Len(L) \in Nat
  BY InRange DEF Smaller
<1>2. more = ax \o b
  BY DEF InsertedAt
<1> HIDE DEF at
<1>3. /\ a \in Seq(S) /\ Len(a) = at /\ (\A k \in 1..at : a[k] = L[k])
      /\ b \in Seq(S) /\ Len(b) = Len(L) - at /\ (\A k \in 1..(Len(L) - at) : b[k] = L[at + k])
  BY <1>1, ListParts
<1> HIDE DEF a, b, more
<1>4. /\ ax \in Seq(S) /\ Len(ax) = at + 1
      /\ \A k \in 1..at : ax[k] = L[k]
      /\ ax[at + 1] = x
  <2>1. ax = Append(a, x)
    BY <1>3 DEF ax
  <2> QED  BY <1>1, <1>3, <2>1
<1> HIDE DEF ax
<1>5. more \in Seq(S) /\ Len(more) = Len(L) + 1 /\ DOMAIN more = 1..(Len(L) + 1)
  <2>1. ax \in Seq(S) /\ b \in Seq(S)
    BY <1>3, <1>4
  <2>2. more \in Seq(S) /\ Len(more) = Len(ax) + Len(b)
    BY <1>2, <2>1, Joined
  <2> QED  BY <1>1, <1>3, <1>4, <2>2, InRange
<1>6. ASSUME NEW k \in 1..(Len(L) + 1)
      PROVE  more[k] = IF k = at + 1 THEN x ELSE L[from(k)]
  <2>1. more[k] = IF k <= at + 1 THEN ax[k] ELSE b[k - (at + 1)]
    <3>1. k \in 1..(Len(ax) + Len(b))
      BY <1>1, <1>3, <1>4
    <3>2. ax \in Seq(S) /\ b \in Seq(S)
      BY <1>3, <1>4
    <3>3. (ax \o b)[k] = IF k <= Len(ax) THEN ax[k] ELSE b[k - Len(ax)]
      BY <3>1, <3>2, Joined, Zenon
    <3> QED  BY <1>2, <1>4, <3>3, Zenon
  <2>2. CASE k <= at + 1
    BY <1>1, <1>4, <2>1, <2>2
  <2>3. CASE k > at + 1
    <3>1. k - (at + 1) \in 1..(Len(L) - at) /\ at + (k - (at + 1)) = k - 1
      BY <1>1, <2>3
    <3>2. more[k] = b[k - (at + 1)]
      BY <1>1, <2>1, <2>3
    <3>3. b[k - (at + 1)] = L[k - 1]
      <4>1. b[k - (at + 1)] = L[at + (k - (at + 1))]
        BY <1>3, <3>1, Zenon
      <4> QED  BY <3>1, <4>1, Zenon
    <3>4. k # at + 1 /\ from(k) = k - 1
      BY <1>1, <2>3
    <3> QED  BY <3>2, <3>3, <3>4, Zenon
  <2> QED  BY <1>1, <2>2, <2>3
<1>7. \A k \in 1..(Len(L) + 1) : k # at + 1 => from(k) \in 1..Len(L)
  BY <1>1
<1>8. at + 1 \in 1..(Len(L) + 1) /\ more[at + 1] = x
  BY <1>1, <1>6
<1>9. IsInjective(more)
  <2> SUFFICES ASSUME NEW i \in 1..(Len(L) + 1), NEW j \in 1..(Len(L) + 1), more[i] = more[j]
               PROVE  i = j
    BY <1>5 DEF IsInjective
  <2>1. CASE i = at + 1 \/ j = at + 1
    BY <1>6, <1>7, <2>1, InRange
  <2>2. CASE i # at + 1 /\ j # at + 1
    <3>1. from(i) = from(j)
      BY <1>6, <1>7, <2>2, InRange DEF IsInjective
    <3> QED  BY <1>1, <2>2, <3>1
  <2> QED  BY <2>1, <2>2
<1>10. ASSUME NEW y \in RangeOf(more) PROVE y \in RangeOf(L) \cup {x}
  <2>1. PICK k \in 1..(Len(L) + 1) : more[k] = y
    BY <1>5, InRange
  <2> QED  BY <1>6, <1>7, <2>1, InRange
<1>11. ASSUME NEW y \in RangeOf(L) \cup {x} PROVE y \in RangeOf(more)
  <2>1. CASE y = x
    BY <1>5, <1>8, <2>1, InRange
  <2>2. CASE y \in RangeOf(L)
    <3>1. PICK i \in 1..Len(L) : L[i] = y
      BY <2>2, InRange
    <3>2. CASE i <= at
      <4>1. i \in 1..(Len(L) + 1) /\ i # at + 1 /\ from(i) = i
        BY <1>1, <3>2
      <4>2. more[i] = y
        BY <1>6, <3>1, <4>1
      <4> QED  BY <1>5, <4>1, <4>2, InRange
    <3>3. CASE i > at
      <4>1. i + 1 \in 1..(Len(L) + 1) /\ i + 1 # at + 1 /\ from(i + 1) = i
        BY <1>1, <3>3
      <4>2. more[i + 1] = y
        BY <1>6, <3>1, <4>1
      <4> QED  BY <1>5, <4>1, <4>2, InRange
    <3> QED  BY <1>1, <3>2, <3>3
  <2> QED  BY <2>1, <2>2
<1> QED  BY <1>5, <1>9, <1>10, <1>11 DEF more

-----------------------------------------------------------------------------
(* The inductive invariant.  What is on its way is looked at as a set:      *)
(* the numbers say the order, and two signals never have the same.          *)

Coming == RangeOf(deferred) \cup RangeOf(inbox)

About(C, o) == {m \in C : m.kind # "PropertyChange" /\ m.object = o}
Renames(C) == {m \in C : m.kind = "PropertyChange"}
Moves(C, o) == {m \in About(C, o) : m.kind \in {"add", "remove"}}
Destroys(C, o) == {m \in About(C, o) : m.kind = "RemoveAccessible"}

\* What a signal makes of a list of children, the application's or a copy of it.
Applied(L, m) ==
    IF m.kind = "remove" THEN Without(L, m.object)
    ELSE IF m.kind = "add" /\ m.object \notin RangeOf(L) THEN InsertedAt(L, m.object, m.index)
    ELSE L

\* What was known after signal n still holds if no signal in R is later.
Fresh(v, n, R, actual) == (\A m \in R : m.number <= n) => v = actual

NameFresh(v, n, C, t) == Fresh(v, n, Renames(C), t)

KidsFresh(L, n, C, K) ==
    \A o \in Objects : Fresh(RangeOf(L) \cap {o}, n, Moves(C, o), RangeOf(K) \cap {o})

\* Whoever of S is gone has a signal later than n that says so.
GoneTold(S, n, C, G) == \A o \in S \cap G : \E r \in Destroys(C, o) : r.number > n

\* The signals after n make K of L, one after the other.
Leads(L, n, C, K, s) ==
    \E h \in [Nat -> Seq(Objects)] :
        /\ h[n] = L /\ h[s] = K
        /\ \A m \in C : m.number > n => h[m.number] = Applied(h[m.number - 1], m)

\* Which calls there are while messages are processed, and in their callbacks.
CallsNested ==
    /\ process = "no" => handler = NoHandler /\ Len(calls) <= 1
    /\ process = "idle" => Len(calls) <= IF handler = NoHandler THEN 0 ELSE 1
    /\ process = "call" => /\ Len(calls) \in 1..(IF handler = NoHandler THEN 1 ELSE 2)
                           /\ calls[1] # NoAnswer

\* Children are there once and not destroyed; what is destroyed is told of no more.
AppSound ==
    /\ IsInjective(kids)
    /\ RangeOf(kids) \cap gone = {}
    /\ announced \cap gone = {}

\* That an object is destroyed is the last that is told of it.
DestroyLast ==
    /\ \A m \in Coming : m.kind = "RemoveAccessible" =>
          m.object \in gone /\ \A k \in About(Coming, m.object) : k.number <= m.number
    /\ \A o \in gone : About(Coming, o) # {} => Destroys(Coming, o) # {}
    /\ handler.kind = "dispose" => handler.object \in gone /\ About(Coming, handler.object) = {}

\* The last signal about something says what the application has.
LastTells ==
    /\ \A m \in Renames(Coming) : NameFresh(m.name, m.number, Coming, title)
    /\ \A o \in Objects : \A m \in Moves(Coming, o) :
          Fresh(IF m.kind = "add" THEN {o} ELSE {}, m.number, Moves(Coming, o),
                RangeOf(kids) \cap {o})

\* Answers on their way are what the application had after so many signals.
ItemsTell ==
    answer.kind = "items" =>
        /\ IsInjective(answer.kids) /\ answer.number <= sent
        /\ handled <= answer.number =>
              /\ NameFresh(answer.name, answer.number, Coming, title)
              /\ KidsFresh(answer.kids, answer.number, Coming, kids)
              /\ GoneTold(RangeOf(answer.kids) \cup answer.announced, answer.number, Coming, gone)
              /\ Leads(answer.kids, answer.number, Coming, kids, sent)

CallsTell ==
    \A i \in DOMAIN calls : calls[i].kind = "name" =>
        /\ calls[i].number <= sent
        /\ handled <= calls[i].number => NameFresh(calls[i].name, calls[i].number, Coming, title)

\* The cache is what the application had after the signals that were handled.
CacheTells ==
    ~overtaken =>
        /\ hasName => NameFresh(name, handled, Coming, title)
        /\ hasKids => KidsFresh(children, handled, Coming, kids) /\ RangeOf(children) \subseteq known
        /\ hasKids /\ ~replayed => Leads(children, handled, Coming, kids, sent)
        /\ \A o \in known \cap gone :
              Destroys(Coming, o) # {} \/ handler = [kind |-> "dispose", object |-> o]

Tells == LastTells /\ ItemsTell /\ CallsTell /\ IsInjective(children) /\ CacheTells

CInv == TypeOK /\ CallsNested /\ QueueInv /\ AppSound /\ DestroyLast /\ Tells

-----------------------------------------------------------------------------
(* Signals and the set of those on their way.                              *)

LEMMA MessageFacts ==
    ASSUME NEW m \in Message
    PROVE  /\ m.number \in Nat
           /\ m.kind \in {"PropertyChange", "add", "remove", "AddAccessible", "RemoveAccessible"}
           /\ m.kind = "PropertyChange" => m.name \in Nat
           /\ m.kind # "PropertyChange" => m.object \in Objects
           /\ m.kind = "add" => m.index \in Nat
           /\ m.kind = "AddAccessible" => m.child \in BOOLEAN
  BY DEF Message

LEMMA AppliedFacts ==
    ASSUME NEW L \in Seq(Objects), IsInjective(L), NEW m \in Message
    PROVE  /\ Applied(L, m) \in Seq(Objects)
           /\ IsInjective(Applied(L, m))
           /\ RangeOf(Applied(L, m)) =
                 IF m.kind = "remove" THEN RangeOf(L) \ {m.object}
                 ELSE IF m.kind = "add" THEN RangeOf(L) \cup {m.object} ELSE RangeOf(L)
<1>1. CASE m.kind = "remove"
  <2>1. Applied(L, m) = Without(L, m.object)
    BY <1>1 DEF Applied
  <2> QED  BY <1>1, <2>1, WithoutFacts
<1>2. CASE m.kind = "add" /\ m.object \notin RangeOf(L)
  <2>1. m.object \in Objects /\ m.index \in Nat
    BY <1>2, MessageFacts
  <2>2. Applied(L, m) = InsertedAt(L, m.object, m.index)
    BY <1>2 DEF Applied
  <2>3. /\ InsertedAt(L, m.object, m.index) \in Seq(Objects)
        /\ IsInjective(InsertedAt(L, m.object, m.index))
        /\ RangeOf(InsertedAt(L, m.object, m.index)) = RangeOf(L) \cup {m.object}
    BY <1>2, <2>1, InsertedFacts, SMTT(30)
  <2>4. m.kind = "add" /\ m.kind # "remove"
    BY <1>2
  <2> QED  BY <2>2, <2>3, <2>4, Zenon
<1>3. CASE m.kind = "add" /\ m.object \in RangeOf(L)
  <2>1. Applied(L, m) = L /\ RangeOf(L) = RangeOf(L) \cup {m.object}
    BY <1>3 DEF Applied
  <2> QED  BY <1>3, <2>1
<1>4. CASE m.kind \notin {"add", "remove"}
  BY <1>4 DEF Applied
<1> QED  BY <1>1, <1>2, <1>3, <1>4

LEMMA ComingNumbered ==
    ASSUME TypeOK, QueueInv
    PROVE  /\ sent \in Nat /\ handled \in Nat /\ handled <= sent
           /\ Coming \subseteq Message
           /\ \A m \in Coming : m.number \in Nat /\ m.number > handled /\ m.number <= sent
           /\ \A m, k \in Coming : m.number = k.number => m = k
<1>1. /\ deferred \in Seq(Message) /\ inbox \in Seq(Message)
      /\ Pending(deferred, inbox, sent, handled)
  BY DEF TypeOK, QueueInv
<1>2. sent \in Nat /\ handled \in Nat /\ Len(deferred) + Len(inbox) = sent - handled
  BY <1>1 DEF Pending
<1>3. Len(deferred) \in Nat /\ Len(inbox) \in Nat
  BY <1>1
<1>4. ASSUME NEW m \in Coming
      PROVE  \/ m.number - handled \in 1..Len(deferred) /\ m = deferred[m.number - handled]
             \/ /\ m.number - handled - Len(deferred) \in 1..Len(inbox)
                /\ m = inbox[m.number - handled - Len(deferred)]
  <2>1. CASE m \in RangeOf(deferred)
    <3>1. PICK i \in 1..Len(deferred) : deferred[i] = m
      BY <1>1, <2>1, InRange
    <3>2. m.number = handled + i
      BY <1>1, <3>1 DEF Pending
    <3>3. m.number - handled = i
      BY <1>2, <1>3, <3>1, <3>2
    <3> QED  BY <3>1, <3>3
  <2>2. CASE m \in RangeOf(inbox)
    <3>1. PICK i \in 1..Len(inbox) : inbox[i] = m
      BY <1>1, <2>2, InRange
    <3>2. m.number = handled + Len(deferred) + i
      BY <1>1, <3>1 DEF Pending
    <3>3. m.number - handled - Len(deferred) = i
      BY <1>2, <1>3, <3>1, <3>2
    <3> QED  BY <3>1, <3>3
  <2> QED  BY <2>1, <2>2 DEF Coming
<1>5. Coming \subseteq Message
  BY <1>1, InRange DEF Coming
<1>6. \A m \in Coming : m.number \in Nat
  BY <1>5, MessageFacts
<1>7. \A m \in Coming : m.number > handled /\ m.number <= sent
  BY <1>2, <1>3, <1>4, <1>6
<1>8. ASSUME NEW m \in Coming, NEW k \in Coming, m.number = k.number
      PROVE  m = k
  <2> DEFINE i == m.number - handled
  <2>1. /\ \/ i \in 1..Len(deferred) /\ m = deferred[i]
           \/ i - Len(deferred) \in 1..Len(inbox) /\ m = inbox[i - Len(deferred)]
        /\ \/ i \in 1..Len(deferred) /\ k = deferred[i]
           \/ i - Len(deferred) \in 1..Len(inbox) /\ k = inbox[i - Len(deferred)]
    BY <1>4, <1>8
  <2>2. i \in Int
    BY <1>2, <1>6
  <2> HIDE DEF i
  <2>3. ~(i \in 1..Len(deferred) /\ i - Len(deferred) \in 1..Len(inbox))
    BY <1>3, <2>2
  <2> QED  BY <2>1, <2>3
<1>9. handled <= sent
  BY <1>2, <1>3
<1> QED  BY <1>2, <1>5, <1>6, <1>7, <1>8, <1>9

LEMMA RangeGrows ==
    ASSUME NEW S, NEW s \in Seq(S), NEW x \in S
    PROVE  RangeOf(Append(s, x)) = RangeOf(s) \cup {x}
<1>1. /\ Append(s, x) \in Seq(S) /\ Len(Append(s, x)) = Len(s) + 1 /\ Len(s) \in Nat
      /\ \A i \in 1..Len(s) : Append(s, x)[i] = s[i]
      /\ Append(s, x)[Len(s) + 1] = x
  OBVIOUS
<1> DEFINE t == Append(s, x)
<1> HIDE DEF t
<1>2. t \in Seq(S) /\ Len(t) = Len(s) + 1 /\ (\A i \in 1..Len(s) : t[i] = s[i]) /\ t[Len(s) + 1] = x
  BY <1>1 DEF t
<1>3. RangeOf(t) = RangeOf(s) \cup {x}
  <2>1. ASSUME NEW y \in RangeOf(t) PROVE y \in RangeOf(s) \cup {x}
    <3>1. PICK i \in 1..Len(t) : t[i] = y
      BY <1>2, InRange
    <3>2. i \in 1..Len(s) \/ i = Len(s) + 1
      BY <1>1, <1>2
    <3> QED  BY <1>2, <3>1, <3>2, InRange
  <2>2. ASSUME NEW y \in RangeOf(s) \cup {x} PROVE y \in RangeOf(t)
    <3>1. CASE y = x
      <4>1. Len(s) + 1 \in 1..Len(t)
        BY <1>1, <1>2
      <4> QED  BY <1>2, <3>1, <4>1, InRange
    <3>2. CASE y \in RangeOf(s)
      <4>1. PICK i \in 1..Len(s) : s[i] = y
        BY <3>2, InRange
      <4>2. i \in 1..Len(t) /\ t[i] = y
        BY <1>1, <1>2, <4>1
      <4> QED  BY <1>2, <4>2, InRange
    <3> QED  BY <3>1, <3>2
  <2> QED  BY <2>1, <2>2
<1> QED  BY <1>3 DEF t

LEMMA RangeShrinks ==
    ASSUME NEW S, NEW s \in Seq(S), s # <<>>
    PROVE  /\ Head(s) \in S /\ Tail(s) \in Seq(S)
           /\ RangeOf(s) = RangeOf(Tail(s)) \cup {Head(s)}
<1>1. /\ Tail(s) \in Seq(S) /\ Len(Tail(s)) = Len(s) - 1 /\ Len(s) \in Nat \ {0}
      /\ Head(s) = s[1] /\ Head(s) \in S
      /\ \A i \in 1..(Len(s) - 1) : Tail(s)[i] = s[i + 1]
  OBVIOUS
<1> DEFINE t == Tail(s)
<1> HIDE DEF t
<1>2. t \in Seq(S) /\ Len(t) = Len(s) - 1 /\ (\A i \in 1..(Len(s) - 1) : t[i] = s[i + 1])
  BY <1>1 DEF t
<1>3. ASSUME NEW y \in RangeOf(s) PROVE y \in RangeOf(t) \cup {Head(s)}
  <2>1. PICK i \in 1..Len(s) : s[i] = y
    BY InRange
  <2>2. CASE i = 1
    BY <1>1, <2>1, <2>2
  <2>3. CASE i # 1
    <3>1. i - 1 \in 1..Len(t) /\ (i - 1) + 1 = i
      BY <1>1, <1>2, <2>3
    <3>2. t[i - 1] = y
      BY <1>2, <2>1, <3>1
    <3> QED  BY <1>2, <3>1, <3>2, InRange
  <2> QED  BY <2>2, <2>3
<1>4. ASSUME NEW y \in RangeOf(t) PROVE y \in RangeOf(s)
  <2>1. PICK i \in 1..Len(t) : t[i] = y
    BY <1>2, InRange
  <2>2. i + 1 \in 1..Len(s) /\ s[i + 1] = y
    BY <1>1, <1>2, <2>1
  <2> QED  BY <2>2, InRange
<1>5. Head(s) \in RangeOf(s)
  <2>1. 1 \in 1..Len(s)
    BY <1>1
  <2> QED  BY <1>1, <2>1, InRange
<1> QED  BY <1>1, <1>3, <1>4, <1>5 DEF t

\* A signal is added, moves from one queue to the other, or is taken.
LEMMA ComingSent ==
    ASSUME TypeOK, NEW m \in Message, inbox' = Append(inbox, m), UNCHANGED deferred
    PROVE  Coming' = Coming \cup {m}
BY RangeGrows DEF TypeOK, Coming

LEMMA ComingDeferred ==
    ASSUME TypeOK, inbox # <<>>, inbox' = Tail(inbox), deferred' = Append(deferred, Head(inbox))
    PROVE  Coming' = Coming
<1>1. inbox \in Seq(Message) /\ deferred \in Seq(Message)
  BY DEF TypeOK
<1>2. RangeOf(inbox) = RangeOf(inbox') \cup {Head(inbox)} /\ Head(inbox) \in Message
  BY <1>1, RangeShrinks
<1>3. RangeOf(deferred') = RangeOf(deferred) \cup {Head(inbox)}
  BY <1>1, <1>2, RangeGrows
<1> QED  BY <1>2, <1>3 DEF Coming

LEMMA ComingTaken ==
    ASSUME TypeOK, QueueInv, deferred # <<>>, deferred' = Tail(deferred), UNCHANGED inbox
    PROVE  /\ Head(deferred) \in Coming /\ Head(deferred).number = handled + 1
           /\ Coming' = Coming \ {Head(deferred)}
<1> DEFINE m == Head(deferred)
<1>1. deferred \in Seq(Message) /\ inbox \in Seq(Message) /\ Len(deferred) \in Nat \ {0}
  BY DEF TypeOK
<1>2. RangeOf(deferred) = RangeOf(deferred') \cup {m} /\ deferred' \in Seq(Message)
  BY <1>1, RangeShrinks
<1>3. /\ Len(deferred') = Len(deferred) - 1
      /\ \A i \in 1..Len(deferred') : deferred'[i] = deferred[i + 1]
      /\ m = deferred[1]
  BY <1>1
<1>4. /\ sent \in Nat /\ handled \in Nat
      /\ \A i \in 1..Len(deferred) : deferred[i].number = handled + i
      /\ \A i \in 1..Len(inbox) : inbox[i].number = handled + Len(deferred) + i
  BY DEF QueueInv, Pending
<1>5. m.number = handled + 1
  BY <1>1, <1>3, <1>4
<1>6. m \notin RangeOf(deferred')
  <2> SUFFICES ASSUME m \in RangeOf(deferred') PROVE FALSE
    OBVIOUS
  <2>1. PICK i \in 1..Len(deferred') : deferred'[i] = m
    BY <1>2, InRange
  <2>2. i + 1 \in 1..Len(deferred) /\ m = deferred[i + 1] /\ i >= 1
    BY <1>1, <1>3, <2>1
  <2>3. m.number = handled + (i + 1)
    BY <1>4, <2>2
  <2> QED  BY <1>4, <1>5, <2>2, <2>3
<1>7. m \notin RangeOf(inbox)
  <2> SUFFICES ASSUME m \in RangeOf(inbox) PROVE FALSE
    OBVIOUS
  <2>1. PICK i \in 1..Len(inbox) : inbox[i] = m
    BY <1>1, InRange
  <2>2. m.number = handled + Len(deferred) + i
    BY <1>4, <2>1
  <2> QED  BY <1>1, <1>4, <1>5, <2>2
<1> QED  BY <1>2, <1>5, <1>6, <1>7 DEF Coming

-----------------------------------------------------------------------------
(* What steps do.                                                          *)

\* The application changes and sends the signal that says so.
AppTells(m) ==
    /\ m \in Message /\ m.number = sent + 1
    /\ sent' = sent + 1 /\ inbox' = Append(inbox, m)
    /\ kids' = Applied(kids, m)
    /\ title' = IF m.kind = "PropertyChange" THEN m.name ELSE title
    /\ gone' = IF m.kind = "RemoveAccessible" THEN gone \cup {m.object} ELSE gone
    /\ announced' \subseteq Objects /\ announced' \cap gone' = {}
    /\ m.kind # "PropertyChange" => m.object \notin gone
    /\ m.kind = "RemoveAccessible" => m.object \notin RangeOf(kids)
    /\ UNCHANGED <<stage, direct, answer, clientVars, cacheVars, handled, asked, historyVars>>

LEMMA AppStepTells ==
    ASSUME TypeOK, AppSound,
           \/ Rename
           \/ \E o \in Objects : (\E i \in 0..Len(kids) : AddChild(o, i))
                                 \/ RemoveChild(o) \/ Announce(o) \/ Destroy(o)
    PROVE  \E m : AppTells(m)
<1>1. sent + 1 \in Nat /\ title + 1 \in Nat /\ RangeOf(kids) \subseteq Objects
  BY InRange DEF TypeOK
<1>2. CASE Rename
  <2> DEFINE m == [kind |-> "PropertyChange", name |-> title + 1, number |-> sent + 1]
  <2>1. m \in Message
    BY <1>1 DEF Message
  <2>2. AppTells(m)
    BY <1>2, <2>1 DEF Rename, Change, Signal, AppTells, Applied, AppSound, TypeOK
  <2> QED  BY <2>2
<1>3. ASSUME NEW o \in Objects, NEW i \in 0..Len(kids), AddChild(o, i)
      PROVE  \E m : AppTells(m)
  <2> DEFINE m == [kind |-> "add", object |-> o, index |-> i, number |-> sent + 1]
  <2>1. m \in Message
    BY <1>1 DEF Message
  <2>2. kids' = Applied(kids, m)
    BY <1>3 DEF AddChild, Applied
  <2>3. AppTells(m)
    BY <1>3, <2>1, <2>2 DEF AddChild, Change, Signal, AppTells, AppSound, TypeOK
  <2> QED  BY <2>3
<1>4. ASSUME NEW o \in Objects, RemoveChild(o)
      PROVE  \E m : AppTells(m)
  <2> DEFINE m == [kind |-> "remove", object |-> o, number |-> sent + 1]
  <2>1. m \in Message
    BY <1>1 DEF Message
  <2>2. kids' = Applied(kids, m) /\ o \notin gone
    BY <1>4 DEF RemoveChild, Applied, AppSound
  <2>3. AppTells(m)
    BY <1>4, <2>1, <2>2 DEF RemoveChild, Change, Signal, AppTells, AppSound, TypeOK
  <2> QED  BY <2>3
<1>5. ASSUME NEW o \in Objects, Announce(o)
      PROVE  \E m : AppTells(m)
  <2> DEFINE m == [kind |-> "AddAccessible", object |-> o, child |-> o \in RangeOf(kids),
                   number |-> sent + 1]
  <2>0. (o \in RangeOf(kids)) \in BOOLEAN
    OBVIOUS
  <2>1. m \in Message
    BY <1>1, <2>0, Zenon DEF Message
  <2>2. m.kind = "AddAccessible" /\ m.object = o /\ m.number = sent + 1
    OBVIOUS
  <2>3. inbox' = Append(inbox, m)
    BY <1>5 DEF Announce, Change, Signal
  <2> HIDE DEF m
  <2>4. AppTells(m)
    BY <1>5, <2>1, <2>2, <2>3 DEF Announce, Change, Signal, AppTells, Applied, AppSound, TypeOK
  <2> QED  BY <2>4
<1>6. ASSUME NEW o \in Objects, Destroy(o)
      PROVE  \E m : AppTells(m)
  <2> DEFINE m == [kind |-> "RemoveAccessible", object |-> o, number |-> sent + 1]
  <2>1. m \in Message
    BY <1>1 DEF Message
  <2>2. o \notin gone /\ o \notin RangeOf(kids) /\ announced' \cap gone' = {}
    BY <1>6 DEF Destroy, AppSound
  <2>3. AppTells(m)
    BY <1>6, <2>1, <2>2 DEF Destroy, Change, Signal, AppTells, Applied, TypeOK
  <2> QED  BY <2>3
<1> QED  BY <1>2, <1>3, <1>4, <1>5, <1>6

\* The client takes a signal from the queue.
Takes(m) ==
    /\ process # "no" /\ handler = NoHandler
    /\ calls = <<>> \/ calls[Len(calls)] # NoAnswer
    /\ deferred # <<>> /\ m = Head(deferred) /\ deferred' = Tail(deferred)
    /\ handled' = handled + 1
    /\ known' = IF m.kind = "PropertyChange" THEN known ELSE known \cup {m.object}
    /\ children' = IF hasKids THEN Applied(children, m) ELSE children
    /\ IF m.kind = "PropertyChange" THEN name' = m.name /\ hasName' = TRUE
       ELSE UNCHANGED <<name, hasName>>
    /\ handler' = CASE m.kind = "RemoveAccessible" -> [kind |-> "dispose", object |-> m.object]
                    [] m.kind = "AddAccessible" -> NoHandler
                    [] OTHER -> [kind |-> "event"]
    /\ parented' \in {parented, parented \cup {m.object}, parented \ {m.object}}
    /\ m.kind # "AddAccessible" => parented' = parented
    /\ UNCHANGED <<hasKids, appVars, busVars, idle, process, nested, calls, sent, asked, historyVars>>

LEMMA HandleMessageTakes ==
    ASSUME TypeOK, HandleMessage
    PROVE  Takes(Head(deferred))
<1> DEFINE m == Head(deferred)
<1>1. deferred # <<>> /\ deferred \in Seq(Message)
  BY DEF HandleMessage, TypeOK
<1>2. m \in Message
  BY <1>1
<1> HIDE DEF m
<1>3. m.kind \in {"PropertyChange", "add", "remove", "AddAccessible", "RemoveAccessible"}
  BY <1>2, MessageFacts
<1>4. /\ process # "no" /\ handler = NoHandler /\ (calls = <<>> \/ calls[Len(calls)] # NoAnswer)
      /\ deferred' = Tail(deferred) /\ handled' = handled + 1
      /\ UNCHANGED <<appVars, busVars, idle, process, nested, calls, sent, asked, historyVars>>
  BY DEF HandleMessage, Processing, Blocked
<1>5. CASE m.kind = "AddAccessible"
  BY <1>1, <1>4, <1>5 DEF HandleMessage, m, AddAccessible, RefAccessible, Takes, Applied
<1>6. CASE m.kind = "RemoveAccessible"
  BY <1>1, <1>4, <1>6 DEF HandleMessage, m, RefAccessible, Takes, Applied
<1>7. CASE m.kind = "PropertyChange"
  BY <1>1, <1>4, <1>7 DEF HandleMessage, m, HandleEvent, PropertyChange, Takes, Applied
<1>8. CASE m.kind \in {"add", "remove"}
  <2>1. HandleEvent(m)
    BY <1>8 DEF HandleMessage, m
  <2>2. ChildrenChanged(m) /\ handler' = [kind |-> "event"]
    BY <1>8, <2>1 DEF HandleEvent
  <2>3. children' = IF hasKids THEN Applied(children, m) ELSE children
    BY <1>8, <2>2 DEF ChildrenChanged, Applied
  <2> QED
    BY <1>1, <1>4, <1>8, <2>2, <2>3 DEF m, ChildrenChanged, RefAccessible, Takes
<1> QED  BY <1>3, <1>5, <1>6, <1>7, <1>8

-----------------------------------------------------------------------------
(* Types and nesting.                                                      *)

HandlerType == {NoHandler} \cup [kind : {"event"}] \cup [kind : {"dispose"}, object : Objects]

\* Calls come and go at the end of the list only.
LEMMA LastCall ==
    ASSUME NEW s \in Seq(CallAnswer), s # <<>>
    PROVE  /\ Len(s) \in Nat \ {0} /\ s[Len(s)] \in CallAnswer /\ s[1] \in CallAnswer
           /\ SubSeq(s, 1, Len(s) - 1) \in Seq(CallAnswer)
           /\ Len(SubSeq(s, 1, Len(s) - 1)) = Len(s) - 1
           /\ \A i \in 1..(Len(s) - 1) : SubSeq(s, 1, Len(s) - 1)[i] = s[i]
           /\ \A a \in CallAnswer :
                 /\ [s EXCEPT ![Len(s)] = a] \in Seq(CallAnswer)
                 /\ Len([s EXCEPT ![Len(s)] = a]) = Len(s)
                 /\ [s EXCEPT ![Len(s)] = a][Len(s)] = a
                 /\ \A i \in 1..(Len(s) - 1) : [s EXCEPT ![Len(s)] = a][i] = s[i]
<1>1. Len(s) \in Nat \ {0} /\ s[Len(s)] \in CallAnswer /\ s[1] \in CallAnswer
  OBVIOUS
<1>2. /\ SubSeq(s, 1, Len(s) - 1) \in Seq(CallAnswer)
      /\ Len(SubSeq(s, 1, Len(s) - 1)) = Len(s) - 1
      /\ \A i \in 1..(Len(s) - 1) : SubSeq(s, 1, Len(s) - 1)[i] = s[i]
  <2> DEFINE n == Len(s) - 1
  <2>1. n \in Nat /\ n <= Len(s) /\ Len(s) \in Nat
    BY <1>1
  <2> HIDE DEF n
  <2>2. /\ SubSeq(s, 1, n) \in Seq(CallAnswer) /\ Len(SubSeq(s, 1, n)) = n
        /\ \A i \in 1..n : SubSeq(s, 1, n)[i] = s[i]
    BY <2>1, ListParts
  <2> QED  BY <2>2 DEF n
<1>3. ASSUME NEW a \in CallAnswer
      PROVE  /\ [s EXCEPT ![Len(s)] = a] \in Seq(CallAnswer)
             /\ Len([s EXCEPT ![Len(s)] = a]) = Len(s)
             /\ [s EXCEPT ![Len(s)] = a][Len(s)] = a
             /\ \A i \in 1..(Len(s) - 1) : [s EXCEPT ![Len(s)] = a][i] = s[i]
  BY <1>1
<1> QED  BY <1>1, <1>2, <1>3

LEMMA StoreNameTyped ==
    ASSUME TypeOK, NEW reply \in CallAnswer, reply # NoAnswer, StoreName(reply)
    PROVE  /\ name' \in Nat /\ hasName' \in BOOLEAN /\ overtaken' \in BOOLEAN
           /\ known' \subseteq Objects /\ parented' \subseteq Objects
           /\ children' \in Seq(Objects) /\ hasKids' \in BOOLEAN
<1>1. CASE reply = Failed
  BY <1>1 DEF StoreName, TypeOK, cacheVars
<1>2. CASE reply # Failed
  <2>1. reply \in [kind : {"name"}, name : Nat, number : Nat]
    BY <1>2 DEF CallAnswer
  <2>2. reply.name \in Nat
    BY <2>1
  <2>3. overtaken' \in BOOLEAN
    BY <1>2 DEF StoreName, TypeOK
  <2> QED  BY <1>2, <2>2, <2>3 DEF StoreName, TypeOK
<1> QED  BY <1>1, <1>2

\* The innermost call is answered.
LEMMA LastReplaced ==
    ASSUME NEW s \in Seq(CallAnswer), s # <<>>, NEW a \in CallAnswer
    PROVE  /\ [s EXCEPT ![Len(s)] = a] \in Seq(CallAnswer)
           /\ Len([s EXCEPT ![Len(s)] = a]) = Len(s)
           /\ [s EXCEPT ![Len(s)] = a][Len(s)] = a
           /\ \A i \in 1..(Len(s) - 1) : [s EXCEPT ![Len(s)] = a][i] = s[i]
BY LastCall

\* Answers and handlers are told apart by their kind.
LEMMA KindsDiffer ==
    /\ NoAnswer # Failed
    /\ \A n, v : [kind |-> "name", name |-> v, number |-> n] \notin {NoAnswer, Failed}
    /\ [kind |-> "event"] # NoHandler
    /\ \A o : [kind |-> "dispose", object |-> o] # NoHandler
<1>1. NoAnswer.kind = "none" /\ Failed.kind = "failed" /\ NoHandler.kind = "none"
  BY DEF NoAnswer, Failed, NoHandler
<1>2. ASSUME NEW n, NEW v PROVE [kind |-> "name", name |-> v, number |-> n].kind = "name"
  OBVIOUS
<1>3. ASSUME NEW o PROVE [kind |-> "dispose", object |-> o].kind = "dispose"
  OBVIOUS
<1>4. [kind |-> "event"].kind = "event"
  OBVIOUS
<1> QED  BY <1>1, <1>2, <1>3, <1>4

LEMMA NestingKept ==
    ASSUME TypeOK, CallsNested, [Next]_vars
    PROVE  CallsNested'
<1> NoAnswer \in CallAnswer /\ Failed \in CallAnswer /\ calls \in Seq(CallAnswer) /\ Len(calls) \in Nat
  BY DEF TypeOK, CallAnswer
<1> process \in {"no", "idle", "call"}
  BY DEF TypeOK
<1>1. CASE UNCHANGED <<process, handler, calls>>
  BY <1>1 DEF CallsNested
<1>2. CASE \/ Rename \/ AnswerAddress \/ AnswerItems
           \/ \E o \in Objects : (\E i \in 0..Len(kids) : AddChild(o, i))
                                 \/ RemoveChild(o) \/ Announce(o) \/ Destroy(o)
  BY <1>1, <1>2 DEF Rename, AnswerAddress, AnswerItems, AddChild, RemoveChild, Announce, Destroy,
                    Change, clientVars
<1>3. CASE AnswerCall \/ CallFails
  <2>1. calls # <<>> /\ calls[Len(calls)] = NoAnswer /\ UNCHANGED <<process, handler>>
    BY <1>3 DEF AnswerCall, CallFails, Blocked
  <2>2. PICK a \in CallAnswer : a # NoAnswer /\ calls' = [calls EXCEPT ![Len(calls)] = a]
    <3>1. [kind |-> "name", name |-> title, number |-> sent] \in CallAnswer
      BY DEF CallAnswer, TypeOK
    <3> QED  BY <1>3, <3>1, KindsDiffer DEF AnswerCall, CallFails
  <2>3. Len(calls') = Len(calls) /\ calls'[Len(calls)] = a
        /\ \A i \in 1..(Len(calls) - 1) : calls'[i] = calls[i]
    BY <2>1, <2>2, LastCall
  <2>4. calls'[1] # NoAnswer \/ calls'[1] = calls[1]
    <3>1. CASE Len(calls) = 1
      BY <2>2, <2>3, <3>1
    <3>2. CASE Len(calls) # 1
      <4>1. 1 \in 1..(Len(calls) - 1)
        BY <2>1, <3>2, LastCall
      <4> QED  BY <2>3, <4>1
    <3> QED  BY <3>1, <3>2
  <2> QED  BY <2>1, <2>3, <2>4 DEF CallsNested
<1>4. CASE Dispatch \/ DispatchAnswer \/ QuestionFails \/ EnterLoop \/ LeaveLoop \/ ClearCache
  BY <1>1, <1>4 DEF Dispatch, DispatchAnswer, QuestionFails, EnterLoop, LeaveLoop, ClearCache, clientVars
<1>5. CASE ProcessBegins
  <2>1. process = "no" /\ UNCHANGED <<handler, calls>> /\ handler = NoHandler /\ Len(calls) <= 1
    BY <1>5 DEF ProcessBegins, CallsNested
  <2>2. \/ calls = <<>> /\ process' = "idle"
        \/ calls # <<>> /\ calls[Len(calls)] # NoAnswer /\ process' = "call"
    BY <1>5 DEF ProcessBegins, Blocked
  <2>3. calls # <<>> => Len(calls) = 1
    BY <2>1, LastCall
  <2>4. calls = <<>> => Len(calls) = 0
    OBVIOUS
  <2> QED  BY <2>1, <2>2, <2>3, <2>4 DEF CallsNested
<1>6. CASE HandleMessage
  <2>1. Takes(Head(deferred))
    BY <1>6, HandleMessageTakes
  <2>2. UNCHANGED <<process, calls>> /\ process # "no" /\ handler = NoHandler
    BY <2>1 DEF Takes
  <2>3. CASE process = "idle"
    <3>1. Len(calls) = 0 /\ process' = "idle"
      BY <2>2, <2>3 DEF CallsNested
    <3>2. Len(calls') <= 0 /\ Len(calls') <= 1
      BY <2>2, <3>1
    <3> QED  BY <3>1, <3>2 DEF CallsNested
  <2>4. CASE process = "call"
    <3>1. Len(calls) = 1 /\ process' = "call" /\ calls[1] # NoAnswer
      BY <2>2, <2>4 DEF CallsNested
    <3>2. Len(calls') \in 1..1 /\ Len(calls') \in 1..2 /\ calls'[1] # NoAnswer
      BY <2>2, <3>1
    <3> QED  BY <3>1, <3>2 DEF CallsNested
  <2> QED  BY <2>2, <2>3, <2>4
<1>7. CASE CallbackReturns
  <2>1. UNCHANGED <<process, calls>> /\ handler' = NoHandler /\ handler # NoHandler
        /\ (calls = <<>> \/ (process = "call" /\ Len(calls) = 1))
    BY <1>7 DEF CallbackReturns, InCallback
  <2>2. calls = <<>> => Len(calls) = 0
    OBVIOUS
  <2> QED  BY <2>1, <2>2 DEF CallsNested
<1>8. CASE ProcessEnds
  <2>1. process' = "no" /\ handler = NoHandler /\ UNCHANGED handler
        /\ calls' = (IF process = "call" THEN <<>> ELSE calls) /\ process # "no"
    BY <1>8 DEF ProcessEnds, Processing
  <2>2. Len(calls') <= 1
    BY <2>1 DEF CallsNested
  <2> QED  BY <2>1, <2>2 DEF CallsNested
<1>9. CASE GetName
  <2>1. /\ process = "no" \/ handler # NoHandler
        /\ calls = <<>> \/ InCallback
        /\ calls' = Append(calls, NoAnswer) /\ UNCHANGED <<process, handler>>
    BY <1>9 DEF GetName, UserRuns
  <2>2. Len(calls') = Len(calls) + 1 /\ (calls # <<>> => calls'[1] = calls[1])
    BY <2>1
  <2>3. calls = <<>> => Len(calls) = 0
    OBVIOUS
  <2>4. CASE calls = <<>>
    BY <2>1, <2>2, <2>3, <2>4 DEF CallsNested
  <2>5. CASE calls # <<>>
    BY <2>1, <2>2, <2>5 DEF CallsNested, InCallback
  <2> QED  BY <2>4, <2>5
<1>10. CASE InnerCallReturns
  <2>1. /\ handler # NoHandler /\ calls # <<>> /\ ~(process = "call" /\ Len(calls) = 1)
        /\ calls' = SubSeq(calls, 1, Len(calls) - 1) /\ UNCHANGED <<process, handler>>
    BY <1>10 DEF InnerCallReturns, InCallback
  <2>2. Len(calls') = Len(calls) - 1 /\ Len(calls) # 0
        /\ \A i \in 1..(Len(calls) - 1) : calls'[i] = calls[i]
    BY <2>1, LastCall
  <2>3. Len(calls) = 2 => calls'[1] = calls[1]
    BY <2>2
  <2> QED  BY <2>1, <2>2, <2>3 DEF CallsNested
<1>11. CASE UNCHANGED vars
  BY <1>1, <1>11 DEF vars, clientVars
<1> QED
  BY <1>2, <1>3, <1>4, <1>5, <1>6, <1>7, <1>8, <1>9, <1>10, <1>11 DEF Next, AppNext, ClientNext

\* A record of the application's items, as it was asked for.
LEMMA ItemsFacts ==
    ASSUME TypeOK, answer.kind = "items"
    PROVE  /\ answer.kids \in Seq(Objects) /\ answer.name \in Nat
           /\ answer.announced \subseteq Objects /\ answer.number \in Nat
<1>1. answer \in [kind : {"items"}, kids : Seq(Objects), name : Nat,
                  announced : SUBSET Objects, number : Nat]
  <2>1. answer \in QuestionAnswer
    BY DEF TypeOK
  <2>2. NoAnswer.kind = "none"
    BY DEF NoAnswer
  <2> QED  BY <2>1, <2>2 DEF QuestionAnswer
<1> QED  BY <1>1

LEMMA TypesKept ==
    ASSUME TypeOK, CallsNested, AppSound, IsInjective(children), [Next]_vars
    PROVE  TypeOK'
<1> USE DEF TypeOK
<1> RangeOf(kids) \subseteq Objects /\ RangeOf(children) \subseteq Objects
  BY InRange
<1>1. CASE \/ Rename
           \/ \E o \in Objects : (\E i \in 0..Len(kids) : AddChild(o, i))
                                 \/ RemoveChild(o) \/ Announce(o) \/ Destroy(o)
  <2>1. PICK m : AppTells(m)
    <3> HIDE DEF TypeOK
    <3> QED  BY <1>1, AppStepTells
  <2>2. inbox' \in Seq(Message) /\ sent' \in Nat
    BY <2>1 DEF AppTells
  <2>3. kids' \in Seq(Objects)
    BY <2>1, AppliedFacts DEF AppTells, AppSound
  <2>4. title' \in Nat /\ gone' \subseteq Objects /\ announced' \subseteq Objects
    BY <2>1, MessageFacts DEF AppTells
  <2>5. UNCHANGED <<stage, direct, answer, clientVars, cacheVars, handled, asked, historyVars>>
    BY <2>1 DEF AppTells
  <2> QED  BY <2>2, <2>3, <2>4, <2>5 DEF clientVars, cacheVars, historyVars
<1>2. CASE AnswerAddress
  <2>1. answer' \in QuestionAnswer
    BY <1>2 DEF AnswerAddress, QuestionAnswer
  <2> QED  BY <1>2, <2>1 DEF AnswerAddress, appVars, clientVars, cacheVars, historyVars
<1>3. CASE AnswerItems
  <2>1. answer' \in QuestionAnswer
    BY <1>3 DEF AnswerItems, QuestionAnswer
  <2> QED  BY <1>3, <2>1 DEF AnswerItems, appVars, clientVars, cacheVars, historyVars
<1>4. CASE AnswerCall
  <2>1. [kind |-> "name", name |-> title, number |-> sent] \in CallAnswer
    BY DEF CallAnswer
  <2>2. calls' \in Seq(CallAnswer)
    BY <1>4, <2>1, LastCall DEF AnswerCall
  <2> QED  BY <1>4, <2>2 DEF AnswerCall, appVars, busVars, cacheVars, historyVars
<1>5. CASE Dispatch
  <2>1. inbox # <<>>
    BY <1>5 DEF Dispatch, SignalDue
  <2>2. inbox' \in Seq(Message) /\ deferred' \in Seq(Message) /\ idle' = TRUE
    BY <1>5, <2>1 DEF Dispatch, DeferMessage
  <2> QED  BY <1>5, <2>2 DEF Dispatch, appVars, cacheVars, historyVars
<1>6. CASE DispatchAnswer
  <2>0. NoAnswer \in QuestionAnswer
    BY DEF QuestionAnswer
  <2>1. CASE answer.kind = "address" /\ direct' = answer.direct /\ stage' = "items"
             /\ UNCHANGED <<cacheVars, historyVars>>
    <3>1. answer \in [kind : {"address"}, direct : {"no", "opened"}, number : Nat]
      <4>1. NoAnswer.kind = "none"
        BY DEF NoAnswer
      <4> QED  BY <2>1, <4>1 DEF QuestionAnswer
    <3>2. direct' \in {"no", "opened"}
      BY <2>1, <3>1
    <3> QED  BY <1>6, <2>0, <2>1, <3>2 DEF DispatchAnswer, appVars, clientVars, cacheVars, historyVars
  <2>2. CASE answer.kind = "items" /\ SetItems(answer) /\ stage' = "done" /\ UNCHANGED direct
    <3>1. /\ answer.kids \in Seq(Objects) /\ answer.name \in Nat
          /\ answer.announced \subseteq Objects /\ answer.number \in Nat
      BY <2>2, ItemsFacts
    <3>2. RangeOf(answer.kids) \subseteq Objects
      BY <3>1, InRange
    <3>3. overtaken' \in BOOLEAN /\ replayed' \in BOOLEAN
      BY <2>2 DEF SetItems
    <3>4. known' \subseteq Objects /\ parented' \subseteq Objects
      BY <2>2, <3>1, <3>2 DEF SetItems
    <3> QED  BY <1>6, <2>0, <2>2, <3>1, <3>3, <3>4 DEF DispatchAnswer, SetItems, appVars, clientVars
  <2> QED  BY <1>6, <2>1, <2>2 DEF DispatchAnswer
<1>7. CASE QuestionFails
  <2>1. answer' \in QuestionAnswer
    BY <1>7 DEF QuestionFails, QuestionAnswer
  <2> QED  BY <1>7, <2>1 DEF QuestionFails, appVars, clientVars, cacheVars, historyVars
<1>8. CASE ProcessBegins
  BY <1>8 DEF ProcessBegins, appVars, busVars, cacheVars, historyVars
<1>9. CASE HandleMessage
  <2> DEFINE m == Head(deferred)
  <2>1. Takes(m)
    <3> HIDE DEF TypeOK
    <3> QED  BY <1>9, HandleMessageTakes
  <2>2. m \in Message /\ deferred' \in Seq(Message)
    BY <2>1 DEF Takes
  <2> HIDE DEF m
  <2>3. m.kind # "PropertyChange" => m.object \in Objects
    BY <2>2, MessageFacts
  <2>4. known' \subseteq Objects /\ parented' \subseteq Objects
    <3>1. m.kind = "PropertyChange" => parented' = parented /\ known' = known
      BY <2>1 DEF Takes
    <3> QED  BY <2>1, <2>3, <3>1 DEF Takes
  <2>5. children' \in Seq(Objects)
    BY <2>1, <2>2, AppliedFacts DEF Takes
  <2>6. name' \in Nat /\ hasName' \in BOOLEAN
    BY <2>1, <2>2, MessageFacts DEF Takes
  <2>7. handler' \in HandlerType
    BY <2>1, <2>2, MessageFacts DEF Takes, HandlerType
  <2>8. handled' \in Nat
    BY <2>1 DEF Takes
  <2>9. UNCHANGED <<hasKids, appVars, busVars, idle, process, nested, calls, sent, asked, historyVars>>
    BY <2>1 DEF Takes
  <2> QED  BY <2>2, <2>4, <2>5, <2>6, <2>7, <2>8, <2>9 DEF HandlerType, appVars, busVars, historyVars
<1>10. CASE CallbackReturns
  <2>1. /\ known' \subseteq Objects /\ parented' \subseteq Objects
        /\ children' \in Seq(Objects) /\ UNCHANGED <<hasKids, name, hasName>>
    <3>1. CASE handler.kind = "dispose"
      <4>1. Dispose(handler.object)
        BY <1>10, <3>1 DEF CallbackReturns
      <4>2. children' \in Seq(Objects)
        BY <4>1, WithoutFacts DEF Dispose
      <4> QED  BY <4>1, <4>2 DEF Dispose
    <3>2. CASE handler.kind # "dispose"
      BY <1>10, <3>2 DEF CallbackReturns, cacheVars
    <3> QED  BY <3>1, <3>2
  <2> QED  BY <1>10, <2>1 DEF CallbackReturns, appVars, busVars, historyVars
<1>11. CASE EnterLoop \/ LeaveLoop
  <2>1. nested' \in BOOLEAN /\ UNCHANGED <<appVars, busVars, deferred, idle, process, handler, calls,
                                           cacheVars, sent, handled, asked, historyVars>>
    BY <1>11 DEF EnterLoop, LeaveLoop
  <2> QED  BY <2>1 DEF appVars, busVars, cacheVars, historyVars
<1>12. CASE ProcessEnds
  <2>1. CASE process = "call"
    <3>1. calls # <<>> /\ calls[1] # NoAnswer
      BY <2>1 DEF CallsNested
    <3>2. calls[1] \in CallAnswer
      BY <3>1, LastCall
    <3>3. StoreName(calls[1]) /\ calls' = <<>>
      BY <1>12, <2>1 DEF ProcessEnds
    <3>4. /\ name' \in Nat /\ hasName' \in BOOLEAN /\ overtaken' \in BOOLEAN
          /\ known' \subseteq Objects /\ parented' \subseteq Objects
          /\ children' \in Seq(Objects) /\ hasKids' \in BOOLEAN
      <4> HIDE DEF TypeOK
      <4> QED  BY <3>1, <3>2, <3>3, StoreNameTyped
    <3>5. calls' \in Seq(CallAnswer) /\ idle' \in BOOLEAN
      BY <1>12, <3>3 DEF ProcessEnds
    <3> QED  BY <1>12, <3>4, <3>5 DEF ProcessEnds, appVars, busVars
  <2>2. CASE process # "call"
    <3>1. idle' \in BOOLEAN /\ UNCHANGED <<calls, cacheVars, overtaken>>
      BY <1>12, <2>2 DEF ProcessEnds
    <3> QED  BY <1>12, <3>1 DEF ProcessEnds, appVars, busVars, cacheVars
  <2> QED  BY <2>1, <2>2
<1>13. CASE GetName
  <2>1. NoAnswer \in CallAnswer
    BY DEF CallAnswer
  <2>2. calls' \in Seq(CallAnswer) /\ asked' \in Nat /\ direct' \in {"no", "opened", "watched"}
    BY <1>13, <2>1 DEF GetName
  <2> QED  BY <1>13, <2>2 DEF GetName, appVars, cacheVars, historyVars
<1>14. CASE InnerCallReturns
  <2>1. calls # <<>> /\ calls[Len(calls)] # NoAnswer /\ StoreName(calls[Len(calls)])
        /\ calls' = SubSeq(calls, 1, Len(calls) - 1)
    BY <1>14 DEF InnerCallReturns, InCallback, Blocked
  <2>2. calls[Len(calls)] \in CallAnswer /\ calls' \in Seq(CallAnswer)
    BY <2>1, LastCall
  <2>3. /\ name' \in Nat /\ hasName' \in BOOLEAN /\ overtaken' \in BOOLEAN
        /\ known' \subseteq Objects /\ parented' \subseteq Objects
        /\ children' \in Seq(Objects) /\ hasKids' \in BOOLEAN
    <3> HIDE DEF TypeOK
    <3> QED  BY <2>1, <2>2, StoreNameTyped
  <2> QED  BY <1>14, <2>2, <2>3 DEF InnerCallReturns, appVars, busVars
<1>15. CASE CallFails
  <2>1. Failed \in CallAnswer
    BY DEF CallAnswer
  <2>2. calls' \in Seq(CallAnswer)
    BY <1>15, <2>1, LastCall DEF CallFails, Blocked
  <2>3. /\ UNCHANGED <<kids, title, announced, gone, inbox, stage, direct, answer>>
        /\ UNCHANGED <<deferred, idle, process, handler, nested, sent, handled, asked>>
        /\ UNCHANGED <<known, parented, children, hasKids, name, hasName, overtaken, replayed>>
    BY <1>15 DEF CallFails, appVars, busVars, cacheVars, historyVars
  <2> QED  BY <2>2, <2>3
<1>16. CASE ClearCache
  <2>1. /\ UNCHANGED <<kids, title, announced, gone, inbox, stage, direct, answer>>
        /\ UNCHANGED <<deferred, idle, process, handler, nested, calls>>
        /\ UNCHANGED <<known, parented, children, name, sent, handled, asked, overtaken, replayed>>
        /\ hasKids' = FALSE /\ hasName' = FALSE
    BY <1>16 DEF ClearCache, appVars, busVars, clientVars, historyVars
  <2>2. hasKids' \in BOOLEAN /\ hasName' \in BOOLEAN
    BY <2>1
  <2> QED  BY <2>1, <2>2
<1>17. CASE UNCHANGED vars
  BY <1>17 DEF vars, appVars, busVars, clientVars, cacheVars, historyVars
<1> HIDE DEF TypeOK
<1> QED
  BY <1>1, <1>2, <1>3, <1>4, <1>5, <1>6, <1>7, <1>8, <1>9, <1>10, <1>11, <1>12, <1>13, <1>14, <1>15,
     <1>16, <1>17 DEF Next, AppNext, ClientNext

-----------------------------------------------------------------------------
(* What was known after signal n, when one more is sent and when the first  *)
(* one is taken.                                                           *)

Numbered(C, h, s) ==
    /\ h \in Nat /\ s \in Nat
    /\ C \subseteq Message
    /\ \A m \in C : m.number \in Nat /\ m.number > h /\ m.number <= s
    /\ \A m, k \in C : m.number = k.number => m = k

\* Whoever knew more knows what was known earlier.
LEMMA FreshEarlier ==
    ASSUME NEW R, \A m \in R : m.number \in Nat, NEW n \in Nat, NEW i \in Nat, i <= n,
           NEW v, NEW a, Fresh(v, n, R, a)
    PROVE  Fresh(v, i, R, a)
BY DEF Fresh

LEMMA KidsEarlier ==
    ASSUME NEW C \in SUBSET Message, NEW n \in Nat, NEW i \in Nat, i <= n,
           NEW L, NEW K, KidsFresh(L, n, C, K)
    PROVE  KidsFresh(L, i, C, K)
<1>1. \A m \in C : m.number \in Nat
  BY MessageFacts
<1>2. ASSUME NEW o \in Objects
      PROVE  Fresh(RangeOf(L) \cap {o}, i, Moves(C, o), RangeOf(K) \cap {o})
  <2>1. \A m \in Moves(C, o) : m.number \in Nat
    BY <1>1 DEF Moves, About
  <2> QED  BY <2>1, FreshEarlier DEF KidsFresh
<1> QED  BY <1>2 DEF KidsFresh

\* The application tells of a change: the signal is later than n.
LEMMA NameSent ==
    ASSUME NEW m, AppTells(m), NEW C, NEW n \in Nat, n < m.number, m.number \in Nat,
           NEW v, NameFresh(v, n, C, title)
    PROVE  NameFresh(v, n, C \cup {m}, title')
<1>1. CASE m.kind = "PropertyChange"
  <2>1. m \in Renames(C \cup {m}) /\ ~(m.number <= n)
    BY <1>1 DEF Renames
  <2> QED  BY <2>1 DEF NameFresh, Fresh
<1>2. CASE m.kind # "PropertyChange"
  <2>1. Renames(C \cup {m}) = Renames(C) /\ title' = title
    BY <1>2 DEF Renames, AppTells
  <2> QED  BY <2>1 DEF NameFresh
<1> QED  BY <1>1, <1>2

LEMMA KidsChange ==
    ASSUME TypeOK, AppSound, NEW m, AppTells(m), NEW o \in Objects, NEW C
    PROVE  \/ /\ m \in Moves(C \cup {m}, o) /\ m.object = o
              /\ RangeOf(kids') \cap {o} = IF m.kind = "add" THEN {o} ELSE {}
           \/ /\ Moves(C \cup {m}, o) = Moves(C, o)
              /\ RangeOf(kids') \cap {o} = RangeOf(kids) \cap {o}
<1>1. RangeOf(kids') = IF m.kind = "remove" THEN RangeOf(kids) \ {m.object}
                       ELSE IF m.kind = "add" THEN RangeOf(kids) \cup {m.object} ELSE RangeOf(kids)
  BY AppliedFacts DEF AppTells, AppSound, TypeOK
<1>2. CASE m.kind \in {"add", "remove"} /\ m.object = o
  BY <1>1, <1>2 DEF Moves, About
<1>3. CASE ~(m.kind \in {"add", "remove"} /\ m.object = o)
  <2>1. Moves(C \cup {m}, o) = Moves(C, o)
    BY <1>3 DEF Moves, About
  <2> QED  BY <1>1, <1>3, <2>1
<1> QED  BY <1>2, <1>3

LEMMA KidsSent ==
    ASSUME TypeOK, AppSound, NEW m, AppTells(m), NEW C, NEW n \in Nat, n < m.number, m.number \in Nat,
           NEW L, KidsFresh(L, n, C, kids)
    PROVE  KidsFresh(L, n, C \cup {m}, kids')
<1> SUFFICES ASSUME NEW o \in Objects
             PROVE  Fresh(RangeOf(L) \cap {o}, n, Moves(C \cup {m}, o), RangeOf(kids') \cap {o})
  BY DEF KidsFresh
<1>1. CASE m \in Moves(C \cup {m}, o)
  BY <1>1 DEF Fresh
<1>2. CASE Moves(C \cup {m}, o) = Moves(C, o) /\ RangeOf(kids') \cap {o} = RangeOf(kids) \cap {o}
  BY <1>2 DEF KidsFresh
<1> QED  BY <1>1, <1>2, KidsChange

LEMMA GoneSent ==
    ASSUME NEW m, AppTells(m), NEW C, NEW n \in Nat, n < m.number,
           NEW S, GoneTold(S, n, C, gone)
    PROVE  GoneTold(S, n, C \cup {m}, gone')
<1> SUFFICES ASSUME NEW o \in S \cap gone'
             PROVE  \E r \in Destroys(C \cup {m}, o) : r.number > n
  BY DEF GoneTold
<1>1. CASE o \in gone
  <2>1. PICK r \in Destroys(C, o) : r.number > n
    BY <1>1 DEF GoneTold
  <2>2. r \in Destroys(C \cup {m}, o)
    BY DEF Destroys, About
  <2> QED  BY <2>1, <2>2
<1>2. CASE o \notin gone
  <2>1. m.kind = "RemoveAccessible" /\ m.object = o
    BY <1>2 DEF AppTells
  <2>2. m \in Destroys(C \cup {m}, o) /\ m.number > n
    BY <2>1, MessageFacts DEF Destroys, About, AppTells
  <2> QED  BY <2>2
<1> QED  BY <1>1, <1>2

LEMMA LeadsSent ==
    ASSUME TypeOK, AppSound, NEW m, AppTells(m), NEW C, Numbered(C, handled, sent),
           NEW n \in Nat, n <= sent, NEW L, Leads(L, n, C, kids, sent)
    PROVE  Leads(L, n, C \cup {m}, kids', sent + 1)
<1>1. PICK h \in [Nat -> Seq(Objects)] :
        /\ h[n] = L /\ h[sent] = kids
        /\ \A k \in C : k.number > n => h[k.number] = Applied(h[k.number - 1], k)
  BY DEF Leads
<1>2. sent \in Nat /\ m.number = sent + 1 /\ kids' = Applied(kids, m) /\ kids' \in Seq(Objects)
  BY AppliedFacts DEF AppTells, AppSound, TypeOK
<1> DEFINE g == [h EXCEPT ![sent + 1] = kids']
<1>3. /\ g \in [Nat -> Seq(Objects)] /\ g[sent + 1] = kids'
      /\ \A i \in Nat : i # sent + 1 => g[i] = h[i]
  BY <1>2
<1> HIDE DEF g
<1>4. g[n] = L /\ g[sent] = kids
  BY <1>1, <1>2, <1>3
<1>5. ASSUME NEW k \in C \cup {m}, k.number > n
      PROVE  g[k.number] = Applied(g[k.number - 1], k)
  <2>1. CASE k \in C
    <3>1. k.number \in Nat /\ k.number <= sent /\ k.number > handled /\ handled \in Nat
      BY <2>1 DEF Numbered
    <3>2. k.number - 1 \in Nat /\ k.number # sent + 1 /\ k.number - 1 # sent + 1
      <4> DEFINE i == k.number
      <4>1. sent \in Nat /\ handled \in Nat /\ i \in Nat /\ i <= sent /\ i > handled
        BY <1>2, <3>1
      <4> HIDE DEF i
      <4>2. i - 1 \in Nat /\ i # sent + 1 /\ i - 1 # sent + 1
        BY <4>1
      <4> QED  BY <4>2 DEF i
    <3>3. h[k.number] = Applied(h[k.number - 1], k)
      BY <1>1, <1>5, <2>1
    <3>4. g[k.number] = h[k.number] /\ g[k.number - 1] = h[k.number - 1]
      BY <1>3, <3>1, <3>2
    <3> QED  BY <3>3, <3>4
  <2>2. CASE k = m
    <3>1. k.number - 1 = sent
      <4>1. sent \in Nat /\ k.number = sent + 1
        BY <1>2, <2>2
      <4> QED  BY <4>1
    <3> QED  BY <1>2, <1>3, <1>4, <2>2, <3>1
  <2> QED  BY <2>1, <2>2
<1> QED  BY <1>3, <1>4, <1>5 DEF Leads

\* A signal that is no later than n is taken.
LEMMA FreshTaken ==
    ASSUME NEW R, NEW m, NEW n, m.number <= n, NEW v, NEW a, Fresh(v, n, R, a)
    PROVE  Fresh(v, n, R \ {m}, a)
BY DEF Fresh

LEMMA NameTaken ==
    ASSUME NEW C, NEW m, NEW n, m.number <= n, NEW v, NEW t, NameFresh(v, n, C, t)
    PROVE  NameFresh(v, n, C \ {m}, t)
<1>1. Renames(C \ {m}) = Renames(C) \ {m}
  BY DEF Renames
<1> QED  BY <1>1, FreshTaken DEF NameFresh

LEMMA MovesTaken ==
    ASSUME NEW C, NEW m, NEW o
    PROVE  Moves(C \ {m}, o) = Moves(C, o) \ {m}
BY DEF Moves, About

LEMMA KidsTaken ==
    ASSUME NEW C, NEW m, NEW n, m.number <= n, NEW L, NEW K, KidsFresh(L, n, C, K)
    PROVE  KidsFresh(L, n, C \ {m}, K)
<1> SUFFICES ASSUME NEW o \in Objects
             PROVE  Fresh(RangeOf(L) \cap {o}, n, Moves(C \ {m}, o), RangeOf(K) \cap {o})
  BY DEF KidsFresh
<1>1. Fresh(RangeOf(L) \cap {o}, n, Moves(C, o), RangeOf(K) \cap {o})
  BY DEF KidsFresh
<1>2. Fresh(RangeOf(L) \cap {o}, n, Moves(C, o) \ {m}, RangeOf(K) \cap {o})
  BY <1>1, FreshTaken
<1> QED  BY <1>2, MovesTaken

LEMMA GoneTaken ==
    ASSUME NEW C \in SUBSET Message, NEW m \in C, NEW n \in Nat, m.number <= n,
           NEW S, NEW G, GoneTold(S, n, C, G)
    PROVE  GoneTold(S, n, C \ {m}, G)
<1> SUFFICES ASSUME NEW o \in S \cap G
             PROVE  \E r \in Destroys(C \ {m}, o) : r.number > n
  BY DEF GoneTold
<1>1. PICK r \in Destroys(C, o) : r.number > n
  BY DEF GoneTold
<1>2. r # m
  BY <1>1, MessageFacts
<1>3. r \in Destroys(C \ {m}, o)
  BY <1>2 DEF Destroys, About
<1> QED  BY <1>1, <1>3

LEMMA LeadsTaken ==
    ASSUME NEW C, NEW m, NEW n, NEW L, NEW K, NEW s, Leads(L, n, C, K, s)
    PROVE  Leads(L, n, C \ {m}, K, s)
BY DEF Leads

\* What the cache was before the first signal it is, with what that one says,
\* after it.
LEMMA NameHandled ==
    ASSUME NEW C, NEW h, NEW s, Numbered(C, h, s), NEW m \in C, m.number = h + 1,
           m.kind # "PropertyChange", NEW v, NEW t, NameFresh(v, h, C, t)
    PROVE  NameFresh(v, h + 1, C \ {m}, t)
<1> SUFFICES ASSUME \A k \in Renames(C \ {m}) : k.number <= h + 1
             PROVE  v = t
  BY DEF NameFresh, Fresh
<1>1. ASSUME NEW k \in Renames(C) PROVE FALSE
  <2>1. k \in C /\ k # m /\ k \in Renames(C \ {m})
    BY DEF Renames
  <2>2. k.number <= h + 1 /\ k.number > h /\ k.number \in Nat /\ h \in Nat
    BY <2>1 DEF Numbered
  <2>3. k.number = m.number
    BY <2>2
  <2> QED  BY <2>1, <2>3 DEF Numbered
<1> QED  BY <1>1 DEF NameFresh, Fresh

LEMMA KidsHandled ==
    ASSUME NEW C, NEW h, NEW s, Numbered(C, h, s), NEW m \in C, m.number = h + 1,
           NEW L \in Seq(Objects), IsInjective(L), NEW K, KidsFresh(L, h, C, K),
           \A o \in Objects : \A k \in Moves(C, o) :
               Fresh(IF k.kind = "add" THEN {o} ELSE {}, k.number, Moves(C, o), RangeOf(K) \cap {o})
    PROVE  KidsFresh(Applied(L, m), h + 1, C \ {m}, K)
<1>0. m \in Message
  BY DEF Numbered
<1> SUFFICES ASSUME NEW o \in Objects, \A k \in Moves(C \ {m}, o) : k.number <= h + 1
             PROVE  RangeOf(Applied(L, m)) \cap {o} = RangeOf(K) \cap {o}
  BY DEF KidsFresh, Fresh
<1>1. ASSUME NEW k \in Moves(C, o) PROVE k = m
  <2>1. CASE k # m
    <3>1. k \in C /\ k \in Moves(C \ {m}, o)
      BY <2>1 DEF Moves, About
    <3>2. k.number <= h + 1 /\ k.number > h /\ k.number \in Nat /\ h \in Nat
      BY <3>1 DEF Numbered
    <3>3. k.number = m.number
      BY <3>2
    <3> QED  BY <3>1, <3>3 DEF Numbered
  <2> QED  BY <2>1
<1>2. RangeOf(Applied(L, m)) =
        IF m.kind = "remove" THEN RangeOf(L) \ {m.object}
        ELSE IF m.kind = "add" THEN RangeOf(L) \cup {m.object} ELSE RangeOf(L)
  BY <1>0, AppliedFacts
<1>3. CASE m \in Moves(C, o)
  <2>1. m.kind \in {"add", "remove"} /\ m.object = o
    BY <1>3 DEF Moves, About
  <2>2. m.number \in Nat
    BY <1>0, MessageFacts
  <2>3. \A k \in Moves(C, o) : k.number <= m.number
    BY <1>1, <2>2
  <2>4. (IF m.kind = "add" THEN {o} ELSE {}) = RangeOf(K) \cap {o}
    BY <1>3, <2>3 DEF Fresh
  <2> QED  BY <1>2, <2>1, <2>4
<1>4. CASE m \notin Moves(C, o)
  <2>1. Moves(C, o) = {}
    BY <1>1, <1>4
  <2>2. RangeOf(L) \cap {o} = RangeOf(K) \cap {o}
    BY <2>1 DEF KidsFresh, Fresh
  <2>3. ~(m.kind \in {"add", "remove"} /\ m.object = o)
    BY <1>4 DEF Moves, About
  <2> QED  BY <1>2, <2>2, <2>3
<1> QED  BY <1>3, <1>4

LEMMA LeadsHandled ==
    ASSUME NEW C, NEW h, NEW s, Numbered(C, h, s), NEW m \in C, m.number = h + 1,
           NEW L, NEW K, Leads(L, h, C, K, s)
    PROVE  Leads(Applied(L, m), h + 1, C \ {m}, K, s)
<1>0. h \in Nat
  BY DEF Numbered
<1>1. PICK g \in [Nat -> Seq(Objects)] :
        /\ g[h] = L /\ g[s] = K
        /\ \A k \in C : k.number > h => g[k.number] = Applied(g[k.number - 1], k)
  BY DEF Leads
<1>2. g[h + 1] = Applied(L, m)
  <2>1. m.number > h /\ m.number - 1 = h
    BY <1>0
  <2> QED  BY <1>1, <2>1
<1>3. ASSUME NEW k \in C \ {m}, k.number > h + 1
      PROVE  g[k.number] = Applied(g[k.number - 1], k)
  <2>1. k.number > h
    BY <1>0, <1>3 DEF Numbered
  <2> QED  BY <1>1, <2>1
<1> QED  BY <1>1, <1>2, <1>3 DEF Leads

-----------------------------------------------------------------------------
(* The application changes.                                                *)

LEMMA TellsWhere ==
    ASSUME TypeOK, QueueInv, NEW m, AppTells(m)
    PROVE  /\ Numbered(Coming, handled, sent)
           /\ Coming' = Coming \cup {m}
           /\ m \in Message /\ m.number \in Nat
           /\ \A n \in Nat : n <= sent => n < m.number
           /\ UNCHANGED <<deferred, handler, handled, answer, calls, cacheVars, historyVars>>
<1>1. Numbered(Coming, handled, sent)
  BY ComingNumbered DEF Numbered
<1>2. m \in Message /\ m.number = sent + 1 /\ inbox' = Append(inbox, m)
      /\ UNCHANGED <<deferred, handler, handled, answer, calls, cacheVars, historyVars>>
  BY DEF AppTells, clientVars
<1>3. Coming' = Coming \cup {m}
  BY <1>2, ComingSent
<1>4. sent \in Nat
  BY DEF TypeOK
<1> QED  BY <1>1, <1>2, <1>3, <1>4

LEMMA AppSoundTold ==
    ASSUME TypeOK, AppSound, NEW m, AppTells(m)
    PROVE  AppSound'
<1>1. IsInjective(kids') /\
      RangeOf(kids') = IF m.kind = "remove" THEN RangeOf(kids) \ {m.object}
                       ELSE IF m.kind = "add" THEN RangeOf(kids) \cup {m.object} ELSE RangeOf(kids)
  BY AppliedFacts DEF AppTells, AppSound, TypeOK
<1>2. RangeOf(kids') \cap gone' = {}
  BY <1>1 DEF AppTells, AppSound
<1> QED  BY <1>1, <1>2 DEF AppSound, AppTells

LEMMA DestroyLastTold ==
    ASSUME TypeOK, QueueInv, DestroyLast, NEW m, AppTells(m)
    PROVE  DestroyLast'
<1>1. /\ Coming' = Coming \cup {m} /\ handler' = handler
      /\ m.kind # "PropertyChange" => m.object \notin gone
      /\ gone' = IF m.kind = "RemoveAccessible" THEN gone \cup {m.object} ELSE gone
      /\ m.number = sent + 1 /\ sent \in Nat
      /\ \A k \in Coming : k.number \in Nat /\ k.number <= sent
  BY TellsWhere DEF AppTells, Numbered, TypeOK
<1>2. ASSUME NEW o \in gone PROVE About(Coming', o) = About(Coming, o) /\ Destroys(Coming', o) = Destroys(Coming, o)
  BY <1>1, <1>2 DEF About, Destroys
<1>3. ASSUME NEW k \in Coming', k.kind = "RemoveAccessible"
      PROVE  k.object \in gone' /\ \A j \in About(Coming', k.object) : j.number <= k.number
  <2>1. CASE k \in Coming
    BY <1>1, <1>2, <1>3, <2>1 DEF DestroyLast
  <2>2. CASE k = m
    <3>1. \A j \in Coming' : j.number <= m.number
      BY <1>1
    <3> QED  BY <1>1, <1>3, <2>2, <3>1 DEF About
  <2> QED  BY <1>1, <2>1, <2>2
<1>4. ASSUME NEW o \in gone', About(Coming', o) # {} PROVE Destroys(Coming', o) # {}
  <2>1. CASE o \in gone
    BY <1>2, <1>4, <2>1 DEF DestroyLast
  <2>2. CASE o \notin gone
    <3>1. m.kind = "RemoveAccessible" /\ m.object = o
      BY <1>1, <2>2
    <3>2. m \in Destroys(Coming', o)
      BY <1>1, <3>1 DEF Destroys, About
    <3> QED  BY <3>2
  <2> QED  BY <2>1, <2>2
<1>5. handler'.kind = "dispose" => handler'.object \in gone' /\ About(Coming', handler'.object) = {}
  BY <1>1, <1>2 DEF DestroyLast
<1> QED  BY <1>3, <1>4, <1>5 DEF DestroyLast

LEMMA LastTellsTold ==
    ASSUME TypeOK, QueueInv, AppSound, LastTells, NEW m, AppTells(m)
    PROVE  LastTells'
<1>1. /\ Numbered(Coming, handled, sent) /\ Coming' = Coming \cup {m} /\ m.number \in Nat
      /\ \A n \in Nat : n <= sent => n < m.number
  BY TellsWhere
<1>2. \A k \in Coming : k.number \in Nat /\ k.number < m.number
  BY <1>1 DEF Numbered
<1>3. ASSUME NEW k \in Renames(Coming')
      PROVE  NameFresh(k.name, k.number, Coming', title')
  <2>1. CASE k = m
    <3>1. title' = m.name
      BY <1>3, <2>1 DEF Renames, AppTells
    <3> QED  BY <2>1, <3>1 DEF NameFresh, Fresh
  <2>2. CASE k \in Renames(Coming)
    <3>1. k \in Coming
      BY <2>2 DEF Renames
    <3>2. NameFresh(k.name, k.number, Coming, title)
      BY <2>2 DEF LastTells
    <3> QED  BY <1>1, <1>2, <3>1, <3>2, NameSent
  <2> QED  BY <1>1, <1>3, <2>1, <2>2 DEF Renames
<1>4. ASSUME NEW o \in Objects, NEW k \in Moves(Coming', o)
      PROVE  Fresh(IF k.kind = "add" THEN {o} ELSE {}, k.number, Moves(Coming', o),
                   RangeOf(kids') \cap {o})
  <2>1. CASE k = m
    <3>1. m.kind \in {"add", "remove"} /\ m.object = o
      BY <1>4, <2>1 DEF Moves, About
    <3>2. RangeOf(kids') = IF m.kind = "remove" THEN RangeOf(kids) \ {m.object}
                           ELSE RangeOf(kids) \cup {m.object}
      BY <3>1, AppliedFacts DEF AppTells, AppSound, TypeOK
    <3>3. RangeOf(kids') \cap {o} = IF k.kind = "add" THEN {o} ELSE {}
      BY <2>1, <3>1, <3>2
    <3> QED  BY <3>3 DEF Fresh
  <2>2. CASE k \in Moves(Coming, o)
    <3>1. k \in Coming
      BY <2>2 DEF Moves, About
    <3>2. k.number \in Nat /\ ~(m.number <= k.number)
      BY <1>1, <1>2, <3>1
    <3>3. CASE m \in Moves(Coming', o)
      BY <3>2, <3>3 DEF Fresh
    <3>4. CASE Moves(Coming', o) = Moves(Coming, o) /\ RangeOf(kids') \cap {o} = RangeOf(kids) \cap {o}
      BY <2>2, <3>4 DEF LastTells
    <3> QED  BY <1>1, <3>3, <3>4, KidsChange
  <2>3. k = m \/ k \in Moves(Coming, o)
    BY <1>1, <1>4 DEF Moves, About
  <2> QED  BY <2>1, <2>2, <2>3
<1> QED  BY <1>3, <1>4 DEF LastTells

LEMMA TellsTold ==
    ASSUME TypeOK, QueueInv, AppSound, Tells, NEW m, AppTells(m)
    PROVE  Tells'
<1>1. /\ Numbered(Coming, handled, sent) /\ Coming' = Coming \cup {m} /\ m.number \in Nat
      /\ \A n \in Nat : n <= sent => n < m.number
      /\ UNCHANGED <<handler, handled, answer, calls, cacheVars, historyVars>>
  BY TellsWhere
<1>2. sent \in Nat /\ handled \in Nat /\ handled <= sent /\ sent' = sent + 1
  BY ComingNumbered DEF AppTells
<1>3. LastTells'
  BY LastTellsTold DEF Tells
<1>4. ItemsTell'
  <2> SUFFICES ASSUME answer.kind = "items"
               PROVE  /\ IsInjective(answer.kids) /\ answer.number <= sent'
                      /\ handled <= answer.number =>
                            /\ NameFresh(answer.name, answer.number, Coming', title')
                            /\ KidsFresh(answer.kids, answer.number, Coming', kids')
                            /\ GoneTold(RangeOf(answer.kids) \cup answer.announced, answer.number,
                                        Coming', gone')
                            /\ Leads(answer.kids, answer.number, Coming', kids', sent')
    BY <1>1 DEF ItemsTell
  <2>1. answer.number \in Nat
    BY ItemsFacts
  <2>2. IsInjective(answer.kids) /\ answer.number <= sent
    BY DEF Tells, ItemsTell
  <2>3. answer.number <= sent' /\ answer.number < m.number
    BY <1>1, <1>2, <2>1, <2>2
  <2>4. ASSUME handled <= answer.number
        PROVE  /\ NameFresh(answer.name, answer.number, Coming', title')
               /\ KidsFresh(answer.kids, answer.number, Coming', kids')
               /\ GoneTold(RangeOf(answer.kids) \cup answer.announced, answer.number, Coming', gone')
               /\ Leads(answer.kids, answer.number, Coming', kids', sent')
    <3>1. /\ NameFresh(answer.name, answer.number, Coming, title)
          /\ KidsFresh(answer.kids, answer.number, Coming, kids)
          /\ GoneTold(RangeOf(answer.kids) \cup answer.announced, answer.number, Coming, gone)
          /\ Leads(answer.kids, answer.number, Coming, kids, sent)
      BY <2>4 DEF Tells, ItemsTell
    <3>2. NameFresh(answer.name, answer.number, Coming', title')
      BY <1>1, <2>1, <2>3, <3>1, NameSent
    <3>3. KidsFresh(answer.kids, answer.number, Coming', kids')
      BY <1>1, <2>1, <2>3, <3>1, KidsSent
    <3>4. GoneTold(RangeOf(answer.kids) \cup answer.announced, answer.number, Coming', gone')
      BY <1>1, <2>1, <2>3, <3>1, GoneSent
    <3>5. Leads(answer.kids, answer.number, Coming', kids', sent')
      BY <1>1, <1>2, <2>1, <2>2, <3>1, LeadsSent
    <3> QED  BY <3>2, <3>3, <3>4, <3>5
  <2> QED  BY <2>2, <2>3, <2>4
<1>5. CallsTell'
  <2> SUFFICES ASSUME NEW i \in DOMAIN calls, calls[i].kind = "name"
               PROVE  /\ calls[i].number <= sent'
                      /\ handled <= calls[i].number =>
                            NameFresh(calls[i].name, calls[i].number, Coming', title')
    BY <1>1 DEF CallsTell
  <2>1. calls[i].number <= sent
        /\ (handled <= calls[i].number => NameFresh(calls[i].name, calls[i].number, Coming, title))
    BY DEF Tells, CallsTell
  <2>2. calls[i].number \in Nat
    <3>1. calls[i] \in CallAnswer
      BY DEF TypeOK
    <3>2. NoAnswer.kind # "name" /\ Failed.kind # "name"
      BY DEF NoAnswer, Failed
    <3> QED  BY <3>1, <3>2 DEF CallAnswer
  <2>3. calls[i].number < m.number /\ calls[i].number <= sent'
    BY <1>1, <1>2, <2>1, <2>2
  <2> QED  BY <1>1, <2>1, <2>2, <2>3, NameSent
<1>6. CacheTells'
  <2> SUFFICES ASSUME ~overtaken
               PROVE  /\ hasName => NameFresh(name, handled, Coming', title')
                      /\ hasKids => KidsFresh(children, handled, Coming', kids')
                                    /\ RangeOf(children) \subseteq known
                      /\ hasKids /\ ~replayed => Leads(children, handled, Coming', kids', sent')
                      /\ \A o \in known \cap gone' :
                            Destroys(Coming', o) # {} \/ handler = [kind |-> "dispose", object |-> o]
    BY <1>1 DEF CacheTells, cacheVars, historyVars
  <2>1. handled < m.number
    BY <1>1, <1>2
  <2>2. hasName => NameFresh(name, handled, Coming', title')
    BY <1>1, <1>2, <2>1, NameSent DEF Tells, CacheTells
  <2>3. hasKids => KidsFresh(children, handled, Coming', kids') /\ RangeOf(children) \subseteq known
    BY <1>1, <1>2, <2>1, KidsSent DEF Tells, CacheTells
  <2>4. hasKids /\ ~replayed => Leads(children, handled, Coming', kids', sent')
    BY <1>1, <1>2, LeadsSent DEF Tells, CacheTells
  <2>5. ASSUME NEW o \in known \cap gone'
        PROVE  Destroys(Coming', o) # {} \/ handler = [kind |-> "dispose", object |-> o]
    <3>1. CASE o \in gone
      <4>1. Destroys(Coming, o) \subseteq Destroys(Coming', o)
        BY <1>1 DEF Destroys, About
      <4> QED  BY <3>1, <4>1 DEF Tells, CacheTells
    <3>2. CASE o \notin gone
      <4>1. m.kind = "RemoveAccessible" /\ m.object = o
        BY <3>2 DEF AppTells
      <4>2. m \in Destroys(Coming', o)
        BY <1>1, <4>1 DEF Destroys, About
      <4> QED  BY <4>2
    <3> QED  BY <3>1, <3>2
  <2> QED  BY <2>2, <2>3, <2>4, <2>5
<1>7. IsInjective(children)'
  BY <1>1 DEF Tells, cacheVars
<1> QED  BY <1>3, <1>4, <1>5, <1>6, <1>7 DEF Tells

-----------------------------------------------------------------------------
(* The client handles a signal.                                            *)

LEMMA TakesWhat ==
    ASSUME TypeOK, QueueInv, NEW m, Takes(m)
    PROVE  /\ Numbered(Coming, handled, sent)
           /\ m \in Coming /\ m \in Message /\ m.number = handled + 1
           /\ Coming' = Coming \ {m} /\ handled' = handled + 1 /\ handled \in Nat
           /\ UNCHANGED <<appVars, answer, calls, sent, hasKids, historyVars>>
           /\ \A k \in Coming' : k.number > m.number
<1>1. Numbered(Coming, handled, sent)
  BY ComingNumbered DEF Numbered
<1>2. /\ deferred # <<>> /\ m = Head(deferred) /\ deferred' = Tail(deferred) /\ UNCHANGED inbox
      /\ handled' = handled + 1
      /\ UNCHANGED <<appVars, answer, calls, sent, hasKids, historyVars>>
  BY DEF Takes, busVars
<1>3. m \in Coming /\ m.number = handled + 1 /\ Coming' = Coming \ {m}
  BY <1>2, ComingTaken
<1>4. ASSUME NEW k \in Coming' PROVE k.number > m.number
  <2>1. k \in Coming /\ k # m
    BY <1>3
  <2>2. k.number # m.number /\ k.number \in Nat /\ k.number > handled /\ handled \in Nat
    BY <1>1, <1>3, <2>1 DEF Numbered
  <2> QED  BY <1>3, <2>2
<1> QED  BY <1>1, <1>2, <1>3, <1>4 DEF Numbered

LEMMA DestroyLastTaken ==
    ASSUME TypeOK, QueueInv, DestroyLast, NEW m, Takes(m)
    PROVE  DestroyLast'
<1>1. /\ m \in Coming /\ Coming' = Coming \ {m} /\ gone' = gone
      /\ m.number \in Nat
      /\ \A k \in Coming' : k.number \in Nat /\ ~(k.number <= m.number)
  BY TakesWhat DEF appVars, Numbered
<1>2. \A o : About(Coming', o) \subseteq About(Coming, o) /\ About(Coming', o) \subseteq Coming'
  BY <1>1 DEF About
<1>3. ASSUME NEW k \in Coming', k.kind = "RemoveAccessible"
      PROVE  k.object \in gone' /\ \A j \in About(Coming', k.object) : j.number <= k.number
  BY <1>1, <1>2, <1>3 DEF DestroyLast
<1>4. ASSUME NEW o \in gone', About(Coming', o) # {} PROVE Destroys(Coming', o) # {}
  <2>1. PICK k : k \in About(Coming', o)
    BY <1>4
  <2>2. About(Coming, o) # {}
    BY <1>2, <2>1
  <2>3. PICK r \in Destroys(Coming, o) : TRUE
    BY <1>1, <2>2 DEF DestroyLast
  <2>4. r # m
    <3>1. r \in Coming /\ r.kind = "RemoveAccessible" /\ r.object = o
      BY DEF Destroys, About
    <3>2. k.number <= r.number
      BY <1>2, <2>1, <3>1 DEF DestroyLast
    <3> QED  BY <1>1, <1>2, <2>1, <3>2
  <2>5. r \in Destroys(Coming', o)
    BY <1>1, <2>4 DEF Destroys, About
  <2> QED  BY <2>5
<1>5. handler'.kind = "dispose" => handler'.object \in gone' /\ About(Coming', handler'.object) = {}
  <2>1. CASE m.kind = "RemoveAccessible"
    <3>1. handler' = [kind |-> "dispose", object |-> m.object]
      BY <2>1 DEF Takes
    <3>2. handler'.object = m.object
      BY <3>1
    <3>3. m.object \in gone /\ \A j \in About(Coming, m.object) : j.number <= m.number
      BY <1>1, <2>1 DEF DestroyLast
    <3> QED  BY <1>1, <1>2, <3>2, <3>3
  <2>2. CASE m.kind # "RemoveAccessible"
    <3>1. handler' = NoHandler \/ handler' = [kind |-> "event"]
      BY <2>2 DEF Takes
    <3>2. handler'.kind # "dispose"
      BY <3>1 DEF NoHandler
    <3> QED  BY <3>2
  <2> QED  BY <2>1, <2>2
<1> QED  BY <1>3, <1>4, <1>5 DEF DestroyLast

LEMMA TellsTaken ==
    ASSUME TypeOK, QueueInv, DestroyLast, Tells, NEW m, Takes(m)
    PROVE  Tells'
<1>1. /\ Numbered(Coming, handled, sent) /\ Coming \in SUBSET Message
      /\ m \in Coming /\ m \in Message /\ m.number = handled + 1
      /\ Coming' = Coming \ {m} /\ handled' = handled + 1 /\ handled \in Nat
      /\ UNCHANGED <<kids, title, gone, answer, calls, sent, hasKids, overtaken, replayed>>
      /\ \A k \in Coming' : k.number > m.number
  BY TakesWhat DEF appVars, historyVars, Numbered
<1>2. \A k \in Coming : k.number \in Nat
  BY <1>1 DEF Numbered
<1>3. \A k \in Coming' : m.number <= k.number
  BY <1>1, <1>2
<1>4. LastTells'
  <2>1. ASSUME NEW k \in Renames(Coming')
        PROVE  NameFresh(k.name, k.number, Coming', title')
    <3>1. k \in Renames(Coming) /\ m.number <= k.number
      BY <1>1, <1>3, <2>1 DEF Renames
    <3> QED  BY <1>1, <3>1, NameTaken DEF Tells, LastTells
  <2>2. ASSUME NEW o \in Objects, NEW k \in Moves(Coming', o)
        PROVE  Fresh(IF k.kind = "add" THEN {o} ELSE {}, k.number, Moves(Coming', o),
                     RangeOf(kids') \cap {o})
    <3>1. k \in Moves(Coming, o) /\ m.number <= k.number
      BY <1>1, <1>3, <2>2 DEF Moves, About
    <3>2. Fresh(IF k.kind = "add" THEN {o} ELSE {}, k.number, Moves(Coming, o), RangeOf(kids) \cap {o})
      BY <3>1 DEF Tells, LastTells
    <3>3. Fresh(IF k.kind = "add" THEN {o} ELSE {}, k.number, Moves(Coming, o) \ {m},
                RangeOf(kids) \cap {o})
      BY <3>1, <3>2, FreshTaken
    <3>4. Moves(Coming', o) = Moves(Coming, o) \ {m} /\ kids' = kids
      BY <1>1, MovesTaken
    <3> QED  BY <3>3, <3>4, Zenon
  <2> QED  BY <2>1, <2>2 DEF LastTells
<1>5. ItemsTell'
  <2> SUFFICES ASSUME answer.kind = "items"
               PROVE  /\ IsInjective(answer.kids) /\ answer.number <= sent
                      /\ handled + 1 <= answer.number =>
                            /\ NameFresh(answer.name, answer.number, Coming', title)
                            /\ KidsFresh(answer.kids, answer.number, Coming', kids)
                            /\ GoneTold(RangeOf(answer.kids) \cup answer.announced, answer.number,
                                        Coming', gone)
                            /\ Leads(answer.kids, answer.number, Coming', kids, sent)
    BY <1>1 DEF ItemsTell
  <2>1. answer.number \in Nat
    BY ItemsFacts
  <2>2. IsInjective(answer.kids) /\ answer.number <= sent
    BY DEF Tells, ItemsTell
  <2>3. ASSUME handled + 1 <= answer.number
        PROVE  /\ NameFresh(answer.name, answer.number, Coming', title)
               /\ KidsFresh(answer.kids, answer.number, Coming', kids)
               /\ GoneTold(RangeOf(answer.kids) \cup answer.announced, answer.number, Coming', gone)
               /\ Leads(answer.kids, answer.number, Coming', kids, sent)
    <3>1. handled <= answer.number /\ m.number <= answer.number
      BY <1>1, <2>1, <2>3
    <3>2. /\ NameFresh(answer.name, answer.number, Coming, title)
          /\ KidsFresh(answer.kids, answer.number, Coming, kids)
          /\ GoneTold(RangeOf(answer.kids) \cup answer.announced, answer.number, Coming, gone)
          /\ Leads(answer.kids, answer.number, Coming, kids, sent)
      BY <3>1 DEF Tells, ItemsTell
    <3>3. NameFresh(answer.name, answer.number, Coming', title)
      BY <1>1, <3>1, <3>2, NameTaken
    <3>4. KidsFresh(answer.kids, answer.number, Coming', kids)
      BY <1>1, <3>1, <3>2, KidsTaken
    <3>5. GoneTold(RangeOf(answer.kids) \cup answer.announced, answer.number, Coming', gone)
      BY <1>1, <2>1, <3>1, <3>2, GoneTaken
    <3>6. Leads(answer.kids, answer.number, Coming', kids, sent)
      BY <1>1, <3>2, LeadsTaken
    <3> QED  BY <3>3, <3>4, <3>5, <3>6
  <2> QED  BY <2>2, <2>3
<1>6. CallsTell'
  <2> SUFFICES ASSUME NEW i \in DOMAIN calls, calls[i].kind = "name"
               PROVE  /\ calls[i].number <= sent
                      /\ handled + 1 <= calls[i].number =>
                            NameFresh(calls[i].name, calls[i].number, Coming', title)
    BY <1>1 DEF CallsTell
  <2>1. calls[i].number <= sent
        /\ (handled <= calls[i].number => NameFresh(calls[i].name, calls[i].number, Coming, title))
    BY DEF Tells, CallsTell
  <2>2. calls[i].number \in Nat
    <3>1. calls[i] \in CallAnswer
      BY DEF TypeOK
    <3>2. NoAnswer.kind # "name" /\ Failed.kind # "name"
      BY DEF NoAnswer, Failed
    <3> QED  BY <3>1, <3>2 DEF CallAnswer
  <2>3. handled + 1 <= calls[i].number => handled <= calls[i].number /\ m.number <= calls[i].number
    BY <1>1, <2>2
  <2> QED  BY <1>1, <2>1, <2>3, NameTaken
<1>7. IsInjective(children)'
  BY <1>1, AppliedFacts DEF Takes, Tells, TypeOK
<1>8. CacheTells'
  <2> SUFFICES ASSUME ~overtaken
               PROVE  /\ hasName' => NameFresh(name', handled + 1, Coming', title)
                      /\ hasKids => KidsFresh(children', handled + 1, Coming', kids)
                                    /\ RangeOf(children') \subseteq known'
                      /\ hasKids /\ ~replayed => Leads(children', handled + 1, Coming', kids, sent)
                      /\ \A o \in known' \cap gone :
                            Destroys(Coming', o) # {} \/ handler' = [kind |-> "dispose", object |-> o]
    BY <1>1 DEF CacheTells
  <2>1. ASSUME hasName' PROVE NameFresh(name', handled + 1, Coming', title)
    <3>1. CASE m.kind = "PropertyChange"
      <4>1. name' = m.name
        BY <3>1 DEF Takes
      <4>2. NameFresh(m.name, m.number, Coming, title)
        BY <1>1, <3>1 DEF Tells, LastTells, Renames
      <4>3. m.number <= handled + 1
        BY <1>1
      <4> QED  BY <1>1, <4>1, <4>2, <4>3, NameTaken
    <3>2. CASE m.kind # "PropertyChange"
      <4>1. name' = name /\ hasName
        BY <2>1, <3>2 DEF Takes
      <4>2. NameFresh(name, handled, Coming, title)
        BY <4>1 DEF Tells, CacheTells
      <4> QED  BY <1>1, <3>2, <4>1, <4>2, NameHandled
    <3> QED  BY <3>1, <3>2
  <2>2. ASSUME hasKids
        PROVE  /\ KidsFresh(children', handled + 1, Coming', kids)
               /\ RangeOf(children') \subseteq known'
               /\ ~replayed => Leads(children', handled + 1, Coming', kids, sent)
    <3>1. /\ children' = Applied(children, m)
          /\ children \in Seq(Objects) /\ IsInjective(children)
      BY <2>2 DEF Takes, Tells, TypeOK
    <3>2. KidsFresh(children, handled, Coming, kids) /\ RangeOf(children) \subseteq known
          /\ (~replayed => Leads(children, handled, Coming, kids, sent))
      BY <2>2 DEF Tells, CacheTells
    <3>3. KidsFresh(children', handled + 1, Coming', kids)
      BY <1>1, <3>1, <3>2, KidsHandled DEF Tells, LastTells
    <3>4. ~replayed => Leads(children', handled + 1, Coming', kids, sent)
      BY <1>1, <3>1, <3>2, LeadsHandled
    <3>5. RangeOf(children') \subseteq known'
      <4>1. RangeOf(children') =
              IF m.kind = "remove" THEN RangeOf(children) \ {m.object}
              ELSE IF m.kind = "add" THEN RangeOf(children) \cup {m.object} ELSE RangeOf(children)
        BY <1>1, <3>1, AppliedFacts
      <4>2. known' = IF m.kind = "PropertyChange" THEN known ELSE known \cup {m.object}
        BY DEF Takes
      <4> QED  BY <3>2, <4>1, <4>2
    <3> QED  BY <3>3, <3>4, <3>5
  <2>3. ASSUME NEW o \in known' \cap gone
        PROVE  Destroys(Coming', o) # {} \/ handler' = [kind |-> "dispose", object |-> o]
    <3>1. CASE m.kind = "RemoveAccessible" /\ m.object = o
      BY <3>1 DEF Takes
    <3>2. CASE ~(m.kind = "RemoveAccessible" /\ m.object = o)
      <4>1. Destroys(Coming', o) = Destroys(Coming, o)
        BY <1>1, <3>2 DEF Destroys, About
      <4>2. CASE o \in known
        <5>1. handler # [kind |-> "dispose", object |-> o]
          BY KindsDiffer DEF Takes
        <5> QED  BY <4>1, <4>2, <5>1 DEF Tells, CacheTells
      <4>3. CASE o \notin known
        <5>1. m.kind # "PropertyChange" /\ m.object = o
          BY <2>3, <4>3 DEF Takes
        <5>2. m \in About(Coming, o)
          BY <1>1, <5>1 DEF About
        <5> QED  BY <4>1, <5>2 DEF DestroyLast
      <4> QED  BY <4>2, <4>3
    <3> QED  BY <3>1, <3>2
  <2> QED  BY <2>1, <2>2, <2>3
<1> QED  BY <1>4, <1>5, <1>6, <1>7, <1>8 DEF Tells

-----------------------------------------------------------------------------
(* No change is told or handled.                                           *)

Still == Coming' = Coming /\ UNCHANGED <<kids, title, announced, gone, sent, handled>>

LEMMA StillKeeps ==
    ASSUME AppSound, DestroyLast, LastTells, Still, handler' \in {handler, NoHandler}
    PROVE  AppSound' /\ DestroyLast' /\ LastTells'
<1>1. AppSound'
  BY DEF AppSound, Still
<1>2. DestroyLast'
  <2>1. handler'.kind = "dispose" => handler' = handler
    BY DEF NoHandler
  <2> QED  BY <2>1 DEF DestroyLast, Still
<1>3. LastTells'
  BY DEF LastTells, Still, NameFresh
<1> QED  BY <1>1, <1>2, <1>3

LEMMA StillItems ==
    ASSUME ItemsTell, Still, answer' = answer \/ answer'.kind # "items"
    PROVE  ItemsTell'
BY DEF ItemsTell, Still

LEMMA StillCalls ==
    ASSUME TypeOK, QueueInv, CallsTell, Still,
           \A i \in DOMAIN calls' : calls'[i].kind = "name" =>
               \/ i \in DOMAIN calls /\ calls'[i] = calls[i]
               \/ calls'[i].number = sent /\ calls'[i].name = title
    PROVE  CallsTell'
<1> SUFFICES ASSUME NEW i \in DOMAIN calls', calls'[i].kind = "name"
             PROVE  /\ calls'[i].number <= sent
                    /\ handled <= calls'[i].number =>
                          NameFresh(calls'[i].name, calls'[i].number, Coming, title)
  BY DEF CallsTell, Still
<1>1. sent \in Nat
  BY DEF TypeOK
<1>2. CASE i \in DOMAIN calls /\ calls'[i] = calls[i]
  BY <1>2 DEF CallsTell
<1>3. CASE calls'[i].number = sent /\ calls'[i].name = title
  BY <1>1, <1>3 DEF NameFresh, Fresh
<1> QED  BY <1>2, <1>3

LEMMA StillCache ==
    ASSUME CacheTells, Still, UNCHANGED <<cacheVars, historyVars, handler>>
    PROVE  CacheTells'
BY DEF CacheTells, Still, cacheVars, historyVars

\* The name that a call brought is stored.
LEMMA StoreTells ==
    ASSUME TypeOK, QueueInv, Tells, Still, NEW i \in DOMAIN calls, calls[i] # NoAnswer,
           StoreName(calls[i]), UNCHANGED <<handler, replayed>>
    PROVE  CacheTells' /\ IsInjective(children)'
<1>1. CASE calls[i] = Failed
  <2>1. UNCHANGED <<cacheVars, historyVars, handler>>
    BY <1>1 DEF StoreName, historyVars
  <2> QED  BY <2>1, StillCache DEF Tells, cacheVars
<1>2. CASE calls[i] # Failed
  <2>1. calls[i] \in [kind : {"name"}, name : Nat, number : Nat]
    <3>1. calls[i] \in CallAnswer
      BY DEF TypeOK
    <3> QED  BY <1>2, <3>1 DEF CallAnswer
  <2>2. calls[i].kind = "name" /\ calls[i].number \in Nat
    BY <2>1
  <2>3. /\ name' = calls[i].name /\ overtaken' = (overtaken \/ handled > calls[i].number)
        /\ UNCHANGED <<known, children, hasKids, handler, replayed>>
    BY <1>2 DEF StoreName
  <2>4. handled \in Nat /\ \A k \in Renames(Coming) : k.number \in Nat
    BY ComingNumbered DEF Renames
  <2>5. ASSUME ~overtaken' PROVE ~overtaken /\ NameFresh(name', handled, Coming, title)
    <3>0. ~overtaken /\ ~(handled > calls[i].number)
      BY <2>3, <2>5, Zenon
    <3>1. ~overtaken /\ handled <= calls[i].number
      BY <2>2, <2>4, <3>0
    <3>2. NameFresh(calls[i].name, calls[i].number, Coming, title)
      BY <2>2, <3>1 DEF Tells, CallsTell
    <3>3. NameFresh(calls[i].name, handled, Coming, title)
      BY <2>2, <2>4, <3>1, <3>2, FreshEarlier DEF NameFresh
    <3> QED  BY <2>3, <3>1, <3>3
  <2>6. CacheTells'
    BY <2>3, <2>5 DEF CacheTells, Still, Tells
  <2> QED  BY <2>3, <2>6 DEF Tells
<1> QED  BY <1>1, <1>2

\* GetItems' answer is stored.
LEMMA SetItemsTells ==
    ASSUME TypeOK, QueueInv, Tells, Still, answer.kind = "items", SetItems(answer), UNCHANGED handler
    PROVE  CacheTells' /\ IsInjective(children)'
<1>1. /\ answer.kids \in Seq(Objects) /\ answer.number \in Nat /\ IsInjective(answer.kids)
  BY ItemsFacts DEF Tells, ItemsTell
<1>2. /\ children' = answer.kids /\ name' = answer.name /\ hasKids' /\ hasName'
      /\ known' = known \cup RangeOf(answer.kids) \cup answer.announced
      /\ overtaken' = (overtaken \/ handled > answer.number)
      /\ replayed' = (replayed \/ handled < answer.number)
  BY DEF SetItems
<1>3. /\ handled \in Nat /\ Coming \in SUBSET Message
      /\ \A k \in Renames(Coming) : k.number \in Nat
  BY ComingNumbered DEF Renames
<1>4. CacheTells'
  <2> SUFFICES ASSUME ~overtaken'
               PROVE  /\ NameFresh(name', handled, Coming, title)
                      /\ KidsFresh(children', handled, Coming, kids) /\ RangeOf(children') \subseteq known'
                      /\ ~replayed' => Leads(children', handled, Coming, kids, sent)
                      /\ \A o \in known' \cap gone :
                            Destroys(Coming, o) # {} \/ handler = [kind |-> "dispose", object |-> o]
    BY DEF CacheTells, Still
  <2>0. ~overtaken /\ ~(handled > answer.number)
    BY <1>2, Zenon
  <2>1. ~overtaken /\ handled <= answer.number
    BY <1>1, <1>3, <2>0
  <2>2. /\ NameFresh(answer.name, answer.number, Coming, title)
        /\ KidsFresh(answer.kids, answer.number, Coming, kids)
        /\ GoneTold(RangeOf(answer.kids) \cup answer.announced, answer.number, Coming, gone)
        /\ Leads(answer.kids, answer.number, Coming, kids, sent)
    BY <2>1 DEF Tells, ItemsTell
  <2>3. NameFresh(name', handled, Coming, title)
    BY <1>1, <1>2, <1>3, <2>1, <2>2, FreshEarlier DEF NameFresh
  <2>4. KidsFresh(children', handled, Coming, kids)
    BY <1>1, <1>2, <1>3, <2>1, <2>2, KidsEarlier
  <2>5. RangeOf(children') \subseteq known'
    BY <1>2
  <2>6. ~replayed' => Leads(children', handled, Coming, kids, sent)
    <3>0. ~replayed' => ~(handled < answer.number)
      BY <1>2, Zenon
    <3>1. ~replayed' => handled = answer.number
      BY <1>1, <1>3, <2>1, <3>0
    <3> QED  BY <1>2, <2>2, <3>1
  <2>7. ASSUME NEW o \in known' \cap gone
        PROVE  Destroys(Coming, o) # {} \/ handler = [kind |-> "dispose", object |-> o]
    <3>1. CASE o \in known
      BY <2>1, <3>1 DEF Tells, CacheTells
    <3>2. CASE o \in RangeOf(answer.kids) \cup answer.announced
      BY <2>2, <3>2 DEF GoneTold
    <3> QED  BY <1>2, <3>1, <3>2
  <2> QED  BY <2>3, <2>4, <2>5, <2>6, <2>7
<1> QED  BY <1>1, <1>2, <1>4

\* An object is disposed of after its event.
LEMMA DisposeTells ==
    ASSUME TypeOK, QueueInv, AppSound, DestroyLast, Tells, Still, NEW o, handler = [kind |-> "dispose", object |-> o],
           Dispose(o), handler' = NoHandler, UNCHANGED historyVars
    PROVE  CacheTells' /\ IsInjective(children)'
<1>1. handler.kind = "dispose" /\ handler.object = o
  OBVIOUS
<1>2. o \in gone /\ o \in Objects /\ About(Coming, o) = {} /\ o \notin RangeOf(kids)
  BY <1>1 DEF DestroyLast, AppSound, TypeOK
<1>3. /\ children' = IF o \in parented THEN Without(children, o) ELSE children
      /\ known' = known \ {o}
      /\ UNCHANGED <<hasKids, name, hasName>>
      /\ children \in Seq(Objects) /\ IsInjective(children)
  BY DEF Dispose, Tells, TypeOK
<1>4. IsInjective(children') /\ RangeOf(children') \subseteq RangeOf(children)
  BY <1>3, WithoutFacts
<1>5. ASSUME hasKids, ~overtaken PROVE children' = children /\ o \notin RangeOf(children)
  <2>1. KidsFresh(children, handled, Coming, kids)
    BY <1>5 DEF Tells, CacheTells
  <2>2. Moves(Coming, o) = {}
    BY <1>2 DEF Moves
  <2>3. RangeOf(children) \cap {o} = RangeOf(kids) \cap {o}
    BY <1>2, <2>1, <2>2 DEF KidsFresh, Fresh
  <2>4. o \notin RangeOf(children)
    BY <1>2, <2>3
  <2> QED  BY <1>3, <2>4 DEF Without
<1>6. CacheTells'
  <2> SUFFICES ASSUME ~overtaken
               PROVE  /\ hasName => NameFresh(name, handled, Coming, title)
                      /\ hasKids => KidsFresh(children', handled, Coming, kids)
                                    /\ RangeOf(children') \subseteq known'
                      /\ hasKids /\ ~replayed => Leads(children', handled, Coming, kids, sent)
                      /\ \A p \in known' \cap gone : Destroys(Coming, p) # {}
    BY <1>3 DEF CacheTells, Still, historyVars
  <2>1. hasName => NameFresh(name, handled, Coming, title)
    BY DEF Tells, CacheTells
  <2>2. hasKids => /\ KidsFresh(children', handled, Coming, kids)
                   /\ RangeOf(children') \subseteq known'
                   /\ ~replayed => Leads(children', handled, Coming, kids, sent)
    BY <1>3, <1>5 DEF Tells, CacheTells
  <2>3. ASSUME NEW p \in known' \cap gone PROVE Destroys(Coming, p) # {}
    <3>1. p \in known /\ p # o
      BY <1>3, <2>3
    <3>2. handler.object # p
      BY <1>1, <3>1
    <3>3. handler # [kind |-> "dispose", object |-> p]
      BY <3>2
    <3> QED  BY <3>1, <3>3 DEF Tells, CacheTells
  <2> QED  BY <2>1, <2>2, <2>3
<1> QED  BY <1>4, <1>6

LEMMA StepKeeps ==
    ASSUME ClientCacheAssumption, CInv, [Next]_vars
    PROVE  AppSound' /\ DestroyLast' /\ Tells'
<1> TypeOK /\ QueueInv /\ CallsNested /\ AppSound /\ DestroyLast /\ Tells
  BY DEF CInv
<1> calls \in Seq(CallAnswer) /\ Len(calls) \in Nat /\ DOMAIN calls = 1..Len(calls)
  BY DEF TypeOK
<1> LastTells /\ ItemsTell /\ CallsTell /\ CacheTells /\ IsInjective(children)
  BY DEF Tells
<1> NoAnswer.kind = "none" /\ Failed.kind = "failed"
  BY DEF NoAnswer, Failed
<1>1. CASE \/ Rename
           \/ \E o \in Objects : (\E i \in 0..Len(kids) : AddChild(o, i))
                                 \/ RemoveChild(o) \/ Announce(o) \/ Destroy(o)
  <2>1. PICK m : AppTells(m)
    BY <1>1, AppStepTells
  <2> QED  BY <2>1, AppSoundTold, DestroyLastTold, TellsTold
<1>2. CASE HandleMessage
  <2>1. PICK m : Takes(m)
    BY <1>2, HandleMessageTakes
  <2>2. AppSound'
    BY <2>1, TakesWhat DEF AppSound, appVars
  <2> QED  BY <2>1, <2>2, DestroyLastTaken, TellsTaken
<1>3. CASE UNCHANGED <<appVars, deferred, inbox, sent, handled, cacheVars, historyVars, handler>>
           /\ (answer' = answer \/ answer'.kind # "items")
           /\ \A i \in DOMAIN calls' : calls'[i].kind = "name" =>
                  \/ i \in DOMAIN calls /\ calls'[i] = calls[i]
                  \/ calls'[i].number = sent /\ calls'[i].name = title
  <2>1. Still
    BY <1>3 DEF Still, Coming, appVars
  <2>2. AppSound' /\ DestroyLast' /\ LastTells'
    BY <1>3, <2>1, StillKeeps
  <2>3. ItemsTell' /\ CallsTell' /\ CacheTells'
    BY <1>3, <2>1, StillItems, StillCalls, StillCache
  <2>4. IsInjective(children)'
    BY <1>3 DEF cacheVars
  <2> QED  BY <2>2, <2>3, <2>4 DEF Tells
<1>4. CASE AnswerAddress \/ QuestionFails
  <2>1. answer'.kind # "items" /\ UNCHANGED <<appVars, inbox, clientVars, cacheVars, sent, handled, historyVars>>
    BY <1>4 DEF AnswerAddress, QuestionFails
  <2> QED  BY <1>3, <2>1 DEF clientVars
<1>5. CASE AnswerItems
  <2>1. /\ answer' = [kind |-> "items", kids |-> kids, name |-> title,
                      announced |-> announced, number |-> sent]
        /\ UNCHANGED <<appVars, inbox, clientVars, cacheVars, sent, handled, historyVars>>
    BY <1>5 DEF AnswerItems
  <2>2. Still /\ UNCHANGED <<calls, handler, cacheVars, historyVars>>
    BY <2>1 DEF Still, Coming, appVars, clientVars
  <2>3. AppSound' /\ DestroyLast' /\ LastTells'
    BY <2>2, StillKeeps
  <2>4. CallsTell' /\ CacheTells'
    BY <2>2, StillCalls, StillCache
  <2>5. sent \in Nat /\ kids \in Seq(Objects) /\ Numbered(Coming, handled, sent)
    BY ComingNumbered DEF TypeOK, Numbered
  <2>6. NameFresh(title, sent, Coming, title) /\ KidsFresh(kids, sent, Coming, kids)
    BY DEF NameFresh, KidsFresh, Fresh
  <2>7. GoneTold(RangeOf(kids) \cup announced, sent, Coming, gone)
    BY DEF GoneTold, AppSound
  <2>8. Leads(kids, sent, Coming, kids, sent)
    <3> DEFINE h == [n \in Nat |-> kids]
    <3>1. h \in [Nat -> Seq(Objects)] /\ h[sent] = kids
      BY <2>5
    <3>2. \A m \in Coming : ~(m.number > sent)
      BY <2>5 DEF Numbered
    <3> HIDE DEF h
    <3> QED  BY <3>1, <3>2 DEF Leads
  <2>9. ItemsTell'
    <3>1. answer'.kids = kids /\ answer'.name = title /\ answer'.announced = announced /\ answer'.number = sent
      BY <2>1
    <3>2. sent <= sent
      BY <2>5
    <3> QED  BY <2>2, <2>6, <2>7, <2>8, <3>1, <3>2 DEF ItemsTell, Still, AppSound
  <2> QED  BY <2>2, <2>3, <2>4, <2>9 DEF Tells, cacheVars
<1>6. CASE AnswerCall \/ CallFails
  <2>1. calls # <<>> /\ UNCHANGED <<appVars, busVars, deferred, handler, cacheVars, sent, handled, historyVars>>
    BY <1>6 DEF AnswerCall, CallFails, Blocked
  <2>2. PICK a \in CallAnswer : /\ calls' = [calls EXCEPT ![Len(calls)] = a]
                                /\ a.kind = "name" => a.number = sent /\ a.name = title
    <3>1. [kind |-> "name", name |-> title, number |-> sent] \in CallAnswer /\ Failed \in CallAnswer
      BY DEF CallAnswer, TypeOK
    <3> QED  BY <1>6, <3>1 DEF AnswerCall, CallFails
  <2>3. /\ calls' \in Seq(CallAnswer) /\ Len(calls') = Len(calls) /\ calls'[Len(calls)] = a
        /\ \A i \in 1..(Len(calls) - 1) : calls'[i] = calls[i]
    <3>1. /\ [calls EXCEPT ![Len(calls)] = a] \in Seq(CallAnswer)
          /\ Len([calls EXCEPT ![Len(calls)] = a]) = Len(calls)
          /\ [calls EXCEPT ![Len(calls)] = a][Len(calls)] = a
          /\ \A i \in 1..(Len(calls) - 1) : [calls EXCEPT ![Len(calls)] = a][i] = calls[i]
      BY <2>1, <2>2, LastReplaced, Zenon
    <3>2. calls' = [calls EXCEPT ![Len(calls)] = a]
      BY <2>2
    <3> QED  BY <3>1, <3>2, Zenon
  <2>4. \A i \in DOMAIN calls' : i = Len(calls) \/ i \in 1..(Len(calls) - 1)
    <3>1. DOMAIN calls' = 1..Len(calls)
      BY <2>3
    <3> QED  BY <3>1
  <2>5. ASSUME NEW i \in DOMAIN calls', calls'[i].kind = "name"
        PROVE  \/ i \in DOMAIN calls /\ calls'[i] = calls[i]
               \/ calls'[i].number = sent /\ calls'[i].name = title
    <3>1. CASE i = Len(calls)
      <4>1. calls'[i] = a
        BY <2>3, <3>1
      <4> QED  BY <2>2, <2>5, <4>1
    <3>2. CASE i \in 1..(Len(calls) - 1)
      <4>1. i \in 1..Len(calls)
        BY <3>2
      <4>2. calls'[i] = calls[i]
        BY <2>3, <3>2
      <4> QED  BY <4>1, <4>2
    <3> QED  BY <2>4, <3>1, <3>2
  <2> QED  BY <1>3, <2>1, <2>5 DEF busVars
<1>7. CASE Dispatch
  <2>1. /\ inbox # <<>> /\ inbox' = Tail(inbox) /\ deferred' = Append(deferred, Head(inbox))
        /\ UNCHANGED <<appVars, answer, handler, calls, cacheVars, sent, handled, historyVars>>
    BY <1>7 DEF Dispatch, SignalDue, DeferMessage
  <2>2. Still
    BY <2>1, ComingDeferred DEF Still, appVars
  <2>3. AppSound' /\ DestroyLast' /\ LastTells' /\ ItemsTell' /\ CallsTell' /\ CacheTells'
    BY <2>1, <2>2, StillKeeps, StillItems, StillCalls, StillCache
  <2> QED  BY <2>1, <2>3 DEF Tells, cacheVars
<1>8. CASE DispatchAnswer
  <2>1. answer' = NoAnswer /\ UNCHANGED <<appVars, inbox, clientVars, sent, handled>>
    BY <1>8 DEF DispatchAnswer
  <2>2. Still /\ UNCHANGED <<calls, handler>>
    BY <2>1 DEF Still, Coming, appVars, clientVars
  <2>3. AppSound' /\ DestroyLast' /\ LastTells' /\ ItemsTell' /\ CallsTell'
    BY <2>1, <2>2, StillKeeps, StillItems, StillCalls
  <2>4. CASE answer.kind = "items" /\ SetItems(answer)
    BY <2>2, <2>3, <2>4, SetItemsTells DEF Tells
  <2>5. CASE UNCHANGED <<cacheVars, historyVars>>
    BY <2>2, <2>3, <2>5, StillCache DEF Tells, cacheVars
  <2> QED  BY <1>8, <2>4, <2>5 DEF DispatchAnswer
<1>9. CASE ProcessBegins \/ EnterLoop \/ LeaveLoop \/ UNCHANGED vars
  BY <1>3, <1>9 DEF ProcessBegins, EnterLoop, LeaveLoop, vars, busVars, clientVars
<1>10. CASE CallbackReturns
  <2>1. /\ handler' = NoHandler /\ UNCHANGED <<appVars, busVars, deferred, calls, sent, handled, historyVars>>
    BY <1>10 DEF CallbackReturns
  <2>2. Still
    BY <2>1 DEF Still, Coming, appVars, busVars
  <2>3. AppSound' /\ DestroyLast' /\ LastTells' /\ ItemsTell' /\ CallsTell'
    BY <2>1, <2>2, StillKeeps, StillItems, StillCalls DEF busVars
  <2>4. CASE handler.kind = "dispose"
    <3>1. Dispose(handler.object)
      BY <1>10, <2>4 DEF CallbackReturns
    <3>2. handler = [kind |-> "dispose", object |-> handler.object]
      BY <2>4 DEF TypeOK, NoHandler
    <3> QED  BY <2>1, <2>2, <2>3, <3>1, <3>2, DisposeTells DEF Tells
  <2>5. CASE handler.kind # "dispose"
    <3>1. UNCHANGED <<cacheVars, historyVars>>
      BY <1>10, <2>1, <2>5 DEF CallbackReturns
    <3>2. \A o : handler # [kind |-> "dispose", object |-> o]
      BY <2>5
    <3>3. CacheTells'
      BY <2>2, <3>1, <3>2 DEF CacheTells, Still, cacheVars, historyVars
    <3> QED  BY <2>3, <3>1, <3>3 DEF Tells, cacheVars
  <2> QED  BY <2>4, <2>5
<1>11. CASE ProcessEnds
  <2>1. UNCHANGED <<appVars, busVars, deferred, handler, sent, handled, replayed>>
    BY <1>11 DEF ProcessEnds
  <2>2. Still
    BY <2>1 DEF Still, Coming, appVars, busVars
  <2>3. calls' = <<>> \/ calls' = calls
    BY <1>11 DEF ProcessEnds
  <2>4. AppSound' /\ DestroyLast' /\ LastTells' /\ ItemsTell' /\ CallsTell'
    BY <2>1, <2>2, <2>3, StillKeeps, StillItems, StillCalls DEF busVars
  <2>5. CASE process = "call"
    <3>1. 1 \in DOMAIN calls /\ calls[1] # NoAnswer /\ StoreName(calls[1])
      BY <1>11, <2>5 DEF ProcessEnds, CallsNested
    <3> QED  BY <2>1, <2>2, <2>4, <3>1, StoreTells DEF Tells
  <2>6. CASE process # "call"
    <3>1. UNCHANGED <<cacheVars, historyVars, handler>>
      BY <1>11, <2>1, <2>6 DEF ProcessEnds, historyVars
    <3> QED  BY <2>2, <2>4, <3>1, StillCache DEF Tells, cacheVars
  <2> QED  BY <2>5, <2>6
<1>12. CASE GetName
  <2>1. /\ calls' = Append(calls, NoAnswer)
        /\ UNCHANGED <<appVars, inbox, answer, deferred, handler, cacheVars, sent, handled, historyVars>>
    BY <1>12 DEF GetName
  <2>2. \A i \in DOMAIN calls' : calls'[i] = NoAnswer \/ (i \in DOMAIN calls /\ calls'[i] = calls[i])
    BY <2>1
  <2> QED  BY <1>3, <2>1, <2>2
<1>13. CASE InnerCallReturns
  <2>1. /\ calls # <<>> /\ calls[Len(calls)] # NoAnswer /\ StoreName(calls[Len(calls)])
        /\ calls' = SubSeq(calls, 1, Len(calls) - 1)
        /\ UNCHANGED <<appVars, busVars, deferred, handler, sent, handled, replayed>>
    BY <1>13 DEF InnerCallReturns, InCallback, Blocked
  <2>2. Still
    BY <2>1 DEF Still, Coming, appVars, busVars
  <2>3. /\ DOMAIN calls' = 1..(Len(calls) - 1) /\ Len(calls) \in DOMAIN calls
        /\ \A i \in DOMAIN calls' : i \in DOMAIN calls /\ calls'[i] = calls[i]
    BY <2>1, LastCall
  <2>4. AppSound' /\ DestroyLast' /\ LastTells' /\ ItemsTell' /\ CallsTell'
    BY <2>1, <2>2, <2>3, StillKeeps, StillItems, StillCalls DEF busVars
  <2> QED  BY <2>1, <2>2, <2>3, <2>4, StoreTells DEF Tells
<1>14. CASE ClearCache
  <2>1. /\ ~hasKids' /\ ~hasName'
        /\ UNCHANGED <<appVars, busVars, clientVars, known, children, sent, handled, historyVars>>
    BY <1>14 DEF ClearCache
  <2>2. Still /\ UNCHANGED <<handler, calls, answer>>
    BY <2>1 DEF Still, Coming, appVars, busVars, clientVars
  <2>3. AppSound' /\ DestroyLast' /\ LastTells' /\ ItemsTell' /\ CallsTell'
    BY <2>2, StillKeeps, StillItems, StillCalls
  <2>4. CacheTells'
    BY <2>1, <2>2 DEF CacheTells, Still, historyVars
  <2> QED  BY <2>1, <2>3, <2>4 DEF Tells
<1> QED
  BY <1>1, <1>2, <1>4, <1>5, <1>6, <1>7, <1>8, <1>9, <1>10, <1>11, <1>12, <1>13, <1>14
     DEF Next, AppNext, ClientNext

LEMMA AtFirst ==
    ASSUME ClientCacheAssumption, Init
    PROVE  TypeOK /\ CallsNested /\ AppSound /\ DestroyLast /\ Tells
<1>0. FirstKids \in Seq(Objects) /\ IsInjective(FirstKids) /\ RangeOf(FirstKids) \subseteq Objects
  BY InRange DEF ClientCacheAssumption
<1>1. Coming = {}
  BY DEF Init, Coming, RangeOf
<1>2. TypeOK
  <2>1. <<>> \in Seq(Message) /\ <<>> \in Seq(CallAnswer) /\ <<>> \in Seq(Objects)
    OBVIOUS
  <2>2. NoAnswer \in QuestionAnswer
    BY DEF QuestionAnswer
  <2>3. /\ kids \in Seq(Objects) /\ title \in Nat
        /\ announced \subseteq Objects /\ gone \subseteq Objects
        /\ inbox \in Seq(Message) /\ stage \in {"address", "items", "done"}
        /\ direct \in {"no", "opened", "watched"} /\ answer \in QuestionAnswer
    BY <1>0, <2>1, <2>2 DEF Init
  <2>4. /\ deferred \in Seq(Message) /\ idle \in BOOLEAN
        /\ process \in {"no", "idle", "call"} /\ handler \in HandlerType
        /\ nested \in BOOLEAN /\ calls \in Seq(CallAnswer)
    BY <2>1 DEF Init, HandlerType
  <2>5. /\ known \subseteq Objects /\ parented \subseteq Objects
        /\ children \in Seq(Objects) /\ hasKids \in BOOLEAN
        /\ name \in Nat /\ hasName \in BOOLEAN
        /\ sent \in Nat /\ handled \in Nat /\ asked \in Nat
        /\ overtaken \in BOOLEAN /\ replayed \in BOOLEAN
    BY <2>1 DEF Init
  <2> QED  BY <2>3, <2>4, <2>5 DEF TypeOK, HandlerType
<1>3. CallsNested
  BY DEF Init, CallsNested
<1>4. AppSound
  BY <1>0 DEF Init, AppSound
<1>5. NoHandler.kind # "dispose" /\ NoAnswer.kind # "items"
  BY DEF NoHandler, NoAnswer
<1>6. DestroyLast
  BY <1>1, <1>5 DEF Init, DestroyLast, About
<1>7. LastTells
  BY <1>1 DEF LastTells, Renames, Moves, About
<1>8. ItemsTell /\ CallsTell
  BY <1>5 DEF Init, ItemsTell, CallsTell
<1>9. CacheTells /\ IsInjective(children)
  BY DEF Init, CacheTells, IsInjective
<1> QED  BY <1>2, <1>3, <1>4, <1>6, <1>7, <1>8, <1>9 DEF Tells

\* The inductive invariant holds: answers on their way and the cache are what the
\* application had after so many signals, and the signals after these lead to what
\* it has now.
THEOREM CacheFollows == Spec => []CInv
<1>1. ClientCacheAssumption
  BY ClientCacheAssumption
<1>2. Init => TypeOK /\ CallsNested /\ AppSound /\ DestroyLast /\ Tells
  BY <1>1, AtFirst
<1> DEFINE Rest == TypeOK /\ CallsNested /\ AppSound /\ DestroyLast /\ Tells
<1>3. QueueInv /\ Rest /\ [Next]_vars => Rest'
  <2> SUFFICES ASSUME QueueInv, Rest, [Next]_vars PROVE Rest'
    OBVIOUS
  <2>1. CInv
    BY DEF CInv
  <2>2. TypeOK' /\ CallsNested'
    BY TypesKept, NestingKept DEF Tells
  <2>3. AppSound' /\ DestroyLast' /\ Tells'
    BY <1>1, <2>1, StepKeeps
  <2> QED  BY <2>2, <2>3
<1>4. QueueInv /\ Rest => CInv
  BY DEF CInv
<1>5. Init => Rest
  BY <1>2
<1> HIDE DEF Rest
<1> QED  BY <1>3, <1>4, <1>5, QueueCorrect, PTL DEF Spec

-----------------------------------------------------------------------------
(* What the invariant says once everything is handled.                     *)

\* Two lists of the same children, each once, are of one length.
LEMMA SameLength ==
    ASSUME NEW S, NEW K \in Seq(S), NEW L \in Seq(S), IsInjective(K), IsInjective(L),
           RangeOf(K) = RangeOf(L)
    PROVE  Len(K) = Len(L)
<1>1. ASSUME NEW s \in Seq(S), IsInjective(s)
      PROVE  Cardinality(RangeOf(s)) = Len(s)
  <2>1. Len(s) \in Nat /\ DOMAIN s = 1..Len(s) /\ s \in [1..Len(s) -> RangeOf(s)]
    <3>1. /\ Len(s) \in Nat /\ DOMAIN s = 1..Len(s) /\ s \in [1..Len(s) -> S]
          /\ \A i \in 1..Len(s) : s[i] \in RangeOf(s)
      BY InRange
    <3> QED  BY <3>1
  <2>2. s \in Injection(1..Len(s), RangeOf(s))
    BY <1>1, <2>1 DEF Injection, IsInjective
  <2>3. s \in Surjection(1..Len(s), RangeOf(s))
    BY <2>1 DEF Surjection, RangeOf
  <2>4. ExistsBijection(1..Len(s), RangeOf(s))
    BY <2>2, <2>3 DEF ExistsBijection, Bijection
  <2>5. IsFiniteSet(1..Len(s)) /\ Cardinality(1..Len(s)) = Len(s)
    <3>1. 1 \in Int /\ Len(s) \in Int
      BY <2>1
    <3>2. /\ IsFiniteSet(1..Len(s))
          /\ Cardinality(1..Len(s)) = IF 1 > Len(s) THEN 0 ELSE Len(s) - 1 + 1
      BY <3>1, FS_Interval, Zenon
    <3> QED  BY <2>1, <3>2
  <2> QED  BY <2>4, <2>5, FS_Bijection
<1> QED  BY <1>1

\* Once everything is handled nothing is on its way, and no callback runs.
LEMMA AtRest ==
    ASSUME CInv, Quiet
    PROVE  Coming = {} /\ sent = handled /\ handler = NoHandler
<1>1. Coming = {}
  BY DEF Quiet, Coming, RangeOf
<1>2. sent = handled
  BY DEF CInv, QueueInv, Pending, Quiet
<1>3. handler = NoHandler
  BY DEF CInv, CallsNested, Quiet
<1> QED  BY <1>1, <1>2, <1>3

\* The types are kept; a message put off has somebody to look at it; cached children
\* are in the application's table; and no destroyed object stays in it.
THEOREM CacheConsistent == Spec => []Consistent
<1>1. CInv => Consistent
  <2> SUFFICES ASSUME CInv PROVE Consistent
    OBVIOUS
  <2>1. TypeOK /\ IdleScheduled
    BY DEF CInv, QueueInv
  <2>2. ChildrenKnown
    BY DEF CInv, Tells, CacheTells, ChildrenKnown
  <2>3. NothingLeftBehind
    <3> SUFFICES ASSUME Quiet, ~overtaken, NEW o \in known \cap gone PROVE FALSE
      BY DEF NothingLeftBehind
    <3>1. Destroys(Coming, o) = {}
      BY AtRest DEF Destroys, About
    <3>2. handler # [kind |-> "dispose", object |-> o]
      BY AtRest DEF NoHandler
    <3> QED  BY <3>1, <3>2 DEF CInv, Tells, CacheTells
  <2> QED  BY <2>1, <2>2, <2>3 DEF Consistent
<1> QED  BY <1>1, CacheFollows, PTL

\* Once everything is handled, the cached name and children are those of the
\* application, however answers and signals were interleaved, unless an answer was
\* overtaken; and the children are in its order when no signal was handled twice.
THEOREM CacheRight == Spec => []CacheSettles
<1>1. CInv => CacheSettles
  <2> SUFFICES ASSUME CInv, Quiet, ~overtaken
               PROVE  /\ hasName => name = title
                      /\ hasKids => /\ RangeOf(children) = RangeOf(kids)
                                    /\ Len(children) = Len(kids)
                                    /\ ~replayed => children = kids
    BY DEF CacheSettles
  <2>0. Coming = {} /\ sent = handled
    BY AtRest
  <2>1. ASSUME hasName PROVE name = title
    <3>1. NameFresh(name, handled, Coming, title)
      BY <2>1 DEF CInv, Tells, CacheTells
    <3>2. Renames(Coming) = {}
      BY <2>0 DEF Renames
    <3> QED  BY <3>1, <3>2 DEF NameFresh, Fresh
  <2>2. ASSUME hasKids
        PROVE  RangeOf(children) = RangeOf(kids) /\ Len(children) = Len(kids)
    <3>1. KidsFresh(children, handled, Coming, kids)
      BY <2>2 DEF CInv, Tells, CacheTells
    <3>2. ASSUME NEW o \in Objects
          PROVE  RangeOf(children) \cap {o} = RangeOf(kids) \cap {o}
      <4>1. Moves(Coming, o) = {}
        BY <2>0 DEF Moves, About
      <4> QED  BY <3>1, <4>1 DEF KidsFresh, Fresh
    <3>3. /\ children \in Seq(Objects) /\ kids \in Seq(Objects)
          /\ IsInjective(children) /\ IsInjective(kids)
      BY DEF CInv, TypeOK, Tells, AppSound
    <3>4. RangeOf(children) \subseteq Objects /\ RangeOf(kids) \subseteq Objects
      BY <3>3, InRange
    <3>5. RangeOf(children) = RangeOf(kids)
      BY <3>2, <3>4
    <3> QED  BY <3>3, <3>5, SameLength
  <2>3. ASSUME hasKids, ~replayed PROVE children = kids
    <3>1. Leads(children, handled, Coming, kids, sent)
      BY <2>3 DEF CInv, Tells, CacheTells
    <3> QED  BY <2>0, <3>1 DEF Leads
  <2> QED  BY <2>1, <2>2, <2>3
<1> QED  BY <1>1, CacheFollows, PTL

=============================================================================
