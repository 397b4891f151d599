------------------------- MODULE EventListeners_proofs -------------------------
(***************************************************************************)
(* The list of event listeners while callbacks change it, for any          *)
(* callbacks, types and number of registrations.                           *)
(***************************************************************************)
EXTENDS EventListeners, FiniteSetTheorems, SequenceTheorems, TLAPS

-----------------------------------------------------------------------------
(***************************************************************************)
(* The list by itself.                                                     *)
(***************************************************************************)
Entry == [node : Nodes, callback : Callbacks, type : Wanted]

\* The youngest first.
Descends(L) == \A i, j \in DOMAIN L : i < j => L[i].node > L[j].node

List(L) == L \in Seq(Entry) /\ Descends(L)

Nums(L) == {L[i].node : i \in DOMAIN L}
Entries(L, n) == L[CHOOSE i \in DOMAIN L : L[i].node = n]

LEMMA NumsAre ==
    /\ NodesNow = Nums(listeners)
    /\ \A n : Node(n) = Entries(listeners, n)
<1>1. ToSet(listeners) = {listeners[i] : i \in DOMAIN listeners}
  BY DEF ToSet
<1>2. NodesNow = Nums(listeners)
  BY <1>1 DEF NodesNow, Nums
<1> QED
  BY <1>2 DEF Node, PlaceOf, Entries

\* A node has one place.
LEMMA OnePlace ==
    ASSUME NEW L, List(L)
    PROVE  /\ \A i, j \in DOMAIN L : L[i].node = L[j].node => i = j
           /\ \A i \in DOMAIN L : Entries(L, L[i].node) = L[i]
           /\ Nums(L) \subseteq Nodes
<1>1. /\ L \in Seq(Entry) /\ DOMAIN L = 1..Len(L) /\ Len(L) \in Nat
      /\ \A i \in DOMAIN L : L[i] \in Entry
  BY DEF List
<1>2. \A i \in DOMAIN L : L[i].node \in Nodes /\ L[i].node \in Int
  BY <1>1 DEF Entry, Nodes
<1>3. ASSUME NEW i \in DOMAIN L, NEW j \in DOMAIN L, L[i].node = L[j].node
      PROVE  i = j
  <2>1. ~(i < j) /\ ~(j < i)
    BY <1>2, <1>3 DEF List, Descends
  <2> QED
    BY <1>1, <2>1
<1>4. ASSUME NEW i \in DOMAIN L
      PROVE  Entries(L, L[i].node) = L[i]
  <2> DEFINE k == CHOOSE j \in DOMAIN L : L[j].node = L[i].node
  <2>1. k \in DOMAIN L /\ L[k].node = L[i].node
    OBVIOUS
  <2>2. k = i
    BY <1>3, <2>1
  <2> QED
    BY <2>2 DEF Entries
<1>5. Nums(L) \subseteq Nodes
  BY <1>2 DEF Nums
<1> QED
  BY <1>3, <1>4, <1>5

LEMMA NumsFinite ==
    ASSUME NEW L, List(L), MaxListeners \in Nat
    PROVE  IsFiniteSet(Nums(L))
<1>1. IsFiniteSet(Nodes)
  BY FS_Interval DEF Nodes
<1> QED
  BY <1>1, OnePlace, FS_Subset

\* The list begins with the youngest.
LEMMA HeadYoungest ==
    ASSUME NEW L, List(L), L # <<>>
    PROVE  Head(L).node \in Nums(L) /\ \A n \in Nums(L) : n <= Head(L).node
<1>1. L \in Seq(Entry) /\ 1 \in DOMAIN L /\ Head(L) = L[1] /\ DOMAIN L = 1..Len(L)
  BY DEF List
<1>2. \A i \in DOMAIN L : L[i].node \in Int
  <2>1. \A i \in DOMAIN L : L[i] \in Entry
    BY <1>1
  <2> QED
    BY <2>1 DEF Entry, Nodes
<1>3. ASSUME NEW i \in DOMAIN L
      PROVE  L[i].node <= L[1].node
  <2>1. i = 1 \/ 1 < i
    BY <1>1
  <2> QED
    BY <1>1, <1>2, <2>1 DEF List, Descends
<1> QED
  BY <1>1, <1>3 DEF Nums

\* A node younger than all is put before them.
LEMMA ListAdds ==
    ASSUME NEW L, List(L), NEW e \in Entry, \A n \in Nums(L) : n < e.node
    PROVE  LET more == <<e>> \o L
           IN  /\ List(more)
               /\ Nums(more) = Nums(L) \cup {e.node}
               /\ Entries(more, e.node) = e
               /\ \A n \in Nums(L) : Entries(more, n) = Entries(L, n)
<1> DEFINE more == <<e>> \o L
<1>1. L \in Seq(Entry) /\ DOMAIN L = 1..Len(L) /\ Len(L) \in Nat
  BY DEF List
<1>2. /\ more \in Seq(Entry) /\ DOMAIN more = 1..(Len(L) + 1)
      /\ more[1] = e /\ \A i \in DOMAIN L : i + 1 \in DOMAIN more /\ more[i + 1] = L[i]
      /\ \A i \in DOMAIN more : i = 1 \/ (i - 1 \in DOMAIN L /\ more[i] = L[i - 1])
  BY <1>1
<1> HIDE DEF more
<1>3. \A i \in DOMAIN L : L[i].node < e.node
  BY DEF Nums
<1>4. Descends(more)
  <2> SUFFICES ASSUME NEW i \in DOMAIN more, NEW j \in DOMAIN more, i < j
               PROVE  more[i].node > more[j].node
    BY DEF Descends
  <2>1. i \in Nat /\ j \in Nat /\ i >= 1
    BY <1>2, <1>1
  <2>2. j - 1 \in DOMAIN L /\ more[j] = L[j - 1]
    BY <1>2, <2>1
  <2>3. CASE i = 1
    <3>1. e.node \in Int /\ L[j - 1].node \in Int
      <4>1. L[j - 1] \in Entry
        BY <1>1, <2>2
      <4> QED
        BY <4>1 DEF Entry, Nodes
    <3> QED
      BY <1>2, <1>3, <2>2, <2>3, <3>1
  <2>4. CASE i # 1
    <3>1. i - 1 \in DOMAIN L /\ more[i] = L[i - 1] /\ i - 1 < j - 1
      BY <1>2, <2>1, <2>4
    <3> QED
      BY <2>2, <3>1 DEF List, Descends
  <2> QED
    BY <2>3, <2>4
<1>5. List(more)
  BY <1>2, <1>4 DEF List
<1>6. Nums(more) = Nums(L) \cup {e.node}
  <2>1. 1 \in DOMAIN more
    BY <1>1, <1>2
  <2>2. ASSUME NEW n \in Nums(more) PROVE n \in Nums(L) \cup {e.node}
    <3>1. PICK i \in DOMAIN more : n = more[i].node
      BY <2>2 DEF Nums
    <3> QED
      BY <1>2, <3>1 DEF Nums
  <2>3. ASSUME NEW n \in Nums(L) PROVE n \in Nums(more)
    <3>1. PICK i \in DOMAIN L : n = L[i].node
      BY <2>3 DEF Nums
    <3> QED
      BY <1>2, <3>1 DEF Nums
  <2>4. e.node \in Nums(more)
    BY <1>2, <2>1 DEF Nums
  <2> QED
    BY <2>2, <2>3, <2>4
<1>7. Entries(more, e.node) = e
  <2>1. 1 \in DOMAIN more
    BY <1>1, <1>2
  <2> QED
    BY <1>2, <1>5, <2>1, OnePlace
<1>8. ASSUME NEW n \in Nums(L)
      PROVE  Entries(more, n) = Entries(L, n)
  <2>1. PICK i \in DOMAIN L : n = L[i].node
    BY DEF Nums
  <2> QED
    BY <1>2, <1>5, <2>1, OnePlace
<1> QED
  BY <1>5, <1>6, <1>7, <1>8 DEF more

\* A node is taken out.
LEMMA ListRemoves ==
    ASSUME NEW L, List(L), NEW n \in Nums(L)
    PROVE  LET fewer == RemoveAt(L, CHOOSE i \in DOMAIN L : L[i].node = n)
           IN  /\ List(fewer)
               /\ Nums(fewer) = Nums(L) \ {n}
               /\ \A m \in Nums(fewer) : Entries(fewer, m) = Entries(L, m)
<1> DEFINE at == CHOOSE i \in DOMAIN L : L[i].node = n
           fewer == RemoveAt(L, at)
           from(k) == IF k < at THEN k ELSE k + 1
<1>1. L \in Seq(Entry) /\ DOMAIN L = 1..Len(L) /\ Len(L) \in Nat
  BY DEF List
<1>2. at \in DOMAIN L /\ L[at].node = n
  BY DEF Nums
<1> HIDE DEF at
<1>3. /\ SubSeq(L, 1, at - 1) \in Seq(Entry) /\ Len(SubSeq(L, 1, at - 1)) = at - 1
      /\ \A i \in 1..(at - 1) : SubSeq(L, 1, at - 1)[i] = L[i]
  BY <1>1, <1>2
<1>4. /\ SubSeq(L, at + 1, Len(L)) \in Seq(Entry)
      /\ Len(SubSeq(L, at + 1, Len(L))) = Len(L) - at
      /\ \A i \in 1..(Len(L) - at) : SubSeq(L, at + 1, Len(L))[i] = L[at + i]
  BY <1>1, <1>2
<1>5. /\ fewer \in Seq(Entry) /\ Len(fewer) = Len(L) - 1
      /\ \A k \in 1..(Len(L) - 1) : fewer[k] = L[from(k)]
  <2>1. fewer = SubSeq(L, 1, at - 1) \o SubSeq(L, at + 1, Len(L))
    BY DEF RemoveAt
  <2> DEFINE a == SubSeq(L, 1, at - 1)
             b == SubSeq(L, at + 1, Len(L))
  <2>2. /\ a \in Seq(Entry) /\ Len(a) = at - 1
        /\ \A i \in 1..(at - 1) : a[i] = L[i]
    BY <1>3
  <2>3. /\ b \in Seq(Entry) /\ Len(b) = Len(L) - at
        /\ \A i \in 1..(Len(L) - at) : b[i] = L[at + i]
    BY <1>4
  <2> HIDE DEF a, b
  <2>4. /\ a \o b \in Seq(Entry) /\ Len(a \o b) = Len(a) + Len(b)
        /\ \A k \in 1..(Len(a) + Len(b)) :
              (a \o b)[k] = IF k <= Len(a) THEN a[k] ELSE b[k - Len(a)]
    BY <2>2, <2>3
  <2>5. at \in Nat /\ at >= 1 /\ at <= Len(L)
    BY <1>1, <1>2
  <2>6. Len(a) + Len(b) = Len(L) - 1
    BY <1>1, <2>2, <2>3, <2>5
  <2>7. ASSUME NEW k \in 1..(Len(L) - 1)
        PROVE  (a \o b)[k] = L[from(k)]
    <3>1. CASE k < at
      <4>1. (a \o b)[k] = a[k] /\ k \in 1..(at - 1)
        BY <1>1, <2>2, <2>4, <2>5, <2>6, <3>1
      <4> QED
        BY <2>2, <3>1, <4>1
    <3>2. CASE ~(k < at)
      <4>1. (a \o b)[k] = b[k - (at - 1)]
        BY <1>1, <2>2, <2>4, <2>5, <2>6, <3>2
      <4>2. k - (at - 1) \in 1..(Len(L) - at) /\ at + (k - (at - 1)) = k + 1
        BY <1>1, <2>5, <3>2
      <4> QED
        BY <2>3, <3>2, <4>1, <4>2
    <3> QED
      BY <3>1, <3>2
  <2>8. a \o b = fewer
    BY <2>1 DEF a, b
  <2> HIDE DEF from, fewer
  <2> QED
    BY <2>4, <2>6, <2>7, <2>8
<1> HIDE DEF fewer
<1>6. DOMAIN fewer = 1..(Len(L) - 1)
  BY <1>5
<1>7. \A k \in DOMAIN fewer : from(k) \in DOMAIN L /\ from(k) # at /\ fewer[k] = L[from(k)]
  BY <1>1, <1>2, <1>5, <1>6
<1>8. \A i \in DOMAIN L : i # at => \E k \in DOMAIN fewer : from(k) = i
  <2> SUFFICES ASSUME NEW i \in DOMAIN L, i # at
               PROVE  \E k \in DOMAIN fewer : from(k) = i
    OBVIOUS
  <2>1. CASE i < at
    BY <1>1, <1>2, <1>6, <2>1
  <2>2. CASE at < i
    <3>1. i - 1 \in DOMAIN fewer /\ from(i - 1) = i
      BY <1>1, <1>2, <1>6, <2>2
    <3> QED
      BY <3>1
  <2> QED
    BY <1>1, <1>2, <2>1, <2>2
<1>9. Descends(fewer)
  <2> SUFFICES ASSUME NEW i \in DOMAIN fewer, NEW j \in DOMAIN fewer, i < j
               PROVE  fewer[i].node > fewer[j].node
    BY DEF Descends
  <2>1. from(i) < from(j)
    BY <1>1, <1>2, <1>6
  <2> HIDE DEF from
  <2> QED
    BY <1>7, <2>1 DEF List, Descends
<1>10. List(fewer)
  BY <1>5, <1>9 DEF List
<1> HIDE DEF from
<1>11. Nums(fewer) = Nums(L) \ {n}
  <2>1. ASSUME NEW m \in Nums(fewer) PROVE m \in Nums(L) /\ m # n
    <3>1. PICK k \in DOMAIN fewer : m = fewer[k].node
      BY <2>1 DEF Nums
    <3> QED
      BY <1>2, <1>7, <3>1, OnePlace DEF Nums
  <2>2. ASSUME NEW m \in Nums(L), m # n PROVE m \in Nums(fewer)
    <3>1. PICK i \in DOMAIN L : m = L[i].node
      BY <2>2 DEF Nums
    <3>2. PICK k \in DOMAIN fewer : from(k) = i
      BY <1>2, <1>8, <2>2, <3>1
    <3> QED
      BY <1>7, <3>1, <3>2 DEF Nums
  <2> QED
    BY <2>1, <2>2
<1>12. ASSUME NEW m \in Nums(fewer)
       PROVE  Entries(fewer, m) = Entries(L, m)
  <2>1. PICK k \in DOMAIN fewer : m = fewer[k].node
    BY DEF Nums
  <2>2. Entries(fewer, m) = fewer[k]
    BY <1>10, <2>1, OnePlace
  <2>3. Entries(L, m) = L[from(k)]
    BY <1>7, <2>1, OnePlace
  <2> QED
    BY <1>7, <2>2, <2>3
<1> QED
  BY <1>10, <1>11, <1>12 DEF fewer, at

-----------------------------------------------------------------------------
(***************************************************************************)
(* The stack by itself.                                                    *)
(***************************************************************************)
Deregisters ==
    [op : {"deregister"}, at : Nodes \cup {End, Freed}, callback : Callbacks,
     type : Types, held : BOOLEAN]

Walks ==
    [op : {"walk"}, at : Nodes \cup {End, Freed},
     event : [number : 0..MaxEvents, type : Events], calling : BOOLEAN,
     due : SUBSET Nodes]

LEMMA FrameKinds ==
    ASSUME NEW f \in Frame
    PROVE  /\ f.op \in {"process", "deregister", "walk"}
           /\ f.op = "deregister" => f \in Deregisters
           /\ f.op = "walk" => f \in Walks
BY DEF Frame, Deregisters, Walks

LEMMA KindsFrame == Deregisters \subseteq Frame /\ Walks \subseteq Frame
BY DEF Frame, Deregisters, Walks

\* A walk for an event from an application is called by the processing of
\* messages, of which there is one at most.
TellsMessage(f) == f.op = "walk" /\ f.event.number # NoNumber

Shape(s) ==
    /\ \A i \in DOMAIN s : TellsMessage(s[i]) => i > 1 /\ s[i - 1].op = "process"
    /\ \A i, j \in DOMAIN s : s[i].op = "process" /\ s[j].op = "process" => i = j

Holds(f, c) == f.op = "deregister" /\ f.held /\ f.callback = c
HeldBy(s, c) == {i \in DOMAIN s : Holds(s[i], c)}

LEMMA Pushes ==
    ASSUME NEW s \in Seq(Frame), Shape(s), NEW f \in Frame,
           TellsMessage(f) => s # <<>> /\ s[Len(s)].op = "process",
           f.op = "process" => \A i \in DOMAIN s : s[i].op # "process",
           \A c : ~Holds(f, c)
    PROVE  /\ Append(s, f) \in Seq(Frame)
           /\ Shape(Append(s, f))
           /\ \A c : HeldBy(Append(s, f), c) = HeldBy(s, c)
           /\ \A i \in DOMAIN Append(s, f) :
                 Append(s, f)[i] = f \/ \E j \in DOMAIN s : Append(s, f)[i] = s[j]
<1> DEFINE t == Append(s, f)
<1>1. /\ t \in Seq(Frame) /\ DOMAIN t = 1..(Len(s) + 1) /\ DOMAIN s = 1..Len(s)
      /\ Len(s) \in Nat /\ t[Len(s) + 1] = f /\ \A i \in 1..Len(s) : t[i] = s[i]
  OBVIOUS
<1> HIDE DEF t
<1>2. Shape(t)
  <2>1. ASSUME NEW i \in DOMAIN t, TellsMessage(t[i])
        PROVE  i > 1 /\ t[i - 1].op = "process"
    <3>1. CASE i = Len(s) + 1
      <4>1. TellsMessage(f) /\ s # <<>> /\ s[Len(s)].op = "process"
        BY <1>1, <2>1, <3>1
      <4>2. Len(s) # 0
        BY <4>1
      <4> QED
        BY <1>1, <3>1, <4>1, <4>2
    <3>2. CASE i \in 1..Len(s)
      <4>1. i > 1 /\ s[i - 1].op = "process"
        BY <1>1, <2>1, <3>2 DEF Shape
      <4> QED
        BY <1>1, <3>2, <4>1
    <3> QED
      BY <1>1, <3>1, <3>2
  <2>2. ASSUME NEW i \in DOMAIN t, NEW j \in DOMAIN t,
               t[i].op = "process", t[j].op = "process"
        PROVE  i = j
    <3>1. CASE f.op = "process"
      BY <1>1, <2>2, <3>1
    <3>2. CASE f.op # "process"
      <4>1. i \in 1..Len(s) /\ j \in 1..Len(s)
        BY <1>1, <2>2, <3>2
      <4> QED
        BY <1>1, <2>2, <4>1 DEF Shape
    <3> QED
      BY <3>1, <3>2
  <2> QED
    BY <2>1, <2>2 DEF Shape
<1>3. ASSUME NEW c PROVE HeldBy(t, c) = HeldBy(s, c)
  <2>1. \A i \in DOMAIN t : i = Len(s) + 1 \/ i \in DOMAIN s
    BY <1>1
  <2>2. \A i \in DOMAIN s : i \in DOMAIN t /\ t[i] = s[i]
    BY <1>1
  <2>3. ~Holds(t[Len(s) + 1], c)
    BY <1>1
  <2> QED
    BY <2>1, <2>2, <2>3 DEF HeldBy
<1>4. \A i \in DOMAIN t : t[i] = f \/ \E j \in DOMAIN s : t[i] = s[j]
  BY <1>1
<1> QED
  BY <1>1, <1>2, <1>3, <1>4 DEF t

LEMMA Pops ==
    ASSUME NEW s \in Seq(Frame), Shape(s), s # <<>>,
           \A c : ~Holds(s[Len(s)], c)
    PROVE  /\ Front(s) \in Seq(Frame)
           /\ Shape(Front(s))
           /\ \A c : HeldBy(Front(s), c) = HeldBy(s, c)
           /\ \A i \in DOMAIN Front(s) : \E j \in DOMAIN s : Front(s)[i] = s[j]
<1> DEFINE t == Front(s)
<1>1. DOMAIN s = 1..Len(s) /\ Len(s) \in Nat /\ Len(s) # 0
  OBVIOUS
<1>2. /\ t \in Seq(Frame) /\ DOMAIN t = 1..(Len(s) - 1)
      /\ \A i \in 1..(Len(s) - 1) : t[i] = s[i]
  <2>1. t = SubSeq(s, 1, Len(s) - 1)
    BY DEF Front
  <2> QED
    BY <1>1, <2>1
<1> HIDE DEF t
<1>3. \A i \in DOMAIN t : i \in DOMAIN s /\ t[i] = s[i]
  BY <1>1, <1>2
<1>4. Shape(t)
  <2>1. ASSUME NEW i \in DOMAIN t, TellsMessage(t[i])
        PROVE  i > 1 /\ t[i - 1].op = "process"
    <3>1. i > 1 /\ s[i - 1].op = "process"
      BY <1>3, <2>1 DEF Shape
    <3> QED
      BY <1>1, <1>2, <3>1
  <2> QED
    BY <1>3, <2>1 DEF Shape
<1>5. ASSUME NEW c PROVE HeldBy(t, c) = HeldBy(s, c)
  <2>1. \A i \in DOMAIN s : i = Len(s) \/ i \in DOMAIN t
    BY <1>1, <1>2
  <2> QED
    BY <1>3, <2>1 DEF HeldBy
<1> QED
  BY <1>2, <1>3, <1>4, <1>5 DEF t

\* What is in process goes on in place.
LEMMA Changes ==
    ASSUME NEW s \in Seq(Frame), Shape(s), NEW t \in Seq(Frame), Len(t) = Len(s),
           \A i \in DOMAIN s : /\ t[i].op = s[i].op
                               /\ TellsMessage(t[i]) <=> TellsMessage(s[i])
    PROVE  Shape(t) /\ DOMAIN t = DOMAIN s
<1>1. DOMAIN t = DOMAIN s /\ DOMAIN s = 1..Len(s) /\ Len(s) \in Nat
  OBVIOUS
<1>2. ASSUME NEW i \in DOMAIN t, TellsMessage(t[i])
      PROVE  i > 1 /\ t[i - 1].op = "process"
  <2>1. i > 1 /\ s[i - 1].op = "process"
    BY <1>1, <1>2 DEF Shape
  <2>2. i - 1 \in DOMAIN s
    BY <1>1, <2>1
  <2> QED
    BY <2>1, <2>2
<1> QED
  BY <1>1, <1>2 DEF Shape

LEMMA TopChanges ==
    ASSUME NEW s \in Seq(Frame), Shape(s), s # <<>>, NEW f \in Frame,
           f.op = s[Len(s)].op, TellsMessage(f) <=> TellsMessage(s[Len(s)])
    PROVE  LET t == [s EXCEPT ![Len(s)] = f]
           IN  /\ t \in Seq(Frame) /\ Len(t) = Len(s) /\ DOMAIN t = DOMAIN s
               /\ Shape(t) /\ t[Len(s)] = f
               /\ \A i \in DOMAIN s : i # Len(s) => t[i] = s[i]
<1> DEFINE t == [s EXCEPT ![Len(s)] = f]
<1>1. Len(s) \in DOMAIN s /\ DOMAIN s = 1..Len(s)
  <2>1. Len(s) \in Nat /\ Len(s) # 0 /\ DOMAIN s = 1..Len(s)
    OBVIOUS
  <2> QED
    BY <2>1
<1>2. /\ t \in Seq(Frame) /\ Len(t) = Len(s) /\ DOMAIN t = DOMAIN s /\ t[Len(s)] = f
      /\ \A i \in DOMAIN s : i # Len(s) => t[i] = s[i]
  BY <1>1
<1> HIDE DEF t
<1>3. \A i \in DOMAIN s : /\ t[i].op = s[i].op
                           /\ TellsMessage(t[i]) <=> TellsMessage(s[i])
  BY <1>2
<1>4. Shape(t)
  BY <1>2, <1>3, Changes
<1> QED
  BY <1>2, <1>4 DEF t

LEMMA TopIs ==
    ASSUME stack \in Seq(Frame), stack # <<>>
    PROVE  /\ Top \in Frame /\ Len(stack) \in DOMAIN stack /\ Top = stack[Len(stack)]
           /\ \A f : SetTop(f) = [stack EXCEPT ![Len(stack)] = f]
<1>1. Len(stack) \in DOMAIN stack
  <2>1. Len(stack) \in Nat /\ Len(stack) # 0 /\ DOMAIN stack = 1..Len(stack)
    OBVIOUS
  <2> QED
    BY <2>1
<1> QED
  BY <1>1 DEF Top, SetTop

-----------------------------------------------------------------------------
(***************************************************************************)
(* The inductive invariant.                                                *)
(***************************************************************************)

\* Whom a walk has yet to tell are still in the list, from where it is on.
Ahead(L, f) ==
    f.op = "walk" /\ f.at # Freed =>
        \A n \in f.due : /\ n \in Nums(L) /\ n <= f.at
                         /\ f.calling => n < f.at
                         /\ Covers(Entries(L, n).type, f.event.type)

AllAhead(L, s) == \A i \in DOMAIN s : Ahead(L, s[i])

OwnedBy(L, c) == {n \in Nums(L) : Entries(L, n).callback = c}
OfType(L, t) == {n \in Nums(L) : Entries(L, n).type = t}

ListInv ==
    /\ List(listeners) /\ made \in 0..MaxListeners
    /\ \A n \in Nums(listeners) : n <= made

StackInv ==
    /\ stack \in Seq(Frame) /\ Shape(stack)
    /\ ~stray => AllAhead(listeners, stack)

RefsInv ==
    /\ refs \in [Callbacks -> Nat]
    /\ \A c \in Callbacks :
          refs[c] = Cardinality(OwnedBy(listeners, c)) + Cardinality(HeldBy(stack, c))

RulesInv ==
    /\ rules \in [Types -> Nat] /\ registered \in [Types -> Nat]
    /\ \A t \in Wanted : rules[t] >= Cardinality(OfType(listeners, t))

OthersInv ==
    /\ deferred \in Seq([number : 1..MaxEvents, type : Events])
    /\ dropped \in 0..MaxDeregs /\ sent \in 0..MaxEvents /\ stray \in BOOLEAN

IInv == ListInv /\ StackInv /\ RefsInv /\ RulesInv /\ OthersInv

\* A step that leaves the list and what is counted by it alone.
LEMMA ListKept ==
    ASSUME IInv, UNCHANGED <<listeners, refs, rules, registered, made>>,
           stack' \in Seq(Frame), Shape(stack'),
           \A c : HeldBy(stack', c) = HeldBy(stack, c),
           ~stray' => ~stray /\ \A i \in DOMAIN stack' : Ahead(listeners, stack'[i]),
           OthersInv'
    PROVE  IInv'
<1>1. ListInv' /\ RulesInv'
  BY DEF IInv, ListInv, RulesInv
<1>2. StackInv'
  BY DEF StackInv, AllAhead
<1>3. RefsInv'
  BY DEF IInv, RefsInv
<1> QED
  BY <1>1, <1>2, <1>3 DEF IInv

\* One more frame that is not a walk, or is at the beginning of one.
LEMMA PushKept ==
    ASSUME IInv, UNCHANGED <<listeners, refs, rules, registered, made, stray>>,
           NEW f \in Frame, stack' = Append(stack, f),
           TellsMessage(f) => stack # <<>> /\ Top.op = "process",
           f.op = "process" => ~Processing,
           f.op = "deregister" => ~f.held,
           Ahead(listeners, f), OthersInv'
    PROVE  IInv'
<1>1. stack \in Seq(Frame) /\ Shape(stack) /\ (~stray => AllAhead(listeners, stack))
  BY DEF IInv, StackInv
<1>2. \A c : ~Holds(f, c)
  BY DEF Holds
<1>3. f.op = "process" => \A i \in DOMAIN stack : stack[i].op # "process"
  BY DEF Processing
<1>4. TellsMessage(f) => stack # <<>> /\ stack[Len(stack)].op = "process"
  BY DEF Top
<1>5. /\ stack' \in Seq(Frame) /\ Shape(stack')
      /\ \A c : HeldBy(stack', c) = HeldBy(stack, c)
      /\ \A i \in DOMAIN stack' : stack'[i] = f \/ \E j \in DOMAIN stack : stack'[i] = stack[j]
  BY <1>1, <1>2, <1>3, <1>4, Pushes
<1>6. ~stray' => ~stray /\ \A i \in DOMAIN stack' : Ahead(listeners, stack'[i])
  <2> SUFFICES ASSUME ~stray', NEW i \in DOMAIN stack'
               PROVE  ~stray /\ Ahead(listeners, stack'[i])
    OBVIOUS
  <2>1. ~stray
    OBVIOUS
  <2>2. CASE stack'[i] = f
    BY <2>1, <2>2
  <2>3. CASE \E j \in DOMAIN stack : stack'[i] = stack[j]
    BY <1>1, <2>1, <2>3 DEF AllAhead
  <2> QED
    BY <1>5, <2>1, <2>2, <2>3
<1> QED
  BY <1>5, <1>6, ListKept

\* The end of what was in process.
LEMMA PopKept ==
    ASSUME IInv, UNCHANGED <<listeners, refs, rules, registered, made, stray>>,
           stack # <<>>, stack' = Pop, Top.op = "deregister" => ~Top.held, OthersInv'
    PROVE  IInv'
<1>1. stack \in Seq(Frame) /\ Shape(stack) /\ (~stray => AllAhead(listeners, stack))
  BY DEF IInv, StackInv
<1>2. \A c : ~Holds(stack[Len(stack)], c)
  BY DEF Holds, Top
<1>3. /\ stack' \in Seq(Frame) /\ Shape(stack')
      /\ \A c : HeldBy(stack', c) = HeldBy(stack, c)
      /\ \A i \in DOMAIN stack' : \E j \in DOMAIN stack : stack'[i] = stack[j]
  BY <1>1, <1>2, Pops DEF Pop
<1>4. ~stray' => ~stray /\ \A i \in DOMAIN stack' : Ahead(listeners, stack'[i])
  BY <1>1, <1>3 DEF AllAhead
<1> QED
  BY <1>3, <1>4, ListKept

\* A walk goes on, or a deregistration that holds no more and no less.
LEMMA TopKept ==
    ASSUME IInv, UNCHANGED <<listeners, refs, rules, registered, made>>,
           stack # <<>>, NEW f \in Frame, stack' = SetTop(f), f.op = Top.op,
           TellsMessage(f) <=> TellsMessage(Top),
           \A c : Holds(f, c) <=> Holds(Top, c),
           ~stray' => ~stray /\ Ahead(listeners, f), OthersInv'
    PROVE  IInv'
<1>1. stack \in Seq(Frame) /\ Shape(stack) /\ (~stray => AllAhead(listeners, stack))
  BY DEF IInv, StackInv
<1>2. /\ Top = stack[Len(stack)] /\ f.op = stack[Len(stack)].op
      /\ TellsMessage(f) <=> TellsMessage(stack[Len(stack)])
      /\ stack' = [stack EXCEPT ![Len(stack)] = f]
  BY <1>1, TopIs
<1>3. /\ stack' \in Seq(Frame) /\ DOMAIN stack' = DOMAIN stack /\ Shape(stack')
      /\ stack'[Len(stack)] = f
      /\ \A i \in DOMAIN stack : i # Len(stack) => stack'[i] = stack[i]
  <2> DEFINE t == [stack EXCEPT ![Len(stack)] = f]
  <2>1. /\ t \in Seq(Frame) /\ DOMAIN t = DOMAIN stack /\ Shape(t)
        /\ t[Len(stack)] = f
        /\ \A i \in DOMAIN stack : i # Len(stack) => t[i] = stack[i]
    BY <1>1, <1>2, TopChanges
  <2> HIDE DEF t
  <2>2. stack' = t
    BY <1>2 DEF t
  <2> QED
    BY <2>1, <2>2
<1>4. ASSUME NEW c PROVE HeldBy(stack', c) = HeldBy(stack, c)
  <2>1. \A i \in DOMAIN stack : Holds(stack'[i], c) <=> Holds(stack[i], c)
    BY <1>2, <1>3
  <2> QED
    BY <1>3, <2>1 DEF HeldBy
<1>5. ~stray' => ~stray /\ \A i \in DOMAIN stack' : Ahead(listeners, stack'[i])
  <2> SUFFICES ASSUME ~stray', NEW i \in DOMAIN stack'
               PROVE  ~stray /\ Ahead(listeners, stack'[i])
    OBVIOUS
  <2>1. ~stray
    OBVIOUS
  <2>2. CASE i = Len(stack)
    BY <1>3, <2>1, <2>2
  <2>3. CASE i # Len(stack)
    BY <1>1, <1>3, <2>1, <2>3 DEF AllAhead
  <2> QED
    BY <2>1, <2>2, <2>3
<1> QED
  BY <1>3, <1>4, <1>5, ListKept

-----------------------------------------------------------------------------
(***************************************************************************)
(* The steps that leave the list alone.                                    *)
(***************************************************************************)

\* A non-empty set of natural numbers has a least one.
LEMMA Least ==
    ASSUME NEW S \in SUBSET Nat, S # {}
    PROVE  \E m \in S : \A k \in S : m <= k
<1> DEFINE R == OpToRel(<, Nat)
<1>1. IsWellFoundedOn(R, Nat)
  BY NatLessThanWellFounded
<1>2. PICK m \in S : \A k \in S : ~(<<k, m>> \in R)
  <2> HIDE DEF R
  <2> QED
    BY <1>1, WFMin
<1>3. ASSUME NEW k \in S PROVE m <= k
  <2>1. ~(k < m)
    BY <1>2 DEF OpToRel
  <2> QED
    BY <2>1
<1> QED
  BY <1>3

\* The next node is the youngest of the older ones.
LEMMA NextOlder ==
    ASSUME List(listeners), NEW n
    PROVE  /\ NextNode(n) \in Nodes \cup {End}
           /\ \A m \in Nums(listeners) : m < n => m <= NextNode(n)
<1> DEFINE L == listeners
           older == {m \in Nums(L) : m < n}
           places == {i \in DOMAIN L : L[i].node < n}
<1>1. NextNode(n) = IF older = {} THEN End
                    ELSE CHOOSE m \in older : \A k \in older : k <= m
  BY NumsAre DEF NextNode
<1>2. CASE older = {}
  BY <1>1, <1>2
<1>3. CASE older # {}
  <2>1. /\ L \in Seq(Entry) /\ DOMAIN L = 1..Len(L)
        /\ \A i \in DOMAIN L : L[i] \in Entry
    BY DEF List
  <2>2. places \in SUBSET Nat /\ places # {}
    BY <1>3, <2>1 DEF Nums
  <2>3. PICK i \in places : \A j \in places : i <= j
    <3> HIDE DEF places
    <3> QED
      BY <2>2, Least
  <2>4. ASSUME NEW j \in places PROVE L[j].node <= L[i].node
    <3>1. i = j \/ i < j
      BY <2>2, <2>3
    <3>2. L[i].node \in Int /\ L[j].node \in Int
      BY <2>1 DEF Entry, Nodes
    <3> QED
      BY <3>1, <3>2 DEF List, Descends
  <2>5. L[i].node \in older /\ \A k \in older : k <= L[i].node
    BY <2>4 DEF Nums
  <2>6. NextNode(n) \in older /\ \A k \in older : k <= NextNode(n)
    <3> HIDE DEF older
    <3> QED
      BY <1>1, <1>3, <2>5
  <2> QED
    BY <2>6, OnePlace
<1> QED
  BY <1>2, <1>3

LEMMA FirstYoungest ==
    ASSUME List(listeners)
    PROVE  /\ FirstNode \in Nodes \cup {End}
           /\ \A n \in Nums(listeners) : n <= FirstNode
<1>1. CASE listeners = <<>>
  BY <1>1 DEF FirstNode, Nums
<1>2. CASE listeners # <<>>
  BY <1>2, HeadYoungest, OnePlace DEF FirstNode
<1> QED
  BY <1>1, <1>2

\* Deregistration begins, skips a node and ends.
LEMMA DeregistersKeep ==
    ASSUME IInv,
           \/ \E c \in Callbacks, t \in Types : Deregister(c, t)
           \/ DeregisterSkips \/ DeregisterEnds
    PROVE  IInv'
<1>1. /\ List(listeners) /\ stack \in Seq(Frame) /\ OthersInv
  BY DEF IInv, ListInv, StackInv
<1>2. ASSUME NEW c \in Callbacks, NEW t \in Types, Deregister(c, t)
      PROVE  IInv'
  <2> DEFINE f == [op |-> "deregister", at |-> FirstNode, callback |-> c,
                   type |-> t, held |-> FALSE]
  <2>1. /\ stack' = Append(stack, f) /\ OthersInv'
        /\ UNCHANGED <<listeners, refs, rules, registered, made, stray>>
    BY <1>1, <1>2, EventListenersAssumption DEF Deregister, OthersInv
  <2>2. f \in Frame
    BY <1>1, FirstYoungest, KindsFrame DEF Deregisters
  <2>3. f.op = "deregister" /\ ~f.held
    OBVIOUS
  <2> HIDE DEF f
  <2> QED
    BY <2>1, <2>2, <2>3, PushKept DEF Ahead, TellsMessage
<1>3. CASE DeregisterSkips
  <2> DEFINE f == [Top EXCEPT !.at = NextNode(Top.at)]
  <2>1. /\ stack # <<>> /\ Top.op = "deregister" /\ ~Top.held /\ stack' = SetTop(f)
        /\ OthersInv' /\ UNCHANGED <<listeners, refs, rules, registered, made, stray>>
    BY <1>1, <1>3 DEF DeregisterSkips, Deregistering, Running, OthersInv
  <2>2. Top \in Deregisters
    BY <1>1, <2>1, TopIs, FrameKinds
  <2>3. /\ f \in Deregisters /\ f.op = "deregister" /\ f.held = Top.held
        /\ f.callback = Top.callback
    BY <1>1, <2>2, NextOlder DEF Deregisters
  <2> HIDE DEF f
  <2>4. f \in Frame /\ Ahead(listeners, f) /\ \A c : Holds(f, c) <=> Holds(Top, c)
    BY <2>1, <2>3, KindsFrame DEF Ahead, Holds
  <2> QED
    BY <2>1, <2>3, <2>4, TopKept DEF TellsMessage
<1>4. CASE DeregisterEnds
  <2>1. /\ stack # <<>> /\ Top.op = "deregister" /\ ~Top.held /\ stack' = Pop
        /\ OthersInv' /\ UNCHANGED <<listeners, refs, rules, registered, made, stray>>
    BY <1>1, <1>4 DEF DeregisterEnds, Deregistering, Running, OthersInv
  <2> QED
    BY <2>1, PopKept
<1> QED
  BY <1>2, <1>3, <1>4

\* A walk begins with all it is due to call still ahead.
LEMMA TellKept ==
    ASSUME IInv, UNCHANGED <<listeners, refs, rules, registered, made, stray>>,
           NEW event \in [number : 0..MaxEvents, type : Events], Tell(event),
           event.number # NoNumber => stack # <<>> /\ Top.op = "process",
           OthersInv'
    PROVE  IInv'
<1> DEFINE due == {n \in NodesNow : Covers(Node(n).type, event.type)}
           f == [op |-> "walk", at |-> FirstNode, event |-> event,
                 calling |-> FALSE, due |-> due]
<1>1. List(listeners) /\ stack' = Append(stack, f)
  BY DEF IInv, ListInv, Tell
<1>2. due \in SUBSET Nodes
  BY <1>1, NumsAre, OnePlace
<1>3. \A n \in due : n \in Nums(listeners) /\ Covers(Entries(listeners, n).type, event.type)
  BY NumsAre
<1> HIDE DEF due
<1>4. f \in Walks
  BY <1>1, <1>2, FirstYoungest DEF Walks
<1>5. Ahead(listeners, f)
  BY <1>1, <1>3, FirstYoungest DEF Ahead
<1>6. f.op = "walk" /\ (TellsMessage(f) => stack # <<>> /\ Top.op = "process")
  BY DEF TellsMessage
<1> HIDE DEF f
<1>7. f \in Frame
  BY <1>4, KindsFrame
<1> QED
  BY <1>1, <1>5, <1>6, <1>7, PushKept

\* Events are put off, and looked at; an accessible goes.
LEMMA ProcessingKeeps ==
    ASSUME IInv,
           \/ \E e \in Events : EventArrives(e)
           \/ IdleProcesses \/ HandleEvent \/ DisposeTells \/ ProcessEnds \/ WalkEnds
    PROVE  IInv'
<1>1. /\ List(listeners) /\ stack \in Seq(Frame) /\ OthersInv
  BY DEF IInv, ListInv, StackInv
<1>2. ASSUME NEW e \in Events, EventArrives(e)
      PROVE  IInv'
  <2>1. /\ sent < MaxEvents /\ sent' = sent + 1
        /\ deferred' = Append(deferred, [number |-> sent', type |-> e])
        /\ UNCHANGED <<listeners, refs, stack, rules, registered, made, dropped, stray>>
    BY <1>2 DEF EventArrives
  <2>2. sent' \in 1..MaxEvents
    BY <1>1, <2>1, EventListenersAssumption DEF OthersInv
  <2>3. [number |-> sent', type |-> e] \in [number : 1..MaxEvents, type : Events]
    BY <2>2
  <2>4. OthersInv'
    <3> DEFINE event == [number |-> sent', type |-> e]
               kinds == [number : 1..MaxEvents, type : Events]
    <3>1. deferred \in Seq(kinds) /\ event \in kinds /\ deferred' = Append(deferred, event)
      BY <1>1, <2>1, <2>3 DEF OthersInv
    <3> HIDE DEF event, kinds
    <3>2. deferred' \in Seq(kinds)
      BY <3>1
    <3> QED
      BY <1>1, <2>1, <2>2, <3>2 DEF OthersInv, kinds
  <2>5. StackInv'
    BY <2>1 DEF IInv, StackInv, AllAhead
  <2> QED
    BY <2>1, <2>4, <2>5 DEF IInv, ListInv, RefsInv, RulesInv
<1>3. CASE IdleProcesses
  <2> DEFINE f == [op |-> "process", at |-> End]
  <2>1. ~Processing
    BY <1>3 DEF IdleProcesses, Processing
  <2>2. /\ stack' = Append(stack, f) /\ OthersInv'
        /\ UNCHANGED <<listeners, refs, rules, registered, made, stray>>
    BY <1>1, <1>3, <2>1 DEF IdleProcesses, AfterCall, OthersInv
  <2>3. f \in Frame
    BY DEF Frame
  <2>4. f.op = "process"
    OBVIOUS
  <2> HIDE DEF f
  <2> QED
    BY <2>1, <2>2, <2>3, <2>4, PushKept DEF Ahead, TellsMessage
<1>4. CASE HandleEvent
  <2> DEFINE event == Head(deferred)
             kinds == [number : 1..MaxEvents, type : Events]
  <2>1. /\ stack # <<>> /\ Top.op = "process" /\ deferred # <<>>
        /\ deferred' = Tail(deferred) /\ Tell(event)
        /\ UNCHANGED <<listeners, refs, rules, registered, made, dropped, sent, stray>>
    BY <1>4 DEF HandleEvent, Running
  <2>2. deferred \in Seq(kinds)
    BY <1>1 DEF OthersInv
  <2>3. event \in kinds /\ deferred' \in Seq(kinds)
    <3> HIDE DEF kinds
    <3> QED
      BY <2>1, <2>2
  <2>4. event \in [number : 0..MaxEvents, type : Events]
    <3> HIDE DEF event
    <3> QED
      BY <2>3, EventListenersAssumption
  <2>5. OthersInv'
    BY <1>1, <2>1, <2>3 DEF OthersInv
  <2> HIDE DEF event
  <2> QED
    BY <2>1, <2>4, <2>5, TellKept
<1>5. CASE ProcessEnds \/ WalkEnds
  <2>1. /\ stack # <<>> /\ Top.op # "deregister" /\ stack' = Pop
        /\ OthersInv' /\ UNCHANGED <<listeners, refs, rules, registered, made, stray>>
    BY <1>1, <1>5 DEF ProcessEnds, WalkEnds, Walking, Running, OthersInv
  <2> QED
    BY <2>1, PopKept
<1>6. CASE DisposeTells
  <2> DEFINE event == [number |-> NoNumber, type |-> Defunct]
  <2>1. /\ sent < MaxEvents /\ sent' = sent + 1 /\ Tell(event)
        /\ UNCHANGED <<listeners, refs, deferred, rules, registered, made, dropped, stray>>
    BY <1>6 DEF DisposeTells
  <2>2. event \in [number : 0..MaxEvents, type : Events] /\ event.number = NoNumber
    BY EventListenersAssumption DEF NoNumber
  <2>3. OthersInv'
    BY <1>1, <2>1, EventListenersAssumption DEF OthersInv
  <2> HIDE DEF event
  <2> QED
    BY <2>1, <2>2, <2>3, TellKept
<1> QED
  BY <1>2, <1>3, <1>4, <1>5, <1>6

\* A walk skips a node, calls a callback and goes on after it.
LEMMA WalksKeep ==
    ASSUME IInv, WalkSkips \/ WalkCalls \/ CallbackReturns
    PROVE  IInv'
<1>1. /\ List(listeners) /\ stack \in Seq(Frame) /\ OthersInv
      /\ ~stray => AllAhead(listeners, stack)
  BY DEF IInv, ListInv, StackInv
<1>2. /\ stack # <<>> /\ Top.op = "walk" /\ OthersInv'
      /\ UNCHANGED <<listeners, refs, rules, registered, made, stray>>
  BY <1>1 DEF WalkSkips, WalkCalls, CallbackReturns, Walking, Running, OthersInv
<1>3. Top \in Walks /\ (~stray => Ahead(listeners, Top))
  BY <1>1, <1>2, TopIs, FrameKinds DEF AllAhead
<1>4. \A n \in Top.due : n \in Int
  BY <1>3 DEF Walks, Nodes
<1>5. Top.at \in Int
  BY <1>3 DEF Walks, Nodes, End, Freed
<1>6. NextNode(Top.at) \in Nodes \cup {End}
  BY <1>1, NextOlder
<1>7. ASSUME NEW f \in Walks, stack' = SetTop(f), f.event = Top.event,
             ~stray => Ahead(listeners, f)
      PROVE  IInv'
  <2>1. f \in Frame /\ f.op = "walk"
    BY <1>7, KindsFrame DEF Walks
  <2>2. (TellsMessage(f) <=> TellsMessage(Top)) /\ \A c : Holds(f, c) <=> Holds(Top, c)
    BY <1>2, <1>7, <2>1 DEF Holds, TellsMessage
  <2> QED
    BY <1>2, <1>7, <2>1, <2>2, TopKept
<1>8. CASE WalkSkips
  <2> DEFINE f == [Top EXCEPT !.at = NextNode(Top.at)]
  <2>1. /\ stack' = SetTop(f) /\ ~Top.calling /\ Top.at \in NodesNow
        /\ ~Covers(Node(Top.at).type, Top.event.type)
    BY <1>8 DEF WalkSkips, Walking
  <2>2. /\ f \in Walks /\ f.op = "walk" /\ f.due = Top.due /\ f.event = Top.event
        /\ f.calling = Top.calling /\ f.at = NextNode(Top.at)
    BY <1>3, <1>6 DEF Walks
  <2>3. Top.at # Freed
    BY <1>1, <2>1, NumsAre, OnePlace DEF Nodes, Freed
  <2>4. ~stray => Ahead(listeners, f)
    <3> SUFFICES ASSUME ~stray, NEW n \in f.due
                 PROVE  /\ n \in Nums(listeners) /\ n <= f.at
                        /\ Covers(Entries(listeners, n).type, f.event.type)
      BY <2>1, <2>2 DEF Ahead
    <3>1. /\ n \in Nums(listeners) /\ n <= Top.at
          /\ Covers(Entries(listeners, n).type, f.event.type)
      BY <1>2, <1>3, <2>2, <2>3 DEF Ahead
    <3>2. n # Top.at
      BY <2>1, <2>2, <3>1, NumsAre
    <3>3. n < Top.at
      BY <1>4, <1>5, <2>2, <3>1, <3>2
    <3> QED
      BY <1>1, <2>2, <3>1, <3>3, NextOlder
  <2> HIDE DEF f
  <2> QED
    BY <1>7, <2>1, <2>2, <2>4
<1>9. CASE WalkCalls
  <2> DEFINE f == [Top EXCEPT !.calling = TRUE, !.due = @ \ {Top.at}]
  <2>1. stack' = SetTop(f) /\ Top.at \in NodesNow
    BY <1>9 DEF WalkCalls
  <2>2. /\ f \in Walks /\ f.op = "walk" /\ f.due = Top.due \ {Top.at}
        /\ f.event = Top.event /\ f.at = Top.at
    BY <1>3 DEF Walks
  <2>3. Top.at # Freed
    BY <1>1, <2>1, NumsAre, OnePlace DEF Nodes, Freed
  <2>4. ~stray => Ahead(listeners, f)
    <3> SUFFICES ASSUME ~stray, NEW n \in f.due
                 PROVE  /\ n \in Nums(listeners) /\ n <= f.at /\ n < f.at
                        /\ Covers(Entries(listeners, n).type, f.event.type)
      BY DEF Ahead
    <3>1. /\ n \in Nums(listeners) /\ n <= Top.at /\ n # Top.at
          /\ Covers(Entries(listeners, n).type, f.event.type)
      BY <1>2, <1>3, <2>2, <2>3 DEF Ahead
    <3> QED
      BY <1>4, <1>5, <2>2, <3>1
  <2> HIDE DEF f
  <2> QED
    BY <1>7, <2>1, <2>2, <2>4
<1>10. CASE CallbackReturns
  <2> DEFINE f == [Top EXCEPT !.calling = FALSE, !.at = NextNode(Top.at)]
  <2>1. stack' = SetTop(f) /\ Top.calling /\ Top.at # Freed
    BY <1>10 DEF CallbackReturns
  <2>2. /\ f \in Walks /\ f.op = "walk" /\ f.due = Top.due
        /\ f.event = Top.event /\ f.at = NextNode(Top.at) /\ f.calling = FALSE
    BY <1>3, <1>6 DEF Walks
  <2>3. ~stray => Ahead(listeners, f)
    <3> SUFFICES ASSUME ~stray, NEW n \in f.due
                 PROVE  /\ n \in Nums(listeners) /\ n <= f.at
                        /\ Covers(Entries(listeners, n).type, f.event.type)
      BY <2>2 DEF Ahead
    <3>1. /\ n \in Nums(listeners) /\ n < Top.at
          /\ Covers(Entries(listeners, n).type, f.event.type)
      BY <1>2, <1>3, <2>1, <2>2 DEF Ahead
    <3> QED
      BY <1>1, <2>2, <3>1, NextOlder
  <2> HIDE DEF f
  <2> QED
    BY <1>7, <2>1, <2>2, <2>3
<1> QED
  BY <1>8, <1>9, <1>10

\* From a freed node somebody goes on somewhere.
LEMMA AstrayKeeps ==
    ASSUME IInv, GoAstray
    PROVE  IInv'
<1>1. /\ List(listeners) /\ stack \in Seq(Frame) /\ OthersInv
  BY DEF IInv, ListInv, StackInv
<1>2. /\ stack # <<>> /\ stray' = TRUE /\ OthersInv'
      /\ UNCHANGED <<listeners, refs, rules, registered, made>>
      /\ Top.op \in {"walk", "deregister"}
  BY <1>1 DEF GoAstray, Deregistering, Running, OthersInv
<1>3. PICK n \in NodesNow \cup {End} :
         stack' = SetTop(IF Top.op = "walk"
                         THEN [Top EXCEPT !.at = n, !.calling = FALSE]
                         ELSE [Top EXCEPT !.at = n])
  BY DEF GoAstray
<1>4. n \in Nodes \cup {End}
  BY <1>1, NumsAre, OnePlace
<1>5. CASE Top.op = "walk"
  <2> DEFINE f == [Top EXCEPT !.at = n, !.calling = FALSE]
  <2>1. Top \in Walks
    BY <1>1, <1>2, <1>5, TopIs, FrameKinds
  <2>2. f \in Walks /\ f.op = "walk" /\ f.event = Top.event /\ stack' = SetTop(f)
    BY <1>3, <1>4, <1>5, <2>1 DEF Walks
  <2> HIDE DEF f
  <2>3. /\ f \in Frame /\ (TellsMessage(f) <=> TellsMessage(Top))
        /\ \A c : Holds(f, c) <=> Holds(Top, c)
    BY <1>5, <2>2, KindsFrame DEF Holds, TellsMessage
  <2> QED
    BY <1>2, <1>5, <2>2, <2>3, TopKept
<1>6. CASE Top.op = "deregister"
  <2> DEFINE f == [Top EXCEPT !.at = n]
  <2>1. Top \in Deregisters
    BY <1>1, <1>2, <1>6, TopIs, FrameKinds
  <2>2. /\ f \in Deregisters /\ f.op = "deregister" /\ f.held = Top.held
        /\ f.callback = Top.callback /\ stack' = SetTop(f)
    BY <1>3, <1>4, <1>6, <2>1 DEF Deregisters
  <2> HIDE DEF f
  <2>3. /\ f \in Frame /\ (TellsMessage(f) <=> TellsMessage(Top))
        /\ \A c : Holds(f, c) <=> Holds(Top, c)
    BY <1>6, <2>2, KindsFrame DEF Holds, TellsMessage
  <2> QED
    BY <1>2, <1>6, <2>2, <2>3, TopKept
<1> QED
  BY <1>2, <1>5, <1>6

-----------------------------------------------------------------------------
(***************************************************************************)
(* The steps that change the list or the references.                       *)
(***************************************************************************)

\* What is counted is finite.
LEMMA Counted ==
    ASSUME NEW L, List(L), NEW s \in Seq(Frame)
    PROVE  \A x : /\ IsFiniteSet(OwnedBy(L, x)) /\ Cardinality(OwnedBy(L, x)) \in Nat
                  /\ IsFiniteSet(OfType(L, x)) /\ Cardinality(OfType(L, x)) \in Nat
                  /\ IsFiniteSet(HeldBy(s, x)) /\ Cardinality(HeldBy(s, x)) \in Nat
<1>1. IsFiniteSet(Nums(L))
  BY NumsFinite, EventListenersAssumption
<1>2. IsFiniteSet(DOMAIN s)
  <2>1. DOMAIN s = 1..Len(s) /\ Len(s) \in Nat
    OBVIOUS
  <2> QED
    BY <2>1, FS_Interval
<1>3. ASSUME NEW x
      PROVE  IsFiniteSet(OwnedBy(L, x)) /\ IsFiniteSet(OfType(L, x)) /\ IsFiniteSet(HeldBy(s, x))
  <2>1. /\ OwnedBy(L, x) \in SUBSET Nums(L) /\ OfType(L, x) \in SUBSET Nums(L)
        /\ HeldBy(s, x) \in SUBSET DOMAIN s
    BY DEF OwnedBy, OfType, HeldBy
  <2> QED
    BY <1>1, <1>2, <2>1, FS_Subset
<1> QED
  BY <1>3, FS_CardinalityType

LEMMA RegisterKeeps ==
    ASSUME IInv, NEW c \in Callbacks, NEW t \in Wanted, Register(c, t)
    PROVE  IInv'
<1> DEFINE L == listeners
           e == [node |-> made', callback |-> c, type |-> t]
           M == <<e>> \o L
<1>1. /\ List(L) /\ made \in 0..MaxListeners /\ \A n \in Nums(L) : n <= made
      /\ stack \in Seq(Frame) /\ Shape(stack) /\ (~stray => AllAhead(L, stack))
      /\ RefsInv /\ RulesInv /\ OthersInv
  BY DEF IInv, ListInv, StackInv
<1>2. /\ made < MaxListeners /\ made' = made + 1 /\ listeners' = M
      /\ refs' = [refs EXCEPT ![c] = @ + 1] /\ rules' = [rules EXCEPT ![t] = @ + 1]
      /\ registered' = [registered EXCEPT ![t] = @ + 1]
      /\ stack' = AfterCall(stack) /\ UNCHANGED <<deferred, dropped, sent, stray>>
  BY DEF Register, AddRule, RegisterEvent
<1>3. made' \in Nodes /\ e \in Entry
  BY <1>1, <1>2, EventListenersAssumption DEF Nodes, Entry
<1>4. \A n \in Nums(L) : n < e.node
  <2>1. Nums(L) \subseteq Nodes
    BY <1>1, OnePlace
  <2> QED
    BY <1>1, <1>2, <2>1 DEF Nodes
<1>5. e.node = made' /\ e.callback = c /\ e.type = t
  OBVIOUS
<1> HIDE DEF e
<1>6. /\ List(M) /\ Nums(M) = Nums(L) \cup {made'} /\ Entries(M, made') = e
      /\ \A n \in Nums(L) : Entries(M, n) = Entries(L, n)
  BY <1>1, <1>3, <1>4, <1>5, ListAdds
<1>7. made' \notin Nums(L)
  BY <1>1, <1>2, <1>4, <1>5
<1> HIDE DEF M
<1>8. /\ stack' \in Seq(Frame) /\ Shape(stack')
      /\ \A x : HeldBy(stack', x) = HeldBy(stack, x)
      /\ (~stray => AllAhead(L, stack'))
  <2>1. CASE Processing
    BY <1>1, <1>2, <2>1 DEF AfterCall
  <2>2. CASE ~Processing
    <3> DEFINE f == [op |-> "process", at |-> End]
    <3>1. stack' = Append(stack, f)
      BY <1>2, <2>2 DEF AfterCall
    <3>2. f \in Frame /\ f.op = "process"
      BY DEF Frame
    <3> HIDE DEF f
    <3>3. /\ ~TellsMessage(f) /\ \A x : ~Holds(f, x)
          /\ \A i \in DOMAIN stack : stack[i].op # "process"
      BY <2>2, <3>2 DEF Holds, Processing, TellsMessage
    <3>4. /\ stack' \in Seq(Frame) /\ Shape(stack')
          /\ \A x : HeldBy(stack', x) = HeldBy(stack, x)
          /\ \A i \in DOMAIN stack' :
                stack'[i] = f \/ \E j \in DOMAIN stack : stack'[i] = stack[j]
      BY <1>1, <3>1, <3>2, <3>3, Pushes
    <3>5. Ahead(L, f)
      BY <3>2 DEF Ahead
    <3> QED
      BY <1>1, <3>4, <3>5 DEF AllAhead
  <2> QED
    BY <2>1, <2>2
<1>9. ASSUME NEW f, Ahead(L, f)
      PROVE  Ahead(M, f)
  BY <1>6, <1>9 DEF Ahead
<1>10. ListInv' /\ StackInv' /\ OthersInv'
  <2>1. ListInv'
    <3>1. made' \in 0..MaxListeners
      BY <1>3 DEF Nodes
    <3>2. \A n \in Nums(M) : n <= made'
      <4>1. made' \in Int /\ \A n \in Nums(L) : n \in Int /\ n < made'
        BY <1>1, <1>3, <1>4, <1>5, OnePlace DEF Nodes
      <4> QED
        BY <1>6, <4>1
    <3> QED
      BY <1>2, <1>6, <3>1, <3>2 DEF ListInv
  <2>2. AllAhead(L, stack') => AllAhead(M, stack')
    BY <1>9 DEF AllAhead
  <2>3. StackInv'
    BY <1>2, <1>8, <2>2 DEF StackInv
  <2>4. OthersInv'
    BY <1>1, <1>2 DEF OthersInv
  <2> QED
    BY <2>1, <2>3, <2>4
<1>11. RefsInv'
  <2>1. ASSUME NEW x \in Callbacks
        PROVE  /\ refs'[x] \in Nat
               /\ refs'[x] = Cardinality(OwnedBy(M, x)) + Cardinality(HeldBy(stack', x))
    <3>1. /\ refs[x] = Cardinality(OwnedBy(L, x)) + Cardinality(HeldBy(stack, x))
          /\ refs[x] \in Nat
      BY <1>1 DEF RefsInv
    <3>2. IsFiniteSet(OwnedBy(L, x)) /\ Cardinality(OwnedBy(L, x)) \in Nat
          /\ Cardinality(HeldBy(stack, x)) \in Nat
      BY <1>1, Counted
    <3>3. CASE x = c
      <4>1. OwnedBy(M, x) = OwnedBy(L, x) \cup {made'}
        BY <1>5, <1>6, <3>3 DEF OwnedBy
      <4>2. made' \notin OwnedBy(L, x)
        BY <1>7 DEF OwnedBy
      <4>3. Cardinality(OwnedBy(M, x)) = Cardinality(OwnedBy(L, x)) + 1
        BY <3>2, <4>1, <4>2, FS_AddElement
      <4>4. refs'[x] = refs[x] + 1
        BY <1>1, <1>2, <3>3 DEF RefsInv
      <4> QED
        BY <1>8, <3>1, <3>2, <4>3, <4>4
    <3>4. CASE x # c
      <4>1. OwnedBy(M, x) = OwnedBy(L, x)
        BY <1>5, <1>6, <3>4 DEF OwnedBy
      <4>2. refs'[x] = refs[x]
        BY <1>1, <1>2, <3>4 DEF RefsInv
      <4> QED
        BY <1>8, <3>1, <4>1, <4>2
    <3> QED
      BY <3>3, <3>4
  <2>2. refs' \in [Callbacks -> Nat]
    BY <1>1, <1>2 DEF RefsInv
  <2> QED
    BY <1>2, <2>1, <2>2 DEF RefsInv
<1>12. RulesInv'
  <2>1. ASSUME NEW x \in Wanted
        PROVE  rules'[x] >= Cardinality(OfType(M, x))
    <3>1. /\ rules[x] >= Cardinality(OfType(L, x)) /\ rules[x] \in Nat
      BY <1>1 DEF RulesInv, Types
    <3>2. IsFiniteSet(OfType(L, x)) /\ Cardinality(OfType(L, x)) \in Nat
      BY <1>1, Counted
    <3>3. CASE x = t
      <4>1. OfType(M, x) = OfType(L, x) \cup {made'}
        BY <1>5, <1>6, <3>3 DEF OfType
      <4>2. made' \notin OfType(L, x)
        BY <1>7 DEF OfType
      <4>3. Cardinality(OfType(M, x)) = Cardinality(OfType(L, x)) + 1
        BY <3>2, <4>1, <4>2, FS_AddElement
      <4>4. rules'[x] = rules[x] + 1
        BY <1>1, <1>2, <3>3 DEF RulesInv, Types
      <4> QED
        BY <3>1, <3>2, <4>3, <4>4
    <3>4. CASE x # t
      <4>1. OfType(M, x) = OfType(L, x)
        BY <1>5, <1>6, <3>4 DEF OfType
      <4>2. rules'[x] = rules[x]
        BY <1>1, <1>2, <3>4 DEF RulesInv, Types
      <4> QED
        BY <3>1, <4>1, <4>2
    <3> QED
      BY <3>3, <3>4
  <2>2. rules' \in [Types -> Nat] /\ registered' \in [Types -> Nat]
    BY <1>1, <1>2 DEF RulesInv, Types
  <2> QED
    BY <1>2, <2>1, <2>2 DEF RulesInv
<1> QED
  BY <1>10, <1>11, <1>12 DEF IInv

\* A node that is freed is no longer due, and whoever is at it has lost his way.
LEMMA FreeingKeeps ==
    ASSUME NEW s \in Seq(Frame), Shape(s), NEW n \in Nodes,
           NEW L, NEW M, Nums(M) = Nums(L) \ {n},
           \A m \in Nums(M) : Entries(M, m) = Entries(L, m)
    PROVE  /\ FreeNode(n, s) \in Seq(Frame) /\ Len(FreeNode(n, s)) = Len(s)
           /\ Shape(FreeNode(n, s))
           /\ \A i \in DOMAIN s : FreeNode(n, s)[i].op = s[i].op
           /\ \A x : HeldBy(FreeNode(n, s), x) = HeldBy(s, x)
           /\ AllAhead(L, s) => AllAhead(M, FreeNode(n, s))
<1> DEFINE t == FreeNode(n, s)
           lost(f) == [f EXCEPT !.at = IF @ = n THEN Freed ELSE @]
           freed(f) == IF lost(f).op = "walk" THEN [lost(f) EXCEPT !.due = @ \ {n}]
                                              ELSE lost(f)
<1>1. DOMAIN s = 1..Len(s) /\ Len(s) \in Nat /\ \A i \in DOMAIN s : s[i] \in Frame
  OBVIOUS
<1>2. t = [i \in DOMAIN s |-> freed(s[i])]
  BY DEF FreeNode
<1>3. ASSUME NEW f \in Frame
      PROVE  /\ freed(f) \in Frame /\ freed(f).op = f.op
             /\ TellsMessage(freed(f)) <=> TellsMessage(f)
             /\ \A x : Holds(freed(f), x) <=> Holds(f, x)
             /\ Ahead(L, f) => Ahead(M, freed(f))
  <2>1. CASE f.op = "process"
    <3>1. f \in [op : {"process"}, at : {End}]
      BY <2>1 DEF Frame
    <3>2. freed(f) = f
      BY <3>1 DEF End, Nodes
    <3> HIDE DEF freed
    <3> QED
      BY <2>1, <3>2 DEF Ahead
  <2>2. CASE f.op = "deregister"
    <3>1. f \in Deregisters
      BY <2>2, FrameKinds
    <3>2. /\ freed(f) \in Deregisters /\ freed(f).op = "deregister"
          /\ freed(f).held = f.held /\ freed(f).callback = f.callback
      BY <3>1 DEF Deregisters
    <3> HIDE DEF freed
    <3> QED
      BY <2>2, <3>2, KindsFrame DEF Ahead, Holds, TellsMessage
  <2>3. CASE f.op = "walk"
    <3>1. f \in Walks
      BY <2>3, FrameKinds
    <3>2. /\ freed(f) \in Walks /\ freed(f).op = "walk" /\ freed(f).due = f.due \ {n}
          /\ freed(f).event = f.event /\ freed(f).calling = f.calling
          /\ freed(f).at # Freed => freed(f).at = f.at
      BY <3>1 DEF Walks
    <3> HIDE DEF freed
    <3>3. Ahead(L, f) => Ahead(M, freed(f))
      BY <2>3, <3>2 DEF Ahead
    <3> QED
      BY <2>3, <3>2, <3>3, KindsFrame DEF Holds, TellsMessage
  <2> QED
    BY <2>1, <2>2, <2>3, FrameKinds
<1> HIDE DEF freed
<1>4. t \in Seq(Frame) /\ Len(t) = Len(s) /\ DOMAIN t = DOMAIN s
  BY <1>1, <1>2, <1>3
<1>5. /\ \A i \in DOMAIN s : t[i].op = s[i].op
      /\ \A i \in DOMAIN s : TellsMessage(t[i]) <=> TellsMessage(s[i])
      /\ \A i \in DOMAIN s : \A x : Holds(t[i], x) <=> Holds(s[i], x)
      /\ \A i \in DOMAIN s : Ahead(L, s[i]) => Ahead(M, t[i])
  BY <1>1, <1>2, <1>3
<1> HIDE DEF t
<1>6. Shape(t)
  BY <1>4, <1>5, Changes
<1>7. \A x : HeldBy(t, x) = HeldBy(s, x)
  BY <1>4, <1>5 DEF HeldBy
<1>8. AllAhead(L, s) => AllAhead(M, t)
  BY <1>4, <1>5 DEF AllAhead
<1> QED
  BY <1>4, <1>5, <1>6, <1>7, <1>8 DEF t

\* Messages are processed with the answer of a call, unless they are already.
LEMMA AfterCallKeeps ==
    ASSUME NEW s \in Seq(Frame), Shape(s),
           Processing <=> \E i \in DOMAIN s : s[i].op = "process"
    PROVE  /\ AfterCall(s) \in Seq(Frame) /\ Shape(AfterCall(s))
           /\ \A x : HeldBy(AfterCall(s), x) = HeldBy(s, x)
           /\ \A L : AllAhead(L, s) => AllAhead(L, AfterCall(s))
<1>1. CASE Processing
  BY <1>1 DEF AfterCall
<1>2. CASE ~Processing
  <2> DEFINE f == [op |-> "process", at |-> End]
             t == AfterCall(s)
  <2>1. t = Append(s, f)
    BY <1>2 DEF AfterCall
  <2>2. f \in Frame /\ f.op = "process"
    BY DEF Frame
  <2> HIDE DEF f, t
  <2>3. ~TellsMessage(f) /\ \A x : ~Holds(f, x)
    BY <2>2 DEF Holds, TellsMessage
  <2>4. /\ t \in Seq(Frame) /\ Shape(t) /\ \A x : HeldBy(t, x) = HeldBy(s, x)
        /\ \A i \in DOMAIN t : t[i] = f \/ \E j \in DOMAIN s : t[i] = s[j]
    BY <1>2, <2>1, <2>2, <2>3, Pushes
  <2>5. ASSUME NEW L, AllAhead(L, s) PROVE AllAhead(L, t)
    <3>1. Ahead(L, f)
      BY <2>2 DEF Ahead
    <3> QED
      BY <2>4, <2>5, <3>1 DEF AllAhead
  <2> QED
    BY <2>4, <2>5 DEF t
<1> QED
  BY <1>1, <1>2

\* The entry that is taken out of the list is held until it is freed.
LEMMA TakeKeeps ==
    ASSUME IInv, DeregisterTakes
    PROVE  IInv'
<1> DEFINE L == listeners
           n == Top.at
           d == Top.callback
           M == RemoveAt(L, CHOOSE i \in DOMAIN L : L[i].node = n)
           h == [Top EXCEPT !.at = NextNode(n), !.held = TRUE]
           s == SetTop(h)
           t == FreeNode(n, s)
<1>1. /\ List(L) /\ made \in 0..MaxListeners /\ \A m \in Nums(L) : m <= made
      /\ stack \in Seq(Frame) /\ Shape(stack) /\ (~stray => AllAhead(L, stack))
      /\ RefsInv /\ RulesInv /\ OthersInv
  BY DEF IInv, ListInv, StackInv
<1>2. /\ stack # <<>> /\ Top.op = "deregister" /\ ~Top.held /\ n \in Nums(L)
      /\ Entries(L, n).callback = d /\ Covers(Top.type, Entries(L, n).type)
  BY NumsAre DEF DeregisterTakes, Deregistering, Running, ToBeDropped
<1>3. /\ listeners' = M /\ stack' = AfterCall(t)
      /\ rules' = [rules EXCEPT ![Top.type] = IF @ = 0 THEN 0 ELSE @ - 1]
      /\ registered' = [u \in Types |-> IF Covers(Top.type, u) THEN 0 ELSE registered[u]]
      /\ UNCHANGED <<refs, deferred, made, dropped, sent, stray>>
  BY DEF DeregisterTakes, RemoveRule, DeregisterEvent, PlaceOf
<1>4. /\ List(M) /\ Nums(M) = Nums(L) \ {n}
      /\ \A m \in Nums(M) : Entries(M, m) = Entries(L, m)
  BY <1>1, <1>2, ListRemoves
<1> HIDE DEF M
<1>5. Top \in Deregisters /\ Top \in Frame /\ Top = stack[Len(stack)] /\ Len(stack) \in DOMAIN stack
  BY <1>1, <1>2, TopIs, FrameKinds
<1>6. n \in Nodes /\ NextNode(n) \in Nodes \cup {End}
  BY <1>1, <1>2, NextOlder, OnePlace
<1>7. h \in Frame /\ h.op = "deregister" /\ h.held = TRUE /\ h.callback = d
  <2>1. h \in Deregisters /\ h.op = "deregister" /\ h.held = TRUE /\ h.callback = d
    BY <1>5, <1>6 DEF Deregisters
  <2> QED
    BY <2>1, KindsFrame
<1> HIDE DEF h
<1>8. /\ s \in Seq(Frame) /\ Len(s) = Len(stack) /\ DOMAIN s = DOMAIN stack /\ Shape(s)
      /\ s[Len(stack)] = h
      /\ \A i \in DOMAIN stack : i # Len(stack) => s[i] = stack[i]
  <2> DEFINE u == [stack EXCEPT ![Len(stack)] = h]
  <2>1. s = u
    BY <1>1, <1>2, TopIs
  <2>2. /\ h.op = stack[Len(stack)].op
        /\ TellsMessage(h) <=> TellsMessage(stack[Len(stack)])
    BY <1>2, <1>5, <1>7 DEF TellsMessage
  <2>3. /\ u \in Seq(Frame) /\ Len(u) = Len(stack) /\ DOMAIN u = DOMAIN stack
        /\ Shape(u) /\ u[Len(stack)] = h
        /\ \A i \in DOMAIN stack : i # Len(stack) => u[i] = stack[i]
    BY <1>1, <1>2, <1>7, <2>2, TopChanges
  <2> HIDE DEF u, s
  <2> QED
    BY <2>1, <2>3
<1> HIDE DEF s
<1>9. ~stray => AllAhead(L, s)
  <2>1. Ahead(L, h)
    BY <1>7 DEF Ahead
  <2> QED
    BY <1>1, <1>8, <2>1 DEF AllAhead
<1>10. /\ t \in Seq(Frame) /\ Len(t) = Len(s) /\ Shape(t)
       /\ \A i \in DOMAIN s : t[i].op = s[i].op
       /\ \A x : HeldBy(t, x) = HeldBy(s, x)
       /\ AllAhead(L, s) => AllAhead(M, t)
  BY <1>4, <1>6, <1>8, FreeingKeeps
<1> HIDE DEF t
<1>11. /\ stack' \in Seq(Frame) /\ Shape(stack')
       /\ \A x : HeldBy(stack', x) = HeldBy(s, x)
       /\ ~stray => AllAhead(M, stack')
  <2>1. DOMAIN t = DOMAIN s
    BY <1>8, <1>10
  <2>2. \A i \in DOMAIN s : t[i].op = stack[i].op
    BY <1>2, <1>5, <1>7, <1>8, <1>10
  <2>3. Processing <=> \E i \in DOMAIN t : t[i].op = "process"
    BY <1>8, <2>1, <2>2 DEF Processing
  <2>4. /\ AfterCall(t) \in Seq(Frame) /\ Shape(AfterCall(t))
        /\ \A x : HeldBy(AfterCall(t), x) = HeldBy(t, x)
        /\ \A K : AllAhead(K, t) => AllAhead(K, AfterCall(t))
    BY <1>10, <2>3, AfterCallKeeps
  <2> QED
    BY <1>3, <1>9, <1>10, <2>4
<1>12. ListInv' /\ StackInv' /\ OthersInv'
  <2>1. ListInv'
    BY <1>1, <1>3, <1>4 DEF ListInv
  <2>2. StackInv'
    BY <1>3, <1>11 DEF StackInv
  <2>3. OthersInv'
    BY <1>1, <1>3 DEF OthersInv
  <2> QED
    BY <2>1, <2>2, <2>3
<1>13. RefsInv'
  <2>1. ASSUME NEW x \in Callbacks
        PROVE  refs[x] = Cardinality(OwnedBy(M, x)) + Cardinality(HeldBy(stack', x))
    <3>1. refs[x] = Cardinality(OwnedBy(L, x)) + Cardinality(HeldBy(stack, x))
      BY <1>1 DEF RefsInv
    <3>2. /\ IsFiniteSet(OwnedBy(L, x)) /\ Cardinality(OwnedBy(L, x)) \in Nat
          /\ IsFiniteSet(HeldBy(stack, x)) /\ Cardinality(HeldBy(stack, x)) \in Nat
      BY <1>1, Counted
    <3>3. HeldBy(stack', x) = HeldBy(s, x)
      BY <1>11
    <3>4. CASE x = d
      <4>1. OwnedBy(M, x) = OwnedBy(L, x) \ {n} /\ n \in OwnedBy(L, x)
        BY <1>2, <1>4, <3>4 DEF OwnedBy
      <4>2. Cardinality(OwnedBy(M, x)) = Cardinality(OwnedBy(L, x)) - 1
        BY <3>2, <4>1, FS_RemoveElement
      <4>3. HeldBy(s, x) = HeldBy(stack, x) \cup {Len(stack)} /\ Len(stack) \notin HeldBy(stack, x)
        BY <1>2, <1>5, <1>7, <1>8, <3>4 DEF HeldBy, Holds
      <4>4. Cardinality(HeldBy(s, x)) = Cardinality(HeldBy(stack, x)) + 1
        BY <3>2, <4>3, FS_AddElement
      <4> QED
        BY <3>1, <3>2, <3>3, <4>2, <4>4
    <3>5. CASE x # d
      <4>1. OwnedBy(M, x) = OwnedBy(L, x)
        BY <1>2, <1>4, <3>5 DEF OwnedBy
      <4>2. HeldBy(s, x) = HeldBy(stack, x)
        BY <1>2, <1>5, <1>7, <1>8, <3>5 DEF HeldBy, Holds
      <4> QED
        BY <3>1, <3>3, <4>1, <4>2
    <3> QED
      BY <3>4, <3>5
  <2>2. refs \in [Callbacks -> Nat]
    BY <1>1 DEF RefsInv
  <2> QED
    BY <1>3, <2>1, <2>2 DEF RefsInv
<1>14. RulesInv'
  <2>1. rules' \in [Types -> Nat] /\ registered' \in [Types -> Nat]
    <3>1. rules \in [Types -> Nat] /\ registered \in [Types -> Nat]
      BY <1>1 DEF RulesInv
    <3>2. ASSUME NEW u \in Types
          PROVE  rules'[u] \in Nat /\ registered'[u] \in Nat
      <4>1. rules[u] \in Nat /\ registered[u] \in Nat
        BY <3>1
      <4>2. rules'[u] = rules[u] \/ rules'[u] = IF rules[u] = 0 THEN 0 ELSE rules[u] - 1
        BY <1>3, <3>1
      <4> QED
        BY <1>3, <4>1, <4>2
    <3>3. rules' = [u \in Types |-> rules'[u]] /\ registered' = [u \in Types |-> registered'[u]]
      BY <1>3, <3>1
    <3> QED
      BY <3>2, <3>3
  <2>2. ASSUME NEW x \in Wanted
        PROVE  rules'[x] >= Cardinality(OfType(M, x))
    <3>1. /\ rules[x] >= Cardinality(OfType(L, x)) /\ rules \in [Types -> Nat]
          /\ rules[x] \in Nat /\ x \in Types
      BY <1>1 DEF RulesInv, Types
    <3>2. IsFiniteSet(OfType(L, x)) /\ Cardinality(OfType(L, x)) \in Nat
      BY <1>1, Counted
    <3>3. CASE x = Top.type
      <4>1. Entries(L, n).type = x
        <5>1. Entries(L, n) \in Entry
          <6>1. PICK i \in DOMAIN L : n = L[i].node
            BY <1>2 DEF Nums
          <6>2. Entries(L, n) = L[i] /\ L[i] \in Entry
            BY <1>1, <6>1, OnePlace DEF List
          <6> QED
            BY <6>2
        <5>2. Entries(L, n).type \in Wanted
          BY <5>1 DEF Entry
        <5> QED
          BY <1>2, <3>3, <5>2, EventListenersAssumption
      <4>2. OfType(M, x) = OfType(L, x) \ {n} /\ n \in OfType(L, x)
        BY <1>2, <1>4, <4>1 DEF OfType
      <4>3. Cardinality(OfType(M, x)) = Cardinality(OfType(L, x)) - 1
        BY <3>2, <4>2, FS_RemoveElement
      <4>4. rules'[x] = IF rules[x] = 0 THEN 0 ELSE rules[x] - 1
        BY <1>3, <3>1, <3>3
      <4>5. Cardinality(OfType(L, x)) # 0
        BY <3>2, <4>2, FS_EmptySet
      <4> QED
        BY <3>1, <3>2, <4>3, <4>4, <4>5
    <3>4. CASE x # Top.type
      <4>1. rules'[x] = rules[x]
        BY <1>3, <3>1, <3>4
      <4>2. OfType(M, x) \in SUBSET OfType(L, x)
        BY <1>4 DEF OfType
      <4>3. Cardinality(OfType(M, x)) <= Cardinality(OfType(L, x)) /\ Cardinality(OfType(M, x)) \in Nat
        BY <3>2, <4>2, FS_Subset, FS_CardinalityType
      <4> QED
        BY <3>1, <3>2, <4>1, <4>3
    <3> QED
      BY <3>3, <3>4
  <2> QED
    BY <1>3, <2>1, <2>2 DEF RulesInv
<1> QED
  BY <1>12, <1>13, <1>14 DEF IInv

\* listener_entry_free gives its reference back.
LEMMA FreeKeeps ==
    ASSUME IInv, DeregisterFrees
    PROVE  IInv'
<1> DEFINE d == Top.callback
           f == [Top EXCEPT !.held = FALSE]
<1>1. /\ List(listeners) /\ stack \in Seq(Frame) /\ Shape(stack)
      /\ (~stray => AllAhead(listeners, stack)) /\ RefsInv /\ OthersInv
  BY DEF IInv, ListInv, StackInv
<1>2. /\ stack # <<>> /\ Top.op = "deregister" /\ Top.held /\ stack' = SetTop(f)
      /\ refs' = [refs EXCEPT ![d] = @ - 1]
      /\ UNCHANGED <<listeners, deferred, rules, registered, made, dropped, sent, stray>>
  BY DEF DeregisterFrees, Running
<1>3. Top \in Deregisters /\ Top = stack[Len(stack)] /\ Len(stack) \in DOMAIN stack
  BY <1>1, <1>2, TopIs, FrameKinds
<1>4. f \in Frame /\ f.op = "deregister" /\ ~f.held /\ d \in Callbacks
  <2>1. f \in Deregisters /\ f.op = "deregister" /\ ~f.held /\ d \in Callbacks
    BY <1>3 DEF Deregisters
  <2> QED
    BY <2>1, KindsFrame
<1> HIDE DEF f
<1>5. /\ stack' \in Seq(Frame) /\ DOMAIN stack' = DOMAIN stack /\ Shape(stack')
      /\ stack'[Len(stack)] = f
      /\ \A i \in DOMAIN stack : i # Len(stack) => stack'[i] = stack[i]
  <2> DEFINE t == [stack EXCEPT ![Len(stack)] = f]
  <2>1. /\ f.op = stack[Len(stack)].op
        /\ TellsMessage(f) <=> TellsMessage(stack[Len(stack)])
    BY <1>2, <1>3, <1>4 DEF TellsMessage
  <2>2. /\ t \in Seq(Frame) /\ DOMAIN t = DOMAIN stack /\ Shape(t)
        /\ t[Len(stack)] = f
        /\ \A i \in DOMAIN stack : i # Len(stack) => t[i] = stack[i]
    BY <1>1, <1>2, <1>4, <2>1, TopChanges
  <2>3. stack' = t
    BY <1>1, <1>2, TopIs
  <2> HIDE DEF t
  <2> QED
    BY <2>2, <2>3
<1>6. StackInv'
  <2>1. Ahead(listeners, f)
    BY <1>4 DEF Ahead
  <2>2. ~stray => AllAhead(listeners, stack')
    BY <1>1, <1>5, <2>1 DEF AllAhead
  <2> QED
    BY <1>2, <1>5, <2>2 DEF StackInv
<1>7. ASSUME NEW x \in Callbacks
      PROVE  /\ refs'[x] \in Nat
             /\ refs'[x] = Cardinality(OwnedBy(listeners, x)) + Cardinality(HeldBy(stack', x))
  <2>1. /\ refs[x] = Cardinality(OwnedBy(listeners, x)) + Cardinality(HeldBy(stack, x))
        /\ refs \in [Callbacks -> Nat]
    BY <1>1 DEF RefsInv
  <2>2. /\ IsFiniteSet(HeldBy(stack, x)) /\ Cardinality(HeldBy(stack, x)) \in Nat
        /\ Cardinality(OwnedBy(listeners, x)) \in Nat
    BY <1>1, Counted
  <2>3. CASE x = d
    <3>1. HeldBy(stack', x) = HeldBy(stack, x) \ {Len(stack)} /\ Len(stack) \in HeldBy(stack, x)
      BY <1>2, <1>3, <1>4, <1>5, <2>3 DEF HeldBy, Holds
    <3>2. Cardinality(HeldBy(stack', x)) = Cardinality(HeldBy(stack, x)) - 1
      BY <2>2, <3>1, FS_RemoveElement
    <3>3. Cardinality(HeldBy(stack, x)) # 0
      BY <2>2, <3>1, FS_EmptySet
    <3>4. refs'[x] = refs[x] - 1
      BY <1>2, <2>1, <2>3
    <3> QED
      BY <2>1, <2>2, <3>2, <3>3, <3>4
  <2>4. CASE x # d
    <3>1. HeldBy(stack', x) = HeldBy(stack, x)
      BY <1>2, <1>3, <1>4, <1>5, <2>4 DEF HeldBy, Holds
    <3>2. refs'[x] = refs[x]
      BY <1>2, <2>1, <2>4
    <3> QED
      BY <2>1, <3>1, <3>2
  <2> QED
    BY <2>3, <2>4
<1>8. RefsInv'
  <2>1. refs' \in [Callbacks -> Nat]
    <3>1. refs' = [x \in Callbacks |-> refs'[x]]
      BY <1>1, <1>2 DEF RefsInv
    <3> QED
      BY <1>7, <3>1
  <2> QED
    BY <1>2, <1>7, <2>1 DEF RefsInv
<1>9. ListInv' /\ RulesInv' /\ OthersInv'
  BY <1>1, <1>2 DEF IInv, ListInv, RulesInv, OthersInv
<1> QED
  BY <1>6, <1>8, <1>9 DEF IInv

-----------------------------------------------------------------------------
(***************************************************************************)
(* The theorems.                                                           *)
(***************************************************************************)
LEMMA Initially == Init => IInv
<1> SUFFICES ASSUME Init PROVE IInv
  OBVIOUS
<1>1. ListInv
  BY EventListenersAssumption DEF Init, ListInv, List, Descends, Nums
<1>2. StackInv
  BY DEF Init, StackInv, Shape, AllAhead
<1>3. \A x : /\ OwnedBy(listeners, x) = {} /\ OfType(listeners, x) = {}
             /\ HeldBy(stack, x) = {}
  BY DEF Init, OwnedBy, OfType, HeldBy, Nums
<1>4. RefsInv
  <2>1. \A x : /\ Cardinality(OwnedBy(listeners, x)) = 0
               /\ Cardinality(HeldBy(stack, x)) = 0
    BY <1>3, FS_EmptySet
  <2> QED
    BY <2>1 DEF Init, RefsInv
<1>5. RulesInv
  BY <1>3, FS_EmptySet DEF Init, RulesInv, Types
<1>6. OthersInv
  <2>1. deferred \in Seq([number : 1..MaxEvents, type : Events])
    BY DEF Init
  <2>2. 0 \in 0..MaxDeregs /\ 0 \in 0..MaxEvents
    BY EventListenersAssumption
  <2> QED
    BY <2>1, <2>2 DEF Init, OthersInv
<1> QED
  BY <1>1, <1>2, <1>4, <1>5, <1>6 DEF IInv

LEMMA StepKeepsIInv ==
    ASSUME IInv, [Next]_vars
    PROVE  IInv'
<1>1. CASE LibraryNext \/ DisposeTells \/ CallbackReturns
  BY <1>1, DeregistersKeep, TakeKeeps, FreeKeeps, ProcessingKeeps, WalksKeep, AstrayKeeps
     DEF LibraryNext
<1>2. CASE \E c \in Callbacks :
              \/ \E t \in Wanted : Register(c, t)
              \/ \E t \in Types : Deregister(c, t)
  BY <1>2, RegisterKeeps, DeregistersKeep
<1>3. CASE \E e \in Events : EventArrives(e)
  BY <1>3, ProcessingKeeps
<1>4. CASE UNCHANGED vars
  <2>1. UNCHANGED <<listeners, refs, stack, deferred, rules, registered, made, dropped,
                    sent, stray>>
    BY <1>4 DEF vars
  <2>2. ListInv' /\ RefsInv' /\ RulesInv' /\ OthersInv'
    BY <2>1 DEF IInv, ListInv, RefsInv, RulesInv, OthersInv
  <2>3. StackInv'
    BY <2>1 DEF IInv, StackInv, AllAhead
  <2> QED
    BY <2>2, <2>3 DEF IInv
<1> QED
  BY <1>1, <1>2, <1>3, <1>4 DEF Next

THEOREM EventListenersInvariant == Spec => []IInv
BY Initially, StepKeepsIInv, PTL DEF Spec

\* However callbacks register and deregister while the list is walked, the
\* references of a callback are those of its entries, those taken out and not yet
\* freed included, and no event of an application is begun before the last is
\* done, whatever accessibles go while callbacks run.
THEOREM ListenersConsistent == Spec => []Consistent
<1>1. IInv => Consistent
  <2> SUFFICES ASSUME IInv PROVE Consistent
    OBVIOUS
  <2>1. TypeOK
    BY DEF IInv, ListInv, List, Entry, StackInv, RefsInv, RulesInv, OthersInv, TypeOK
  <2>2. OneAtATime
    <3>1. Shape(stack) /\ DOMAIN stack = 1..Len(stack) /\ Len(stack) \in Nat
      BY DEF IInv, StackInv
    <3> SUFFICES ASSUME NEW i \in DOMAIN stack, NEW j \in DOMAIN stack,
                        TellsMessage(stack[i]), TellsMessage(stack[j])
                 PROVE  i = j
      BY DEF OneAtATime, TellsMessage
    <3>2. /\ i > 1 /\ j > 1 /\ i - 1 \in DOMAIN stack /\ j - 1 \in DOMAIN stack
          /\ stack[i - 1].op = "process" /\ stack[j - 1].op = "process"
      BY <3>1 DEF Shape
    <3>3. i - 1 = j - 1
      BY <3>1, <3>2 DEF Shape
    <3> QED
      BY <3>1, <3>3
  <2>3. ReferencesHeld
    <3>1. ASSUME NEW c \in Callbacks
          PROVE  /\ {n \in NodesNow : Node(n).callback = c} = OwnedBy(listeners, c)
                 /\ {i \in DOMAIN stack : stack[i].op = "deregister" /\ stack[i].held
                                             /\ stack[i].callback = c} = HeldBy(stack, c)
      BY NumsAre DEF OwnedBy, HeldBy, Holds
    <3> QED
      BY <3>1 DEF IInv, RefsInv, ReferencesHeld
  <2> QED
    BY <2>1, <2>2, <2>3 DEF Consistent
<1> QED
  BY <1>1, EventListenersInvariant, PTL

\* _atspi_send_event leaves nobody out who was in the list when it began and still
\* is, unless a callback has removed the listener it is called for.
THEOREM NobodyLeftOut == Spec => []AllTold
<1>1. IInv => AllTold
  <2> SUFFICES ASSUME IInv, ~stray, NEW i \in DOMAIN stack,
                      stack[i].op = "walk", stack[i].at = End
               PROVE  stack[i].due = {}
    BY DEF AllTold
  <2>1. \A n \in stack[i].due : n \in Nums(listeners) /\ n <= End
    BY DEF IInv, StackInv, AllAhead, Ahead, End, Freed
  <2>2. \A n \in Nums(listeners) : n \in Nodes
    BY OnePlace DEF IInv, ListInv
  <2> QED
    BY <2>1, <2>2 DEF Nodes, End
<1> QED
  BY <1>1, EventListenersInvariant, PTL

\* Deregistering with a broader type removes the rule of that type, never one that
\* a listener of a narrower type still needs.
THEOREM RulesSuffice == Spec => []NobodyDeaf
<1>1. IInv => NobodyDeaf
  <2> SUFFICES ASSUME IInv, NEW t \in Wanted
               PROVE  rules[t] >= Cardinality({n \in NodesNow : Node(n).type = t})
    BY DEF NobodyDeaf
  <2>1. {n \in NodesNow : Node(n).type = t} = OfType(listeners, t)
    BY NumsAre DEF OfType
  <2> QED
    BY <2>1 DEF IInv, RulesInv
<1> QED
  BY <1>1, EventListenersInvariant, PTL
===============================================================================
