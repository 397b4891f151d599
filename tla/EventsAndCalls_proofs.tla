------------------------ MODULE EventsAndCalls_proofs -------------------------
(***************************************************************************)
(* Events on their way through registryd (KeyEvents): the frozen keyboard, *)
(* the listeners that are called and what becomes of every press, for any  *)
(* listeners, keys and number of presses.  And what a client makes of them *)
(* and of its own calls (ClientCalls): the callbacks of a listener while   *)
(* they change, registrations whose calls time out, and what its functions *)
(* return, for any listeners, callbacks and number of calls.               *)
(***************************************************************************)
EXTENDS KeyEvents, ClientCalls, FiniteSetTheorems, SequenceTheorems, TLAPS

\* The press that froze the keyboard is accounted for.  What is typed with it is
\* what its preservation rests on: presses have numbers from 1 on, so that the
\* number of a release is none of theirs.
FInv ==
    /\ presses \in Nat
    /\ frozen \in Nat
    /\ unread \in Seq(Events)
    /\ task = NoTask \/ (task.at # "none" /\ "at" \in DOMAIN task)
    /\ FrozenAccounted

\* One more event adds its number.
LEMMA NumbersAppend ==
    ASSUME NEW list \in Seq(Events), NEW event \in Events
    PROVE  /\ Append(list, event) \in Seq(Events)
           /\ NumbersIn(list) \subseteq NumbersIn(Append(list, event))
           /\ event.number # 0 => event.number \in NumbersIn(Append(list, event))
<1> DEFINE more == Append(list, event)
<1>1. /\ more \in Seq(Events)
      /\ Len(more) = Len(list) + 1
      /\ more[Len(list) + 1] = event
      /\ \A i \in 1..Len(list) : more[i] = list[i]
  OBVIOUS
<1>2. DOMAIN list = 1..Len(list) /\ DOMAIN more = 1..(Len(list) + 1)
  BY <1>1
<1>3. Len(list) \in Nat
  OBVIOUS
<1>4. NumbersIn(list) \subseteq NumbersIn(more)
  <2>1. ASSUME NEW n \in NumbersIn(list) PROVE n \in NumbersIn(more)
    <3>1. PICK i \in DOMAIN list : n = list[i].number /\ n # 0
      BY <2>1 DEF NumbersIn
    <3>2. i \in DOMAIN more /\ more[i] = list[i]
      BY <1>1, <1>2, <1>3, <3>1
    <3> QED
      BY <3>1, <3>2 DEF NumbersIn
  <2> QED
    BY <2>1
<1>5. event.number # 0 => event.number \in NumbersIn(more)
  <2>1. Len(list) + 1 \in DOMAIN more
    BY <1>2, <1>3
  <2> QED
    BY <1>1, <2>1 DEF NumbersIn
<1> QED
  BY <1>1, <1>4, <1>5

\* What the user does freezes the keyboard together with sending the press.
LEMMA KeyboardKeepsFInv ==
    ASSUME FInv, NEW k \in Keys, Press(k) \/ Release(k)
    PROVE  FInv'
<1>1. frozen = 0 /\ UNCHANGED task
  BY DEF Press, Release, taskVars
<1>2. CASE Press(k)
  <2>1. presses' = presses + 1 /\ presses' \in Nat /\ presses' # 0
    BY <1>2 DEF Press, FInv
  <2>2. CASE grab # {} \/ k \in Grabbed
    <3> DEFINE event == [key |-> k, type |-> "press", number |-> presses']
    <3>1. event \in Events
      BY <2>1 DEF Events, EventTypes
    <3>2. unread' = Append(unread, event)
      BY <1>2, <2>2 DEF Press, Send
    <3>3. frozen' = presses' \/ frozen' = frozen
      BY <1>2 DEF Press
    <3>4. unread' \in Seq(Events) /\ presses' \in NumbersIn(unread')
      BY <2>1, <3>1, <3>2, NumbersAppend DEF FInv
    <3> QED
      BY <1>1, <2>1, <3>3, <3>4 DEF FInv, FrozenAccounted, NumbersIn
  <2>3. CASE grab = {} /\ k \notin Grabbed
    BY <1>1, <1>2, <2>1, <2>3 DEF Press, FInv, FrozenAccounted
  <2> QED
    BY <2>2, <2>3
<1>3. CASE Release(k)
  <2> DEFINE event == [key |-> k, type |-> "release", number |-> 0]
  <2>1. event \in Events
    BY DEF Events, EventTypes
  <2>2. unread' = Append(unread, event) \/ unread' = unread
    BY <1>3 DEF Release, Send
  <2>3. unread' \in Seq(Events)
    BY <2>1, <2>2, NumbersAppend DEF FInv
  <2> QED
    BY <1>1, <1>3, <2>3 DEF Release, FInv, FrozenAccounted
<1> QED
  BY <1>2, <1>3

\* Reading an event hands its number over to the task.
LEMMA ReadKeepsFInv ==
    ASSUME FInv, ReadEvent
    PROVE  FInv'
<1>1. unread \in Seq(Events) /\ unread # <<>> /\ unread' = Tail(unread)
  BY DEF FInv, ReadEvent
<1>2. unread' \in Seq(Events)
  BY <1>1
<1>3. task'.at = "x" /\ "at" \in DOMAIN task'
  BY DEF ReadEvent, Notify
<1> QED
  BY <1>2, <1>3 DEF ReadEvent, FInv, FrozenAccounted

\* Between the question to the first listener and XAllowEvents the task stands
\* for the press; XAllowEvents thaws the keyboard whatever froze it.
LEMMA HandlingKeepsFInv ==
    ASSUME FInv,
           ListenerAnswers \/ SwallowPending \/ AllowConsumed \/ AllowUnconsumed
    PROVE  FInv'
<1>1. CASE ListenerAnswers
  <2>1. task'.at = task.at /\ "at" \in DOMAIN task' /\ task # NoTask
    BY <1>1 DEF ListenerAnswers, FInv
  <2> QED
    BY <1>1, <2>1 DEF ListenerAnswers, serverVars, FInv, FrozenAccounted
<1>2. CASE SwallowPending
  <2>1. task # NoTask
    BY <1>2 DEF SwallowPending, NoTask
  <2>2. task'.at = "allow" /\ "at" \in DOMAIN task'
    BY <1>2, <2>1 DEF SwallowPending, FInv
  <2>3. unread' \in Seq(Events)
    BY <1>2 DEF SwallowPending
  <2> QED
    BY <1>2, <2>2, <2>3 DEF SwallowPending, FInv, FrozenAccounted
<1>3. CASE AllowConsumed
  BY <1>3 DEF AllowConsumed, FInv, FrozenAccounted
<1>4. CASE AllowUnconsumed
  BY <1>4 DEF AllowUnconsumed, ReplayKeyboard, FInv, FrozenAccounted
<1> QED
  BY <1>1, <1>2, <1>3, <1>4

\* Everything else leaves the server alone, and starts or ends a task that has
\* nothing to do with a key event.
LEMMA OthersKeepFInv ==
    ASSUME FInv, NotifyEnds \/ EndDispatch \/ CheckRelease \/ Requests
    PROVE  FInv'
<1>1. UNCHANGED serverVars
  BY DEF NotifyEnds, EndDispatch, CheckRelease, Requests, NotifyListeners,
         RegisterKeystrokeListener, DeregisterKeystrokeListener, ClientLeaves
<1>2. \/ UNCHANGED task
      \/ /\ task.at \notin {"x", "allow"}
         /\ task' = NoTask \/ (task'.at \in {"release", "sync"} /\ "at" \in DOMAIN task')
  <2>1. CASE NotifyEnds
    BY <2>1 DEF NotifyEnds
  <2>2. CASE EndDispatch
    BY <2>2 DEF EndDispatch
  <2>3. CASE CheckRelease
    BY <2>3 DEF CheckRelease, MainLoop, Notify, NoTask
  <2>4. CASE Requests
    <3>1. ASSUME NEW event, NotifyListeners(event)
          PROVE  /\ task.at \notin {"x", "allow"}
                 /\ task'.at \in {"release", "sync"} /\ "at" \in DOMAIN task'
      BY <3>1 DEF NotifyListeners, MainLoop, Notify, NoTask
    <3>2. ASSUME NEW l, RegisterKeystrokeListener(l) \/ DeregisterKeystrokeListener(l)
          PROVE  UNCHANGED task
      BY <3>2 DEF RegisterKeystrokeListener, DeregisterKeystrokeListener, taskVars
    <3>3. ASSUME NEW c, ClientLeaves(c) PROVE UNCHANGED task
      BY <3>3 DEF ClientLeaves, taskVars
    <3> QED
      BY <2>4, <3>1, <3>2, <3>3 DEF Requests
  <2> QED
    BY <2>1, <2>2, <2>3, <2>4
<1> QED
  BY <1>1, <1>2 DEF serverVars, FInv, FrozenAccounted, NoTask

\* The formula is inductive.
THEOREM KeyEventsInvariant == Spec => []FInv
<1>1. Init => FInv
  BY DEF Init, FInv, FrozenAccounted
<1>2. FInv /\ [Next]_vars => FInv'
  <2> SUFFICES ASSUME FInv, [Next]_vars PROVE FInv'
    OBVIOUS
  <2>1. CASE Keyboard
    BY <2>1, KeyboardKeepsFInv DEF Keyboard
  <2>2. CASE Handles
    BY <2>2, ReadKeepsFInv, HandlingKeepsFInv, OthersKeepFInv DEF Handles
  <2>3. CASE CheckRelease \/ Requests
    BY <2>3, OthersKeepFInv
  <2>4. CASE UNCHANGED vars
    BY <2>4 DEF vars, serverVars, taskVars, FInv, FrozenAccounted
  <2> QED
    BY <2>1, <2>2, <2>3, <2>4 DEF Next
<1> QED
  BY <1>1, <1>2, PTL DEF Spec

\* A frozen keyboard always has its press on the way to the XAllowEvents that lets
\* it go, whatever listeners, presses and answers there are.
THEOREM FrozenKeyboardAccounted == Spec => []FrozenAccounted
<1>1. FInv => FrozenAccounted
  BY DEF FInv
<1> QED
  BY <1>1, KeyEventsInvariant, PTL

-----------------------------------------------------------------------------
(***************************************************************************)
(* The listeners that are called.                                          *)
(***************************************************************************)

\* What is selected are the elements that are in the set, all of them: each place
\* up to the number of those kept is the place of exactly one.
LEMMA OnlySelects ==
    ASSUME NEW T, NEW s \in Seq(T), NEW S
    PROVE  /\ Only(s, S) \in Seq(T \cap S)
           /\ \A i \in DOMAIN s : s[i] \in S =>
                 \E n \in DOMAIN Only(s, S) : Only(s, S)[n] = s[i]
           /\ \A n \in DOMAIN Only(s, S) : \E i \in DOMAIN s : Only(s, S)[n] = s[i]
           /\ \A m, n \in DOMAIN Only(s, S) : m < n =>
                 \E i, j \in DOMAIN s : i < j /\ Only(s, S)[m] = s[i] /\ Only(s, S)[n] = s[j]
<1> DEFINE chosen == {i \in DOMAIN s : s[i] \in S}
           Upto(i) == {j \in chosen : j <= i}
           count == Cardinality(chosen)
           place == [i \in chosen |-> Cardinality(Upto(i))]
<1>1. DOMAIN s = 1..Len(s) /\ Len(s) \in Nat
  OBVIOUS
<1>2. IsFiniteSet(chosen) /\ count \in Nat
  <2>1. IsFiniteSet(1..Len(s))
    BY <1>1, FS_Interval
  <2>2. chosen \in SUBSET (1..Len(s))
    BY <1>1
  <2> QED
    BY <2>1, <2>2, FS_Subset, FS_CardinalityType
<1>3. ASSUME NEW i \in chosen
      PROVE  place[i] \in 1..count
  <2>1. Upto(i) \in SUBSET chosen /\ i \in Upto(i)
    BY <1>1
  <2>2. IsFiniteSet(Upto(i)) /\ Cardinality(Upto(i)) <= count
    BY <2>1, <1>2, FS_Subset
  <2>3. Cardinality(Upto(i)) \in Nat /\ Cardinality(Upto(i)) # 0
    BY <2>1, <2>2, FS_CardinalityType, FS_EmptySet
  <2> QED
    BY <1>2, <2>2, <2>3
<1>4. ASSUME NEW i \in chosen, NEW j \in chosen, i < j
      PROVE  place[i] < place[j]
  <2>1. Upto(i) \in SUBSET Upto(j) /\ j \in Upto(j) /\ j \notin Upto(i)
    BY <1>1, <1>4
  <2>2. IsFiniteSet(Upto(j))
    <3>1. Upto(j) \in SUBSET chosen
      OBVIOUS
    <3> QED
      BY <1>2, <3>1, FS_Subset
  <2>3. Cardinality(Upto(i)) <= Cardinality(Upto(j)) /\ Cardinality(Upto(i)) # Cardinality(Upto(j))
    BY <2>1, <2>2, FS_Subset
  <2>4. Cardinality(Upto(i)) \in Nat /\ Cardinality(Upto(j)) \in Nat
    <3>1. IsFiniteSet(Upto(i))
      BY <2>1, <2>2, FS_Subset
    <3> QED
      BY <3>1, <2>2, FS_CardinalityType
  <2> QED
    BY <2>3, <2>4
<1>5. \A i, j \in chosen : place[i] = place[j] => i = j
  <2> SUFFICES ASSUME NEW i \in chosen, NEW j \in chosen, place[i] = place[j], i # j
               PROVE  FALSE
    OBVIOUS
  <2>1. i \in Nat /\ j \in Nat
    BY <1>1
  <2> HIDE DEF place, chosen
  <2>2. place[i] \in Int
    BY <1>3, <1>2
  <2>3. ~(i < j) /\ ~(j < i)
    BY <2>2, <1>4
  <2> QED
    BY <2>1, <2>3
<1>6. \A n \in 1..count : \E i \in chosen : place[i] = n
  <2>1. place \in [chosen -> 1..count]
    BY <1>3
  <2>2. place \in Injection(chosen, 1..count)
    BY <2>1, <1>5 DEF Injection, IsInjective
  <2>3. IsFiniteSet(1..count) /\ Cardinality(1..count) = count
    BY <1>2, FS_Interval
  <2>4. place \in Surjection(chosen, 1..count)
    BY <2>2, <2>3, FS_Injection
  <2> QED
    BY <2>4 DEF Surjection
<1> DEFINE At(n) == CHOOSE i \in chosen : Cardinality(Upto(i)) = n
<1>7. Only(s, S) = [n \in 1..count |-> s[At(n)]]
  BY DEF Only
<1>8. ASSUME NEW n \in 1..count
      PROVE  At(n) \in chosen /\ place[At(n)] = n
  <2>1. \E i \in chosen : Cardinality(Upto(i)) = n
    BY <1>6
  <2> QED
    BY <2>1
<1>9. ASSUME NEW n \in 1..count
      PROVE  s[At(n)] \in T \cap S
  <2>1. At(n) \in chosen
    BY <1>8
  <2>2. At(n) \in DOMAIN s /\ s[At(n)] \in S
    BY <2>1
  <2> QED
    BY <2>2
<1>10. Only(s, S) \in Seq(T \cap S)
  <2> HIDE DEF At, count, chosen
  <2> QED
    BY <1>2, <1>7, <1>9
<1>11. DOMAIN Only(s, S) = 1..count
  BY <1>7
<1>12. ASSUME NEW i \in DOMAIN s, s[i] \in S
       PROVE  \E n \in DOMAIN Only(s, S) : Only(s, S)[n] = s[i]
  <2>1. i \in chosen
    BY <1>12
  <2> DEFINE n == place[i]
  <2>2. n \in 1..count
    BY <2>1, <1>3
  <2> HIDE DEF n
  <2>3. At(n) = i
    <3>1. At(n) \in chosen /\ place[At(n)] = n
      BY <2>2, <1>8
    <3> QED
      BY <3>1, <2>1, <1>5 DEF n
  <2> QED
    BY <2>2, <2>3, <1>7, <1>11
<1>13. ASSUME NEW m \in 1..count, NEW n \in 1..count, m < n
       PROVE  At(m) < At(n)
  <2>1. /\ At(m) \in chosen /\ place[At(m)] = m
        /\ At(n) \in chosen /\ place[At(n)] = n
    BY <1>8
  <2>2. m \in Int /\ n \in Int
    BY <1>2
  <2>3. At(m) \in Int /\ At(n) \in Int
    BY <2>1, <1>1
  <2> HIDE DEF At, place, chosen
  <2>4. At(m) # At(n) /\ ~(At(n) < At(m))
    BY <1>4, <1>13, <2>1, <2>2
  <2> QED
    BY <2>3, <2>4
<1> QED
  <2>1. \A n \in DOMAIN Only(s, S) : \E i \in DOMAIN s : Only(s, S)[n] = s[i]
    BY <1>7, <1>8, <1>11
  <2>2. ASSUME NEW m \in DOMAIN Only(s, S), NEW n \in DOMAIN Only(s, S), m < n
        PROVE  \E i, j \in DOMAIN s : i < j /\ Only(s, S)[m] = s[i] /\ Only(s, S)[n] = s[j]
    <3>1. m \in 1..count /\ n \in 1..count
      BY <1>11
    <3>2. At(m) \in DOMAIN s /\ At(n) \in DOMAIN s /\ At(m) < At(n)
      BY <1>8, <1>13, <2>2, <3>1
    <3> QED
      BY <1>7, <3>1, <3>2
  <2> QED
    BY <1>10, <1>12, <2>1, <2>2

\* The rest of a sequence.
LEMMA RestOf ==
    ASSUME NEW S, NEW s \in Seq(S), s # <<>>
    PROVE  /\ Head(s) \in S /\ Head(s) = s[1] /\ 1 \in DOMAIN s
           /\ Tail(s) \in Seq(S)
           /\ \A i \in DOMAIN Tail(s) : i + 1 \in DOMAIN s /\ Tail(s)[i] = s[i + 1]
OBVIOUS

\* One grab at most, and no number that has not been given to a press yet.
OneGrab == grab = {} \/ \E k \in Keys : grab = {k}

NumbersGiven ==
    /\ frozen <= presses
    /\ \A i \in DOMAIN unread : unread[i].number <= presses
    /\ task # NoTask => task.event.number <= presses
    /\ pressed.number <= presses
    /\ consumed \cup relayed \cup swallowed \subseteq 1..presses

\* A timer is there for a press that was read.
TimerPress == timers > 0 => pressed \in Events

\* The values of the variables but for the number of grabs, which OneGrab bounds.
Values ==
    /\ down \subseteq Keys /\ grab \subseteq Keys
    /\ frozen \in 0..MaxPresses /\ presses \in 0..MaxPresses
    /\ unread \in Seq(Events) /\ raced \in BOOLEAN
    /\ keyListeners \in Seq(KeyListeners) /\ connected \subseteq Clients
    /\ dispatching \in BOOLEAN /\ task \in Tasks \cup {NoTask}
    /\ pressed \in Events \cup {NoPress} /\ timers \in Nat
    /\ syncs \in 0..MaxSyncs

CInv ==
    /\ Values /\ OneGrab /\ NumbersGiven /\ TimerPress /\ CalledStillListen

\* What the parts say together is what the runs check.
LEMMA CInvImplies ==
    ASSUME CInv
    PROVE  TypeOK /\ CalledStillListen
<1>1. Cardinality(grab) <= 1
  <2>1. CASE grab = {}
    BY <2>1, FS_EmptySet
  <2>2. CASE \E k \in Keys : grab = {k}
    <3>1. Cardinality(grab) = 1
      BY <2>2, FS_Singleton
    <3> QED
      BY <3>1
  <2> QED
    BY <2>1, <2>2 DEF CInv, OneGrab
<1>2. 1..presses \subseteq Numbers
  BY KeyEventsAssumption DEF CInv, Values, Numbers
<1> QED
  BY <1>1, <1>2 DEF CInv, Values, NumbersGiven, TypeOK

\* A task that is not NoTask has all that a task has.
LEMMA TaskParts ==
    ASSUME Values
    PROVE  /\ task # NoTask => task \in Tasks
           /\ task.at # "none" => task # NoTask
BY DEF Values, NoTask

\* The listeners of a task, and what registration and removal leave.
LEMMA MatchingListens ==
    ASSUME Values, NEW event, NEW global
    PROVE  /\ Matching(event, global) \in Seq(KeyListeners)
           /\ \A i \in DOMAIN Matching(event, global) :
                 Matching(event, global)[i] \in Registered
<1> DEFINE count == Len(keyListeners)
           oldest == [i \in 1..count |-> keyListeners[count + 1 - i]]
           those == {l \in KeyListeners : Matches(l, event, global)}
<1>1. keyListeners \in Seq(KeyListeners) /\ count \in Nat /\ DOMAIN keyListeners = 1..count
  BY DEF Values
<1>2. ASSUME NEW i \in 1..count
      PROVE  oldest[i] \in KeyListeners /\ oldest[i] \in Registered
  <2>1. count + 1 - i \in 1..count
    BY <1>1
  <2> QED
    BY <1>1, <2>1 DEF Registered
<1>3. oldest \in Seq(KeyListeners)
  BY <1>1, <1>2
<1>4. Matching(event, global) = Only(oldest, those)
  BY DEF Matching
<1> HIDE DEF those
<1>5. DOMAIN oldest = 1..count
  OBVIOUS
<1> HIDE DEF oldest, count
<1>6. /\ Only(oldest, those) \in Seq(KeyListeners \cap those)
      /\ \A n \in DOMAIN Only(oldest, those) :
            \E i \in DOMAIN oldest : Only(oldest, those)[n] = oldest[i]
  BY <1>3, OnlySelects
<1>7. Only(oldest, those) \in Seq(KeyListeners)
  BY <1>6
<1> QED
  BY <1>2, <1>4, <1>5, <1>6, <1>7

LEMMA RemainingListens ==
    ASSUME Values, NEW gone
    PROVE  /\ Remaining(gone) \in Seq(KeyListeners)
           /\ \A l \in Registered : l \notin gone =>
                 \E i \in DOMAIN Remaining(gone) : Remaining(gone)[i] = l
<1> DEFINE chosen == KeyListeners \ gone
           left == Only(keyListeners, chosen)
<1>1. keyListeners \in Seq(KeyListeners)
  BY DEF Values
<1> HIDE DEF chosen
<1>2. /\ left \in Seq(KeyListeners \cap chosen)
      /\ \A i \in DOMAIN keyListeners : keyListeners[i] \in chosen =>
            \E n \in DOMAIN left : left[n] = keyListeners[i]
  BY <1>1, OnlySelects
<1>3. left \in Seq(KeyListeners)
  BY <1>2
<1>4. \A i \in DOMAIN keyListeners : keyListeners[i] \in KeyListeners
  BY <1>1
<1> HIDE DEF left
<1>5. Remaining(gone) = left
  BY DEF Remaining, left, chosen
<1> QED
  BY <1>2, <1>3, <1>4, <1>5 DEF Registered, chosen

\* What the user does adds a press with a number of its own, or a release.
LEMMA SendKeeps ==
    ASSUME Values, NEW event \in Events, Send(event)
    PROVE  /\ unread' \in Seq(Events) /\ raced' \in BOOLEAN
           /\ \A n \in Nat : /\ \A i \in DOMAIN unread : unread[i].number <= n
                             /\ event.number <= n
                             => \A i \in DOMAIN unread' : unread'[i].number <= n
<1>1. unread \in Seq(Events) /\ unread' = Append(unread, event)
  BY DEF Values, Send
<1>2. /\ unread' \in Seq(Events)
      /\ \A i \in DOMAIN unread' : IF i \in DOMAIN unread THEN unread'[i] = unread[i]
                                                          ELSE unread'[i] = event
  BY <1>1
<1>3. raced' \in BOOLEAN
  BY DEF Send
<1> QED
  BY <1>2, <1>3

LEMMA KeyboardKeepsCInv ==
    ASSUME CInv, NEW k \in Keys, Press(k) \/ Release(k)
    PROVE  CInv'
<1>1. Values /\ OneGrab /\ NumbersGiven /\ TimerPress /\ CalledStillListen
  BY DEF CInv
<1>2. UNCHANGED <<keyListeners, connected, dispatching, task, pressed, timers, syncs,
                  consumed, swallowed>>
  BY DEF Press, Release, listenerVars, taskVars, releaseVars, fateVars
<1>3. TimerPress' /\ CalledStillListen'
  BY <1>1, <1>2 DEF TimerPress, CalledStillListen, Registered
<1>4. CASE Press(k)
  <2> DEFINE event == [key |-> k, type |-> "press", number |-> presses + 1]
  <2>1. /\ presses \in Nat /\ presses' = presses + 1 /\ presses' \in 0..MaxPresses
        /\ down' = down \cup {k}
    BY <1>1, <1>4, KeyEventsAssumption DEF Press, Values
  <2>2. event \in Events
    BY <2>1 DEF Events, EventTypes
  <2>3. /\ unread' \in Seq(Events) /\ raced' \in BOOLEAN
        /\ \A i \in DOMAIN unread' : unread'[i].number <= presses'
    <3>1. \A i \in DOMAIN unread : unread[i].number <= presses + 1
      <4>1. \A i \in DOMAIN unread : unread[i].number \in Nat
        <5>1. \A i \in DOMAIN unread : unread[i] \in Events
          BY <1>1 DEF Values
        <5> QED
          BY <5>1 DEF Events
      <4> QED
        BY <1>1, <2>1, <4>1 DEF NumbersGiven
    <3>2. CASE UNCHANGED <<unread, raced>>
      BY <1>1, <2>1, <3>1, <3>2 DEF Values
    <3>3. CASE Send([key |-> k, type |-> "press", number |-> presses'])
      <4>1. Send(event) /\ event.number <= presses + 1 /\ presses + 1 \in Nat
        BY <2>1, <3>3
      <4> QED
        BY <1>1, <2>1, <2>2, <3>1, <4>1, SendKeeps
    <3> QED
      BY <1>4, <3>2, <3>3 DEF Press
  <2>4. relayed' = relayed \/ relayed' = relayed \cup {presses'}
    BY <1>4 DEF Press
  <2>5. \/ grab' = {k} /\ frozen' = presses'
        \/ UNCHANGED <<grab, frozen>>
    BY <1>4 DEF Press
  <2>6. /\ frozen \in Nat /\ frozen <= presses
        /\ pressed.number \in Nat /\ pressed.number <= presses
        /\ task # NoTask => task.event.number \in Nat /\ task.event.number <= presses
    BY <1>1 DEF Values, NumbersGiven, Events, NoPress, Tasks
  <2>7. Values'
    BY <1>1, <1>2, <2>1, <2>3, <2>5 DEF Values, NoTask, Tasks
  <2>8. NumbersGiven'
    <3>1. consumed \cup relayed \cup swallowed \subseteq 1..presses'
      BY <1>1, <2>1 DEF NumbersGiven
    <3>2. presses' \in 1..presses'
      BY <2>1
    <3>3. consumed' \cup relayed' \cup swallowed' \subseteq 1..presses'
      BY <1>2, <2>4, <3>1, <3>2
    <3> QED
      BY <1>2, <2>1, <2>3, <2>5, <2>6, <3>3 DEF NumbersGiven
  <2>9. OneGrab'
    BY <1>1, <2>5 DEF OneGrab
  <2> QED
    BY <1>3, <2>7, <2>8, <2>9 DEF CInv
<1>5. CASE Release(k)
  <2> DEFINE event == [key |-> k, type |-> "release", number |-> 0]
  <2>1. /\ UNCHANGED <<frozen, presses, relayed>>
        /\ down' = down \ {k} /\ grab' = grab \ {k}
    BY <1>5 DEF Release, fateVars
  <2>2. event \in Events /\ event.number <= presses
    BY <1>1 DEF Events, EventTypes, Values
  <2>3. /\ unread' \in Seq(Events) /\ raced' \in BOOLEAN
        /\ \A i \in DOMAIN unread' : unread'[i].number <= presses
    <3>1. CASE UNCHANGED <<unread, raced>>
      BY <1>1, <3>1 DEF Values, NumbersGiven
    <3>2. CASE Send(event)
      <4>1. presses \in Nat
        BY <1>1 DEF Values
      <4> QED
        BY <1>1, <2>2, <3>2, <4>1, SendKeeps DEF NumbersGiven
    <3> QED
      BY <1>5, <3>1, <3>2 DEF Release
  <2>4. Values'
    BY <1>1, <1>2, <2>1, <2>3 DEF Values, NoTask, Tasks
  <2>5. NumbersGiven'
    BY <1>1, <1>2, <2>1, <2>3 DEF NumbersGiven
  <2>6. OneGrab'
    BY <1>1, <2>1 DEF OneGrab
  <2> QED
    BY <1>3, <2>4, <2>5, <2>6 DEF CInv
<1> QED
  BY <1>4, <1>5

\* A task begins with the listeners that match its event.
LEMMA NotifyKeeps ==
    ASSUME Values, NEW at \in {"x", "release", "sync"}, NEW event \in Events,
           NEW global, Notify(at, event, global), UNCHANGED <<keyListeners, connected>>
    PROVE  /\ task' \in Tasks /\ task'.event = event /\ task'.at = at
           /\ CalledStillListen'
<1>1. /\ Matching(event, global) \in Seq(KeyListeners)
      /\ \A i \in DOMAIN Matching(event, global) :
            Matching(event, global)[i] \in Registered
  BY MatchingListens
<1>2. task' = [at |-> at, event |-> event, left |-> Matching(event, global),
               consumed |-> FALSE, pending |-> FALSE]
  BY DEF Notify
<1>3. task' \in Tasks /\ task'.event = event /\ task'.at = at
  BY <1>1, <1>2 DEF Tasks
<1>4. task'.left = Matching(event, global)
  BY <1>2
<1>5. Registered' = Registered
  BY DEF Registered
<1> QED
  BY <1>1, <1>3, <1>4, <1>5 DEF CalledStillListen

\* A key event is read, or the timer finds the key up, or a client asks.
LEMMA BeginningsKeepCInv ==
    ASSUME CInv,
           \/ ReadEvent \/ CheckRelease
           \/ \E k \in Keys, type \in EventTypes :
                 NotifyListeners([key |-> k, type |-> type, number |-> 0])
    PROVE  CInv'
<1>1. Values /\ OneGrab /\ NumbersGiven /\ TimerPress
  BY DEF CInv
<1>2. UNCHANGED <<down, grab, frozen, presses, raced, keyListeners, connected,
                  consumed, relayed, swallowed>>
  BY DEF ReadEvent, CheckRelease, NotifyListeners, serverVars, listenerVars, fateVars
<1>3. OneGrab'
  BY <1>1, <1>2 DEF OneGrab
<1>4. presses \in Nat
  BY <1>1 DEF Values
<1>5. CASE ReadEvent
  <2>1. /\ unread \in Seq(Events) /\ unread # <<>> /\ unread' = Tail(unread)
        /\ dispatching' = TRUE /\ UNCHANGED <<pressed, timers, syncs>>
        /\ Notify("x", Head(unread), TRUE)
    BY <1>1, <1>5 DEF ReadEvent, Values, releaseVars
  <2>2. /\ Head(unread) \in Events /\ Head(unread).number <= presses
        /\ unread' \in Seq(Events)
        /\ \A i \in DOMAIN unread' : unread'[i].number <= presses
    <3> HIDE DEF Events
    <3> QED
      BY <1>1, <2>1, RestOf DEF NumbersGiven
  <2>3. task' \in Tasks /\ task'.event = Head(unread) /\ CalledStillListen'
    BY <1>1, <1>2, <2>1, <2>2, NotifyKeeps
  <2>4. Values'
    BY <1>1, <1>2, <2>1, <2>2, <2>3 DEF Values
  <2>5. NumbersGiven' /\ TimerPress'
    BY <1>1, <1>2, <2>1, <2>2, <2>3 DEF NumbersGiven, TimerPress
  <2> QED
    BY <1>3, <2>3, <2>4, <2>5 DEF CInv
<1>6. CASE CheckRelease
  <2>1. /\ timers > 0 /\ timers' = timers - 1
        /\ pressed' = [pressed EXCEPT !.type = "release"]
        /\ Notify("release", pressed', TRUE)
        /\ UNCHANGED <<unread, dispatching, syncs>>
    BY <1>6 DEF CheckRelease, serverVars
  <2>2. pressed \in Events /\ pressed.number <= presses
    BY <1>1, <2>1 DEF TimerPress, NumbersGiven
  <2>3. pressed' \in Events /\ pressed'.number <= presses
    BY <2>1, <2>2 DEF Events, EventTypes
  <2>4. PICK event \in Events : event = pressed'
    BY <2>3
  <2>5. task' \in Tasks /\ task'.event = pressed' /\ CalledStillListen'
    BY <1>1, <1>2, <2>1, <2>4, NotifyKeeps
  <2>6. Values'
    BY <1>1, <1>2, <2>1, <2>3, <2>5 DEF Values
  <2>7. NumbersGiven' /\ TimerPress'
    BY <1>1, <1>2, <2>1, <2>3, <2>5 DEF NumbersGiven, TimerPress
  <2> QED
    BY <1>3, <2>5, <2>6, <2>7 DEF CInv
<1>7. ASSUME NEW k \in Keys, NEW type \in EventTypes,
             NotifyListeners([key |-> k, type |-> type, number |-> 0])
      PROVE  CInv'
  <2> DEFINE event == [key |-> k, type |-> type, number |-> 0]
  <2>1. event \in Events /\ event.number <= presses
    BY <1>4 DEF Events
  <2>2. /\ syncs < MaxSyncs /\ syncs' = syncs + 1
        /\ Notify("sync", event, FALSE)
        /\ UNCHANGED <<unread, dispatching, pressed, timers>>
    BY <1>7 DEF NotifyListeners, serverVars, releaseVars
  <2> HIDE DEF event
  <2>3. task' \in Tasks /\ task'.event = event /\ CalledStillListen'
    BY <1>1, <1>2, <2>1, <2>2, NotifyKeeps
  <2>4. Values'
    BY <1>1, <1>2, <2>2, <2>3, KeyEventsAssumption DEF Values
  <2>5. NumbersGiven' /\ TimerPress'
    BY <1>1, <1>2, <2>1, <2>2, <2>3 DEF NumbersGiven, TimerPress
  <2> QED
    BY <1>3, <2>3, <2>4, <2>5 DEF CInv
<1> QED
  BY <1>5, <1>6, <1>7

\* Listeners answer; the key event is swallowed or let go.
LEMMA AnswersKeepCInv ==
    ASSUME CInv, ListenerAnswers
    PROVE  CInv'
<1>1. Values /\ OneGrab /\ NumbersGiven /\ TimerPress /\ CalledStillListen
  BY DEF CInv
<1>2. UNCHANGED <<serverVars, listenerVars, dispatching, releaseVars, syncs, fateVars>>
  BY DEF ListenerAnswers
<1>3. task \in Tasks /\ task # NoTask /\ task.left # <<>>
  BY <1>1, TaskParts DEF ListenerAnswers
<1>4. PICK yes \in BOOLEAN :
         task' = [task EXCEPT !.left = Tail(@),
                              !.consumed = Consumes(Head(task.left), yes)]
  BY DEF ListenerAnswers
<1>5. task.left \in Seq(KeyListeners)
  BY <1>3 DEF Tasks
<1>6. /\ Head(task.left) \in KeyListeners /\ Tail(task.left) \in Seq(KeyListeners)
      /\ \A i \in DOMAIN Tail(task.left) :
            i + 1 \in DOMAIN task.left /\ Tail(task.left)[i] = task.left[i + 1]
  BY <1>3, <1>5, RestOf
<1>7. Consumes(Head(task.left), yes) \in BOOLEAN
  BY <1>6, KeyEventsAssumption DEF Consumes
<1>8. /\ task' \in Tasks /\ task'.event = task.event /\ task'.at = task.at
      /\ task'.left = Tail(task.left)
  BY <1>3, <1>4, <1>6, <1>7 DEF Tasks
<1>9. CalledStillListen'
  BY <1>1, <1>2, <1>3, <1>6, <1>8 DEF CalledStillListen, Registered, listenerVars
<1>10. Values'
  BY <1>1, <1>2, <1>8 DEF Values, serverVars, listenerVars, releaseVars
<1>11. OneGrab' /\ NumbersGiven' /\ TimerPress'
  BY <1>1, <1>2, <1>3, <1>8
     DEF OneGrab, NumbersGiven, TimerPress, serverVars, releaseVars, fateVars
<1> QED
  BY <1>9, <1>10, <1>11 DEF CInv

LEMMA SwallowKeepsCInv ==
    ASSUME CInv, SwallowPending
    PROVE  CInv'
<1>1. Values /\ OneGrab /\ NumbersGiven /\ TimerPress /\ CalledStillListen
  BY DEF CInv
<1>2. task \in Tasks /\ task # NoTask
  BY <1>1, TaskParts DEF SwallowPending
<1>3. /\ UNCHANGED <<down, grab, frozen, presses, raced, listenerVars, dispatching,
                     releaseVars, syncs, relayed>>
      /\ unread' = <<>>
      /\ consumed' = consumed \cup NumbersIn(<<task.event>>)
      /\ swallowed' = swallowed \cup NumbersIn(unread)
      /\ task' = [task EXCEPT !.at = "allow", !.pending = unread # <<>>]
  BY DEF SwallowPending
<1>4. /\ task' \in Tasks /\ task'.event = task.event /\ task'.left = task.left
      /\ task'.at = "allow"
  BY <1>2, <1>3 DEF Tasks
<1>5. presses \in Nat
  BY <1>1 DEF Values
<1>6. NumbersIn(<<task.event>>) \subseteq 1..presses
  <2>1. task.event.number \in Nat /\ task.event.number <= presses
    BY <1>1, <1>2 DEF Tasks, Events, NumbersGiven
  <2>2. NumbersIn(<<task.event>>) = {task.event.number} \ {0}
    BY DEF NumbersIn
  <2> QED
    BY <1>5, <2>1, <2>2
<1>7. NumbersIn(unread) \subseteq 1..presses
  <2>1. ASSUME NEW i \in DOMAIN unread
        PROVE  unread[i].number \in Nat /\ unread[i].number <= presses
    <3>1. unread[i] \in Events
      BY <1>1 DEF Values
    <3> QED
      BY <1>1, <3>1 DEF Events, NumbersGiven
  <2> QED
    BY <1>5, <2>1 DEF NumbersIn
<1>8. Values'
  BY <1>1, <1>3, <1>4 DEF Values, listenerVars, releaseVars
<1>9. NumbersGiven'
  <2>1. consumed' \cup relayed' \cup swallowed' \subseteq 1..presses
    BY <1>1, <1>3, <1>6, <1>7 DEF NumbersGiven
  <2> QED
    BY <1>1, <1>2, <1>3, <1>4, <2>1 DEF NumbersGiven, releaseVars
<1>10. OneGrab' /\ TimerPress' /\ CalledStillListen'
  BY <1>1, <1>2, <1>3, <1>4
     DEF OneGrab, TimerPress, CalledStillListen, Registered, releaseVars, listenerVars
<1> QED
  BY <1>8, <1>9, <1>10 DEF CInv

LEMMA AllowsKeepCInv ==
    ASSUME CInv, AllowConsumed \/ AllowUnconsumed \/ NotifyEnds \/ EndDispatch
    PROVE  CInv'
<1>1. Values /\ OneGrab /\ NumbersGiven /\ TimerPress
  BY DEF CInv
<1>2. task' = NoTask
  BY DEF AllowConsumed, AllowUnconsumed, NotifyEnds, EndDispatch
<1>3. UNCHANGED <<down, unread, presses, raced, keyListeners, connected, syncs,
                  consumed, swallowed>>
  BY DEF AllowConsumed, AllowUnconsumed, NotifyEnds, EndDispatch, serverVars,
         listenerVars, fateVars
<1>4. dispatching' \in BOOLEAN
  BY <1>1 DEF AllowConsumed, AllowUnconsumed, NotifyEnds, EndDispatch, Values
<1>5. /\ grab' = {} \/ grab' = grab
      /\ frozen' = 0 \/ frozen' = frozen
  BY DEF AllowConsumed, AllowUnconsumed, ReplayKeyboard, NotifyEnds, EndDispatch,
         serverVars
<1>6. relayed' = relayed \/ (frozen # 0 /\ relayed' = relayed \cup {frozen})
  BY DEF AllowConsumed, AllowUnconsumed, ReplayKeyboard, NotifyEnds, EndDispatch,
         fateVars
<1>7. \/ UNCHANGED <<pressed, timers>>
      \/ task \in Tasks /\ task # NoTask /\ pressed' = task.event /\ timers' = timers + 1
  BY <1>1, TaskParts
     DEF AllowConsumed, AllowUnconsumed, NotifyEnds, EndDispatch, releaseVars
<1>8. frozen \in Nat /\ presses \in Nat
  BY <1>1 DEF Values
<1>9. CalledStillListen'
  BY <1>2 DEF CalledStillListen
<1>10. /\ pressed' \in Events \cup {NoPress} /\ timers' \in Nat
       /\ pressed'.number <= presses /\ (timers' > 0 => pressed' \in Events)
  <2>1. CASE UNCHANGED <<pressed, timers>>
    BY <1>1, <2>1 DEF Values, NumbersGiven, TimerPress
  <2>2. CASE task \in Tasks /\ task # NoTask /\ pressed' = task.event /\ timers' = timers + 1
    <3>1. task.event \in Events /\ task.event.number <= presses
      BY <1>1, <2>2 DEF Tasks, NumbersGiven
    <3> QED
      BY <1>1, <2>2, <3>1 DEF Values
  <2> QED
    BY <1>7, <2>1, <2>2
<1>11. Values'
  <2>1. frozen' \in 0..MaxPresses /\ grab' \subseteq Keys
    <3>1. frozen \in 0..MaxPresses /\ 0 \in 0..MaxPresses /\ grab \subseteq Keys
      BY <1>1, KeyEventsAssumption DEF Values
    <3> QED
      BY <1>5, <3>1
  <2> QED
    BY <1>1, <1>2, <1>3, <1>4, <1>10, <2>1 DEF Values
<1>12. NumbersGiven'
  <2>1. frozen # 0 => frozen \in 1..presses
    BY <1>1, <1>8 DEF NumbersGiven
  <2>2. consumed' \cup relayed' \cup swallowed' \subseteq 1..presses
    BY <1>1, <1>3, <1>6, <2>1 DEF NumbersGiven
  <2> QED
    BY <1>1, <1>2, <1>3, <1>5, <1>8, <1>10, <2>2 DEF NumbersGiven
<1>13. OneGrab' /\ TimerPress'
  BY <1>1, <1>5, <1>10 DEF OneGrab, TimerPress
<1> QED
  BY <1>9, <1>11, <1>12, <1>13 DEF CInv

\* Listeners come and go: a task knows the ones that go, unless their client does.
LEMMA ListenersKeepCInv ==
    ASSUME CInv,
           \/ \E l \in KeyListeners :
                 RegisterKeystrokeListener(l) \/ DeregisterKeystrokeListener(l)
           \/ \E c \in Clients : ClientLeaves(c)
    PROVE  CInv'
<1>1. Values /\ OneGrab /\ NumbersGiven /\ TimerPress /\ CalledStillListen
  BY DEF CInv
<1>2. UNCHANGED <<serverVars, taskVars, releaseVars, syncs, fateVars>>
  BY DEF RegisterKeystrokeListener, DeregisterKeystrokeListener, ClientLeaves
<1>3. /\ keyListeners' \in Seq(KeyListeners) /\ connected' \subseteq Clients
      /\ CalledStillListen'
  <2>1. ASSUME NEW l \in KeyListeners, RegisterKeystrokeListener(l)
        PROVE  /\ keyListeners' \in Seq(KeyListeners) /\ connected' \subseteq Clients
               /\ CalledStillListen'
    <3>1. task' = NoTask /\ connected' = connected
      BY <2>1, <1>2 DEF RegisterKeystrokeListener, MainLoop, taskVars
    <3>2. keyListeners' = <<l>> \o keyListeners
      BY <2>1 DEF RegisterKeystrokeListener
    <3>3. keyListeners' \in Seq(KeyListeners)
      BY <1>1, <3>2 DEF Values
    <3> QED
      BY <1>1, <3>1, <3>3 DEF CalledStillListen, Values
  <2>2. ASSUME NEW l \in KeyListeners, DeregisterKeystrokeListener(l)
        PROVE  /\ keyListeners' \in Seq(KeyListeners) /\ connected' \subseteq Clients
               /\ CalledStillListen'
    <3>1. task' = NoTask /\ connected' = connected
      BY <2>2, <1>2 DEF DeregisterKeystrokeListener, MainLoop, taskVars
    <3>2. keyListeners' = Remaining({l})
      BY <2>2 DEF DeregisterKeystrokeListener
    <3>3. keyListeners' \in Seq(KeyListeners)
      BY <1>1, <3>2, RemainingListens
    <3> QED
      BY <1>1, <3>1, <3>3 DEF CalledStillListen, Values
  <2>3. ASSUME NEW c \in Clients, ClientLeaves(c)
        PROVE  /\ keyListeners' \in Seq(KeyListeners) /\ connected' \subseteq Clients
               /\ CalledStillListen'
    <3> DEFINE hers == {l \in KeyListeners : OwnerOf(l) = c}
    <3>1. keyListeners' = Remaining(hers) /\ connected' = connected \ {c}
      BY <2>3 DEF ClientLeaves
    <3>2. \A l : l \in hers => OwnerOf(l) = c
      OBVIOUS
    <3> HIDE DEF hers
    <3>3. /\ keyListeners' \in Seq(KeyListeners)
          /\ \A l \in Registered : l \notin hers =>
                \E i \in DOMAIN keyListeners' : keyListeners'[i] = l
      BY <1>1, <3>1, RemainingListens
    <3>4. \A l \in Registered : l \in Registered' \/ OwnerOf(l) = c
      BY <3>2, <3>3 DEF Registered
    <3>5. CalledStillListen'
      BY <1>1, <1>2, <3>1, <3>4 DEF CalledStillListen, taskVars, OwnerOf
    <3> QED
      BY <1>1, <3>1, <3>3, <3>5 DEF Values
  <2> QED
    BY <2>1, <2>2, <2>3
<1>4. Values'
  <2>1. UNCHANGED <<down, grab, frozen, unread, presses, raced, dispatching, task,
                    pressed, timers, syncs>>
    BY <1>2 DEF serverVars, taskVars, releaseVars
  <2> QED
    BY <1>1, <1>3, <2>1 DEF Values
<1>5. OneGrab' /\ NumbersGiven' /\ TimerPress'
  BY <1>1, <1>2
     DEF OneGrab, NumbersGiven, TimerPress, serverVars, taskVars, releaseVars, fateVars
<1> QED
  BY <1>3, <1>4, <1>5 DEF CInv

LEMMA CInvInitially == Init => CInv
<1> SUFFICES ASSUME Init PROVE CInv
  OBVIOUS
<1>1. NoPress.number = 0
  BY DEF NoPress
<1>2. Values
  <2>1. 0 \in 0..MaxPresses /\ 0 \in 0..MaxSyncs
    BY KeyEventsAssumption
  <2>2. unread \in Seq(Events) /\ keyListeners \in Seq(KeyListeners)
    BY DEF Init
  <2> QED
    BY <2>1, <2>2 DEF Init, Values
<1> QED
  BY <1>1, <1>2 DEF Init, CInv, OneGrab, NumbersGiven, TimerPress, CalledStillListen

LEMMA CInvInductive ==
    ASSUME CInv, [Next]_vars
    PROVE  CInv'
<1>1. CASE Keyboard
  BY <1>1, KeyboardKeepsCInv DEF Keyboard
<1>2. CASE Handles
  BY <1>2, BeginningsKeepCInv, AnswersKeepCInv, SwallowKeepsCInv, AllowsKeepCInv
     DEF Handles
<1>3. CASE CheckRelease
  BY <1>3, BeginningsKeepCInv
<1>4. CASE Requests
  BY <1>4, BeginningsKeepCInv, ListenersKeepCInv DEF Requests
<1>5. CASE UNCHANGED vars
  BY <1>5 DEF vars, serverVars, listenerVars, taskVars, releaseVars, fateVars, CInv,
              Values, OneGrab, NumbersGiven, TimerPress, CalledStillListen, Registered
<1> QED
  BY <1>1, <1>2, <1>3, <1>4, <1>5 DEF Next

\* Whatever the user types and whenever clients come and go, the listener that
\* spi_controller_notify_keylisteners is about to call is still registered, or
\* its client has left the bus; and the press that froze the keyboard is on its way to
\* the XAllowEvents that lets it go.
THEOREM KeyEventsConsistent == Spec => []Consistent
<1>1. Spec => []CInv
  BY CInvInitially, CInvInductive, PTL DEF Spec
<1>2. CInv /\ FrozenAccounted => Consistent
  BY CInvImplies DEF Consistent
<1> QED
  BY <1>1, <1>2, FrozenKeyboardAccounted, PTL

-----------------------------------------------------------------------------
(***************************************************************************)
(* What becomes of the presses.                                            *)
(***************************************************************************)

\* The presses that registryd has been sent and not answered for.
AtHand ==
    NumbersIn(unread)
      \cup (IF task.at = "x" THEN NumbersIn(<<task.event>>) ELSE {})

\* While no event has overtaken another there is one key event at hand at most,
\* the one that froze the keyboard or a release, and every press was consumed or
\* relayed or is at hand.
PInv ==
    ~raced =>
        /\ Len(unread) <= 1
        /\ unread # <<>> => /\ task.at \notin {"x", "allow"}
                            /\ frozen = unread[1].number
        /\ task.at = "x" => frozen = task.event.number
        /\ consumed \cap relayed = {}
        /\ AtHand \cap (consumed \cup relayed) = {}
        /\ consumed \cup relayed \cup AtHand = 1..presses

\* The numbers at hand in each of the three cases.
LEMMA NumbersAre ==
    /\ NumbersIn(<<>>) = {}
    /\ \A e : NumbersIn(<<e>>) = {e.number} \ {0}
<1>1. NumbersIn(<<>>) = {}
  BY DEF NumbersIn
<1>2. ASSUME NEW e PROVE NumbersIn(<<e>>) = {e.number} \ {0}
  BY DEF NumbersIn
<1> QED
  BY <1>1, <1>2

\* A sequence of one at most.
LEMMA OneAtMost ==
    ASSUME NEW S, NEW s \in Seq(S), Len(s) <= 1, s # <<>>
    PROVE  s = <<s[1]>> /\ Head(s) = s[1] /\ Tail(s) = <<>>
<1>1. Len(s) = 1
  <2> DEFINE n == Len(s)
  <2>1. n \in Nat /\ n # 0 /\ n <= 1
    BY LenProperties, EmptySeq
  <2> HIDE DEF n
  <2>2. n = 1
    BY <2>1
  <2> QED
    BY <2>2 DEF n
<1>2. Head(s) = s[1] /\ Tail(s) \in Seq(S) /\ Len(Tail(s)) = 0
  BY <1>1
<1>3. s = <<s[1]>>
  BY <1>1, SeqEqual
<1> QED
  BY <1>2, <1>3

LEMMA SendKeepsPInv ==
    ASSUME CInv, PInv, NEW k \in Keys, Press(k) \/ Release(k)
    PROVE  PInv'
<1> SUFFICES ASSUME ~raced'
             PROVE  PInv'
  BY DEF PInv
<1>1. /\ frozen = 0 /\ UNCHANGED <<task, consumed>>
  BY DEF Press, Release, taskVars, fateVars
<1>2. ~raced
  BY DEF Press, Release, Send
<1>3. /\ Len(unread) <= 1
      /\ unread # <<>> => task.at \notin {"x", "allow"} /\ frozen = unread[1].number
      /\ task.at = "x" => frozen = task.event.number
      /\ consumed \cap relayed = {}
      /\ AtHand \cap (consumed \cup relayed) = {}
      /\ consumed \cup relayed \cup AtHand = 1..presses
  BY <1>2 DEF PInv
<1>4. presses \in Nat /\ unread \in Seq(Events)
  BY DEF CInv, Values
<1>5. ASSUME NEW event, Send(event)
      PROVE  /\ unread = <<>> /\ unread' = <<event>> /\ task.at \notin {"x", "allow"}
             /\ AtHand = {} /\ AtHand' = {event.number} \ {0}
             /\ event.type = "press" => grab = {}
  <2>1. unread = <<>> /\ task.at \notin {"x", "allow"}
    BY <1>5 DEF Send, Handling
  <2>2. unread' = <<event>>
    BY <1>5, <2>1 DEF Send
  <2>3. event.type = "press" => grab = {}
    BY <1>5 DEF Send
  <2> QED
    BY <1>1, <2>1, <2>2, <2>3, NumbersAre DEF AtHand
<1>6. CASE Press(k)
  <2>1. presses' = presses + 1
    BY <1>6 DEF Press
  <2>2. CASE grab # {} \/ k \in Grabbed
    <3> DEFINE event == [key |-> k, type |-> "press", number |-> presses + 1]
    <3>1. Send(event) /\ relayed' = relayed
      BY <1>6, <2>1, <2>2 DEF Press
    <3>2. /\ unread = <<>> /\ unread' = <<event>> /\ task.at \notin {"x", "allow"}
          /\ AtHand = {} /\ AtHand' = {presses + 1} \ {0} /\ grab = {}
      BY <3>1, <1>5
    <3>3. frozen' = presses + 1
      BY <1>6, <2>1, <2>2, <3>2 DEF Press
    <3>4. /\ Len(unread') <= 1 /\ unread'[1].number = presses + 1
      BY <3>2
    <3>5. 1..(presses + 1) = 1..presses \cup {presses + 1} /\ presses + 1 \notin 1..presses
      BY <1>4
    <3>6. consumed \cup relayed = 1..presses
      BY <1>3, <3>2
    <3>7. presses + 1 # 0
      BY <1>4
    <3> HIDE DEF event
    <3> QED
      BY <1>1, <1>3, <2>1, <3>1, <3>2, <3>3, <3>4, <3>5, <3>6, <3>7 DEF PInv
  <2>3. CASE ~(grab # {} \/ k \in Grabbed)
    <3>1. relayed' = relayed \cup {presses + 1} /\ UNCHANGED <<unread, frozen>>
      BY <1>6, <2>1, <2>3 DEF Press
    <3>2. AtHand' = AtHand
      BY <1>1, <3>1 DEF AtHand
    <3>3. 1..(presses + 1) = 1..presses \cup {presses + 1} /\ presses + 1 \notin 1..presses
      BY <1>4
    <3> QED
      BY <1>1, <1>3, <2>1, <3>1, <3>2, <3>3 DEF PInv
  <2> QED
    BY <2>2, <2>3
<1>7. CASE Release(k)
  <2> DEFINE event == [key |-> k, type |-> "release", number |-> 0]
  <2>1. UNCHANGED <<frozen, presses, relayed>>
    BY <1>7 DEF Release, fateVars
  <2>2. CASE Send(event)
    <3>1. /\ unread = <<>> /\ unread' = <<event>> /\ task.at \notin {"x", "allow"}
          /\ AtHand = {} /\ AtHand' = {}
      BY <2>2, <1>5
    <3>2. Len(unread') <= 1 /\ unread'[1].number = 0
      BY <3>1
    <3> HIDE DEF event
    <3> QED
      BY <1>1, <1>3, <2>1, <3>1, <3>2 DEF PInv
  <2>3. CASE UNCHANGED unread
    BY <1>1, <1>3, <2>1, <2>3 DEF PInv, AtHand
  <2> QED
    BY <1>7, <2>2, <2>3 DEF Release
<1> QED
  BY <1>6, <1>7

\* The event that is read is the one at hand.
LEMMA ReadKeepsPInv ==
    ASSUME CInv, PInv, ReadEvent
    PROVE  PInv'
<1>1. /\ UNCHANGED <<frozen, presses, raced, consumed, relayed>>
      /\ unread # <<>> /\ unread' = Tail(unread) /\ task = NoTask
  BY DEF ReadEvent, fateVars
<1> SUFFICES ASSUME ~raced
             PROVE  PInv'
  BY <1>1 DEF PInv
<1>2. unread = <<unread[1]>> /\ Head(unread) = unread[1] /\ unread' = <<>>
  BY <1>1, OneAtMost DEF PInv, CInv, Values
<1>3. task'.at = "x" /\ task'.event = unread[1]
  BY <1>2 DEF ReadEvent, Notify
<1>4. AtHand = NumbersIn(unread) /\ AtHand' = NumbersIn(<<unread[1]>>)
  BY <1>1, <1>2, <1>3, NumbersAre DEF AtHand, NoTask
<1>5. AtHand' = AtHand
  BY <1>2, <1>4
<1>6. Len(unread') <= 1
  BY <1>2
<1> QED
  BY <1>1, <1>2, <1>3, <1>5, <1>6 DEF PInv

\* It is consumed, or let go together with the keyboard it froze.
LEMMA SwallowKeepsPInv ==
    ASSUME CInv, PInv, SwallowPending
    PROVE  PInv'
<1>1. /\ UNCHANGED <<frozen, presses, raced, relayed>> /\ unread' = <<>>
      /\ task.at = "x" /\ consumed' = consumed \cup NumbersIn(<<task.event>>)
  BY DEF SwallowPending
<1> SUFFICES ASSUME ~raced
             PROVE  PInv'
  BY <1>1 DEF PInv
<1>2. unread = <<>>
  BY <1>1 DEF PInv
<1>3. task'.at = "allow"
  <2>1. task \in Tasks
    BY <1>1, TaskParts DEF CInv
  <2> QED
    BY <2>1 DEF SwallowPending, Tasks
<1>4. AtHand = NumbersIn(<<task.event>>) /\ AtHand' = {}
  BY <1>1, <1>2, <1>3, NumbersAre DEF AtHand
<1>5. Len(unread') <= 1
  BY <1>1
<1> QED
  BY <1>1, <1>3, <1>4, <1>5 DEF PInv

LEMMA AllowsKeepPInv ==
    ASSUME CInv, PInv, AllowConsumed \/ AllowUnconsumed
    PROVE  PInv'
<1>1. UNCHANGED <<unread, presses, raced, consumed>> /\ task' = NoTask
  BY DEF AllowConsumed, AllowUnconsumed, fateVars
<1>2. task'.at = "none"
  BY <1>1 DEF NoTask
<1> SUFFICES ASSUME ~raced
             PROVE  PInv'
  BY <1>1 DEF PInv
<1>3. unread = <<>>
  BY DEF PInv, AllowConsumed, AllowUnconsumed
<1>4. AtHand' = {} /\ Len(unread') <= 1
  BY <1>1, <1>2, <1>3, NumbersAre DEF AtHand
<1>5. CASE AllowConsumed
  <2>1. AtHand = {} /\ relayed' = relayed
    BY <1>3, <1>5, NumbersAre DEF AtHand, AllowConsumed, fateVars
  <2> QED
    BY <1>1, <1>2, <1>3, <1>4, <2>1 DEF PInv
<1>6. CASE AllowUnconsumed
  <2>1. task.at = "x" /\ relayed' = IF frozen # 0 THEN relayed \cup {frozen} ELSE relayed
    BY <1>6 DEF AllowUnconsumed, ReplayKeyboard
  <2>2. AtHand = {frozen} \ {0}
    BY <1>3, <2>1, NumbersAre DEF AtHand, PInv
  <2>3. relayed' = relayed \cup AtHand
    BY <2>1, <2>2
  <2> QED
    BY <1>1, <1>2, <1>3, <1>4, <2>3 DEF PInv
<1> QED
  BY <1>5, <1>6

\* All other steps leave the key event at hand where it is.
LEMMA OthersKeepPInv ==
    ASSUME CInv, PInv,
           ListenerAnswers \/ NotifyEnds \/ EndDispatch \/ CheckRelease \/ Requests
    PROVE  PInv'
<1>1. UNCHANGED <<unread, frozen, presses, raced, consumed, relayed>>
  BY DEF ListenerAnswers, NotifyEnds, EndDispatch, CheckRelease, Requests,
         NotifyListeners, RegisterKeystrokeListener, DeregisterKeystrokeListener,
         ClientLeaves, serverVars, fateVars
<1>2. \/ task.at \notin {"x", "allow"} /\ task'.at \notin {"x", "allow"}
      \/ task'.at = task.at /\ task'.event = task.event
  <2>1. CASE ListenerAnswers
    <3>1. task \in Tasks
      BY <2>1, TaskParts DEF ListenerAnswers, CInv
    <3> QED
      BY <2>1, <3>1 DEF ListenerAnswers, Tasks
  <2>2. CASE NotifyEnds
    BY <2>2 DEF NotifyEnds, NoTask
  <2>3. CASE EndDispatch
    BY <2>3 DEF EndDispatch
  <2>4. CASE CheckRelease
    BY <2>4 DEF CheckRelease, MainLoop, Notify, NoTask
  <2>5. CASE Requests
    <3>1. ASSUME NEW event, NotifyListeners(event)
          PROVE  task.at \notin {"x", "allow"} /\ task'.at \notin {"x", "allow"}
      BY <3>1 DEF NotifyListeners, MainLoop, Notify, NoTask
    <3>2. ASSUME NEW l, RegisterKeystrokeListener(l) \/ DeregisterKeystrokeListener(l)
          PROVE  UNCHANGED task
      BY <3>2 DEF RegisterKeystrokeListener, DeregisterKeystrokeListener, taskVars
    <3>3. ASSUME NEW c, ClientLeaves(c) PROVE UNCHANGED task
      BY <3>3 DEF ClientLeaves, taskVars
    <3> QED
      BY <2>5, <3>1, <3>2, <3>3 DEF Requests
  <2> QED
    BY <2>1, <2>2, <2>3, <2>4, <2>5
<1>3. AtHand' = AtHand
  BY <1>1, <1>2 DEF AtHand
<1> QED
  BY <1>1, <1>2, <1>3 DEF PInv

LEMMA PInvInductive ==
    ASSUME CInv, PInv, [Next]_vars
    PROVE  PInv'
<1>1. CASE Keyboard
  BY <1>1, SendKeepsPInv DEF Keyboard
<1>2. CASE Handles
  BY <1>2, ReadKeepsPInv, SwallowKeepsPInv, AllowsKeepPInv, OthersKeepPInv DEF Handles
<1>3. CASE CheckRelease \/ Requests
  BY <1>3, OthersKeepPInv
<1>4. CASE UNCHANGED vars
  BY <1>4 DEF vars, serverVars, taskVars, fateVars, PInv, AtHand
<1> QED
  BY <1>1, <1>2, <1>3, <1>4 DEF Next

LEMMA PInvInitially == Init => PInv
<1> SUFFICES ASSUME Init PROVE PInv
  OBVIOUS
<1>1. task.at = "none" /\ Len(unread) <= 1
  BY DEF Init, NoTask
<1>2. AtHand = {}
  BY <1>1, NumbersAre DEF Init, AtHand
<1> QED
  BY <1>1, <1>2 DEF Init, PInv

\* As long as each key event is handled before the next comes, every press is
\* consumed by a listener or relayed to the application, and not both.
THEOREM EveryPressOnce == Spec => []PressesOnce
<1>1. Spec => []CInv
  BY CInvInitially, CInvInductive, PTL DEF Spec
<1>2. Spec => []PInv
  BY <1>1, PInvInitially, PInvInductive, PTL DEF Spec
<1>3. PInv => PressesOnce
  <2> SUFFICES ASSUME PInv, ~raced
               PROVE  /\ consumed \cap relayed = {}
                      /\ ~Handling => consumed \cup relayed = 1..presses
    BY DEF PressesOnce
  <2>1. ~Handling => AtHand = {}
    BY NumbersAre DEF Handling, AtHand
  <2> QED
    BY <2>1 DEF PInv
<1> QED
  BY <1>2, <1>3, PTL

-----------------------------------------------------------------------------
(***************************************************************************)
(* The client (ClientCalls): the callbacks of its listeners.               *)
(***************************************************************************)

\* The youngest callback comes first, all of them are wanted, and every callback
\* that is wanted is there.
Descending(list) == \A i, j \in DOMAIN list : i < j => list[i].node > list[j].node

CallbackList(list, those, count) ==
    /\ list \in Seq(Node)
    /\ Descending(list)
    /\ \A i \in DOMAIN list : list[i].node <= count /\ list[i].callback \in those
    /\ \A c \in those : \E i \in DOMAIN list : list[i].callback = c

LEMMA NodeParts ==
    ASSUME MaxNodes \in Nat, NEW list \in Seq(Node), NEW i \in DOMAIN list
    PROVE  /\ list[i] \in Node
           /\ list[i].node \in 1..MaxNodes /\ list[i].node \in Int
           /\ list[i].callback \in Callbacks
<1>1. list[i] \in Node
  OBVIOUS
<1> QED
  BY <1>1 DEF Node

\* A callback that is added comes first.
LEMMA AddsNode ==
    ASSUME NEW list, NEW those, NEW count \in Nat, CallbackList(list, those, count),
           MaxNodes \in Nat, count < MaxNodes, NEW c \in Callbacks
    PROVE  LET more == <<[node |-> count + 1, callback |-> c]>> \o list
           IN  /\ CallbackList(more, those \cup {c}, count + 1)
               /\ \A i \in DOMAIN list : \E j \in DOMAIN more : more[j] = list[i]
<1> DEFINE e == [node |-> count + 1, callback |-> c]
           more == <<e>> \o list
<1>1. list \in Seq(Node) /\ DOMAIN list = 1..Len(list) /\ Len(list) \in Nat
  BY DEF CallbackList
<1>2. e \in Node /\ e.node = count + 1 /\ e.callback = c
  BY DEF Node
<1> HIDE DEF e
<1>3. /\ more \in Seq(Node) /\ DOMAIN more = 1..(Len(list) + 1)
      /\ more[1] = e /\ \A i \in DOMAIN list : i + 1 \in DOMAIN more /\ more[i + 1] = list[i]
      /\ \A i \in DOMAIN more : i = 1 \/ (i - 1 \in DOMAIN list /\ more[i] = list[i - 1])
  <2>1. more \in Seq(Node) /\ Len(more) = Len(list) + 1
    BY <1>1, <1>2
  <2>2. DOMAIN more = 1..(Len(list) + 1) /\ DOMAIN list = 1..Len(list)
    BY <1>1, <2>1
  <2>3. more[1] = e /\ \A i \in 1..Len(list) : more[i + 1] = list[i]
    BY <1>1, <1>2
  <2> HIDE DEF more
  <2>4. \A i \in DOMAIN list : i + 1 \in DOMAIN more
    BY <1>1, <2>2
  <2>5. ASSUME NEW i \in DOMAIN more, i # 1
        PROVE  i - 1 \in DOMAIN list /\ more[i] = list[i - 1]
    <3>1. i - 1 \in 1..Len(list) /\ (i - 1) + 1 = i
      BY <1>1, <2>2, <2>5
    <3> QED
      BY <2>2, <2>3, <3>1
  <2> QED
    BY <2>1, <2>2, <2>3, <2>4, <2>5
<1> HIDE DEF more
<1>4. \A i \in DOMAIN list : list[i].node <= count /\ list[i].node \in Int
  BY <1>1, NodeParts DEF CallbackList
<1>5. Descending(more)
  <2> SUFFICES ASSUME NEW i \in DOMAIN more, NEW j \in DOMAIN more, i < j
               PROVE  more[i].node > more[j].node
    BY DEF Descending
  <2>1. i \in Nat /\ j \in Nat /\ i >= 1
    BY <1>3, <1>1
  <2>2. j - 1 \in DOMAIN list /\ more[j] = list[j - 1]
    BY <1>3, <2>1
  <2>3. CASE i = 1
    BY <1>2, <1>3, <1>4, <2>2, <2>3
  <2>4. CASE i # 1
    <3>1. i - 1 \in DOMAIN list /\ more[i] = list[i - 1] /\ i - 1 < j - 1
      BY <1>3, <2>1, <2>4
    <3> QED
      BY <2>2, <3>1 DEF CallbackList, Descending
  <2> QED
    BY <2>3, <2>4
<1>6. \A i \in DOMAIN more : more[i].node <= count + 1 /\ more[i].callback \in those \cup {c}
  <2> SUFFICES ASSUME NEW i \in DOMAIN more
               PROVE  more[i].node <= count + 1 /\ more[i].callback \in those \cup {c}
    OBVIOUS
  <2>1. CASE i = 1
    BY <1>2, <1>3, <2>1
  <2>2. CASE i # 1
    <3>1. i - 1 \in DOMAIN list /\ more[i] = list[i - 1]
      BY <1>3, <2>2
    <3> QED
      BY <1>4, <3>1 DEF CallbackList
  <2> QED
    BY <2>1, <2>2
<1>7. ASSUME NEW i \in DOMAIN list PROVE \E j \in DOMAIN more : more[j] = list[i]
  BY <1>3
<1>8. ASSUME NEW d \in those \cup {c} PROVE \E j \in DOMAIN more : more[j].callback = d
  <2>1. CASE d = c
    <3>1. 1 \in DOMAIN more
      BY <1>1, <1>3
    <3> QED
      BY <1>2, <1>3, <2>1, <3>1
  <2>2. CASE d # c
    <3>1. PICK i \in DOMAIN list : list[i].callback = d
      BY <2>2 DEF CallbackList
    <3> QED
      BY <1>7, <3>1
  <2> QED
    BY <2>1, <2>2
<1> QED
  BY <1>3, <1>5, <1>6, <1>7, <1>8 DEF CallbackList, more, e

\* All nodes of a callback are taken out, and no others.
LEMMA RemovesNodes ==
    ASSUME NEW list, NEW those, NEW count, CallbackList(list, those, count), NEW c
    PROVE  /\ CallbackList(RemoveByCb(list, c), those \ {c}, count)
           /\ \A i \in DOMAIN list : list[i].callback # c =>
                 \E j \in DOMAIN RemoveByCb(list, c) : RemoveByCb(list, c)[j] = list[i]
<1> DEFINE others == {e \in ToSet(list) : e.callback # c}
           fewer == Only(list, others)
<1>1. list \in Seq(Node) /\ RemoveByCb(list, c) = fewer
  BY DEF CallbackList, RemoveByCb
<1>2. \A i \in DOMAIN list : list[i] \in others <=> list[i].callback # c
  BY DEF ToSet
<1>3. \A e \in others : e.callback # c
  OBVIOUS
<1> HIDE DEF others
<1>4. /\ Only(list, others) \in Seq(Node \cap others)
      /\ \A i \in DOMAIN list : list[i] \in others =>
            \E n \in DOMAIN Only(list, others) : Only(list, others)[n] = list[i]
      /\ \A n \in DOMAIN Only(list, others) :
            \E i \in DOMAIN list : Only(list, others)[n] = list[i]
      /\ \A m, n \in DOMAIN Only(list, others) : m < n =>
            \E i, j \in DOMAIN list : /\ i < j
                                     /\ Only(list, others)[m] = list[i]
                                     /\ Only(list, others)[n] = list[j]
  <2>1. list \in Seq(Node)
    BY <1>1
  <2> QED
    BY <2>1, OnlySelects
<1> HIDE DEF fewer
<1>5. /\ fewer \in Seq(Node \cap others)
      /\ \A i \in DOMAIN list : list[i] \in others => \E n \in DOMAIN fewer : fewer[n] = list[i]
      /\ \A n \in DOMAIN fewer : \E i \in DOMAIN list : fewer[n] = list[i]
      /\ \A m, n \in DOMAIN fewer : m < n =>
            \E i, j \in DOMAIN list : i < j /\ fewer[m] = list[i] /\ fewer[n] = list[j]
  BY <1>4 DEF fewer
<1>6. /\ fewer \in Seq(Node)
      /\ \A n \in DOMAIN fewer : fewer[n] \in others
  BY <1>5
<1>7. Descending(fewer)
  <2> SUFFICES ASSUME NEW m \in DOMAIN fewer, NEW n \in DOMAIN fewer, m < n
               PROVE  fewer[m].node > fewer[n].node
    BY DEF Descending
  <2>1. PICK i \in DOMAIN list, j \in DOMAIN list :
            i < j /\ fewer[m] = list[i] /\ fewer[n] = list[j]
    BY <1>5
  <2> QED
    BY <2>1 DEF Descending, CallbackList
<1>8. \A n \in DOMAIN fewer : fewer[n].node <= count /\ fewer[n].callback \in those \ {c}
  <2> SUFFICES ASSUME NEW n \in DOMAIN fewer
               PROVE  fewer[n].node <= count /\ fewer[n].callback \in those \ {c}
    OBVIOUS
  <2>1. PICK i \in DOMAIN list : fewer[n] = list[i]
    BY <1>5
  <2> QED
    BY <1>3, <1>6, <2>1 DEF CallbackList
<1>9. \A i \in DOMAIN list : list[i].callback # c => \E j \in DOMAIN fewer : fewer[j] = list[i]
  BY <1>2, <1>5
<1>10. \A d \in those \ {c} : \E j \in DOMAIN fewer : fewer[j].callback = d
  BY <1>9 DEF CallbackList
<1> QED
  BY <1>1, <1>6, <1>7, <1>8, <1>9, <1>10 DEF CallbackList

\* The callbacks of all listeners.
ListInv ==
    /\ callbacks \in [Listeners -> Seq(Node)]
    /\ freed \subseteq Listeners
    /\ made \in 0..MaxNodes
    /\ wanted \in [Listeners -> SUBSET Callbacks]
    /\ \A l \in Listeners : CallbackList(callbacks[l], wanted[l], made)

\* The nodes of a listener, and what is called at one.
LEMMA NodesAre ==
    ASSUME ListInv, MaxNodes \in Nat, NEW l \in Listeners
    PROVE  /\ \A n : n \in Nodes(l) <=> \E i \in DOMAIN callbacks[l] : callbacks[l][i].node = n
           /\ Nodes(l) \subseteq 1..MaxNodes
           /\ \A i \in DOMAIN callbacks[l] :
                 CallbackAt(l, callbacks[l][i].node) = callbacks[l][i].callback
<1> DEFINE list == callbacks[l]
<1>1. list \in Seq(Node) /\ Descending(list) /\ DOMAIN list = 1..Len(list)
  BY DEF ListInv, CallbackList
<1>2. \A e : e \in ToSet(list) <=> \E i \in DOMAIN list : e = list[i]
  BY DEF ToSet
<1>3. Nodes(l) = {e.node : e \in ToSet(list)}
  BY DEF Nodes
<1>4. \A n : CallbackAt(l, n) = (CHOOSE e \in ToSet(list) : e.node = n).callback
  BY DEF CallbackAt
<1> HIDE DEF list
<1>5. \A n : n \in Nodes(l) <=> \E i \in DOMAIN list : list[i].node = n
  BY <1>2, <1>3
<1>6. Nodes(l) \subseteq 1..MaxNodes
  BY <1>1, <1>5, NodeParts
<1>7. ASSUME NEW i \in DOMAIN list, NEW j \in DOMAIN list, list[i].node = list[j].node
      PROVE  i = j
  <2>1. list[i].node \in Int /\ i \in Int /\ j \in Int
    BY <1>1, NodeParts
  <2>2. ~(i < j) /\ ~(j < i)
    BY <1>1, <1>7, <2>1 DEF Descending
  <2> QED
    BY <2>1, <2>2
<1>8. ASSUME NEW i \in DOMAIN list
      PROVE  CallbackAt(l, list[i].node) = list[i].callback
  <2> DEFINE e == CHOOSE e \in ToSet(list) : e.node = list[i].node
  <2>1. e \in ToSet(list) /\ e.node = list[i].node
    BY <1>2
  <2> HIDE DEF e
  <2>2. e = list[i]
    BY <1>2, <1>7, <2>1
  <2> QED
    BY <1>4, <2>2 DEF e
<1> QED
  BY <1>5, <1>6, <1>8 DEF list

\* A set of natural numbers has a least one.
LEMMA Least ==
    ASSUME NEW S \in SUBSET Nat, S # {}
    PROVE  \E m \in S : \A k \in S : m <= k
<1>1. IsWellFoundedOn(OpToRel(<, Nat), Nat)
  BY NatLessThanWellFounded
<1>2. PICK m \in S : \A k \in S : <<k, m>> \notin OpToRel(<, Nat)
  BY <1>1, WFMin
<1>3. \A k \in S : ~(k < m)
  BY <1>2 DEF OpToRel
<1> QED
  BY <1>3

\* A walk begins with the youngest node ...
LEMMA FirstIs ==
    ASSUME ListInv, MaxNodes \in Nat, NEW l \in Listeners, callbacks[l] # <<>>
    PROVE  /\ FirstNode(l) \in Nodes(l)
           /\ \A n \in Nodes(l) : n <= FirstNode(l)
<1> DEFINE list == callbacks[l]
<1>1. list \in Seq(Node) /\ Descending(list) /\ DOMAIN list = 1..Len(list) /\ Len(list) \in Nat
  BY DEF ListInv, CallbackList
<1>2. 1 \in DOMAIN list /\ Head(list) = list[1] /\ FirstNode(l) = list[1].node
  BY <1>1 DEF FirstNode
<1> HIDE DEF list
<1>3. \A i \in DOMAIN list : list[i].node <= list[1].node
  <2> SUFFICES ASSUME NEW i \in DOMAIN list PROVE list[i].node <= list[1].node
    OBVIOUS
  <2>1. list[i].node \in Int /\ list[1].node \in Int
    BY <1>1, <1>2, NodeParts
  <2>2. i = 1 \/ 1 < i
    BY <1>1
  <2> QED
    BY <1>1, <1>2, <2>1, <2>2 DEF Descending
<1>4. \A n : n \in Nodes(l) <=> \E i \in DOMAIN list : list[i].node = n
  BY NodesAre DEF list
<1> QED
  BY <1>2, <1>3, <1>4

\* ... and goes on with the next younger one, whatever was added or removed.
LEMMA NextIs ==
    ASSUME ListInv, MaxNodes \in Nat, NEW l \in Listeners, NEW n \in Nat
    PROVE  /\ NextNode(l, n) = End => \A m \in Nodes(l) : ~(m < n)
           /\ NextNode(l, n) # End => /\ NextNode(l, n) \in Nodes(l)
                                      /\ NextNode(l, n) < n
                                      /\ \A m \in Nodes(l) : m < n => m <= NextNode(l, n)
<1> DEFINE list == callbacks[l]
           older == {m \in Nodes(l) : m < n}
           places == {i \in DOMAIN list : list[i].node < n}
<1>1. /\ list \in Seq(Node) /\ Descending(list) /\ DOMAIN list = 1..Len(list)
      /\ \A m : m \in Nodes(l) <=> \E i \in DOMAIN list : list[i].node = m
      /\ Nodes(l) \subseteq 1..MaxNodes
  BY NodesAre DEF ListInv, CallbackList
<1>2. NextNode(l, n) = IF older = {} THEN End ELSE CHOOSE m \in older : \A k \in older : k <= m
  BY DEF NextNode
<1>3. CASE older = {}
  BY <1>2, <1>3 DEF End
<1>4. CASE older # {}
  <2> HIDE DEF list
  <2>1. places \in SUBSET Nat /\ places # {}
    BY <1>1, <1>4
  <2>2. PICK i \in places : \A j \in places : i <= j
    <3> HIDE DEF places
    <3> QED
      BY <2>1, Least
  <2>3. ASSUME NEW j \in places PROVE list[j].node <= list[i].node
    <3>1. i = j \/ i < j
      BY <2>1, <2>2
    <3>2. list[i].node \in Int /\ list[j].node \in Int
      BY <1>1, NodeParts
    <3> QED
      BY <1>1, <3>1, <3>2 DEF Descending
  <2>4. list[i].node \in older /\ \A k \in older : k <= list[i].node
    BY <1>1, <2>3
  <2>5. NextNode(l, n) \in older /\ \A k \in older : k <= NextNode(l, n)
    <3> HIDE DEF older
    <3> QED
      BY <1>2, <1>4, <2>4
  <2> QED
    BY <1>1, <2>5 DEF End
<1> QED
  BY <1>3, <1>4

\* Who is called at a node is wanted.
LEMMA CalledWanted ==
    ASSUME ListInv, MaxNodes \in Nat, NEW l \in Listeners, NEW n \in Nodes(l)
    PROVE  /\ CallbackAt(l, n) \in wanted[l]
           /\ CallbackAt(l, n) \in Callbacks
           /\ n \in 1..MaxNodes
<1>1. PICK i \in DOMAIN callbacks[l] : callbacks[l][i].node = n
  BY NodesAre
<1>2. CallbackAt(l, n) = callbacks[l][i].callback
  BY <1>1, NodesAre
<1>3. callbacks[l][i].callback \in wanted[l]
  BY DEF ListInv, CallbackList
<1>4. n \in 1..MaxNodes
  BY NodesAre
<1> QED
  BY <1>2, <1>3, <1>4 DEF ListInv

\* A behaviour is about one world.
LEMMA ObjectsLeaveDevices ==
    ASSUME ObjectsNext PROVE UNCHANGED deviceVars
<1>1. ASSUME NEW o \in Objects, NEW m, CallFunction(o, m) \/ GetKept(o, m) \/ ClearCache(o)
      PROVE  UNCHANGED deviceVars
  BY <1>1 DEF CallFunction, GetKept, ClearCache
<1>2. ASSUME OwnConnection \/ DisposeApplication \/ DisposeAccessible
      PROVE  UNCHANGED deviceVars
  BY <1>2 DEF OwnConnection, DisposeApplication, DisposeAccessible
<1> QED
  BY <1>1, <1>2 DEF ObjectsNext

LEMMA DevicesLeaveObjects ==
    ASSUME DevicesNext, ~DeregistrationCrashes PROVE UNCHANGED <<world, objectVars>>
BY DEF DevicesNext, ClientRuns, RegistrydRuns, Dispatch, RunIdle, DrainEnds, AddCallback,
   RemoveCallback, Finalize, HandleDeviceEvent, ApplicationReturns, TimeOut, HandleQueue,
   NotifyEvent, CallbackReturns, CallRegistryd, CallApplication, Event, GiveUp

LEMMA CrashLeavesDevices ==
    ASSUME DeregistrationCrashes PROVE UNCHANGED <<world, deviceVars>>
BY DEF DeregistrationCrashes

LEMMA ListInvInductive ==
    ASSUME ClientCallsAssumption, ListInv, [ClientNext]_clientVars
    PROVE  ListInv'
<1>1. MaxNodes \in Nat
  BY DEF ClientCallsAssumption
<1>2. ASSUME NEW l \in Listeners, NEW c \in Callbacks, AddCallback(l, c)
      PROVE  ListInv'
  <2> DEFINE more == <<[node |-> made + 1, callback |-> c]>> \o callbacks[l]
             those == wanted[l] \cup {c}
  <2>1. /\ made' = made + 1 /\ made \in Nat /\ made < MaxNodes
        /\ callbacks' = [callbacks EXCEPT ![l] = more]
        /\ wanted' = [wanted EXCEPT ![l] = those]
        /\ UNCHANGED freed
    BY <1>2 DEF AddCallback, ListInv
  <2>2. CallbackList(more, those, made + 1)
    BY <1>1, <2>1, AddsNode DEF ListInv
  <2>3. more \in Seq(Node) /\ those \subseteq Callbacks
    BY <2>2 DEF CallbackList, ListInv
  <2> HIDE DEF more, those
  <2>4. /\ callbacks' \in [Listeners -> Seq(Node)]
        /\ wanted' \in [Listeners -> SUBSET Callbacks]
        /\ freed' \subseteq Listeners /\ made' \in 0..MaxNodes
    BY <1>1, <2>1, <2>3 DEF ListInv
  <2>5. ASSUME NEW k \in Listeners
        PROVE  CallbackList(callbacks'[k], wanted'[k], made')
    <3>1. CASE k = l
      <4>1. callbacks'[k] = more /\ wanted'[k] = those
        BY <2>1, <3>1 DEF ListInv
      <4> QED
        BY <2>1, <2>2, <4>1
    <3>2. CASE k # l
      <4>1. callbacks'[k] = callbacks[k] /\ wanted'[k] = wanted[k]
        BY <2>1, <3>2 DEF ListInv
      <4>2. CallbackList(callbacks[k], wanted[k], made)
        BY DEF ListInv
      <4>3. \A i \in DOMAIN callbacks[k] : callbacks[k][i].node \in Int
        BY <1>1, <4>2, NodeParts DEF CallbackList
      <4> QED
        BY <2>1, <4>1, <4>2, <4>3 DEF CallbackList
    <3> QED
      BY <3>1, <3>2
  <2> QED
    BY <2>4, <2>5 DEF ListInv
<1>3. ASSUME NEW l \in Listeners, NEW c \in Callbacks, RemoveCallback(l, c)
      PROVE  ListInv'
  <2> DEFINE fewer == RemoveByCb(callbacks[l], c)
             those == wanted[l] \ {c}
  <2>1. /\ callbacks' = [callbacks EXCEPT ![l] = fewer]
        /\ wanted' = [wanted EXCEPT ![l] = those]
        /\ UNCHANGED <<freed, made>>
    BY <1>3 DEF RemoveCallback
  <2>2. CallbackList(fewer, those, made)
    BY RemovesNodes DEF ListInv
  <2>3. fewer \in Seq(Node) /\ those \subseteq Callbacks
    BY <2>2 DEF CallbackList, ListInv
  <2> HIDE DEF fewer, those
  <2> QED
    BY <2>1, <2>2, <2>3 DEF ListInv
<1>4. ASSUME NEW l \in Listeners, Finalize(l)
      PROVE  ListInv'
  <2>1. CallbackList(<<>>, {}, made)
    BY DEF CallbackList, Descending
  <2>2. /\ callbacks' = [callbacks EXCEPT ![l] = <<>>]
        /\ wanted' = [wanted EXCEPT ![l] = {}]
        /\ freed' = freed \cup {l} /\ UNCHANGED made
    BY <1>4 DEF Finalize
  <2>3. <<>> \in Seq(Node)
    OBVIOUS
  <2> QED
    BY <2>1, <2>2, <2>3 DEF ListInv
<1>5. ASSUME UNCHANGED callbackVars
      PROVE  ListInv'
  BY <1>5 DEF callbackVars, ListInv
<1>6. CASE DevicesNext
  <2>1. \/ UNCHANGED callbackVars
        \/ \E l \in Listeners : \/ \E c \in Callbacks : AddCallback(l, c) \/ RemoveCallback(l, c)
                                \/ Finalize(l)
    BY <1>6 DEF DevicesNext, ClientRuns, RegistrydRuns, Dispatch, RunIdle, DrainEnds,
       HandleDeviceEvent, ApplicationReturns, TimeOut, HandleQueue, NotifyEvent, CallbackReturns,
       CallRegistryd, CallApplication, Event, GiveUp, DeregistrationCrashes, deviceVars
  <2> QED
    BY <1>2, <1>3, <1>4, <1>5, <2>1
<1>7. CASE ObjectsNext \/ UNCHANGED clientVars
  <2>1. UNCHANGED callbackVars
    BY <1>7, ObjectsLeaveDevices DEF clientVars, deviceVars
  <2> QED
    BY <1>5, <2>1
<1> QED
  BY <1>6, <1>7 DEF ClientNext

-----------------------------------------------------------------------------
(* Its calls: every registration it was told of is one of registryd's.     *)

\* What was told of is held, and nothing in the queue takes it back: the queue is
\* in the order of the calls, and the last of them is the one the client waits for.
CallInv ==
    /\ calls \in 0..MaxCalls
    /\ waiting \in [op : {"register", "deregister", "ask"}, id : {calls}] \cup {NoCall}
    /\ queue \in Seq([call : Calls, id : 1..MaxCalls])
    /\ \A i \in DOMAIN queue : queue[i].id <= calls
    /\ \A i, j \in DOMAIN queue : i < j => queue[i].id < queue[j].id
    /\ held \in Seq(Entry)
    /\ \A e \in told :
        /\ \E i \in DOMAIN held : held[i] = e
        /\ \A i \in DOMAIN queue :
            queue[i].call.op = "deregister" =>
                <<queue[i].call.kind, queue[i].call.listener>> # e

LEMMA ToldHeldImplied ==
    ASSUME CallInv PROVE ToldHeld /\ told \subseteq Entry
<1>1. \A e \in told : \E i \in DOMAIN held : held[i] = e
  BY DEF CallInv
<1>2. \A i \in DOMAIN held : held[i] \in Entry
  BY DEF CallInv
<1> QED
  BY <1>1, <1>2 DEF ToldHeld, ToSet

LEMMA QueueParts ==
    ASSUME CallInv, NEW i \in DOMAIN queue
    PROVE  /\ queue[i].id \in Int /\ queue[i].call \in Calls
           /\ <<queue[i].call.kind, queue[i].call.listener>> \in Entry
           /\ queue[i].call.op \in {"register", "deregister"}
<1> DEFINE T == [call : Calls, id : 1..MaxCalls]
<1>0. queue \in Seq(T)
  BY DEF CallInv
<1>1. queue[i] \in T
  <2> HIDE DEF T
  <2> QED
    BY <1>0
<1>2. queue[i].id \in 1..MaxCalls /\ queue[i].call \in Calls
  BY <1>1
<1> QED
  BY <1>2 DEF Calls, Entry

\* A call is put behind the others.
LEMMA CallRegistrydKeeps ==
    ASSUME ClientCallsAssumption, CallInv, NEW call \in Calls, CallRegistryd(call)
    PROVE  CallInv'
<1> DEFINE entry == [call |-> call, id |-> calls + 1]
           more == Append(queue, entry)
           left == <<call.kind, call.listener>>
<1>1. /\ calls \in Nat /\ MaxCalls \in Nat /\ calls < MaxCalls /\ calls' = calls + 1
      /\ waiting' = [op |-> call.op, id |-> calls + 1]
      /\ queue' = more
      /\ told' = IF call.op = "deregister" THEN told \ {left} ELSE told
      /\ held' = held
  BY DEF CallRegistryd, CallInv, ClientCallsAssumption, Queued, registrydVars
<1>2. entry \in [call : Calls, id : 1..MaxCalls] /\ entry.id = calls + 1 /\ entry.call = call
  BY <1>1
<1>3. queue \in Seq([call : Calls, id : 1..MaxCalls]) /\ DOMAIN queue = 1..Len(queue)
  BY DEF CallInv
<1>4. call.op \in {"register", "deregister"}
  BY DEF Calls
<1> HIDE DEF entry
<1>5. /\ more \in Seq([call : Calls, id : 1..MaxCalls])
      /\ DOMAIN more = 1..(Len(queue) + 1) /\ Len(queue) \in Nat
      /\ more[Len(queue) + 1] = entry
      /\ \A i \in DOMAIN queue : more[i] = queue[i]
      /\ \A i \in DOMAIN more : i \in DOMAIN queue \/ i = Len(queue) + 1
  BY <1>2, <1>3
<1> HIDE DEF more
<1>6. \A i \in DOMAIN more : more[i].id <= calls + 1
  <2> SUFFICES ASSUME NEW i \in DOMAIN more PROVE more[i].id <= calls + 1
    OBVIOUS
  <2>1. CASE i \in DOMAIN queue
    <3>1. queue[i].id <= calls /\ queue[i].id \in Int
      BY <2>1, QueueParts DEF CallInv
    <3> QED
      BY <1>1, <1>5, <2>1, <3>1
  <2> QED
    BY <1>1, <1>2, <1>5, <2>1
<1>7. \A i, j \in DOMAIN more : i < j => more[i].id < more[j].id
  <2> SUFFICES ASSUME NEW i \in DOMAIN more, NEW j \in DOMAIN more, i < j
               PROVE  more[i].id < more[j].id
    OBVIOUS
  <2>1. i \in DOMAIN queue /\ more[i] = queue[i]
    BY <1>3, <1>5
  <2>2. CASE j \in DOMAIN queue
    BY <1>5, <2>1, <2>2 DEF CallInv
  <2>3. CASE j = Len(queue) + 1
    <3>1. queue[i].id <= calls /\ queue[i].id \in Int
      BY <2>1, QueueParts DEF CallInv
    <3> QED
      BY <1>1, <1>2, <1>5, <2>1, <2>3, <3>1
  <2> QED
    BY <1>5, <2>2, <2>3
<1>8. ASSUME NEW e \in told'
      PROVE  /\ \E i \in DOMAIN held : held[i] = e
             /\ \A i \in DOMAIN more :
                  more[i].call.op = "deregister" =>
                      <<more[i].call.kind, more[i].call.listener>> # e
  <2>1. e \in told /\ (call.op = "deregister" => left # e)
    BY <1>1
  <2>2. /\ \E i \in DOMAIN held : held[i] = e
        /\ \A i \in DOMAIN queue : queue[i].call.op = "deregister" =>
              <<queue[i].call.kind, queue[i].call.listener>> # e
    BY <2>1 DEF CallInv
  <2>3. entry.call.op = "deregister" => <<entry.call.kind, entry.call.listener>> # e
    BY <1>2, <2>1
  <2>4. \A i \in DOMAIN more : (i \in DOMAIN queue /\ more[i] = queue[i]) \/ more[i] = entry
    BY <1>5
  <2> QED
    BY <2>2, <2>3, <2>4
<1>9. waiting' \in [op : {"register", "deregister", "ask"}, id : {calls'}]
  BY <1>1, <1>4
<1> QED
  BY <1>1, <1>5, <1>6, <1>7, <1>8, <1>9 DEF CallInv

\* registryd handles the oldest call.  The client hears of it if it is the last.
LEMMA HandleQueueKeeps ==
    ASSUME CallInv, HandleQueue
    PROVE  CallInv'
<1> DEFINE call == Head(queue).call
           entry == <<call.kind, call.listener>>
           heard == Waiting /\ waiting.id = Head(queue).id
           others == ToSet(held) \ {entry}
           rest == Tail(queue)
<1>1. /\ queue # <<>> /\ queue' = rest /\ calls' = calls
      /\ held' = IF call.op = "register" THEN <<entry>> \o held ELSE Only(held, others)
      /\ told' = IF heard /\ call.op = "register" /\ call.kind = "key"
                 THEN told \cup {entry} ELSE told
      /\ waiting' = IF heard THEN NoCall ELSE waiting
  BY DEF HandleQueue
<1>2. /\ queue \in Seq([call : Calls, id : 1..MaxCalls]) /\ DOMAIN queue = 1..Len(queue)
      /\ held \in Seq(Entry)
  BY DEF CallInv
<1>3. Len(queue) \in Nat /\ 1 \in DOMAIN queue /\ Head(queue) = queue[1]
  BY <1>1, <1>2
<1>4. /\ rest \in Seq([call : Calls, id : 1..MaxCalls])
      /\ \A i \in DOMAIN rest : i \in Int /\ i + 1 \in DOMAIN queue /\ rest[i] = queue[i + 1] /\ 1 < i + 1
  BY <1>1, <1>2
<1>5. /\ \A i \in DOMAIN rest : rest[i].id <= calls
      /\ \A i, j \in DOMAIN rest : i < j => rest[i].id < rest[j].id
  <2>1. \A i \in DOMAIN rest : rest[i].id <= calls
    BY <1>4 DEF CallInv
  <2>2. ASSUME NEW i \in DOMAIN rest, NEW j \in DOMAIN rest, i < j
        PROVE  rest[i].id < rest[j].id
    <3>1. /\ i + 1 \in DOMAIN queue /\ j + 1 \in DOMAIN queue /\ i + 1 < j + 1
          /\ rest[i] = queue[i + 1] /\ rest[j] = queue[j + 1]
      BY <1>4, <2>2
    <3> QED
      BY <3>1 DEF CallInv
  <2> QED
    BY <2>1, <2>2
<1>6. entry \in Entry /\ call.op \in {"register", "deregister"} /\ queue[1].id \in Int
  BY <1>3, QueueParts
<1>7. \A e \in told : \A i \in DOMAIN rest :
          rest[i].call.op = "deregister" =>
              <<rest[i].call.kind, rest[i].call.listener>> # e
  BY <1>4 DEF CallInv
<1>8. heard => DOMAIN rest = {}
  <2> SUFFICES ASSUME heard, NEW i \in DOMAIN rest PROVE FALSE
    BY <1>4
  <2>1. queue[1].id = calls /\ calls \in Int
    BY <1>3 DEF CallInv, Waiting, NoCall
  <2>2. queue[1].id < queue[i + 1].id /\ queue[i + 1].id <= calls /\ i + 1 \in DOMAIN queue
    BY <1>3, <1>4 DEF CallInv
  <2>3. queue[i + 1].id \in Int
    BY <2>2, QueueParts
  <2> QED
    BY <2>1, <2>2, <2>3
<1>9. \A e \in told : (\E i \in DOMAIN held : held[i] = e) /\ (call.op = "deregister" => entry # e)
  BY <1>3 DEF CallInv
<1>10. waiting' \in [op : {"register", "deregister", "ask"}, id : {calls}] \cup {NoCall}
  BY <1>1 DEF CallInv
<1>11. CASE call.op = "register"
  <2> DEFINE more == <<entry>> \o held
  <2> HIDE DEF rest, call, entry
  <2>1. /\ more \in Seq(Entry) /\ 1 \in DOMAIN more /\ more[1] = entry
        /\ \A i \in DOMAIN held : i + 1 \in DOMAIN more /\ more[i + 1] = held[i]
    BY <1>2, <1>6
  <2> HIDE DEF more
  <2>2. held' = more
    BY <1>1, <1>11 DEF more
  <2>3. ASSUME NEW e \in told'
        PROVE  /\ \E i \in DOMAIN more : more[i] = e
               /\ \A i \in DOMAIN rest : rest[i].call.op = "deregister" =>
                    <<rest[i].call.kind, rest[i].call.listener>> # e
    <3>1. e \in told \/ (heard /\ e = entry)
      BY <1>1
    <3>2. \E i \in DOMAIN more : more[i] = e
      BY <1>9, <2>1, <3>1
    <3> QED
      BY <1>7, <1>8, <3>1, <3>2
  <2> QED
    BY <1>1, <1>4, <1>5, <1>10, <2>1, <2>2, <2>3 DEF CallInv
<1>12. CASE call.op = "deregister"
  <2>0. /\ call.op # "register" /\ told' = told
    BY <1>1, <1>12
  <2> DEFINE fewer == Only(held, others)
  <2>1. \A i \in DOMAIN held : held[i] # entry => held[i] \in others
    BY DEF ToSet
  <2> HIDE DEF rest, call, entry, others
  <2>2. /\ Only(held, others) \in Seq(Entry \cap others)
        /\ \A i \in DOMAIN held : held[i] \in others =>
              \E n \in DOMAIN Only(held, others) : Only(held, others)[n] = held[i]
    <3>1. held \in Seq(Entry)
      BY <1>2
    <3> QED
      BY ONLY <3>1, OnlySelects
  <2> HIDE DEF fewer
  <2>3. /\ fewer \in Seq(Entry \cap others)
        /\ \A i \in DOMAIN held : held[i] \in others => \E n \in DOMAIN fewer : fewer[n] = held[i]
    BY <2>2 DEF fewer
  <2>4. fewer \in Seq(Entry) /\ held' = fewer
    BY <1>1, <2>0, <2>3 DEF fewer
  <2>5. ASSUME NEW e \in told
        PROVE  \E i \in DOMAIN fewer : fewer[i] = e
    BY <1>9, <1>12, <2>1, <2>3
  <2> QED
    BY <1>1, <1>4, <1>5, <1>7, <1>10, <2>0, <2>4, <2>5 DEF CallInv
<1> QED
  BY <1>6, <1>11, <1>12

LEMMA CallInvInductive ==
    ASSUME ClientCallsAssumption, CallInv, [ClientNext]_clientVars
    PROVE  CallInv'
<1>1. ASSUME UNCHANGED <<callVars, held, queue>> PROVE CallInv'
  BY <1>1 DEF callVars, CallInv
<1>2. ASSUME UNCHANGED <<calls, told, held, queue>>, waiting' = NoCall PROVE CallInv'
  BY <1>2 DEF CallInv
<1>3. ASSUME CallApplication PROVE CallInv'
  <2>1. /\ calls' = calls + 1 /\ calls < MaxCalls
        /\ waiting' = [op |-> "ask", id |-> calls'] /\ UNCHANGED <<told, held, queue>>
    BY <1>3 DEF CallApplication, registrydVars
  <2>2. calls \in Nat /\ MaxCalls \in Nat /\ calls' \in 0..MaxCalls /\ calls < calls'
    BY <2>1 DEF CallInv, ClientCallsAssumption
  <2>3. ASSUME NEW i \in DOMAIN queue PROVE queue[i].id <= calls'
    <3>1. queue[i].id <= calls /\ queue[i].id \in Int
      BY QueueParts DEF CallInv
    <3> QED
      BY <2>2, <3>1
  <2> QED
    BY <2>1, <2>2, <2>3 DEF CallInv
<1>4. CASE DevicesNext
  <2>1. \/ UNCHANGED <<callVars, held, queue>>
        \/ ApplicationReturns \/ TimeOut \/ CallApplication \/ HandleQueue
        \/ \E call \in Calls : CallRegistryd(call)
    BY <1>4 DEF DevicesNext, ClientRuns, RegistrydRuns, Dispatch, RunIdle, DrainEnds,
       HandleDeviceEvent, NotifyEvent, CallbackReturns, Event, GiveUp, AddCallback,
       RemoveCallback, Finalize, DeregistrationCrashes, deviceVars, registrydVars
  <2>2. ASSUME ApplicationReturns \/ TimeOut
        PROVE  UNCHANGED <<calls, told, held, queue>> /\ waiting' = NoCall
    BY <2>2 DEF ApplicationReturns, TimeOut, registrydVars
  <2> QED
    BY <1>1, <1>2, <1>3, <2>1, <2>2, HandleQueueKeeps, CallRegistrydKeeps
<1>5. CASE ObjectsNext \/ UNCHANGED clientVars
  <2>1. UNCHANGED <<callVars, held, queue>>
    BY <1>5, ObjectsLeaveDevices DEF clientVars, deviceVars, registrydVars
  <2> QED
    BY <1>1, <2>1
<1> QED
  BY <1>4, <1>5 DEF ClientNext

-----------------------------------------------------------------------------
(* Its thread: the events it is told of, and the walk over the callbacks.  *)
Sent == [id : 1..sent, listener : Listeners]

Walks == [id : 1..sent, listener : Listeners, node : 1..MaxNodes, asked : Seq(Callbacks),
          standing : SUBSET Callbacks]

\* What is on its way, being handled or answered was sent.
MessageInv ==
    /\ sent \in Nat
    /\ inbox \in Seq(Sent) /\ deferred \in Seq(Sent)
    /\ awaited \in 0..sent
    /\ answered \subseteq 1..sent
    /\ asking \in Seq(Entry)
    /\ walk \in Walks \cup {NoWalk}

\* A callback that was there when the walk began, and was not removed since, was
\* called or is still to come.
WalkInv ==
    Walking =>
      \A c \in walk.standing :
          \/ \E i \in DOMAIN walk.asked : walk.asked[i] = c
          \/ \E i \in DOMAIN callbacks[walk.listener] :
               /\ callbacks[walk.listener][i].callback = c
               /\ callbacks[walk.listener][i].node < walk.node

LEMMA SeqWider ==
    ASSUME NEW S, NEW T, S \subseteq T, NEW s \in Seq(S)
    PROVE  s \in Seq(T)
OBVIOUS

LEMMA WalkParts ==
    ASSUME MessageInv, Walking
    PROVE  /\ walk \in Walks
           /\ walk.id \in 1..sent /\ walk.listener \in Listeners /\ walk.node \in 1..MaxNodes
           /\ walk.asked \in Seq(Callbacks) /\ walk.standing \subseteq Callbacks
<1>1. walk \in Walks
  BY DEF MessageInv, Walking
<1> QED
  BY <1>1 DEF Walks

LEMMA MessageParts ==
    ASSUME MessageInv, deferred # <<>>
    PROVE  /\ Head(deferred) \in Sent
           /\ Head(deferred).id \in 1..sent /\ Head(deferred).listener \in Listeners
           /\ Tail(deferred) \in Seq(Sent)
<1>1. Head(deferred) \in Sent /\ Tail(deferred) \in Seq(Sent)
  <2>1. deferred \in Seq(Sent)
    BY DEF MessageInv
  <2> HIDE DEF Sent
  <2> QED
    BY <2>1
<1> QED
  BY <1>1 DEF Sent

\* An event that is handled begins a walk or is replied to at once.
LEMMA HandlesEvent ==
    ASSUME ClientCallsAssumption, ListInv, MessageInv, HandleDeviceEvent
    PROVE  /\ MessageInv'
           /\ Walking' =>
                /\ walk'.listener \in Listeners /\ walk'.listener \notin freed
                /\ callbacks[walk'.listener] # <<>>
                /\ walk'.node = FirstNode(walk'.listener)
                /\ walk'.asked = <<CallbackAt(walk'.listener, walk'.node)>>
                /\ walk'.standing = wanted[walk'.listener]
<1> DEFINE m == Head(deferred)
           l == m.listener
           first == FirstNode(l)
           begun == [id |-> m.id, listener |-> l, node |-> first,
                     asked |-> <<CallbackAt(l, first)>>, standing |-> wanted[l]]
<1>1. /\ MaxNodes \in Nat
      /\ m.id \in 1..sent /\ l \in Listeners /\ Tail(deferred) \in Seq(Sent)
  BY MessageParts DEF ClientCallsAssumption, HandleDeviceEvent
<1>2. /\ ~Walking /\ UNCHANGED <<inbox, sent>> /\ deferred' = Tail(deferred)
      /\ \/ /\ l \notin freed /\ callbacks[l] # <<>> /\ walk' = begun
            /\ UNCHANGED <<answered, awaited, asking>>
         \/ /\ UNCHANGED walk /\ Reply(m.id, FALSE)
  BY DEF HandleDeviceEvent
<1>3. Sent' = Sent /\ Walks' = Walks
  BY <1>2 DEF Sent, Walks
<1>4. /\ inbox' \in Seq(Sent') /\ deferred' \in Seq(Sent') /\ sent' \in Nat
  BY <1>1, <1>2, <1>3 DEF MessageInv
<1>5. CASE /\ l \notin freed /\ callbacks[l] # <<>> /\ walk' = begun
           /\ UNCHANGED <<answered, awaited, asking>>
  <2>1. CallbackAt(l, first) \in Callbacks /\ first \in 1..MaxNodes
    BY <1>1, <1>5, FirstIs, CalledWanted
  <2>2. wanted[l] \subseteq Callbacks
    BY <1>1 DEF ListInv
  <2> DEFINE c == CallbackAt(l, first)
  <2>3. <<c>> \in Seq(Callbacks)
    <3> HIDE DEF c
    <3>1. c \in Callbacks
      BY <2>1 DEF c
    <3> QED
      BY <3>1
  <2>4. begun \in Walks
    <3> HIDE DEF m, first
    <3> QED
      BY <1>1, <2>1, <2>2, <2>3 DEF Walks
  <2>5. MessageInv'
    BY <1>2, <1>3, <1>4, <1>5, <2>4 DEF MessageInv
  <2>6. /\ walk'.listener = l /\ walk'.node = first /\ walk'.standing = wanted[l]
        /\ walk'.asked = <<CallbackAt(l, first)>>
    BY <1>5
  <2> QED
    BY <1>1, <1>5, <2>5, <2>6
<1>6. CASE UNCHANGED walk /\ Reply(m.id, FALSE)
  <2>1. /\ answered' = answered \cup {m.id} /\ awaited' \in {awaited, 0}
        /\ asking' = asking
    BY <1>6 DEF Reply
  <2>2. /\ answered' \subseteq 1..sent' /\ awaited' \in 0..sent' /\ asking' \in Seq(Entry)
    <3>1. /\ answered \subseteq 1..sent /\ awaited \in 0..sent /\ asking \in Seq(Entry)
          /\ sent \in Nat
      BY DEF MessageInv
    <3>2. sent' = sent /\ m.id \in 1..sent
      BY <1>1, <1>2
    <3> HIDE DEF m
    <3>3. asking' \in Seq(Entry)
      BY <2>1, <3>1
    <3>4. awaited' \in 0..sent'
      BY <2>1, <3>1, <3>2
    <3>5. ASSUME NEW n \in answered' PROVE n \in 1..sent'
      BY <2>1, <3>1, <3>2
    <3> QED
      BY <3>3, <3>4, <3>5
  <2>3. walk' \in Walks' \cup {NoWalk}
    BY <1>3, <1>6 DEF MessageInv
  <2> QED
    BY <1>2, <1>4, <1>6, <2>2, <2>3 DEF MessageInv, Walking
<1> QED
  BY <1>2, <1>5, <1>6

\* A callback returns: the walk goes on with the next node or ends, and if it was
\* not consumed and no node was freed, it ends where the list does.
LEMMA CallbackReturned ==
    ASSUME ClientCallsAssumption, ListInv, MessageInv, WalkInv,
           NEW eaten \in BOOLEAN, CallbackReturns(eaten)
    PROVE  /\ MessageInv'
           /\ Walking /\ callbacks' = callbacks /\ wanted' = wanted /\ freed' = freed
           /\ Walking' =>
                LET next == NextNode(walk.listener, walk.node)
                IN  /\ next # End
                    /\ walk'.listener = walk.listener /\ walk'.standing = walk.standing
                    /\ walk'.node = next
                    /\ walk'.asked = Append(walk.asked, CallbackAt(walk.listener, next))
<1> DEFINE l == walk.listener
           next == NextNode(l, walk.node)
           c == CallbackAt(l, next)
           on == [walk EXCEPT !.node = next, !.asked = Append(@, CallbackAt(l, next))]
<1>1. /\ Walking /\ UNCHANGED <<inbox, deferred, sent, callbacks, wanted, freed>>
      /\ \/ walk' = NoWalk /\ Reply(walk.id, eaten)
         \/ /\ next # End /\ walk' = on /\ UNCHANGED <<answered, awaited, asking>>
  BY DEF CallbackReturns, callbackVars
<1>2. /\ walk \in Walks /\ MaxNodes \in Nat
      /\ walk.id \in 1..sent /\ l \in Listeners /\ walk.node \in 1..MaxNodes
      /\ walk.asked \in Seq(Callbacks) /\ walk.standing \subseteq Callbacks
  BY <1>1, WalkParts DEF ClientCallsAssumption
<1>3. Sent' = Sent /\ Walks' = Walks
  BY <1>1 DEF Sent, Walks
<1>4. /\ inbox' \in Seq(Sent') /\ deferred' \in Seq(Sent') /\ sent' \in Nat
  BY <1>1, <1>3 DEF MessageInv
<1>5. CASE next # End /\ walk' = on /\ UNCHANGED <<answered, awaited, asking>>
  <2>1. next \in Nodes(l)
    BY <1>2, <1>5, NextIs
  <2>2. c \in Callbacks /\ next \in 1..MaxNodes
    BY <1>2, <2>1, CalledWanted
  <2> HIDE DEF next, c
  <2>3. Append(walk.asked, c) \in Seq(Callbacks)
    BY <1>2, <2>2
  <2>4. /\ walk' = [walk EXCEPT !.node = next, !.asked = Append(walk.asked, c)]
        /\ on = [walk EXCEPT !.node = next, !.asked = Append(walk.asked, c)]
    BY <1>5 DEF c
  <2>5. walk' \in Walks
    BY <1>2, <2>2, <2>3, <2>4 DEF Walks
  <2>6. /\ walk'.listener = l /\ walk'.standing = walk.standing /\ walk'.node = next
        /\ walk'.asked = Append(walk.asked, c)
    BY <1>2, <2>4 DEF Walks
  <2>7. MessageInv'
    BY <1>1, <1>3, <1>4, <1>5, <2>5 DEF MessageInv
  <2> QED
    BY <1>1, <1>5, <2>6, <2>7 DEF next, c
<1>6. CASE walk' = NoWalk /\ Reply(walk.id, eaten)
  <2>1. /\ answered' = answered \cup {walk.id} /\ awaited' \in {awaited, 0}
        /\ asking' \in {asking, <<>>}
    BY <1>6 DEF Reply
  <2>2. <<>> \in Seq(Entry)
    OBVIOUS
  <2>3. /\ answered' \subseteq 1..sent' /\ awaited' \in 0..sent' /\ asking' \in Seq(Entry)
    <3>1. /\ answered \subseteq 1..sent /\ awaited \in 0..sent /\ asking \in Seq(Entry)
          /\ sent \in Nat /\ sent' = sent
      BY <1>1 DEF MessageInv
    <3>2. asking' \in Seq(Entry)
      BY <2>1, <2>2, <3>1
    <3>3. awaited' \in 0..sent'
      BY <2>1, <3>1
    <3>4. ASSUME NEW n \in answered' PROVE n \in 1..sent'
      BY <1>2, <2>1, <3>1
    <3> QED
      BY <3>2, <3>3, <3>4
  <2>4. MessageInv' /\ ~Walking'
    BY <1>4, <1>6, <2>3 DEF MessageInv, Walking
  <2> QED
    BY <1>1, <2>4
<1> QED
  BY <1>1, <1>5, <1>6

\* What a walk has before it stays before it.
\* Removing callbacks, and finalizing, take from those that stand.
LEMMA FewerStand ==
    ASSUME MessageInv, NEW l \in Listeners, NEW those, Walking => those \subseteq Callbacks,
           walk' = IF Walking /\ walk.listener = l
                   THEN [walk EXCEPT !.standing = those] ELSE walk
    PROVE  /\ walk' \in Walks \cup {NoWalk}
           /\ Walking' => /\ Walking /\ walk'.listener = walk.listener
                          /\ walk'.node = walk.node /\ walk'.asked = walk.asked
                          /\ walk'.standing = IF walk.listener = l THEN those ELSE walk.standing
<1>1. CASE Walking /\ walk.listener = l
  <2>1. walk \in Walks
    BY <1>1, WalkParts
  <2> QED
    BY <1>1, <2>1 DEF Walks
<1>2. CASE ~(Walking /\ walk.listener = l)
  BY <1>2 DEF MessageInv, Walking
<1> QED
  BY <1>1, <1>2

LEMMA MessageInvInductive ==
    ASSUME ClientCallsAssumption, ListInv, MessageInv, WalkInv, CallInv, [ClientNext]_clientVars
    PROVE  MessageInv'
<1>1. ASSUME UNCHANGED <<inbox, deferred, sent, awaited, answered, asking, walk>>
      PROVE  MessageInv'
  BY <1>1 DEF MessageInv, Sent, Walks
<1>2. ASSUME NEW l \in Listeners, NEW c \in Callbacks, RemoveCallback(l, c)
      PROVE  MessageInv'
  <2>1. /\ UNCHANGED <<inbox, deferred, sent, awaited, answered, asking>>
        /\ walk' = IF Walking /\ walk.listener = l
                   THEN [walk EXCEPT !.standing = walk.standing \ {c}] ELSE walk
    BY <1>2 DEF RemoveCallback, registrydVars
  <2>2. walk' \in Walks \cup {NoWalk}
    BY <2>1, WalkParts, FewerStand
  <2> QED
    BY <2>1, <2>2 DEF MessageInv, Sent, Walks
<1>3. ASSUME Dispatch PROVE MessageInv'
  <2>1. /\ inbox # <<>> /\ deferred' = Append(deferred, Head(inbox)) /\ inbox' = Tail(inbox)
        /\ UNCHANGED <<sent, awaited, answered, asking, walk>>
    BY <1>3 DEF Dispatch, registrydVars
  <2>2. Sent' = Sent /\ Walks' = Walks
    BY <2>1 DEF Sent, Walks
  <2>3. inbox \in Seq(Sent) /\ deferred \in Seq(Sent)
    BY DEF MessageInv
  <2>4. inbox' \in Seq(Sent) /\ deferred' \in Seq(Sent)
    <3> HIDE DEF Sent
    <3> QED
      BY <2>1, <2>3
  <2> QED
    BY <2>1, <2>2, <2>4 DEF MessageInv
<1>4. ASSUME NEW kind \in Kinds, Event(kind) PROVE MessageInv'
  <2> DEFINE those == {kind} \X Listeners
             chosen == Only(held, those)
  <2>1. /\ asking' = Reverse(chosen)
        /\ UNCHANGED <<inbox, deferred, sent, awaited, answered, walk>>
    BY <1>4 DEF Event, threadVars
  <2>2. Only(held, those) \in Seq(Entry \cap those)
    <3>1. held \in Seq(Entry)
      BY DEF CallInv
    <3> HIDE DEF those
    <3> QED
      BY <3>1, OnlySelects
  <2> HIDE DEF chosen, those
  <2>3. chosen \in Seq(Entry \cap those)
    BY <2>2 DEF chosen
  <2>4. chosen \in Seq(Entry)
    BY <2>3
  <2>5. Reverse(chosen) = [i \in 1..Len(chosen) |-> chosen[(Len(chosen) - i) + 1]]
    BY DEF Reverse
  <2>6. asking' \in Seq(Entry)
    BY <2>1, <2>4, <2>5
  <2> QED
    BY <2>1, <2>6 DEF MessageInv, Sent, Walks
<1>5. ASSUME NotifyEvent PROVE MessageInv'
  <2> DEFINE to == Head(asking)[2]
             message == [id |-> sent + 1, listener |-> to]
  <2>1. /\ asking # <<>> /\ sent' = sent + 1 /\ awaited' = sent'
        /\ inbox' = Append(inbox, message) /\ asking' = Tail(asking)
        /\ UNCHANGED <<deferred, answered, walk>>
    BY <1>5 DEF NotifyEvent
  <2>2. /\ asking \in Seq(Entry) /\ inbox \in Seq(Sent) /\ deferred \in Seq(Sent) /\ sent \in Nat
    BY DEF MessageInv
  <2>3. Head(asking) \in Entry /\ asking' \in Seq(Entry)
    <3> HIDE DEF Entry
    <3> QED
      BY <2>1, <2>2
  <2>4. to \in Listeners
    BY <2>3 DEF Entry
  <2>5. Sent \subseteq Sent' /\ message \in Sent'
    <3> HIDE DEF to
    <3> QED
      BY <2>1, <2>2, <2>4 DEF Sent
  <2> HIDE DEF message
  <2>6. inbox \in Seq(Sent') /\ deferred \in Seq(Sent')
    <3> HIDE DEF Sent
    <3> QED
      BY <2>2, <2>5, SeqWider
  <2>7. inbox' \in Seq(Sent') /\ deferred' \in Seq(Sent')
    BY <2>1, <2>5, <2>6
  <2>8. walk' \in Walks' \cup {NoWalk}
    <3>1. Walks \subseteq Walks'
      BY <2>1, <2>2 DEF Walks
    <3> QED
      BY <2>1, <3>1 DEF MessageInv
  <2>9. sent' \in Nat /\ awaited' \in 0..sent' /\ answered' \subseteq 1..sent'
    BY <2>1, <2>2 DEF MessageInv
  <2> QED
    BY <2>3, <2>7, <2>8, <2>9 DEF MessageInv
<1>6. ASSUME GiveUp PROVE MessageInv'
  <2>1. awaited' = 0 /\ UNCHANGED <<inbox, deferred, sent, answered, asking, walk>>
    BY <1>6 DEF GiveUp, threadVars
  <2> QED
    BY <2>1 DEF MessageInv, Sent, Walks
<1>7. ASSUME NEW l \in Listeners, Finalize(l) PROVE MessageInv'
  <2>1. /\ UNCHANGED <<inbox, deferred, sent, awaited, answered, asking>>
        /\ walk' = IF Walking /\ walk.listener = l THEN [walk EXCEPT !.standing = {}] ELSE walk
    BY <1>7 DEF Finalize, registrydVars
  <2>2. walk' \in Walks \cup {NoWalk}
    BY <2>1, FewerStand
  <2> QED
    BY <2>1, <2>2 DEF MessageInv, Sent, Walks
<1>8. CASE DevicesNext
  <2>1. \/ UNCHANGED <<inbox, deferred, sent, awaited, answered, asking, walk>>
        \/ \E l \in Listeners : \/ \E c \in Callbacks : RemoveCallback(l, c)
                                \/ Finalize(l)
        \/ \E eaten \in BOOLEAN : CallbackReturns(eaten)
        \/ \E kind \in Kinds : Event(kind)
        \/ Dispatch \/ NotifyEvent \/ HandleDeviceEvent \/ GiveUp
    BY <1>8 DEF DevicesNext, ClientRuns, RegistrydRuns, RunIdle, DrainEnds, ApplicationReturns,
       TimeOut, HandleQueue, CallRegistryd, CallApplication, AddCallback, DeregistrationCrashes,
       deviceVars, threadVars, registrydVars
  <2> QED
    BY <1>1, <1>2, <1>3, <1>4, <1>5, <1>6, <1>7, <2>1, HandlesEvent, CallbackReturned
<1>9. CASE ObjectsNext \/ UNCHANGED clientVars
  <2>1. UNCHANGED <<inbox, deferred, sent, awaited, answered, asking, walk>>
    BY <1>9, ObjectsLeaveDevices DEF clientVars, deviceVars, threadVars, registrydVars
  <2> QED
    BY <1>1, <2>1
<1> QED
  BY <1>8, <1>9 DEF ClientNext

LEMMA WalkInvInductive ==
    ASSUME ClientCallsAssumption, ListInv, MessageInv, WalkInv, [ClientNext]_clientVars
    PROVE  WalkInv'
<1>0. MaxNodes \in Nat
  BY DEF ClientCallsAssumption
<1>1. ASSUME UNCHANGED <<callbacks, walk>> PROVE WalkInv'
  BY <1>1 DEF WalkInv, Walking
\* The list of the listener it walks over keeps the callbacks that stand.
<1>2. ASSUME Walking' => /\ Walking
                         /\ walk'.listener = walk.listener /\ walk'.node = walk.node
                         /\ walk'.asked = walk.asked
                         /\ \A c \in walk'.standing :
                              /\ c \in walk.standing
                              /\ \A i \in DOMAIN callbacks[walk.listener] :
                                   callbacks[walk.listener][i].callback = c =>
                                   \E j \in DOMAIN callbacks'[walk.listener] :
                                       callbacks'[walk.listener][j] = callbacks[walk.listener][i]
      PROVE  WalkInv'
  <2> SUFFICES ASSUME Walking'
               PROVE  \A c \in walk'.standing :
                          \/ \E i \in DOMAIN walk'.asked : walk'.asked[i] = c
                          \/ \E i \in DOMAIN callbacks'[walk'.listener] :
                               /\ callbacks'[walk'.listener][i].callback = c
                               /\ callbacks'[walk'.listener][i].node < walk'.node
    BY DEF WalkInv
  <2>2. ASSUME NEW c \in walk'.standing
        PROVE  \/ \E i \in DOMAIN walk'.asked : walk'.asked[i] = c
               \/ \E i \in DOMAIN callbacks'[walk'.listener] :
                    /\ callbacks'[walk'.listener][i].callback = c
                    /\ callbacks'[walk'.listener][i].node < walk'.node
    <3>1. \/ \E i \in DOMAIN walk.asked : walk.asked[i] = c
          \/ \E i \in DOMAIN callbacks[walk.listener] :
               /\ callbacks[walk.listener][i].callback = c
               /\ callbacks[walk.listener][i].node < walk.node
      BY <1>2, <2>2 DEF WalkInv
    <3> QED
      BY <1>2, <2>2, <3>1
  <2> QED
    BY <2>2
<1>3. ASSUME NEW l \in Listeners, NEW c \in Callbacks, AddCallback(l, c) PROVE WalkInv'
  <2> DEFINE more == <<[node |-> made + 1, callback |-> c]>> \o callbacks[l]
  <2>1. /\ callbacks' = [callbacks EXCEPT ![l] = more] /\ UNCHANGED <<walk, freed>>
        /\ made < MaxNodes /\ made \in Nat
    BY <1>3 DEF AddCallback, threadVars, ListInv
  <2>2. \A i \in DOMAIN callbacks[l] : \E j \in DOMAIN more : more[j] = callbacks[l][i]
    <3>1. CallbackList(callbacks[l], wanted[l], made)
      BY DEF ListInv
    <3> DEFINE list == callbacks[l]
               those == wanted[l]
               longer == <<[node |-> made + 1, callback |-> c]>> \o list
    <3>2. CallbackList(list, those, made)
      BY <3>1
    <3>3. MaxNodes \in Nat /\ made \in Nat /\ made < MaxNodes
      BY <1>0, <2>1
    <3> HIDE DEF list, those
    <3>4. /\ CallbackList(longer, those \cup {c}, made + 1)
          /\ \A i \in DOMAIN list : \E j \in DOMAIN longer : longer[j] = list[i]
      BY ONLY <3>2, <3>3, AddsNode, c \in Callbacks
    <3> QED
      BY <3>4 DEF list
  <2> HIDE DEF more
  <2>3. \A k \in Listeners : \A i \in DOMAIN callbacks[k] :
          \E j \in DOMAIN callbacks'[k] : callbacks'[k][j] = callbacks[k][i]
    BY <2>1, <2>2 DEF ListInv
  <2>4. Walking' = Walking /\ (Walking => walk.listener \in Listeners)
    BY <2>1, WalkParts DEF Walking
  <2> QED
    BY <1>2, <2>1, <2>3, <2>4
<1>4. ASSUME NEW l \in Listeners, NEW c \in Callbacks, RemoveCallback(l, c) PROVE WalkInv'
  <2> DEFINE fewer == RemoveByCb(callbacks[l], c)
  <2>1. /\ callbacks' = [callbacks EXCEPT ![l] = fewer] /\ UNCHANGED freed
        /\ walk' = IF Walking /\ walk.listener = l
                   THEN [walk EXCEPT !.standing = walk.standing \ {c}] ELSE walk
    BY <1>4 DEF RemoveCallback
  <2>2. \A i \in DOMAIN callbacks[l] : callbacks[l][i].callback # c =>
            \E j \in DOMAIN fewer : fewer[j] = callbacks[l][i]
    <3>1. CallbackList(callbacks[l], wanted[l], made)
      BY DEF ListInv
    <3> DEFINE list == callbacks[l]
               those == wanted[l]
    <3>2. CallbackList(list, those, made)
      BY <3>1
    <3> HIDE DEF list, those
    <3>3. /\ CallbackList(RemoveByCb(list, c), those \ {c}, made)
          /\ \A i \in DOMAIN list : list[i].callback # c =>
                \E j \in DOMAIN RemoveByCb(list, c) : RemoveByCb(list, c)[j] = list[i]
      BY <3>2, RemovesNodes
    <3> QED
      BY <3>3 DEF list
  <2> HIDE DEF fewer
  <2>3. callbacks'[l] = fewer /\ \A k \in Listeners \ {l} : callbacks'[k] = callbacks[k]
    BY <2>1 DEF ListInv
  <2>4. CASE Walking /\ walk.listener = l
    <3>1. walk \in Walks
      BY <2>4, WalkParts
    <3>2. /\ walk'.listener = walk.listener /\ walk'.node = walk.node
          /\ walk'.asked = walk.asked /\ walk'.standing = walk.standing \ {c}
      BY <2>1, <2>4, <3>1 DEF Walks
    <3> QED
      BY <1>2, <2>1, <2>2, <2>3, <2>4, <3>2
  <2>5. CASE ~(Walking /\ walk.listener = l)
    <3>1. walk' = walk /\ (Walking => walk.listener \in Listeners \ {l})
      BY <2>1, <2>5, WalkParts
    <3> QED
      BY <1>2, <2>1, <2>3, <3>1 DEF Walking
  <2> QED
    BY <2>4, <2>5
<1>5. ASSUME NEW l \in Listeners, Finalize(l) PROVE WalkInv'
  <2>1. /\ callbacks' = [callbacks EXCEPT ![l] = <<>>]
        /\ walk' = IF Walking /\ walk.listener = l THEN [walk EXCEPT !.standing = {}] ELSE walk
    BY <1>5 DEF Finalize
  <2> SUFFICES ASSUME Walking' PROVE WalkInv'
    BY DEF WalkInv
  <2>2. /\ Walking /\ walk'.listener = walk.listener /\ walk'.node = walk.node
        /\ walk'.asked = walk.asked
        /\ walk'.standing = IF walk.listener = l THEN {} ELSE walk.standing
    <3>1. Walking' => /\ Walking /\ walk'.listener = walk.listener
                      /\ walk'.node = walk.node /\ walk'.asked = walk.asked
                      /\ walk'.standing = IF walk.listener = l THEN {} ELSE walk.standing
      BY <2>1, FewerStand
    <3> QED
      BY <3>1
  <2>3. CASE walk.listener = l
    BY <2>2, <2>3 DEF WalkInv
  <2>4. CASE walk.listener # l
    <3>1. callbacks'[walk.listener] = callbacks[walk.listener]
      BY <2>1, <2>2, <2>4, WalkParts DEF ListInv
    <3> QED
      BY <2>2, <2>4, <3>1 DEF WalkInv
  <2> QED
    BY <2>3, <2>4
<1>6. ASSUME HandleDeviceEvent PROVE WalkInv'
  <2> SUFFICES ASSUME Walking' PROVE WalkInv'
    BY DEF WalkInv
  <2> DEFINE l == walk'.listener
             list == callbacks[l]
             first == FirstNode(l)
  <2>1. /\ l \in Listeners /\ l \notin freed /\ list # <<>>
        /\ walk'.node = first /\ walk'.asked = <<CallbackAt(l, first)>>
        /\ walk'.standing = wanted[l]
        /\ UNCHANGED <<callbacks, freed>>
    BY <1>6, HandlesEvent DEF HandleDeviceEvent, callbackVars
  <2>2. first \in Nodes(l) /\ \A n \in Nodes(l) : n <= first
    BY <1>0, <2>1, FirstIs
  <2>3. ASSUME NEW c \in wanted[l]
        PROVE  \/ c = CallbackAt(l, first)
               \/ \E i \in DOMAIN list : list[i].callback = c /\ list[i].node < first
    <3>1. PICK i \in DOMAIN list : list[i].callback = c
      BY <2>1 DEF ListInv, CallbackList
    <3>2. list[i].node \in Nodes(l) /\ CallbackAt(l, list[i].node) = c
      <4>1. /\ \A n : n \in Nodes(l) <=> \E j \in DOMAIN list : list[j].node = n
            /\ \A j \in DOMAIN list : CallbackAt(l, list[j].node) = list[j].callback
        BY <1>0, <2>1, NodesAre
      <4> QED
        BY <3>1, <4>1
    <3>3. list[i].node \in 1..MaxNodes /\ first \in 1..MaxNodes
      BY <1>0, <2>1, <2>2, <3>2, CalledWanted
    <3> QED
      BY <2>2, <3>1, <3>2, <3>3
  <2>4. walk'.asked[1] = CallbackAt(l, first) /\ 1 \in DOMAIN walk'.asked
    BY <2>1
  <2> QED
    BY <2>1, <2>3, <2>4 DEF WalkInv
<1>7. ASSUME NEW eaten \in BOOLEAN, CallbackReturns(eaten) PROVE WalkInv'
  <2> SUFFICES ASSUME Walking' PROVE WalkInv'
    BY DEF WalkInv
  <2> DEFINE l == walk.listener
             list == callbacks[l]
             next == NextNode(l, walk.node)
             asked == walk.asked
             more == Append(asked, CallbackAt(l, next))
  <2>1. /\ Walking /\ UNCHANGED <<callbacks, freed>> /\ next # End
        /\ walk'.listener = l /\ walk'.standing = walk.standing /\ walk'.node = next
        /\ walk'.asked = more
    BY <1>7, CallbackReturned
  <2>2. /\ l \in Listeners /\ walk.node \in 1..MaxNodes /\ asked \in Seq(Callbacks)
    BY <2>1, WalkParts
  <2>3. /\ next \in Nodes(l) /\ \A m \in Nodes(l) : m < walk.node => m <= next
    <3>1. walk.node \in Nat
      BY <1>0, <2>2
    <3> QED
      BY <1>0, <2>1, <2>2, <3>1, NextIs
  <2>4. /\ \A i \in DOMAIN asked : i \in DOMAIN more /\ more[i] = asked[i]
        /\ Len(asked) + 1 \in DOMAIN more /\ more[Len(asked) + 1] = CallbackAt(l, next)
    BY <2>2
  <2> HIDE DEF more, asked, next, list
  <2>5. ASSUME NEW c \in walk.standing
        PROVE  \/ \E i \in DOMAIN more : more[i] = c
               \/ \E i \in DOMAIN list : list[i].callback = c /\ list[i].node < next
    <3>1. \/ \E i \in DOMAIN asked : asked[i] = c
          \/ \E i \in DOMAIN list : list[i].callback = c /\ list[i].node < walk.node
      BY <2>1 DEF WalkInv, asked, list
    <3>2. CASE \E i \in DOMAIN asked : asked[i] = c
      BY <2>4, <3>2
    <3>3. CASE \E i \in DOMAIN list : list[i].callback = c /\ list[i].node < walk.node
      <4>1. PICK i \in DOMAIN list : list[i].callback = c /\ list[i].node < walk.node
        BY <3>3
      <4>2. list[i].node \in Nodes(l) /\ CallbackAt(l, list[i].node) = c
        BY <1>0, <2>2, <4>1, NodesAre DEF list
      <4>3. list[i].node \in 1..MaxNodes /\ next \in 1..MaxNodes
        BY <1>0, <2>2, <2>3, <4>2, CalledWanted
      <4>4. list[i].node <= next
        BY <2>3, <4>1, <4>2
      <4> QED
        BY <2>4, <4>1, <4>2, <4>3, <4>4
    <3> QED
      BY <3>1, <3>2, <3>3
  <2> QED
    BY <2>1, <2>5 DEF WalkInv, list
<1>8. CASE DevicesNext
  <2>1. \/ UNCHANGED <<callbacks, walk>>
        \/ \E l \in Listeners : \/ \E c \in Callbacks : AddCallback(l, c) \/ RemoveCallback(l, c)
                                \/ Finalize(l)
        \/ \E eaten \in BOOLEAN : CallbackReturns(eaten)
        \/ HandleDeviceEvent
    BY <1>8 DEF DevicesNext, ClientRuns, RegistrydRuns, Dispatch, RunIdle, DrainEnds,
       ApplicationReturns, TimeOut, HandleQueue, NotifyEvent, CallRegistryd, CallApplication,
       Event, GiveUp, DeregistrationCrashes, deviceVars, callbackVars, threadVars
  <2> QED
    BY <1>1, <1>3, <1>4, <1>5, <1>6, <1>7, <2>1
<1>9. CASE ObjectsNext \/ UNCHANGED clientVars
  <2>1. UNCHANGED <<callbacks, walk>>
    BY <1>9, ObjectsLeaveDevices DEF clientVars, deviceVars, callbackVars, threadVars
  <2> QED
    BY <1>1, <2>1
<1> QED
  BY <1>8, <1>9 DEF ClientNext

-----------------------------------------------------------------------------
(* Its functions: no failure is taken for an answer, but where it says so. *)

\* How a row asks and what it begins with: what is needed of it to see a failure.
Sound(row) ==
    /\ row.how \in {"call", "property", "partial", "checked", "message", "unheard",
                    "nothing", "set", "link", "driver"}
    /\ row.start \notin {"abort", "loop", "other", "partly"}
    /\ row.how \in {"set", "link", "driver"} => row.of \in Fatal
    /\ row.start \in MadeUp /\ row.how \notin {"call", "set", "link"} => row.of \in
       Unnoticed
    /\ row.of = "Accessible.GetAttributes" => row.how = "partial" /\ row.start = "null"

SoundTable(table) == \A row \in table : Sound(row)

\* Every function asks in such a way.
LEMMA EveryRowSound == SoundTable(Rows)
<1>1. SoundTable(TextContents)
  BY DEF TextContents, SoundTable, Sound, Row, Call, Property, Reference, MadeUp, Fatal,
     Unnoticed
<1>2. SoundTable(TextAttributes)
  BY DEF TextAttributes, SoundTable, Sound, Row, Call, Property, Reference, MadeUp,
     Fatal, Unnoticed
<1>3. SoundTable(TextAround)
  BY DEF TextAround, SoundTable, Sound, Row, Call, Property, Reference, MadeUp, Fatal,
     Unnoticed
<1>4. SoundTable(TextPlaces)
  BY DEF TextPlaces, SoundTable, Sound, Row, Call, Property, Reference, MadeUp, Fatal,
     Unnoticed
<1>5. SoundTable(TextSelections)
  BY DEF TextSelections, SoundTable, Sound, Row, Call, Property, Reference, MadeUp,
     Fatal, Unnoticed
<1>6. SoundTable(TableShape)
  BY DEF TableShape, SoundTable, Sound, Row, Call, Property, Reference, MadeUp, Fatal,
     Unnoticed
<1>7. SoundTable(TableIndices)
  BY DEF TableIndices, SoundTable, Sound, Row, Call, Property, Reference, MadeUp, Fatal,
     Unnoticed
<1>8. SoundTable(TableSelected)
  BY DEF TableSelected, SoundTable, Sound, Row, Call, Property, Reference, MadeUp,
     Fatal, Unnoticed
<1>9. SoundTable(TableSelect)
  BY DEF TableSelect, SoundTable, Sound, Row, Call, Property, Reference, MadeUp, Fatal,
     Unnoticed
<1>10. SoundTable(ComponentPlace)
  BY DEF ComponentPlace, SoundTable, Sound, Row, Call, Property, Reference, MadeUp,
     Fatal, Unnoticed
<1>11. SoundTable(ComponentMove)
  BY DEF ComponentMove, SoundTable, Sound, Row, Call, Property, Reference, MadeUp,
     Fatal, Unnoticed
<1>12. SoundTable(CollectionMatches)
  BY DEF CollectionMatches, SoundTable, Sound, Row, Call, Property, Reference, MadeUp,
     Fatal, Unnoticed
<1>13. SoundTable(CollectionUnfinished)
  BY DEF CollectionUnfinished, SoundTable, Sound, Row, Call, Property, Reference,
     MadeUp, Fatal, Unnoticed
<1>14. SoundTable(SelectionCalls)
  BY DEF SelectionCalls, SoundTable, Sound, Row, Call, Property, Reference, MadeUp,
     Fatal, Unnoticed
<1>15. SoundTable(SelectionAll)
  BY DEF SelectionAll, SoundTable, Sound, Row, Call, Property, Reference, MadeUp, Fatal,
     Unnoticed
<1>16. SoundTable(EditableText)
  BY DEF EditableText, SoundTable, Sound, Row, Call, Property, Reference, MadeUp, Fatal,
     Unnoticed
<1>17. SoundTable(EditableTextPaste)
  BY DEF EditableTextPaste, SoundTable, Sound, Row, Call, Property, Reference, MadeUp,
     Fatal, Unnoticed
<1>18. SoundTable(HyperlinkAnchors)
  BY DEF HyperlinkAnchors, SoundTable, Sound, Row, Call, Property, Reference, MadeUp,
     Fatal, Unnoticed
<1>19. SoundTable(HyperlinkIndices)
  BY DEF HyperlinkIndices, SoundTable, Sound, Row, Call, Property, Reference, MadeUp,
     Fatal, Unnoticed
<1>20. SoundTable(ValueNumbers)
  BY DEF ValueNumbers, SoundTable, Sound, Row, Call, Property, Reference, MadeUp, Fatal,
     Unnoticed
<1>21. SoundTable(ImageCalls)
  BY DEF ImageCalls, SoundTable, Sound, Row, Call, Property, Reference, MadeUp, Fatal,
     Unnoticed
<1>22. SoundTable(ActionCalls)
  BY DEF ActionCalls, SoundTable, Sound, Row, Call, Property, Reference, MadeUp, Fatal,
     Unnoticed
<1>23. SoundTable(DocumentCalls)
  BY DEF DocumentCalls, SoundTable, Sound, Row, Call, Property, Reference, MadeUp,
     Fatal, Unnoticed
<1>24. SoundTable(HypertextCalls)
  BY DEF HypertextCalls, SoundTable, Sound, Row, Call, Property, Reference, MadeUp,
     Fatal, Unnoticed
<1>25. SoundTable(AccessibleChildren)
  BY DEF AccessibleChildren, SoundTable, Sound, Row, Call, Property, Reference, MadeUp,
     Fatal, Unnoticed
<1>26. SoundTable(AccessibleRelations)
  BY DEF AccessibleRelations, SoundTable, Sound, Row, Call, Property, Reference, MadeUp,
     Fatal, Unnoticed
<1>27. SoundTable(AccessibleRoleName)
  BY DEF AccessibleRoleName, SoundTable, Sound, Row, Call, Property, Reference, MadeUp,
     Fatal, Unnoticed
<1>28. SoundTable(ApplicationId)
  BY DEF ApplicationId, SoundTable, Sound, Row, Call, Property, Reference, MadeUp,
     Fatal, Unnoticed
<1>29. SoundTable(KeptNames)
  BY DEF KeptNames, SoundTable, Sound, Row, Call, Property, Reference, MadeUp, Fatal,
     Unnoticed
<1>30. SoundTable(KeptParent)
  BY DEF KeptParent, SoundTable, Sound, Row, Call, Property, Reference, MadeUp, Fatal,
     Unnoticed
<1>31. SoundTable(KeptRole)
  BY DEF KeptRole, SoundTable, Sound, Row, Call, Property, Reference, MadeUp, Fatal,
     Unnoticed
<1>32. SoundTable(KeptState)
  BY DEF KeptState, SoundTable, Sound, Row, Call, Property, Reference, MadeUp, Fatal,
     Unnoticed
<1>33. SoundTable(KeptAttributes)
  BY DEF KeptAttributes, SoundTable, Sound, Row, Call, Property, Reference, MadeUp,
     Fatal, Unnoticed
<1>34. SoundTable(KeptInterfaces)
  BY DEF KeptInterfaces, SoundTable, Sound, Row, Call, Property, Reference, MadeUp,
     Fatal, Unnoticed
<1>35. SoundTable(KeptByApplication)
  BY DEF KeptByApplication, SoundTable, Sound, Row, Call, Property, Reference, MadeUp,
     Fatal, Unnoticed
<1>36. SoundTable(AccessibleProcess)
  BY DEF AccessibleProcess, SoundTable, Sound, Row, MadeUp, Fatal, Unnoticed
<1>37. SoundTable(AskedAnew)
  <2> SUFFICES ASSUME NEW row \in AskedAnew PROVE Sound(row)
    BY DEF SoundTable
  <2>1. \/ row \in TextContents
        \/ row \in TextAttributes
        \/ row \in TextAround
        \/ row \in TextPlaces
        \/ row \in TextSelections
        \/ row \in TableShape
        \/ row \in TableIndices
        \/ row \in TableSelected
        \/ row \in TableSelect
        \/ row \in ComponentPlace
        \/ row \in ComponentMove
        \/ row \in CollectionMatches
        \/ row \in CollectionUnfinished
        \/ row \in SelectionCalls
        \/ row \in SelectionAll
        \/ row \in EditableText
        \/ row \in EditableTextPaste
        \/ row \in HyperlinkAnchors
        \/ row \in HyperlinkIndices
        \/ row \in ValueNumbers
        \/ row \in ImageCalls
        \/ row \in ActionCalls
        \/ row \in DocumentCalls
        \/ row \in HypertextCalls
        \/ row \in AccessibleChildren
        \/ row \in AccessibleRelations
        \/ row \in AccessibleRoleName
        \/ row \in ApplicationId
        \/ row \in AccessibleProcess
    BY DEF AskedAnew
  <2> QED
    BY <2>1, <1>1, <1>2, <1>3, <1>4, <1>5, <1>6, <1>7, <1>8, <1>9, <1>10, <1>11, <1>12,
       <1>13, <1>14, <1>15, <1>16, <1>17, <1>18, <1>19, <1>20, <1>21, <1>22, <1>23, <1>24,
       <1>25, <1>26, <1>27, <1>28, <1>36 DEF SoundTable
<1>38. SoundTable(Kept)
  BY <1>29, <1>30, <1>31, <1>32, <1>33, <1>34, <1>35 DEF Kept, SoundTable
<1> QED
  BY <1>37, <1>38 DEF Rows, SoundTable

LEMMA RowIs ==
    ASSUME NEW m \in Members(Rows)
    PROVE  RowOf(m).of = m /\ Sound(RowOf(m))
<1>1. PICK row \in Rows : row.of = m
  BY DEF Members
<1>2. RowOf(m) \in Rows /\ RowOf(m).of = m
  BY <1>1 DEF RowOf
<1> QED
  BY <1>2, EveryRowSound DEF SoundTable

LEMMA AnswersAre ==
    ASSUME NEW m
    PROVE  /\ AnswerTo(m) \in {"answer", "other", "partly"}
           /\ AnswerTo(m) \in {"other", "partly"} => m \in Unnoticed
           /\ AnswerTo("Accessible.GetAttributes") = "answer"
BY DEF AnswerTo, AsksOther, ReadsPartly, Unnoticed

\* What comes back to the program, whatever the application does.
Seen(m, from, result) ==
    /\ result = [value |-> result.value, error |-> result.error]
    /\ result.value \in {"abort", "loop"} => m \in Fatal
    /\ from # "own" /\ ~result.error /\ result.value \in MadeUp \cup {"other", "partly"} =>
         m \in Unnoticed

AttributesKept(m, result) ==
    m = "Accessible.GetAttributes" => result.value \in {"answer", "null"}

LEMMA FailuresSeen ==
    ASSUME NEW m \in Members(Rows), NEW from, NEW back, back # "answer",
           NEW result \in Failures(m, from, back)
    PROVE  Seen(m, from, result) /\ AttributesKept(m, result)
<1> DEFINE row == RowOf(m)
           start == row.start
           how == row.how
<1>1. Sound(row) /\ row.of = m
  BY RowIs
<1>2. ASSUME NEW e, result = Result(start, e), how \in {"call", "property", "partial", "checked",
               "message", "unheard", "nothing"},
             how = "call" => e = (from # "own")
      PROVE  Seen(m, from, result) /\ AttributesKept(m, result)
  <2> HIDE DEF row
  <2>1. /\ result.value = start /\ result.error = e
        /\ result = [value |-> result.value, error |-> result.error]
    BY <1>2 DEF Result
  <2>2. start \notin {"abort", "loop"} /\ start \notin {"other", "partly"}
    BY <1>1 DEF Sound
  <2>3. from # "own" /\ ~result.error /\ start \in MadeUp => m \in Unnoticed
    BY <1>1, <1>2, <2>1 DEF Sound
  <2>4. m = "Accessible.GetAttributes" => start = "null"
    BY <1>1 DEF Sound
  <2> QED
    BY <2>1, <2>2, <2>3, <2>4 DEF Seen, AttributesKept
<1>3. how \in {"call", "property", "partial", "checked", "message", "unheard", "nothing",
               "set", "link", "driver"}
  BY <1>1 DEF Sound
<1>4. CASE how \in {"call", "property", "partial", "checked", "message", "unheard", "nothing"}
  <2> HIDE DEF row
  <2>1. \E e : result = Result(start, e) /\ (how = "call" => e = (from # "own"))
    <3>1. CASE how = "call"
      BY <3>1 DEF Failures, CallFails, row
    <3>2. CASE how = "property"
      BY <3>2 DEF Failures, PropertyFails, row
    <3>3. CASE how = "partial"
      BY <3>3 DEF Failures, PartialFails, row
    <3>4. CASE how = "checked"
      BY <3>4 DEF Failures, row
    <3>5. CASE how = "message"
      BY <3>5 DEF Failures, MessageFails, row
    <3>6. CASE how \in {"unheard", "nothing"}
      BY <3>6 DEF Failures, row
    <3> QED
      BY <1>4, <3>1, <3>2, <3>3, <3>4, <3>5, <3>6
  <2> QED
    BY <1>2, <1>4, <2>1
<1>5. CASE how \in {"set", "link"}
  <2>1. m \in Fatal /\ m # "Accessible.GetAttributes"
    BY <1>1, <1>5 DEF Sound
  <2>2. \/ result = Result("failed", TRUE) \/ result = Aborts \/ result = Result("null", FALSE)
        \/ result = Result("failed", FALSE)
        \/ result = Result("done", FALSE) /\ from # "gone" /\ ~Null(from, back)
    <3>1. CASE how = "set"
      BY <3>1 DEF Failures, SetFails
    <3>2. CASE how = "link"
      BY <3>2 DEF Failures, LinkFails
    <3> QED
      BY <1>5, <3>1, <3>2
  <2>3. result = Result("done", FALSE) => from = "own"
    BY <2>2 DEF Null, Refused, Result, Aborts
  <2> QED
    BY <2>1, <2>2, <2>3 DEF Seen, AttributesKept, Result, Aborts, MadeUp
<1>6. CASE how = "driver"
  <2>1. m \in Fatal /\ m # "Accessible.GetAttributes"
    BY <1>1, <1>6 DEF Sound
  <2>2. result = Result(start, FALSE) \/ result = Aborts
    BY <1>6 DEF Failures, DriverFails
  <2>3. start \in MadeUp => m \in Unnoticed
    BY <1>1, <1>6 DEF Sound
  <2>4. start \notin {"abort", "loop", "other", "partly"}
    BY <1>1 DEF Sound
  <2> HIDE DEF row
  <2> QED
    BY <2>1, <2>2, <2>3, <2>4 DEF Seen, AttributesKept, Result, Aborts, MadeUp
<1> QED
  BY <1>3, <1>4, <1>5, <1>6

LEMMA OutcomesSeen ==
    ASSUME NEW m \in Members(Rows), NEW from, NEW back,
           NEW result \in Outcomes(m, from, back)
    PROVE  Seen(m, from, result) /\ AttributesKept(m, result)
<1>1. CASE result = Result(AnswerTo(m), FALSE)
  <2>1. /\ result.value = AnswerTo(m)
        /\ result = [value |-> result.value, error |-> result.error]
    BY <1>1 DEF Result
  <2> QED
    BY <2>1, AnswersAre DEF Seen, AttributesKept, MadeUp
<1>2. CASE result = Hangs /\ m \in NeverRead
  BY <1>2 DEF Hangs, NeverRead, Seen, AttributesKept, Fatal, MadeUp
<1>3. CASE result \in Failures(m, from, IF back = "answer" THEN "nothing" ELSE back)
  BY <1>3, FailuresSeen
<1> QED
  BY <1>1, <1>2, <1>3 DEF Outcomes, Answered

-----------------------------------------------------------------------------
(* What objects keep.                                                      *)
KeptValues == {"answer", "null", Unset}

ObjectInv ==
    /\ link \in [Objects -> Links]
    /\ flags \in [Objects -> SUBSET Flagged]
    /\ kept \in [Objects -> [Members(Kept) -> KeptValues]]
    /\ aborted \in BOOLEAN
    /\ asks \in 0..MaxAsks
    /\ CachedAnswered
    /\ FailureSeen

\* What was seen is reported as such.
LEMMA ReportsSeen ==
    ASSUME NEW o, NEW m, NEW result, Seen(m, link[o], result), Returns(o, m, result)
    PROVE  FailureSeen' /\ aborted' \in BOOLEAN
<1>1. /\ last' = [of |-> m, link |-> link[o], value |-> result.value, error |-> result.error]
      /\ aborted' = (result \in Ends)
  BY DEF Returns
<1>2. /\ last'.of = m /\ last'.link = link[o] /\ last'.value = result.value
      /\ last'.error = result.error
  BY <1>1
<1>3. aborted' => m \in Fatal
  <2>1. aborted' => result \in Ends
    BY <1>1, Zenon
  <2>2. result \in Ends => result.value \in {"abort", "loop"}
    BY DEF Ends, Aborts, Hangs
  <2> QED
    BY <2>1, <2>2 DEF Seen
<1>4. link[o] # "own" /\ ~result.error
              /\ result.value \in MadeUp \cup {"other", "partly"} =>
          m \in Unnoticed
  BY DEF Seen
<1>5. aborted' \in BOOLEAN
  BY <1>1
<1> QED
  BY <1>2, <1>3, <1>4, <1>5 DEF FailureSeen

LEMMA MembersAre ==
    /\ Wrappers \subseteq Members(Rows)
    /\ Members(Kept) \subseteq Members(Rows)
    /\ OfApplication \subseteq Members(Kept)
BY DEF Members, Rows, Wrappers, OfApplication, Kept

LEMMA GetKeptKeeps ==
    ASSUME ClientCallsAssumption, ObjectInv, NEW o \in Objects, NEW m \in Members(Kept),
           GetKept(o, m)
    PROVE  ObjectInv'
<1>1. asks' \in 0..MaxAsks /\ link' = link
  BY DEF GetKept, Asks, ObjectInv, ClientCallsAssumption
<1>2. kept[o][m] \in KeptValues
  BY DEF ObjectInv
\* What is kept, or known to be missing, is returned.
<1>3. ASSUME NEW value \in KeptValues, Returns(o, m, Result(value, FALSE)), UNCHANGED <<kept, flags>>
      PROVE  ObjectInv'
  <2>1. Seen(m, link[o], Result(value, FALSE))
    BY <1>3 DEF Seen, Result, KeptValues, Unset, MadeUp
  <2>2. FailureSeen' /\ aborted' \in BOOLEAN
    BY <1>3, <2>1, ReportsSeen
  <2> QED
    BY <1>1, <1>3, <2>2 DEF ObjectInv, CachedAnswered
\* The application is asked.
<1>4. ASSUME NEW back, NEW r \in Outcomes(m, link[o], back),
             Returns(o, m, ReturnsOlder(o, m, r)),
             kept' = IF r.value = "answer" \/ m = "Accessible.GetAttributes"
                     THEN [kept EXCEPT ![o][m] = r.value] ELSE kept,
             flags' = IF link[o] # "gone" /\ Marked(m, r)
                      THEN [flags EXCEPT ![o] = @ \cup {m}] ELSE flags
      PROVE  ObjectInv'
  <2>1. Seen(m, link[o], r) /\ AttributesKept(m, r)
    BY <1>4, MembersAre, OutcomesSeen
  <2>2. Seen(m, link[o], ReturnsOlder(o, m, r))
    <3>1. CASE ReturnsOlder(o, m, r) = r
      BY <2>1, <3>1
    <3>2. CASE ReturnsOlder(o, m, r) = [r EXCEPT !.value = kept[o][m]]
      <4> DEFINE v == kept[o][m]
                 older == [value |-> v, error |-> r.error]
      <4>1. v \in KeptValues
        BY <1>2
      <4> HIDE DEF v
      <4>2. [r EXCEPT !.value = v] = older
        BY <2>1 DEF Seen
      <4>3. older.value = v /\ older.error = r.error /\ older = [value |-> older.value, error |-> older.error]
        OBVIOUS
      <4> HIDE DEF older
      <4>4. Seen(m, link[o], older)
        BY <4>1, <4>3 DEF Seen, KeptValues, Unset, MadeUp
      <4> QED
        BY <3>2, <4>2, <4>4 DEF v
    <3> QED
      BY <3>1, <3>2 DEF ReturnsOlder
  <2>3. FailureSeen' /\ aborted' \in BOOLEAN
    BY <1>4, <2>2, ReportsSeen
  <2>4. r.value = "answer" \/ m = "Accessible.GetAttributes" => r.value \in KeptValues
    BY <2>1 DEF AttributesKept, KeptValues
  <2>5. kept' \in [Objects -> [Members(Kept) -> KeptValues]]
    BY <1>4, <2>4 DEF ObjectInv
  <2>6. flags' \in [Objects -> SUBSET Flagged]
    BY <1>4 DEF ObjectInv, Marked
  <2>7. ASSUME NEW p \in Objects, NEW n \in flags'[p] \ {"Accessible.GetAttributes"},
               link[p] # "gone"
        PROVE  kept'[p][n] = "answer"
    <3>1. CASE p = o /\ n = m
      <4>1. r.value = "answer" \/ n \in flags[p]
        BY <1>4, <2>7, <3>1 DEF ObjectInv, Marked
      <4>2. CASE r.value = "answer"
        BY <1>4, <3>1, <4>2 DEF ObjectInv
      <4>3. CASE n \in flags[p] /\ r.value # "answer"
        <5>1. kept' = kept
          BY <1>4, <2>7, <3>1, <4>3
        <5> QED
          BY <2>7, <4>3, <5>1 DEF ObjectInv, CachedAnswered
      <4> QED
        BY <4>1, <4>2, <4>3
    <3>2. CASE ~(p = o /\ n = m)
      <4>1. n \in flags[p]
        BY <1>4, <2>7, <3>2 DEF ObjectInv
      <4>2. kept'[p][n] = kept[p][n]
        BY <1>4, <3>2 DEF ObjectInv
      <4> QED
        BY <2>7, <4>1, <4>2 DEF ObjectInv, CachedAnswered
    <3> QED
      BY <3>1, <3>2
  <2> QED
    BY <1>1, <2>3, <2>5, <2>6, <2>7 DEF ObjectInv, CachedAnswered
<1>5. CASE Returns(o, m, Result(kept[o][m], FALSE)) /\ UNCHANGED <<kept, flags>>
  BY <1>2, <1>3, <1>5
<1>6. CASE Returns(o, m, Result("null", FALSE)) /\ UNCHANGED <<kept, flags>>
  BY <1>3, <1>6 DEF KeptValues
<1> QED
  BY <1>4, <1>5, <1>6 DEF GetKept

LEMMA ObjectInvInductive ==
    ASSUME ClientCallsAssumption, ObjectInv, [ClientNext]_clientVars
    PROVE  ObjectInv'
<1>1. ASSUME NEW o \in Objects, NEW m \in Wrappers, CallFunction(o, m) PROVE ObjectInv'
  <2>1. PICK back \in BacksOf(o, m) : \E r \in Outcomes(m, link[o], back) : Returns(o, m, r)
    BY <1>1 DEF CallFunction
  <2>2. PICK r \in Outcomes(m, link[o], back) : Returns(o, m, r)
    BY <2>1
  <2>3. FailureSeen' /\ aborted' \in BOOLEAN
    <3>1. m \in Members(Rows)
      BY MembersAre
    <3>2. Seen(m, link[o], r)
      BY <3>1, OutcomesSeen
    <3> QED
      BY <2>2, <3>2, ReportsSeen
  <2>4. asks' \in 0..MaxAsks /\ UNCHANGED <<link, kept, flags>>
    BY <1>1 DEF CallFunction, Asks, ObjectInv, ClientCallsAssumption
  <2> QED
    BY <2>3, <2>4 DEF ObjectInv, CachedAnswered
<1>2. ASSUME NEW o \in Objects, ClearCache(o) PROVE ObjectInv'
  BY <1>2 DEF ClearCache, ObjectInv, CachedAnswered, FailureSeen
<1>3. ASSUME OwnConnection \/ DisposeApplication PROVE ObjectInv'
  <2>1. /\ link' \in [Objects -> Links]
        /\ \A o \in Objects : link'[o] # "gone" => link[o] # "gone"
    BY <1>3 DEF OwnConnection, DisposeApplication, ObjectInv, Links, Connected
  <2>2. UNCHANGED <<world, kept, flags, last, aborted, asks>>
    BY <1>3 DEF OwnConnection, DisposeApplication
  <2> QED
    BY <2>1, <2>2 DEF ObjectInv, CachedAnswered, FailureSeen
<1>4. ASSUME DisposeAccessible PROVE ObjectInv'
  <2>1. /\ link' = [link EXCEPT !["widget"] = "gone"]
        /\ kept' = [kept EXCEPT !["widget"]["Accessible.GetState"] = Unset,
                                !["widget"]["Accessible.Parent"] = Unset]
        /\ UNCHANGED <<world, flags, last, aborted, asks>>
    BY <1>4 DEF DisposeAccessible
  <2>2. link' \in [Objects -> Links] /\ link'["widget"] = "gone"
        /\ \A o \in Objects \ {"widget"} : link'[o] = link[o] /\ kept'[o] = kept[o]
    BY <2>1 DEF ObjectInv, Links, Objects
  <2>3. kept' \in [Objects -> [Members(Kept) -> KeptValues]]
    BY <2>1 DEF ObjectInv, KeptValues, Objects
  <2>4. CachedAnswered'
    BY <2>1, <2>2 DEF ObjectInv, CachedAnswered
  <2> QED
    BY <2>1, <2>2, <2>3, <2>4 DEF ObjectInv, FailureSeen
<1>5. ASSUME UNCHANGED <<world, objectVars>> PROVE ObjectInv'
  BY <1>5 DEF objectVars, ObjectInv, CachedAnswered, FailureSeen
<1>6. CASE ObjectsNext
  BY <1>1, <1>2, <1>3, <1>4, <1>6, GetKeptKeeps DEF ObjectsNext
<1>7. CASE DeregistrationCrashes
  <2>1. /\ aborted' = TRUE /\ world' = "devices"
        /\ UNCHANGED <<link, kept, flags, last, asks>>
    BY <1>7 DEF DeregistrationCrashes, ProgramRuns, Devices
  <2>2. FailureSeen'
    BY <2>1 DEF FailureSeen, ObjectInv
  <2> QED
    BY <2>1, <2>2 DEF ObjectInv, CachedAnswered
<1>8. CASE (DevicesNext /\ ~DeregistrationCrashes) \/ UNCHANGED clientVars
  BY <1>5, <1>8, DevicesLeaveObjects DEF clientVars
<1> QED
  BY <1>6, <1>7, <1>8 DEF ClientNext

-----------------------------------------------------------------------------
(* The client as a whole.                                                  *)
ThreadInv ==
    /\ world \in Worlds
    /\ strayed \in BOOLEAN /\ idle \in BOOLEAN
    /\ draining \in {"no", "idle", "call"}
    /\ events \in 0..MaxEvents

\* What is true of a client all the time: its callbacks, its calls, the events on
\* their way, the walk over the callbacks and what its objects keep.
ClientInv == ListInv /\ CallInv /\ MessageInv /\ WalkInv /\ ObjectInv /\ ThreadInv

LEMMA ClientInvInitially ==
    ASSUME ClientCallsAssumption, ClientInit PROVE ClientInv
<1>1. ListInv
  <2>1. callbacks \in [Listeners -> Seq(Node)] /\ wanted \in [Listeners -> SUBSET Callbacks]
        /\ freed \subseteq Listeners /\ made \in 0..MaxNodes
    BY DEF ClientInit, ClientCallsAssumption
  <2>2. \A l \in Listeners : callbacks[l] = <<>> /\ wanted[l] = {}
    BY DEF ClientInit
  <2>3. CallbackList(<<>>, {}, made)
    BY DEF CallbackList, Descending
  <2> QED
    BY <2>1, <2>2, <2>3 DEF ListInv
<1>2. CallInv
  BY DEF ClientInit, CallInv, ClientCallsAssumption
<1>3. MessageInv /\ WalkInv
  BY DEF ClientInit, MessageInv, WalkInv, Walking
<1>4. ObjectInv
  <2>1. /\ link \in [Objects -> Links] /\ flags \in [Objects -> SUBSET Flagged]
        /\ kept \in [Objects -> [Members(Kept) -> KeptValues]]
    BY DEF ClientInit, Links, KeptValues
  <2>2. CachedAnswered /\ FailureSeen /\ aborted \in BOOLEAN /\ asks \in 0..MaxAsks
    <3>1. /\ \A o \in Objects : flags[o] = {}
          /\ last = NoLast /\ aborted = FALSE /\ asks = 0 /\ MaxAsks \in Nat
      BY DEF ClientInit, ClientCallsAssumption
    <3>2. FailureSeen
      BY <3>1 DEF FailureSeen
    <3>3. CachedAnswered
      BY <3>1 DEF CachedAnswered
    <3>4. aborted \in BOOLEAN
      BY <3>1, Zenon
    <3>5. asks \in 0..MaxAsks
      BY <3>1
    <3> QED
      BY <3>2, <3>3, <3>4, <3>5
  <2> QED
    BY <2>1, <2>2 DEF ObjectInv
<1>5. ThreadInv
  <2>1. /\ world \in Worlds /\ strayed = FALSE /\ idle = FALSE /\ draining = "no"
        /\ events = 0 /\ MaxEvents \in Nat
    BY DEF ClientInit, ClientCallsAssumption
  <2>2. strayed \in BOOLEAN /\ idle \in BOOLEAN
    BY <2>1, Zenon
  <2>3. draining \in {"no", "idle", "call"} /\ events \in 0..MaxEvents
    BY <2>1
  <2> QED
    BY <2>1, <2>2, <2>3 DEF ThreadInv
<1> QED
  BY <1>1, <1>2, <1>3, <1>4, <1>5 DEF ClientInv

LEMMA ThreadInvInductive ==
    ASSUME ClientCallsAssumption, ThreadInv, [ClientNext]_clientVars
    PROVE  ThreadInv'
<1>1. world' = world
  BY ObjectsLeaveDevices, CrashLeavesDevices DEF ClientNext, DevicesNext, ClientRuns, RegistrydRuns, Dispatch,
     RunIdle, DrainEnds, AddCallback, RemoveCallback, Finalize, HandleDeviceEvent,
     ApplicationReturns, TimeOut, HandleQueue, NotifyEvent, CallbackReturns, CallRegistryd,
     CallApplication, Event, GiveUp, ObjectsNext, CallFunction, GetKept, ClearCache,
     OwnConnection, DisposeApplication, DisposeAccessible, clientVars
<1>2. strayed' \in BOOLEAN /\ UNCHANGED <<idle, draining>> /\ UNCHANGED events => ThreadInv'
  BY <1>1 DEF ThreadInv
<1>3. CASE HandleDeviceEvent
  <2>1. strayed' = (strayed \/ \E k \in freed : k <= Head(deferred).listener)
        /\ UNCHANGED <<idle, draining, events>>
    BY <1>3 DEF HandleDeviceEvent
  <2>2. strayed' \in BOOLEAN
    BY <2>1, Zenon
  <2> QED
    BY <1>2, <2>1, <2>2
<1>4. ASSUME NEW eaten \in BOOLEAN, CallbackReturns(eaten) PROVE ThreadInv'
  <2>1. strayed' = (strayed \/ (~eaten /\ walk.node \notin Nodes(walk.listener)))
        /\ UNCHANGED <<idle, draining, events>>
    BY <1>4 DEF CallbackReturns
  <2>2. strayed' \in BOOLEAN
    BY <2>1, Zenon
  <2> QED
    BY <1>2, <2>1, <2>2
<1>5. ASSUME Dispatch \/ RunIdle \/ ApplicationReturns PROVE ThreadInv'
  BY <1>1, <1>5 DEF Dispatch, RunIdle, ApplicationReturns, ThreadInv, registrydVars
<1>6. CASE DrainEnds
  <2>1. idle' = (idle /\ draining = "call") /\ draining' = "no" /\ UNCHANGED <<strayed, events>>
    BY <1>6 DEF DrainEnds, registrydVars
  <2>2. idle' \in BOOLEAN
    BY <2>1, Zenon
  <2> QED
    BY <1>1, <2>1, <2>2 DEF ThreadInv
<1>7. ASSUME NEW kind \in Kinds, Event(kind) PROVE ThreadInv'
  <2>1. events < MaxEvents /\ events' = events + 1 /\ UNCHANGED <<strayed, idle, draining>>
    BY <1>7 DEF Event, threadVars
  <2> QED
    BY <1>1, <2>1 DEF ThreadInv, ClientCallsAssumption
<1>8. ASSUME UNCHANGED <<strayed, idle, draining, events>> PROVE ThreadInv'
  BY <1>1, <1>8 DEF ThreadInv
<1>9. CASE DevicesNext
  <2>1. \/ UNCHANGED <<strayed, idle, draining, events>>
        \/ Dispatch \/ RunIdle \/ ApplicationReturns \/ DrainEnds \/ HandleDeviceEvent
        \/ \E eaten \in BOOLEAN : CallbackReturns(eaten)
        \/ \E kind \in Kinds : Event(kind)
    BY <1>9 DEF DevicesNext, ClientRuns, RegistrydRuns, TimeOut, HandleQueue, NotifyEvent,
       CallRegistryd, CallApplication, GiveUp, AddCallback, RemoveCallback, Finalize,
       DeregistrationCrashes, deviceVars, threadVars, registrydVars
  <2> QED
    BY <1>3, <1>4, <1>5, <1>6, <1>7, <1>8, <2>1
<1>10. CASE ObjectsNext \/ UNCHANGED clientVars
  <2>1. UNCHANGED <<strayed, idle, draining, events>>
    BY <1>10, ObjectsLeaveDevices DEF clientVars, deviceVars, threadVars, registrydVars
  <2> QED
    BY <1>8, <2>1
<1> QED
  BY <1>9, <1>10 DEF ClientNext

LEMMA ClientInvInductive ==
    ASSUME ClientCallsAssumption, ClientInv, [ClientNext]_clientVars
    PROVE  ClientInv'
BY ListInvInductive, CallInvInductive, MessageInvInductive, WalkInvInductive,
   ObjectInvInductive, ThreadInvInductive DEF ClientInv

LEMMA ClientInvAlways == ClientSpec => []ClientInv
<1>1. ClientInit => ClientInv
  BY ClientInvInitially, ClientCallsAssumption
<1>2. ClientInv /\ [ClientNext]_clientVars => ClientInv'
  BY ClientInvInductive, ClientCallsAssumption
<1> QED
  BY <1>1, <1>2, PTL DEF ClientSpec

LEMMA ClientTyped ==
    ASSUME ClientInv PROVE ClientTypeOK
<1>1. /\ callbacks \in [Listeners -> Seq(Node)] /\ freed \subseteq Listeners
      /\ made \in 0..MaxNodes /\ wanted \in [Listeners -> SUBSET Callbacks]
  BY DEF ClientInv, ListInv
<1>2. /\ inbox \in Seq(Sent) /\ deferred \in Seq(Sent) /\ sent \in Nat
      /\ awaited \in 0..sent /\ answered \subseteq 1..sent /\ asking \in Seq(Entry)
  BY DEF ClientInv, MessageInv
<1>3. Sent \subseteq Message
  BY <1>2 DEF Sent, Message
<1>4. inbox \in Seq(Message) /\ deferred \in Seq(Message)
  <2> HIDE DEF Sent, Message
  <2> QED
    BY <1>2, <1>3, SeqWider
<1>5. Walking => /\ walk.listener \in Listeners /\ walk.asked \in Seq(Callbacks)
                 /\ walk.node \in 1..MaxNodes /\ walk.standing \subseteq Callbacks
  BY WalkParts DEF ClientInv
<1>6. /\ calls \in 0..MaxCalls /\ queue \in Seq([call : Calls, id : 1..MaxCalls])
      /\ held \in Seq(Entry)
  BY DEF ClientInv, CallInv
<1>7. Waiting => waiting.op \in {"register", "deregister", "ask"}
  <2>1. waiting \in [op : {"register", "deregister", "ask"}, id : {calls}] \cup {NoCall}
    BY DEF ClientInv, CallInv
  <2> QED
    BY <2>1 DEF Waiting
<1>8. told \subseteq Entry
  BY ToldHeldImplied DEF ClientInv
<1>9. /\ link \in [Objects -> Links] /\ flags \in [Objects -> SUBSET Flagged]
      /\ aborted \in BOOLEAN /\ asks \in 0..MaxAsks
  BY DEF ClientInv, ObjectInv
<1>10. kept \in [Objects -> [Members(Kept) -> Value]]
  <2>1. KeptValues \subseteq Value
    BY DEF KeptValues, Value
  <2>2. kept \in [Objects -> [Members(Kept) -> KeptValues]]
    BY DEF ClientInv, ObjectInv
  <2> HIDE DEF KeptValues, Value
  <2> QED
    BY <2>1, <2>2
<1> QED
  BY <1>1, <1>2, <1>4, <1>5, <1>6, <1>7, <1>8, <1>9, <1>10 DEF ClientInv, ThreadInv, ClientTypeOK

\* The variables of a client take the values they should, and what is marked as kept
\* was answered: atspi_accessible_get_name and the others ask no more once marked.
THEOREM ClientKeepsAnswers == ClientSpec => []ClientConsistent
<1>1. ClientInv => ClientConsistent
  BY ClientTyped DEF ClientConsistent, ClientInv, ObjectInv
<1> QED
  BY <1>1, ClientInvAlways, PTL

\* A keystroke listener whose registration was answered with TRUE is one of
\* registryd's, although calls time out (dbind_set_timeout) and are handled later.
THEOREM RegistrationsHeld == ClientSpec => []ToldHeld
<1>1. ClientInv => ToldHeld
  BY ToldHeldImplied DEF ClientInv
<1> QED
  BY <1>1, ClientInvAlways, PTL

\* No function but those named returns as an answer, without an error, what an
\* application on the bus did not answer; and no other ends the program.
THEOREM FailuresTold == ClientSpec => []FailureSeen
<1>1. ClientInv => FailureSeen
  BY DEF ClientInv, ObjectInv
<1> QED
  BY <1>1, ClientInvAlways, PTL

\* atspi_device_event_dispatch calls no callback that was removed while others ran,
\* and all that stayed.
THEOREM WalkCallsAll == ClientSpec => WalkWhole
<1> DEFINE Called == Walking' /\ (~Walking \/ walk'.node # walk.node) =>
                         Last(walk'.asked) \in wanted[walk'.listener]
           Complete == Walking /\ ~Walking' /\ ~strayed'
                              /\ NextNode(walk.listener, walk.node) = End =>
                           walk.standing \subseteq ToSet(walk.asked)
<1>0. MaxNodes \in Nat
  BY ClientCallsAssumption DEF ClientCallsAssumption
<1>1. ASSUME ClientInv, [ClientNext]_clientVars PROVE Called
  <2>0. ListInv /\ MessageInv /\ WalkInv
    BY <1>1 DEF ClientInv
  <2> SUFFICES ASSUME Walking', ~Walking \/ walk'.node # walk.node
               PROVE  Last(walk'.asked) \in wanted[walk'.listener]
    OBVIOUS
  <2>1. CASE HandleDeviceEvent
    <3>1. /\ walk'.listener \in Listeners /\ callbacks[walk'.listener] # <<>>
          /\ walk'.node = FirstNode(walk'.listener)
          /\ walk'.asked = <<CallbackAt(walk'.listener, walk'.node)>>
      BY <2>0, <2>1, HandlesEvent, ClientCallsAssumption
    <3>2. Last(walk'.asked) = CallbackAt(walk'.listener, walk'.node)
      BY <3>1 DEF Last
    <3> QED
      BY <1>0, <2>0, <3>1, <3>2, FirstIs, CalledWanted
  <2>2. ASSUME NEW eaten \in BOOLEAN, CallbackReturns(eaten)
        PROVE  Last(walk'.asked) \in wanted[walk'.listener]
    <3> DEFINE next == NextNode(walk.listener, walk.node)
               c == CallbackAt(walk.listener, next)
    <3>1. /\ Walking /\ next # End /\ walk'.listener = walk.listener
          /\ walk'.asked = Append(walk.asked, c)
      BY <2>0, <2>2, CallbackReturned, ClientCallsAssumption
    <3>2. /\ walk.listener \in Listeners /\ walk.asked \in Seq(Callbacks) /\ walk.node \in Nat
      BY <1>0, <2>0, <3>1, WalkParts
    <3>3. next \in Nodes(walk.listener)
      BY <1>0, <2>0, <3>1, <3>2, NextIs
    <3>4. c \in wanted[walk.listener] /\ c \in Callbacks
      BY <1>0, <2>0, <3>2, <3>3, CalledWanted
    <3> HIDE DEF c
    <3>5. Last(walk'.asked) = c
      BY <3>1, <3>2, <3>4 DEF Last
    <3> QED
      BY <3>1, <3>4, <3>5
  \* Nobody else goes on.
  <2>3. ASSUME NEW l \in Listeners, NEW c \in Callbacks, RemoveCallback(l, c)
        PROVE  Walking /\ walk'.node = walk.node
    <3>1. walk' = IF Walking /\ walk.listener = l
                  THEN [walk EXCEPT !.standing = walk.standing \ {c}] ELSE walk
      BY <2>3 DEF RemoveCallback
    <3> QED
      BY <2>0, <3>1, WalkParts, FewerStand
  <2>7. ASSUME NEW l \in Listeners, Finalize(l)
        PROVE  Walking /\ walk'.node = walk.node
    <3>1. walk' = IF Walking /\ walk.listener = l THEN [walk EXCEPT !.standing = {}] ELSE walk
      BY <2>7 DEF Finalize
    <3> QED
      BY <2>0, <3>1, FewerStand
  <2>4. CASE UNCHANGED walk
    BY <2>4 DEF Walking
  <2>5. CASE DevicesNext
    <3>1. \/ UNCHANGED walk \/ HandleDeviceEvent
          \/ \E l \in Listeners : \/ \E c \in Callbacks : RemoveCallback(l, c)
                                  \/ Finalize(l)
          \/ \E eaten \in BOOLEAN : CallbackReturns(eaten)
      BY <2>5 DEF DevicesNext, ClientRuns, RegistrydRuns, Dispatch, RunIdle, DrainEnds,
         ApplicationReturns, TimeOut, HandleQueue, NotifyEvent, CallRegistryd,
         CallApplication, Event, GiveUp, AddCallback, DeregistrationCrashes, deviceVars, threadVars
    <3> QED
      BY <2>1, <2>2, <2>3, <2>4, <2>7, <3>1
  <2>6. CASE ObjectsNext \/ UNCHANGED clientVars
    <3>1. UNCHANGED walk
      BY <2>6, ObjectsLeaveDevices DEF clientVars, deviceVars, threadVars
    <3> QED
      BY <2>4, <3>1
  <2> QED
    BY <1>1, <2>5, <2>6 DEF ClientNext
<1>2. ClientInv => Complete
  <2> SUFFICES ASSUME ClientInv, Walking, NextNode(walk.listener, walk.node) = End,
                      NEW c \in walk.standing
               PROVE  c \in ToSet(walk.asked)
    OBVIOUS
  <2>1. walk.listener \in Listeners /\ walk.node \in Nat /\ ListInv
    BY <1>0, WalkParts DEF ClientInv
  <2>2. ~\E i \in DOMAIN callbacks[walk.listener] :
            callbacks[walk.listener][i].node < walk.node
    BY <1>0, <2>1, NextIs, NodesAre
  <2>3. \E i \in DOMAIN walk.asked : walk.asked[i] = c
    BY <2>2 DEF ClientInv, WalkInv
  <2> QED
    BY <2>3 DEF ToSet
<1>3. ClientInv /\ [ClientNext]_clientVars => [Called /\ Complete]_clientVars
  BY <1>1, <1>2
<1> QED
  BY <1>3, ClientInvAlways, PTL DEF ClientSpec, WalkWhole
=============================================================================
