--------------------------- MODULE Registry_proofs ----------------------------
(***************************************************************************)
(* The registry for any set of clients, events and embeddings.             *)
(***************************************************************************)
EXTENDS Registry, SequenceTheorems, TLAPS

\* What removing one element leaves of a list: the others, in their order.
LEMMA RemovedAtProperties ==
    ASSUME NEW S, NEW s \in Seq(S), NEW i \in 0..(Len(s) - 1)
    PROVE  /\ RemovedAt(s, i) \in Seq(S)
           /\ Len(RemovedAt(s, i)) = Len(s) - 1
           /\ \A k \in 1..(Len(s) - 1) :
                 RemovedAt(s, i)[k] = IF k <= i THEN s[k] ELSE s[k + 1]
<1> DEFINE front == SubSeq(s, 1, i)
           back == SubSeq(s, i + 2, Len(s))
<1>1. /\ Len(s) \in Nat
      /\ \A k \in 1..Len(s) : s[k] \in S
  BY LenProperties, ElementOfSeq
<1>2. /\ front \in Seq(S)
      /\ Len(front) = i
      /\ \A k \in 1..i : front[k] = s[k]
  <2>1. \A k \in 1..i : s[k] \in S
    BY <1>1
  <2> QED
    BY <1>1, <2>1, SubSeqProperties
<1>3. /\ back \in Seq(S)
      /\ Len(back) = Len(s) - 1 - i
      /\ \A k \in 1..(Len(s) - 1 - i) : back[k] = s[k + i + 1]
  <2>1. \A k \in (i + 2)..Len(s) : s[k] \in S
    BY <1>1
  <2>2. /\ back \in Seq(S)
        /\ Len(back) = IF i + 2 <= Len(s) THEN Len(s) - (i + 2) + 1 ELSE 0
        /\ \A k \in 1..(Len(s) - (i + 2) + 1) : back[k] = s[i + 2 + k - 1]
    BY <1>1, <2>1, SubSeqProperties
  <2> QED
    BY <1>1, <2>2
<1>4. ASSUME NEW f \in Seq(S), NEW b \in Seq(S)
      PROVE  /\ f \o b \in Seq(S)
             /\ Len(f \o b) = Len(f) + Len(b)
             /\ \A k \in 1..(Len(f) + Len(b)) :
                   (f \o b)[k] = IF k <= Len(f) THEN f[k] ELSE b[k - Len(f)]
  BY ConcatProperties
<1>5. RemovedAt(s, i) = front \o back
  BY DEF RemovedAt
<1> HIDE DEF front, back
<1>6. /\ RemovedAt(s, i) \in Seq(S)
      /\ Len(RemovedAt(s, i)) = Len(s) - 1
  <2>1. /\ front \o back \in Seq(S)
        /\ Len(front \o back) = Len(front) + Len(back)
    BY <1>2, <1>3, <1>4, Zenon
  <2>2. i + (Len(s) - 1 - i) = Len(s) - 1
    BY <1>1
  <2> QED
    BY <2>1, <2>2, <1>2, <1>3, <1>5, Zenon
<1>7. ASSUME NEW k \in 1..(Len(s) - 1)
      PROVE  RemovedAt(s, i)[k] = IF k <= i THEN s[k] ELSE s[k + 1]
  <2>1. CASE k <= i
    BY <1>1, <1>2, <1>3, <1>4, <1>5, <2>1
  <2>2. CASE k > i
    <3>1. k - i \in 1..(Len(s) - 1 - i) /\ k - i + i + 1 = k + 1
      BY <1>1, <2>2
    <3> QED
      BY <1>1, <1>2, <1>3, <1>4, <1>5, <2>2, <3>1
  <2> QED
    BY <1>1, <2>1, <2>2
<1> QED
  BY <1>6, <1>7

\* Inserting at the end is appending.
LEMMA InsertedAtEnd ==
    ASSUME NEW S, NEW s \in Seq(S), NEW x \in S
    PROVE  InsertedAt(s, Len(s), x) = Append(s, x)
<1>1. SubSeq(s, 1, Len(s)) = s
  BY SubSeqFull
<1>2. SubSeq(s, Len(s) + 1, Len(s)) = <<>>
  BY LenProperties, SubSeqEmpty
<1>3. /\ Append(s, x) \in Seq(S)
      /\ Append(s, x) = s \o <<x>>
      /\ Append(s, x) \o <<>> = Append(s, x)
  BY ConcatEmptySeq
<1> QED
  BY <1>1, <1>2, <1>3 DEF InsertedAt

\* Inserting anywhere keeps a list a list.
LEMMA InsertedAtType ==
    ASSUME NEW S, NEW s \in Seq(S), NEW i \in Nat, i <= Len(s), NEW x \in S
    PROVE  InsertedAt(s, i, x) \in Seq(S)
<1>1. /\ Len(s) \in Nat
      /\ \A k \in 1..Len(s) : s[k] \in S
  BY LenProperties, ElementOfSeq
<1>2. SubSeq(s, 1, i) \in Seq(S) /\ SubSeq(s, i + 1, Len(s)) \in Seq(S)
  BY <1>1, SubSeqProperties
<1> QED
  BY <1>2, ConcatProperties DEF InsertedAt

-----------------------------------------------------------------------------

\* have_mouse_event_listener agrees with the registrations, after any sequence
\* of calls and departures.  The formula is inductive by itself.
THEOREM PollCorrect == Spec => []PollFollowsEvents
<1>1. Init => PollFollowsEvents
  BY DEF Init, PollFollowsEvents
<1>2. ASSUME PollFollowsEvents, [Next]_vars
      PROVE  PollFollowsEvents'
  <2>1. CASE UNCHANGED eventVars
    BY <1>2, <2>1, Zenon DEF eventVars, PollFollowsEvents
  <2>2. ASSUME NEW c, NEW event, RegisterEvent(c, event)
        PROVE  PollFollowsEvents'
    <3>1. [bus |-> c, data |-> event].data = event
      OBVIOUS
    <3>2. (\E e \in events' : NeedsMousePoll(e.data))
            <=> (\E e \in events : NeedsMousePoll(e.data)) \/ NeedsMousePoll(event)
      BY <2>2, <3>1 DEF RegisterEvent
    <3> QED
      BY <1>2, <2>2, <3>2, Zenon DEF RegisterEvent, PollFollowsEvents
  <2>3. ASSUME NEW c, NEW general, RemoveEvents(c, general)
        PROVE  PollFollowsEvents'
    <3>1. (\E e \in events' : NeedsMousePoll(e.data))
            => \E e \in events : NeedsMousePoll(e.data)
      BY <2>3 DEF RemoveEvents
    <3> QED
      BY <1>2, <2>3, <3>1, Zenon DEF RemoveEvents, PollFollowsEvents
  <2>4. ASSUME NEW c \in Names,
               ClientEmbeds(c) \/ ClientUnembeds(c) \/ ClientLeaves(c)
                 \/ ClientReleasesName(c)
        PROVE  UNCHANGED eventVars
    BY <2>4 DEF ClientEmbeds, ClientUnembeds, ClientLeaves, ClientReleasesName,
                NameOwnerChanged
  <2>5. ASSUME NEW c \in Names, ClientRegistersEvent(c)
        PROVE  PollFollowsEvents'
    BY <2>5, <2>2 DEF ClientRegistersEvent
  <2>6. ASSUME NEW c \in Names, ClientDeregistersEvent(c)
        PROVE  PollFollowsEvents'
    BY <2>6, <2>3 DEF ClientDeregistersEvent
  <2>7. ASSUME CleanupProceeds
        PROVE  PollFollowsEvents'
    <3>1. CASE CleanupEnds
      BY <3>1, <2>3 DEF CleanupEnds
    <3>2. CASE CleanupSkips \/ CleanupRemoves \/ CleanupCrashes
      BY <3>2, <2>1 DEF CleanupSkips, CleanupRemoves, CleanupCrashes
    <3> QED
      BY <2>7, <3>1, <3>2 DEF CleanupProceeds
  <2>8. CASE UNCHANGED vars
    BY <2>8, <2>1 DEF vars
  <2> QED
    BY <1>2, <2>1, <2>4, <2>5, <2>6, <2>7, <2>8 DEF Next
<1> QED
  BY <1>1, <1>2, PTL DEF Spec

-----------------------------------------------------------------------------

\* The desktop's children are known to whoever follows the signals.  It takes
\* the types: a signal's index must be one of the list.
DesktopInv ==
    /\ apps \in Seq(Refs)
    /\ view = apps
    /\ cleanup \in Cleanups \cup {NoCleanup}

\* The records of a cleanup and of none are told apart by their fields.
LEMMA CleanupType ==
    ASSUME cleanup \in Cleanups \cup {NoCleanup}, Cleaning
    PROVE  cleanup \in Cleanups
BY DEF Cleaning

\* Any removal removes the same child from the list and from the view.
LEMMA RemovalKeepsView ==
    ASSUME DesktopInv, NEW index \in Nat, index < Len(apps),
           RemoveApplication(index)
    PROVE  apps' \in Seq(Refs) /\ view' = apps' /\ apps' = RemovedAt(apps, index)
<1>1. index \in 0..(Len(apps) - 1) /\ Len(apps) \in Nat
  BY LenProperties DEF DesktopInv
<1>2. RemovedAt(apps, index) \in Seq(Refs)
  BY <1>1, RemovedAtProperties DEF DesktopInv
<1> QED
  BY <1>2 DEF RemoveApplication, ChildRemoved, DesktopInv

\* Unembed removes the second application, or nothing.
LEMMA UnembedKeepsView ==
    ASSUME DesktopInv, NEW ref, Unembed(ref)
    PROVE  apps' \in Seq(Refs) /\ view' = apps'
<1>1. FindIndexOfReference \in Nat /\ Len(apps) \in Nat
  BY LenProperties DEF FindIndexOfReference, DesktopInv
<1>2. CASE FindIndexOfReference = 0
  BY <1>2 DEF Unembed, appVars, DesktopInv
<1>3. CASE FindIndexOfReference > 0 /\ FindIndexOfReference < Len(apps)
  <2>1. RemoveApplication(FindIndexOfReference)
    BY <1>1, <1>3 DEF Unembed
  <2> QED
    BY <1>1, <1>3, <2>1, RemovalKeepsView
<1>4. CASE FindIndexOfReference > 0 /\ FindIndexOfReference >= Len(apps)
  <2>1. \/ UNCHANGED appVars
        \/ /\ UNCHANGED apps
           /\ \E old \in Refs : ChildRemoved(FindIndexOfReference, old)
    BY <1>1, <1>4 DEF Unembed
  <2> QED
    BY <1>1, <1>4, <2>1 DEF ChildRemoved, appVars, DesktopInv
<1> QED
  BY <1>1, <1>2, <1>3, <1>4

\* The formula is inductive: the signals and the list never part.
LEMMA DesktopInductive ==
    /\ Init => DesktopInv
    /\ DesktopInv /\ [Next]_vars => DesktopInv'
<1>1. Init => DesktopInv
  BY EmptySeq DEF Init, DesktopInv
<1>2. ASSUME DesktopInv, [Next]_vars
      PROVE  DesktopInv'
  <2>1. ASSUME NEW c \in Names, ClientEmbeds(c)
        PROVE  DesktopInv'
    <3>1. PICK ref \in Refs : Embed(ref)
      BY <2>1 DEF ClientEmbeds, Refs
    <3>2. apps' = Append(apps, ref) /\ view' = Append(apps, ref)
      BY <1>2, <3>1, InsertedAtEnd DEF Embed, ChildAdded, DesktopInv
    <3> QED
      BY <1>2, <2>1, <3>2 DEF ClientEmbeds, DesktopInv
  <2>2. ASSUME NEW c \in Names, ClientUnembeds(c)
        PROVE  DesktopInv'
    BY <1>2, <2>2, UnembedKeepsView DEF ClientUnembeds, DesktopInv
  <2>3. ASSUME NEW c \in Names,
               ClientRegistersEvent(c) \/ ClientDeregistersEvent(c)
        PROVE  DesktopInv'
    BY <1>2, <2>3 DEF ClientRegistersEvent, ClientDeregistersEvent, appVars,
                      DesktopInv
  <2>4. ASSUME NEW c \in Names, ClientLeaves(c) \/ ClientReleasesName(c)
        PROVE  DesktopInv'
    <3>1. [name |-> c, at |-> 0, again |-> FALSE] \in Cleanups
      BY DEF Cleanups
    <3>2. NameOwnerChanged(c)
      BY <2>4 DEF ClientLeaves, ClientReleasesName
    <3> QED
      BY <1>2, <3>1, <3>2 DEF NameOwnerChanged, appVars, DesktopInv
  <2>5. ASSUME CleanupProceeds
        PROVE  DesktopInv'
    <3>1. cleanup \in Cleanups /\ cleanup.at \in Nat
      BY <1>2, <2>5, CleanupType DEF CleanupProceeds, DesktopInv, Cleanups
    <3>2. CASE CleanupSkips
      BY <1>2, <3>1, <3>2 DEF CleanupSkips, appVars, Cleanups, DesktopInv
    <3>3. CASE CleanupRemoves
      <4>1. apps' \in Seq(Refs) /\ view' = apps'
        BY <1>2, <3>1, <3>3, RemovalKeepsView DEF CleanupRemoves
      <4>2. cleanup' \in Cleanups
        <5>1. PICK again \in BOOLEAN :
                 cleanup' = [cleanup EXCEPT !.again = again,
                                            !.at = IF again THEN @ ELSE @ + 1]
          BY <3>3, RegistryAssumption DEF CleanupRemoves
        <5>2. (IF again THEN cleanup.at ELSE cleanup.at + 1) \in Nat
          BY <3>1
        <5>3. cleanup' = [name |-> cleanup.name,
                          at |-> IF again THEN cleanup.at ELSE cleanup.at + 1,
                          again |-> again]
          BY <3>1, <5>1 DEF Cleanups
        <5> QED
          BY <3>1, <5>2, <5>3 DEF Cleanups
      <4> QED
        BY <4>1, <4>2 DEF DesktopInv
    <3>4. CASE CleanupCrashes \/ CleanupEnds
      BY <1>2, <3>4 DEF CleanupCrashes, CleanupEnds, appVars, DesktopInv
    <3> QED
      BY <2>5, <3>2, <3>3, <3>4 DEF CleanupProceeds
  <2>6. CASE UNCHANGED vars
    BY <1>2, <2>6 DEF vars, appVars, DesktopInv
  <2> QED
    BY <1>2, <2>1, <2>2, <2>3, <2>4, <2>5, <2>6 DEF Next
<1> QED
  BY <1>1, <1>2

\* So it holds in every reachable state.
THEOREM DesktopInvariant == Spec => []DesktopInv
<1> QED
  BY DesktopInductive, PTL DEF Spec

\* Every ChildrenChanged signal is true of the desktop, for any number of
\* applications and whatever they and their departures do.
THEOREM SignalsCorrect == Spec => []ViewFollowsApps
<1>1. DesktopInv => ViewFollowsApps
  BY DEF DesktopInv, ViewFollowsApps
<1> QED
  BY <1>1, DesktopInvariant, PTL

-----------------------------------------------------------------------------

(***************************************************************************)
(* The desktop as long as nobody strays: with applications embedded once,  *)
(* no Unembed, no well-known name given up, and an allocator that          *)
(* overwrites what it frees.                                               *)
(***************************************************************************)

\* While a departure is handled, the application that left is the only one not
\* connected, and it is still ahead of the loop.
Orderly ==
    /\ \A i, j \in DOMAIN apps : apps[i].name = apps[j].name => i = j
    /\ ~Cleaning => \A i \in DOMAIN apps : apps[i].name \in connected
    /\ Cleaning =>
          /\ ~cleanup.again
          /\ cleanup.name \notin connected
          /\ \A i \in DOMAIN apps :
                apps[i].name \notin connected
                    => apps[i].name = cleanup.name /\ i > cleanup.at

OrderlyInv == strayed \/ Orderly

\* The list has a length, and references at its indexes.
LEMMA AppsType ==
    ASSUME DesktopInv
    PROVE  /\ Len(apps) \in Nat
           /\ DOMAIN apps = 1..Len(apps)
           /\ \A i \in DOMAIN apps : apps[i] \in Refs
  BY LenProperties, ElementOfSeq DEF DesktopInv

\* An application not yet embedded has a name that no embedded one has.
LEMMA EmbedKeepsOrder ==
    ASSUME DesktopInv, Orderly, NEW c \in Names, ClientEmbeds(c), ~strayed'
    PROVE  /\ \A i, j \in DOMAIN apps' : apps'[i].name = apps'[j].name => i = j
           /\ \A i \in DOMAIN apps' : apps'[i].name \in connected'
           /\ UNCHANGED <<cleanup, connected>>
           /\ ~Cleaning
           /\ \A i \in DOMAIN apps : i \in DOMAIN apps' /\ apps'[i] = apps[i]
<1>1. PICK path \in Paths : apps' = Append(apps, [name |-> c, path |-> path])
  BY Zenon DEF ClientEmbeds, Embed
<1> DEFINE ref == [name |-> c, path |-> path]
<1>2. ref \in Refs /\ ref.name = c
  BY DEF Refs
<1>3. /\ Len(apps) \in Nat
      /\ DOMAIN apps = 1..Len(apps)
      /\ \A i \in DOMAIN apps : apps[i] \in Refs
  BY AppsType
<1>4. ASSUME NEW i \in DOMAIN apps
      PROVE  apps[i].name # c
  BY DEF ClientEmbeds
<1> HIDE DEF ref
<1>5. /\ DOMAIN apps' = 1..(Len(apps) + 1)
      /\ \A i \in 1..Len(apps) : apps'[i] = apps[i]
      /\ apps'[Len(apps) + 1] = ref
  <2>1. apps \in Seq(Refs) /\ apps' = Append(apps, ref)
    BY <1>1 DEF DesktopInv, ref
  <2> QED
    BY <2>1, <1>2, <1>3
<1>6. ~Cleaning /\ c \in connected /\ UNCHANGED <<cleanup, connected>>
  BY DEF ClientEmbeds, Ready
<1> QED
  BY <1>2, <1>3, <1>4, <1>5, <1>6 DEF Orderly

\* The loop removes the application that left and no other.
LEMMA RemovalKeepsOrder ==
    ASSUME DesktopInv, Orderly, Cleaning, CleanupRemoves,
           UNCHANGED connected, ~strayed'
    PROVE  /\ Orderly'
           /\ \A i \in DOMAIN apps :
                 apps[i].name \in connected
                     => \E j \in DOMAIN apps' : apps'[j] = apps[i]
<1>1. /\ Len(apps) \in Nat
      /\ DOMAIN apps = 1..Len(apps)
      /\ \A i \in DOMAIN apps : apps[i] \in Refs
  BY AppsType
<1>2. cleanup \in Cleanups /\ cleanup.at \in Nat
  BY CleanupType DEF DesktopInv, Cleanups
<1>3. /\ cleanup.at < Len(apps)
      /\ apps[cleanup.at + 1].name = cleanup.name
      /\ cleanup' = [cleanup EXCEPT !.again = FALSE, !.at = @ + 1]
  <2>1. PICK again \in Rereads :
           /\ cleanup' = [cleanup EXCEPT !.again = again,
                                        !.at = IF again THEN @ ELSE @ + 1]
           /\ strayed' = (strayed \/ again)
    BY DEF CleanupRemoves
  <2>2. again = FALSE
    BY <2>1, RegistryAssumption
  <2> QED
    BY <2>1, <2>2 DEF CleanupRemoves, Orderly
<1>4. apps' = RemovedAt(apps, cleanup.at)
  BY DEF CleanupRemoves, RemoveApplication
<1>5. /\ apps' \in Seq(Refs)
      /\ Len(apps') = Len(apps) - 1
      /\ \A k \in 1..(Len(apps) - 1) :
            apps'[k] = IF k <= cleanup.at THEN apps[k] ELSE apps[k + 1]
  <2>1. cleanup.at \in 0..(Len(apps) - 1)
    BY <1>1, <1>2, <1>3
  <2> QED
    BY <1>4, <2>1, RemovedAtProperties DEF DesktopInv
<1>6. DOMAIN apps' = 1..(Len(apps) - 1)
  BY <1>5, LenProperties
<1>7. ASSUME NEW i \in DOMAIN apps, i # cleanup.at + 1
      PROVE  apps[i].name # cleanup.name /\ apps[i].name \in connected
  BY <1>1, <1>2, <1>3, <1>7 DEF Orderly
<1>8. ASSUME NEW k \in DOMAIN apps'
      PROVE  \E i \in DOMAIN apps :
                /\ i = (IF k <= cleanup.at THEN k ELSE k + 1)
                /\ i # cleanup.at + 1
                /\ apps'[k] = apps[i]
  BY <1>1, <1>2, <1>5, <1>6
<1>9. \A k \in DOMAIN apps' : apps'[k].name \in connected'
  BY <1>7, <1>8
<1>10. \A k, l \in DOMAIN apps' : apps'[k].name = apps'[l].name => k = l
  <2> SUFFICES ASSUME NEW k \in DOMAIN apps', NEW l \in DOMAIN apps',
                      apps'[k].name = apps'[l].name
               PROVE  k = l
    OBVIOUS
  <2>1. PICK i \in DOMAIN apps : /\ i = (IF k <= cleanup.at THEN k ELSE k + 1)
                                 /\ apps'[k] = apps[i]
    BY <1>8
  <2>2. PICK j \in DOMAIN apps : /\ j = (IF l <= cleanup.at THEN l ELSE l + 1)
                                 /\ apps'[l] = apps[j]
    BY <1>8
  <2>3. i = j
    BY <2>1, <2>2 DEF Orderly
  <2> QED
    BY <1>1, <1>2, <1>6, <2>1, <2>2, <2>3
<1>11. /\ ~cleanup'.again
       /\ cleanup'.name \notin connected'
  BY <1>2, <1>3 DEF Orderly, Cleanups
<1>12. ASSUME NEW i \in DOMAIN apps, apps[i].name \in connected
       PROVE  \E j \in DOMAIN apps' : apps'[j] = apps[i]
  <2>1. i # cleanup.at + 1
    BY <1>3, <1>12 DEF Orderly
  <2>2. CASE i <= cleanup.at
    BY <1>1, <1>2, <1>3, <1>5, <1>6, <2>2
  <2>3. CASE i > cleanup.at + 1
    <3>1. i - 1 \in DOMAIN apps' /\ ~(i - 1 <= cleanup.at) /\ i - 1 + 1 = i
      BY <1>1, <1>2, <1>6, <2>3
    <3> QED
      BY <1>5, <1>6, <3>1
  <2> QED
    BY <1>1, <1>2, <2>1, <2>2, <2>3
<1> QED
  BY <1>9, <1>10, <1>11, <1>12 DEF Orderly

\* A client that leaves has not left anything behind the loop yet.
LEMMA LeavingKeepsOrder ==
    ASSUME DesktopInv, Orderly, NEW c \in Names, ClientLeaves(c)
    PROVE  Orderly' /\ UNCHANGED apps
<1>1. /\ ~Cleaning
      /\ connected' = connected \ {c}
      /\ cleanup' = [name |-> c, at |-> 0, again |-> FALSE]
      /\ apps' = apps
  BY DEF ClientLeaves, Ready, NameOwnerChanged, appVars
<1>2. \A i \in DOMAIN apps : i > 0
  BY AppsType
<1>3. cleanup'.name = c /\ cleanup'.at = 0 /\ cleanup'.again = FALSE
  BY <1>1
<1>4. ~Cleaning' => \A i \in DOMAIN apps' : apps'[i].name \in connected'
  <2>1. cleanup' # NoCleanup
    BY <1>1 DEF NoCleanup
  <2> QED
    BY <2>1 DEF Cleaning
<1> QED
  BY <1>1, <1>2, <1>3, <1>4 DEF Orderly

\* Who has strayed once has for good.
LEMMA StrayedStays == [Next]_vars /\ strayed => strayed'
  BY DEF Next, vars, ClientEmbeds, ClientUnembeds, ClientRegistersEvent,
         ClientDeregistersEvent, ClientLeaves, ClientReleasesName, CleanupProceeds,
         CleanupSkips, CleanupRemoves, CleanupCrashes, CleanupEnds

\* The steps, and what they leave in the desktop.
LEMMA StepKeepsOrder ==
    ASSUME DesktopInv, Orderly, [Next]_vars, ~strayed'
    PROVE  /\ Orderly'
           /\ \A i \in DOMAIN apps :
                 apps[i].name \in connected
                     => \E j \in DOMAIN apps' : apps'[j] = apps[i]
<1>1. ASSUME NEW c \in Names, ClientEmbeds(c)
      PROVE  /\ Orderly'
             /\ \A i \in DOMAIN apps : i \in DOMAIN apps' /\ apps'[i] = apps[i]
  BY <1>1, EmbedKeepsOrder DEF Orderly, Cleaning
<1>2. ASSUME NEW c \in Names,
             ClientUnembeds(c) \/ ClientReleasesName(c)
      PROVE  FALSE
  BY <1>2 DEF ClientUnembeds, ClientReleasesName
<1>3. ASSUME NEW c \in Names,
             ClientRegistersEvent(c) \/ ClientDeregistersEvent(c)
      PROVE  UNCHANGED <<apps, cleanup, connected>>
  BY <1>3 DEF ClientRegistersEvent, ClientDeregistersEvent, appVars
<1>4. ASSUME CleanupProceeds
      PROVE  /\ Orderly'
             /\ \A i \in DOMAIN apps :
                   apps[i].name \in connected
                       => \E j \in DOMAIN apps' : apps'[j] = apps[i]
  <2>1. Cleaning /\ UNCHANGED connected
    BY <1>4 DEF CleanupProceeds
  <2>2. cleanup \in Cleanups /\ cleanup.at \in Nat /\ ~cleanup.again
    BY <2>1, CleanupType DEF DesktopInv, Orderly, Cleanups
  <2>3. /\ Len(apps) \in Nat
        /\ DOMAIN apps = 1..Len(apps)
    BY AppsType
  <2>4. CASE CleanupSkips
    <3>1. /\ apps' = apps
          /\ apps[cleanup.at + 1].name # cleanup.name
          /\ cleanup' = [cleanup EXCEPT !.at = @ + 1]
      BY <2>4 DEF CleanupSkips, appVars
    <3>2. /\ cleanup'.name = cleanup.name
          /\ cleanup'.again = cleanup.again
          /\ cleanup'.at = cleanup.at + 1
      BY <2>2, <3>1 DEF Cleanups
    <3>3. cleanup' # NoCleanup
      BY <2>2, <3>1 DEF Cleanups, NoCleanup
    <3>4. \A i \in DOMAIN apps :
             apps[i].name \notin connected
                 => apps[i].name = cleanup.name /\ i > cleanup.at + 1
      BY <2>1, <2>2, <2>3, <3>1 DEF Orderly
    <3> QED
      BY <2>1, <2>2, <3>1, <3>2, <3>3, <3>4 DEF Orderly, Cleaning
  <2>5. CASE CleanupRemoves
    BY <2>1, <2>5, RemovalKeepsOrder
  <2>6. CASE CleanupEnds
    <3>1. \A i \in DOMAIN apps : apps[i].name \in connected
      BY <2>1, <2>2, <2>3, <2>6 DEF CleanupEnds, Orderly
    <3>2. apps' = apps /\ cleanup' = NoCleanup
      BY <2>6 DEF CleanupEnds, appVars
    <3> QED
      BY <2>1, <3>1, <3>2 DEF Orderly, Cleaning
  <2>7. ~CleanupCrashes
    BY <2>2 DEF CleanupCrashes
  <2> QED
    BY <1>4, <2>4, <2>5, <2>6, <2>7 DEF CleanupProceeds
<1>5. CASE UNCHANGED <<apps, cleanup, connected>>
  BY <1>5 DEF Orderly, Cleaning
<1> QED
  BY <1>1, <1>2, <1>3, <1>4, <1>5, LeavingKeepsOrder DEF Next, vars, appVars

\* A step after which somebody has strayed needs no order, and one before which
\* somebody had is such a step.
LEMMA OrderlyInductive ==
    /\ Init => OrderlyInv
    /\ DesktopInv /\ OrderlyInv /\ [Next]_vars => OrderlyInv'
<1>1. Init => OrderlyInv
  <2> SUFFICES ASSUME Init
               PROVE  Orderly
    BY DEF OrderlyInv
  <2>1. DOMAIN apps = {} /\ ~Cleaning
    BY DEF Init, Cleaning
  <2> QED
    BY <2>1 DEF Orderly
<1>2. DesktopInv /\ OrderlyInv /\ [Next]_vars => OrderlyInv'
  BY StepKeepsOrder, StrayedStays DEF OrderlyInv
<1> QED
  BY <1>1, <1>2

\* So the order is kept in every reachable state, unless somebody strayed.
THEOREM OrderlyInvariant == Spec => []OrderlyInv
<1> QED
  BY OrderlyInductive, DesktopInvariant, PTL DEF Spec

\* Once the departure of a client has been handled, the desktop has none of its
\* children.
THEOREM DesktopCorrect == Spec => []DesktopOfConnected
<1>1. OrderlyInv => DesktopOfConnected
  BY DEF OrderlyInv, Orderly, DesktopOfConnected, Ready
<1> QED
  BY <1>1, OrderlyInvariant, PTL

\* A departure takes no child of a client that is still connected.
THEOREM ConnectedCorrect == Spec => ConnectedStay
<1>1. DesktopInv /\ OrderlyInv /\ [Next]_vars
        => [~strayed' =>
              \A i \in DOMAIN apps :
                 apps[i].name \in connected
                     => \E j \in DOMAIN apps' : apps'[j] = apps[i]]_vars
  BY StepKeepsOrder, StrayedStays DEF OrderlyInv
<1> QED
  BY <1>1, OrderlyInvariant, DesktopInvariant, PTL DEF Spec, ConnectedStay

-----------------------------------------------------------------------------

(***************************************************************************)
(* Everything the registry keeps, whatever clients do.                     *)
(***************************************************************************)

\* The variables that DesktopInv leaves out have their types, and an event is
\* that of a client on the bus or of the one whose departure is being handled.
EventsInv ==
    /\ id \in 0..MaxEmbeds
    /\ events \subseteq Entries
    /\ connected \subseteq Names
    /\ polling \in BOOLEAN /\ crashed \in BOOLEAN /\ strayed \in BOOLEAN
    /\ \A e \in events :
          e.bus \in connected \/ (Cleaning /\ e.bus = cleanup.name)

\* An event registered is that of whoever registers it; one removed is gone.
LEMMA EventCallsKeepEvents ==
    ASSUME EventsInv, NEW c \in Names,
           ClientRegistersEvent(c) \/ ClientDeregistersEvent(c)
    PROVE  EventsInv'
<1>1. UNCHANGED <<id, cleanup, connected, crashed, strayed>> /\ c \in connected
  BY DEF ClientRegistersEvent, ClientDeregistersEvent
<1>2. CASE ClientRegistersEvent(c)
  <2>1. PICK event \in EventNames : RegisterEvent(c, event)
    BY <1>2 DEF ClientRegistersEvent
  <2> DEFINE entry == [bus |-> c, data |-> event]
  <2>2. entry \in Entries /\ entry.bus \in connected
    BY <1>1 DEF Entries
  <2>3. NeedsMousePoll(event) \in BOOLEAN
    BY DEF NeedsMousePoll
  <2>4. events' = events \cup {entry} /\ polling' \in BOOLEAN
    BY <2>1, <2>3 DEF RegisterEvent, EventsInv
  <2> HIDE DEF entry
  <2> QED
    BY <1>1, <2>2, <2>4 DEF EventsInv, Cleaning
<1>3. CASE ClientDeregistersEvent(c)
  <2>1. PICK general : RemoveEvents(c, general)
    BY <1>3 DEF ClientDeregistersEvent
  <2>2. events' \subseteq events /\ polling' \in BOOLEAN
    BY <2>1 DEF RemoveEvents, EventsInv
  <2> QED
    BY <1>1, <2>2 DEF EventsInv, Cleaning
<1> QED
  BY <1>2, <1>3

\* The loop leaves the events alone; its end removes all those of the client.
LEMMA CleanupKeepsEvents ==
    ASSUME DesktopInv, EventsInv, CleanupProceeds
    PROVE  EventsInv'
<1>1. UNCHANGED <<id, connected>> /\ Cleaning /\ cleanup \in Cleanups
  BY CleanupType DEF CleanupProceeds, DesktopInv
<1>2. CASE CleanupEnds
  <2>1. UNCHANGED <<crashed, strayed>> /\ RemoveEvents(cleanup.name, <<>>)
    BY <1>2 DEF CleanupEnds
  <2>2. \A data : EventIsSubtype(data, <<>>)
    <3>1. DOMAIN <<>> = {}
      OBVIOUS
    <3> QED
      BY <3>1, Zenon DEF EventIsSubtype
  <2>3. events' = {e \in events : e.bus # cleanup.name}
    BY <2>1, <2>2 DEF RemoveEvents
  <2>4. polling' \in BOOLEAN
    BY <2>1 DEF RemoveEvents, EventsInv
  <2> QED
    BY <1>1, <2>1, <2>3, <2>4 DEF EventsInv
<1>3. CASE CleanupSkips \/ CleanupRemoves \/ CleanupCrashes
  <2>1. UNCHANGED eventVars /\ crashed' \in BOOLEAN
    BY <1>3 DEF CleanupSkips, CleanupRemoves, CleanupCrashes, EventsInv
  <2>2. strayed' \in BOOLEAN
    BY <1>3, RegistryAssumption DEF CleanupSkips, CleanupRemoves, CleanupCrashes,
                                    EventsInv
  <2>3. cleanup'.name = cleanup.name /\ cleanup' # NoCleanup
    <3>1. /\ cleanup = [name |-> cleanup.name, at |-> cleanup.at,
                        again |-> cleanup.again]
      BY <1>1 DEF Cleanups
    <3>2. \/ cleanup' = cleanup
          \/ \E at, again : cleanup' = [cleanup EXCEPT !.again = again, !.at = at]
      <4>1. CASE CleanupSkips
        <5>1. cleanup' = [cleanup EXCEPT !.again = cleanup.again, !.at = cleanup.at + 1]
          BY <4>1, <3>1 DEF CleanupSkips
        <5> QED
          BY <5>1
      <4>2. CASE CleanupRemoves
        BY <4>2 DEF CleanupRemoves
      <4>3. CASE CleanupCrashes
        BY <4>3 DEF CleanupCrashes
      <4> QED
        BY <1>3, <4>1, <4>2, <4>3
    <3>3. ASSUME NEW at, NEW again, cleanup' = [cleanup EXCEPT !.again = again, !.at = at]
          PROVE  cleanup' = [name |-> cleanup.name, at |-> at, again |-> again]
      BY <3>1, <3>3
    <3> QED
      BY <1>1, <3>1, <3>2, <3>3 DEF NoCleanup, Cleaning
  <2> QED
    BY <1>1, <2>1, <2>2, <2>3 DEF EventsInv, eventVars, Cleaning
<1> QED
  BY <1>2, <1>3 DEF CleanupProceeds

\* Beside the desktop's children, the registry's variables are as they should be.
LEMMA EventsInductive ==
    /\ Init => EventsInv
    /\ DesktopInv /\ EventsInv /\ [Next]_vars => EventsInv'
<1>1. Init => EventsInv
  <2> SUFFICES ASSUME Init PROVE EventsInv
    OBVIOUS
  <2>1. 0 \in 0..MaxEmbeds
    BY RegistryAssumption
  <2>2. events = {} /\ connected = Names
    BY DEF Init
  <2> QED
    BY <2>1, <2>2, Zenon DEF Init, EventsInv
<1>2. ASSUME DesktopInv, EventsInv, [Next]_vars
      PROVE  EventsInv'
  <2>1. ASSUME NEW c \in Names, ClientEmbeds(c)
        PROVE  EventsInv'
    <3>1. UNCHANGED <<eventVars, cleanup, connected, crashed>> /\ id' = id + 1
          /\ id < MaxEmbeds /\ strayed' \in BOOLEAN
      BY <1>2, <2>1 DEF ClientEmbeds, Embed, EventsInv
    <3> QED
      BY <1>2, <3>1, RegistryAssumption DEF EventsInv, eventVars, Cleaning
  <2>2. ASSUME NEW c \in Names, ClientUnembeds(c)
        PROVE  EventsInv'
    <3>1. /\ UNCHANGED <<eventVars, id, cleanup, connected>>
          /\ strayed' \in BOOLEAN /\ crashed' \in BOOLEAN
      BY <1>2, <2>2 DEF ClientUnembeds, Unembed, EventsInv
    <3> QED
      BY <1>2, <3>1 DEF EventsInv, eventVars, Cleaning
  <2>3. ASSUME NEW c \in Names, ClientLeaves(c) \/ ClientReleasesName(c)
        PROVE  EventsInv'
    <3>1. /\ UNCHANGED <<eventVars, id, crashed>>
          /\ connected \ {c} \subseteq connected' /\ connected' \subseteq connected
          /\ cleanup' = [name |-> c, at |-> 0, again |-> FALSE]
          /\ strayed' \in BOOLEAN /\ ~Cleaning
      BY <1>2, <2>3 DEF ClientLeaves, ClientReleasesName, NameOwnerChanged, Ready,
                        EventsInv
    <3>2. cleanup'.name = c /\ Cleaning'
      BY <3>1 DEF Cleaning, NoCleanup
    <3> QED
      BY <1>2, <3>1, <3>2 DEF EventsInv, eventVars
  <2>4. CASE UNCHANGED vars
    BY <1>2, <2>4 DEF EventsInv, vars, eventVars, Cleaning
  <2> QED
    BY <1>2, <2>1, <2>2, <2>3, <2>4, EventCallsKeepEvents, CleanupKeepsEvents
       DEF Next
<1> QED
  BY <1>1, <1>2

\* So they are in every reachable state.
THEOREM EventsInvariant == Spec => []EventsInv
<1> QED
  BY EventsInductive, DesktopInvariant, PTL DEF Spec

\* Between messages nobody who has left is registered for an event or has, unless
\* somebody strayed, a child in the desktop; and every variable has its type.
THEOREM RegistryConsistent == Spec => []Consistent
<1>1. DesktopInv /\ EventsInv => TypeOK /\ EventsOfConnected
  BY DEF DesktopInv, EventsInv, TypeOK, EventsOfConnected, Ready
<1> QED
  BY <1>1, DesktopInvariant, EventsInvariant, DesktopCorrect, PTL DEF Consistent
=============================================================================
