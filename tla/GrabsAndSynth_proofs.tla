------------------------- MODULE GrabsAndSynth_proofs -------------------------
(***************************************************************************)
(* The keys registryd takes and the keys it types: the passive key grabs   *)
(* (KeyGrabs) for any set of clients, masks and keys, and any requests,    *)
(* well-behaved or not; the searches for characters and symbols            *)
(* (Ucs2Keysym) in any table; and the synthesis of keys and symbols        *)
(* (KeySynth) for any keymap, any clients and users and any loans.         *)
(***************************************************************************)
EXTENDS KeyGrabs, KeySynth, FiniteSetTheorems, FunctionTheorems, SequenceTheorems, TLAPS

\* The types of what is counted; no grab is forgotten; the X server has given no
\* key away twice.  The last is what makes it safe to grab a key again and to
\* forget the entry when that fails: a key that registryd holds cannot fail.
KInv ==
    /\ scenario \in Scenarios
    /\ keyListeners \in Seq(Entry)
    /\ keygrabs \in [Grabs -> Nat]
    /\ xGrabs \subseteq Masks \X Keys
    /\ xGrabs \cap taken = {}
    /\ keycodes \in [Symbols -> Keys \cup {AnyKey}]
    /\ resets \in 0..MaxResets
    /\ NoForgottenGrab

\* A list of keys stands for grabs that can be counted, whatever the keymap.
LEMMA GrabsForType ==
    ASSUME NEW mask \in Masks, NEW keys \in Seq(KeyDefinitions),
           keycodes \in [Symbols -> Keys \cup {AnyKey}]
    PROVE  GrabsFor(mask, keys) \in Seq(Grabs)
<1>1. CASE keys = <<>>
  BY <1>1 DEF GrabsFor, Grabs
<1>2. CASE keys # <<>>
  <2>1. \A i \in 1..Len(keys) : keys[i] \in KeyDefinitions
    BY ElementOfSeq
  <2>2. \A i \in 1..Len(keys) : Keycode(keys[i]) \in Keys \cup {AnyKey}
    BY <2>1 DEF Keycode, KeyDefinitions
  <2>3. GrabsFor(mask, keys) = [i \in 1..Len(keys) |-> <<mask, Keycode(keys[i])>>]
    BY <1>2 DEF GrabsFor
  <2> QED
    BY <2>2, <2>3 DEF Grabs
<1> QED
  BY <1>1, <1>2

\* How often a grab occurs is a number, and not 0 for one that does.
LEMMA UsesType ==
    ASSUME NEW grabs \in Seq(Grabs), NEW g
    PROVE  /\ Uses(grabs, g) \in Nat
           /\ g \in RangeOf(grabs) => Uses(grabs, g) > 0
<1> DEFINE places == {i \in DOMAIN grabs : grabs[i] = g}
<1>1. IsFiniteSet(places)
  <2>1. DOMAIN grabs = 1..Len(grabs) /\ Len(grabs) \in Nat
    OBVIOUS
  <2>2. IsFiniteSet(1..Len(grabs))
    BY <2>1, FS_Interval
  <2> QED
    BY <2>1, <2>2, FS_Subset
<1>2. Cardinality(places) \in Nat
  BY <1>1, FS_CardinalityType
<1>3. ASSUME g \in RangeOf(grabs) PROVE Cardinality(places) # 0
  <2>1. places # {}
    BY <1>3 DEF RangeOf
  <2> QED
    BY <1>1, <2>1, FS_EmptySet
<1> QED
  BY <1>2, <1>3 DEF Uses

\* What DropEntries leaves is a list of entries.
LEMMA DropEntriesType ==
    ASSUME keyListeners \in Seq(Entry), NEW ids, DropEntries(ids)
    PROVE  keyListeners' \in Seq(Entry)
<1> DEFINE kept == {i \in DOMAIN keyListeners : keyListeners[i].id \notin ids}
<1>1. Cardinality(kept) \in Nat
  <2>1. DOMAIN keyListeners = 1..Len(keyListeners) /\ Len(keyListeners) \in Nat
    OBVIOUS
  <2>2. IsFiniteSet(1..Len(keyListeners))
    BY <2>1, FS_Interval
  <2>3. IsFiniteSet(kept)
    BY <2>1, <2>2, FS_Subset
  <2> QED
    BY <2>3, FS_CardinalityType
<1>2. PICK order \in [1..Cardinality(kept) -> kept] :
         keyListeners' = [i \in DOMAIN order |-> keyListeners[order[i]]]
  BY DEF DropEntries
<1>3. \A i \in kept : keyListeners[i] \in Entry
  BY ElementOfSeq
<1>4. PICK n \in Nat : n = Cardinality(kept)
  BY <1>1
<1> HIDE DEF kept
<1>5. order \in [1..n -> kept]
  BY <1>4
<1>6. /\ keyListeners' = [i \in 1..n |-> keyListeners[order[i]]]
      /\ \A i \in 1..n : keyListeners[order[i]] \in Entry
  BY <1>2, <1>3, <1>5
<1> QED
  BY <1>6

\* The keymap stays one, whatever is lent and taken back.
LEMMA SetReservedType ==
    ASSUME keycodes \in [Symbols -> Keys \cup {AnyKey}], NEW symbol, SetReserved(symbol)
    PROVE  keycodes' \in [Symbols -> Keys \cup {AnyKey}]
BY KeyGrabsAssumption DEF SetReserved

LEMMA LendType ==
    ASSUME keycodes \in [Symbols -> Keys \cup {AnyKey}], resets \in 0..MaxResets,
           NEW symbol, Lend(symbol)
    PROVE  /\ keycodes' \in [Symbols -> Keys \cup {AnyKey}]
           /\ resets' \in 0..MaxResets
BY KeyGrabsAssumption, SetReservedType DEF Lend

\* Giving references back forgets an entry only with its key released.
LEMMA ReleaseKeepsGrabs ==
    ASSUME KInv, NEW released \in [Grabs -> Nat], ReleaseGrabs(released),
           UNCHANGED taken
    PROVE  /\ keygrabs' \in [Grabs -> Nat]
           /\ xGrabs' \subseteq Masks \X Keys
           /\ xGrabs' \cap taken' = {}
           /\ NoForgottenGrab'
<1> DEFINE gone == {g \in Grabs : keygrabs[g] > 0 /\ released[g] >= keygrabs[g]}
<1>1. /\ keygrabs' = [g \in Grabs |-> IF keygrabs[g] = 0 \/ g \in gone THEN 0
                                     ELSE keygrabs[g] - released[g]]
      /\ xGrabs' = xGrabs \ CoveredBy(gone)
  BY DEF ReleaseGrabs
<1>2. \A g \in Grabs : keygrabs[g] \in Nat /\ released[g] \in Nat
  BY DEF KInv
<1>3. keygrabs' \in [Grabs -> Nat]
  BY <1>1, <1>2
<1>4. ASSUME NEW x \in xGrabs'
      PROVE  \E g \in Grabs : keygrabs'[g] > 0 /\ x \in Covered(g)
  <2>1. x \in xGrabs /\ x \notin CoveredBy(gone)
    BY <1>1
  <2>2. PICK g \in Grabs : keygrabs[g] > 0 /\ x \in Covered(g)
    BY <2>1 DEF KInv, NoForgottenGrab
  <2>3. g \notin gone
    BY <2>1, <2>2 DEF CoveredBy
  <2>4. keygrabs'[g] > 0
    BY <1>1, <1>2, <2>2, <2>3
  <2> QED
    BY <2>2, <2>4
<1> QED
  BY <1>1, <1>3, <1>4 DEF KInv, NoForgottenGrab

\* Deregistering, whatever list of keys is sent with it.
LEMMA DeregisterKeepsKInv ==
    ASSUME KInv, NEW l, NEW mask \in Masks, NEW keys \in Seq(KeyDefinitions),
           DeregisterKeyListener(l, mask, keys), UNCHANGED <<taken, mapVariables>>
    PROVE  KInv'
<1> DEFINE released == [g \in Grabs |-> Uses(GrabsFor(mask, keys), g)]
<1>1. released \in [Grabs -> Nat]
  BY GrabsForType, UsesType DEF KInv
<1>2. ReleaseGrabs(released) /\ DropEntries({l})
  BY DEF DeregisterKeyListener
<1> HIDE DEF released
<1>3. keyListeners' \in Seq(Entry)
  BY <1>2, DropEntriesType DEF KInv
<1> QED
  BY <1>1, <1>2, <1>3, ReleaseKeepsGrabs DEF KInv, mapVariables

\* Registering: a new entry whose key the X server would not give is dropped
\* again, the others hold theirs.
LEMMA RegisterKeepsKInv ==
    ASSUME KInv, NEW l \in KeyListeners, NEW mask \in Masks, NEW keys \in KeyLists,
           NEW global \in BOOLEAN, RegisterKeystrokeListener(l, mask, keys, global)
    PROVE  KInv'
<1> DEFINE grabs == GrabsFor(mask, keys)
           entry == [id |-> l, mask |-> mask, keys |-> keys, global |-> global,
                     took |-> IF global THEN grabs ELSE <<>>]
           granted == NewGrabs(grabs) \ RefusedGrabs(grabs)
<1>0. grabs \in Seq(Grabs) /\ UNCHANGED <<taken, mapVariables>>
  BY GrabsForType, KeyGrabsAssumption DEF KInv, RegisterKeystrokeListener
<1>1. keyListeners' \in Seq(Entry)
  <2>1. entry \in Entry
    <3>1. <<>> \in Seq(Grabs)
      OBVIOUS
    <3> HIDE DEF grabs
    <3> QED
      BY <1>0, <3>1 DEF Entry
  <2>2. keyListeners' = <<entry>> \o keyListeners
    BY DEF RegisterKeystrokeListener
  <2> HIDE DEF entry
  <2> QED
    BY <2>1, <2>2, ConcatProperties DEF KInv
<1>2. CASE ~global
  BY <1>1, <1>2 DEF RegisterKeystrokeListener, KInv, NoForgottenGrab, mapVariables
<1>3. CASE global
  <2>1. RegisterGrabs(grabs) /\ UNCHANGED taken
    BY <1>3 DEF RegisterKeystrokeListener
  <2>2. grabs \in Seq(Grabs)
    BY <1>0
  <2> HIDE DEF grabs
  <2>3. /\ keygrabs' = [g \in Grabs |-> IF g \in FailedGrabs(grabs) THEN 0
                                       ELSE keygrabs[g] + Uses(grabs, g)]
        /\ xGrabs' = xGrabs \cup CoveredBy(granted)
    BY <2>1 DEF RegisterGrabs
  <2>4. \A g \in Grabs : keygrabs[g] \in Nat /\ Uses(grabs, g) \in Nat
    BY <2>2, UsesType DEF KInv
  <2>5. keygrabs' \in [Grabs -> Nat]
    BY <2>3, <2>4
  <2>6. ASSUME NEW g \in granted
        PROVE  /\ g \in Grabs /\ keygrabs'[g] > 0
               /\ Covered(g) \cap taken = {}
               /\ Covered(g) \subseteq Masks \X Keys
    <3>1. g \in RangeOf(grabs) /\ g \notin FailedGrabs(grabs) /\ g \in NewGrabs(grabs)
      BY DEF NewGrabs, FailedGrabs, Noticed
    <3>2. g \in Grabs
      BY <2>2, <3>1, ElementOfSeq DEF RangeOf
    <3>3. Uses(grabs, g) > 0
      BY <2>2, <3>1, UsesType
    <3>4. keygrabs'[g] > 0
      BY <2>3, <2>4, <3>1, <3>2, <3>3
    <3>5. Covered(g) \cap taken = {}
      BY DEF RefusedGrabs
    <3>6. Covered(g) \subseteq Masks \X Keys
      BY <3>2 DEF Covered, Grabs
    <3> QED
      BY <3>2, <3>4, <3>5, <3>6
  <2>7. xGrabs' \subseteq Masks \X Keys /\ xGrabs' \cap taken' = {}
    <3>1. CoveredBy(granted) \subseteq Masks \X Keys /\ CoveredBy(granted) \cap taken = {}
      BY <2>6 DEF CoveredBy
    <3> QED
      BY <2>1, <2>3, <3>1 DEF KInv
  <2>8. ASSUME NEW x \in xGrabs'
        PROVE  \E g \in Grabs : keygrabs'[g] > 0 /\ x \in Covered(g)
    <3>1. CASE x \in CoveredBy(granted)
      BY <2>6, <3>1 DEF CoveredBy
    <3>2. CASE x \in xGrabs
      <4>1. PICK g \in Grabs : keygrabs[g] > 0 /\ x \in Covered(g)
        BY <3>2 DEF KInv, NoForgottenGrab
      <4>2. g \notin FailedGrabs(grabs)
        BY <2>4, <4>1 DEF FailedGrabs, Noticed, RefusedGrabs, NewGrabs
      <4>3. keygrabs'[g] > 0
        BY <2>3, <2>4, <4>1, <4>2
      <4> QED
        BY <4>1, <4>3
    <3> QED
      BY <2>3, <3>1, <3>2
  <2> QED
    BY <1>0, <1>1, <2>5, <2>7, <2>8 DEF KInv, NoForgottenGrab, mapVariables
<1> QED
  BY <1>2, <1>3

\* The key grabbed again has a keycode.
LEMMA ForwardsKey ==
    ASSUME KInv, ForwardKeyEvent
    PROVE  \E k \in Keys, masks \in SUBSET Masks : ReissueGrabs(k, masks)
BY DEF ForwardKeyEvent, KInv

\* Grabbing a key again fails only for a key that registryd does not hold, so
\* the entry that is forgotten accounted for none.
LEMMA ForwardKeepsKInv ==
    ASSUME KInv, ForwardKeyEvent
    PROVE  KInv'
<1>1. PICK k \in Keys, keys \in SUBSET Masks : ReissueGrabs(k, keys)
  BY ForwardsKey
<1> DEFINE again == {<<m, k>> : m \in {n \in keys : keygrabs[<<n, k>>] > 0}}
           denied == again \cap taken
           failed == Noticed(denied)
<1>3. /\ keygrabs' = [g \in Grabs |-> IF g \in failed THEN 0 ELSE keygrabs[g]]
      /\ xGrabs' = xGrabs \cup (again \ denied)
      /\ failed \subseteq denied
  BY <1>1 DEF ReissueGrabs, Noticed
<1>4. ASSUME NEW g \in again
      PROVE  /\ g \in Masks \X Keys /\ g \in Grabs
             /\ g[2] # AnyKey /\ keygrabs[g] > 0
  <2>1. PICK m \in Masks : g = <<m, k>> /\ keygrabs[<<m, k>>] > 0
    OBVIOUS
  <2> QED
    BY <2>1, KeyGrabsAssumption DEF Grabs
<1> HIDE DEF again, failed
<1>5. UNCHANGED <<keyListeners, taken, mapVariables>>
  BY DEF ForwardKeyEvent
<1>6. keygrabs' \in [Grabs -> Nat]
  BY <1>3 DEF KInv
<1>7. xGrabs' \subseteq Masks \X Keys /\ xGrabs' \cap taken' = {}
  BY <1>3, <1>4, <1>5 DEF KInv
<1>8. ASSUME NEW x \in xGrabs'
      PROVE  \E g \in Grabs : keygrabs'[g] > 0 /\ x \in Covered(g)
  <2>1. CASE x \in again \ denied
    <3>1. x \in Grabs /\ keygrabs[x] > 0 /\ x \in Covered(x)
      BY <1>4, <2>1 DEF Covered
    <3> QED
      BY <1>3, <2>1, <3>1
  <2>2. CASE x \in xGrabs
    <3>1. PICK g \in Grabs : keygrabs[g] > 0 /\ x \in Covered(g)
      BY <2>2 DEF KInv, NoForgottenGrab
    <3>2. g \notin failed
      <4>1. SUFFICES ASSUME g \in failed PROVE FALSE
        OBVIOUS
      <4>2. x = g
        BY <1>3, <1>4, <3>1, <4>1 DEF Covered
      <4> QED
        BY <1>3, <2>2, <4>1, <4>2 DEF KInv
    <3> QED
      BY <1>3, <3>1, <3>2
  <2> QED
    BY <1>3, <2>1, <2>2
<1> QED
  BY <1>5, <1>6, <1>7, <1>8 DEF KInv, NoForgottenGrab, mapVariables

\* Steps that leave the counts and the grabs alone.
LEMMA KeymapKeepsKInv ==
    ASSUME KInv, UNCHANGED <<scenario, keyListeners, keygrabs, xGrabs>>,
           taken' \cap xGrabs = {},
           keycodes' \in [Symbols -> Keys \cup {AnyKey}], resets' \in 0..MaxResets
    PROVE  KInv'
BY DEF KInv, NoForgottenGrab

LEMMA KeymapSteps ==
    ASSUME KInv, ForwardUnmapped \/ GenerateKeyboardEvent \/ ResetReservedKey \/ UserRemaps
    PROVE  /\ UNCHANGED <<scenario, keyListeners, keygrabs, serverVars, reply, leaving, spoilt>>
           /\ keycodes' \in [Symbols -> Keys \cup {AnyKey}]
           /\ resets' \in 0..MaxResets
           /\ trapped => trapped'
           /\ trapped \in BOOLEAN => trapped' \in BOOLEAN
           /\ ended' \in {ended, "null"}
<1>1. CASE ForwardUnmapped
  BY <1>1, LendType DEF ForwardUnmapped, KInv
<1>2. CASE GenerateKeyboardEvent
  <2>1. CASE UNCHANGED mapVariables
    BY <1>2, <2>1 DEF GenerateKeyboardEvent, KInv, mapVariables, daemonVars
  <2>2. CASE \E symbol \in Symbols : Lend(symbol)
    BY <1>2, <2>2, LendType DEF GenerateKeyboardEvent, KInv, daemonVars
  <2> QED
    BY <1>2, <2>1, <2>2 DEF GenerateKeyboardEvent
<1>3. CASE ResetReservedKey
  <2>1. keycodes' \in [Symbols -> Keys \cup {AnyKey}]
    BY <1>3, SetReservedType DEF ResetReservedKey, KInv
  <2>2. resets' \in 0..MaxResets
    BY <1>3, KeyGrabsAssumption DEF ResetReservedKey, KInv
  <2> QED
    BY <1>3, <2>1, <2>2 DEF ResetReservedKey, daemonVars
<1>4. CASE UserRemaps
  BY <1>4, ScenariosAssumption DEF UserRemaps, KInv, daemonVars
<1> QED
  BY <1>1, <1>2, <1>3, <1>4

\* A departure in progress: the entries of the client are deregistered with
\* their own masks and keys.
LEMMA RemovalKeepsKInv ==
    ASSUME KInv, RemovalProceeds
    PROVE  KInv'
<1>1. CASE RemoveKeyListener
  <2>1. PICK i \in DOMAIN keyListeners :
           /\ DeregisterKeyListener(keyListeners[i].id, keyListeners[i].mask,
                                    keyListeners[i].keys)
           /\ UNCHANGED <<taken, mapVariables>>
    BY <1>1 DEF RemoveKeyListener, EntriesOf
  <2>2. keyListeners[i] \in Entry
    BY ElementOfSeq DEF KInv
  <2>3. keyListeners[i].mask \in Masks /\ keyListeners[i].keys \in Seq(KeyDefinitions)
    BY <2>2, KeyGrabsAssumption DEF Entry
  <2> QED
    BY <2>1, <2>3, DeregisterKeepsKInv
<1>2. CASE RemovalEnds
  BY <1>2 DEF RemovalEnds, daemonVars, serverVars, mapVariables, KInv, NoForgottenGrab
<1> QED
  BY <1>1, <1>2 DEF RemovalProceeds

\* What clients send are lists of keys.
LEMMA KeyListsTyped ==
    ASSUME NEW keys \in KeyLists \cup {<<>>}
    PROVE  keys \in Seq(KeyDefinitions)
<1>1. <<>> \in Seq(KeyDefinitions)
  OBVIOUS
<1> QED
  BY <1>1, KeyGrabsAssumption

LEMMA ListsOfScenario ==
    ASSUME KInv
    PROVE  scenario.lists \subseteq KeyLists
BY ScenariosAssumption DEF KInv

\* The formula is inductive.
THEOREM KeyGrabsInvariant == Spec => []KInv
<1>1. Init => KInv
  <2> SUFFICES ASSUME Init PROVE KInv
    OBVIOUS
  <2>1. scenario \in Scenarios /\ keycodes \in [Symbols -> Keys \cup {AnyKey}]
    BY ScenariosAssumption DEF Init
  <2>2. keyListeners \in Seq(Entry) /\ resets \in 0..MaxResets
    BY KeyGrabsAssumption DEF Init
  <2> QED
    BY <2>1, <2>2 DEF Init, KInv, NoForgottenGrab
<1>2. KInv /\ [Next]_vars => KInv'
  <2> SUFFICES ASSUME KInv, [Next]_vars PROVE KInv'
    OBVIOUS
  <2>1. ASSUME NEW l \in KeyListeners, NEW mask \in Masks, NEW keys \in KeyLists,
               NEW global \in BOOLEAN, RegisterKeystrokeListener(l, mask, keys, global)
        PROVE  KInv'
    BY <2>1, RegisterKeepsKInv
  <2>2. ASSUME NEW l \in KeyListeners, NEW mask \in Masks,
               NEW keys \in KeyLists \cup {<<>>},
               DeregisterKeystrokeListener(l, mask, keys)
        PROVE  KInv'
    <3>1. keys \in Seq(KeyDefinitions)
      BY KeyListsTyped
    <3>2. DeregisterKeyListener(l, mask, keys) /\ UNCHANGED <<taken, mapVariables>>
      BY <2>2 DEF DeregisterKeystrokeListener
    <3> QED
      BY <3>1, <3>2, DeregisterKeepsKInv
  <2>3. ASSUME NEW c \in KeyClients, ClientLeaves(c) PROVE KInv'
    BY <2>3 DEF ClientLeaves, daemonVars, serverVars, mapVariables, KInv, NoForgottenGrab
  <2>4. CASE RemovalProceeds
    BY <2>4, RemovalKeepsKInv
  <2>5. CASE ForwardKeyEvent
    BY <2>5, ForwardKeepsKInv
  <2>6. CASE ForwardUnmapped \/ GenerateKeyboardEvent \/ ResetReservedKey \/ UserRemaps
    BY <2>6, KeymapSteps, KeymapKeepsKInv DEF KInv, serverVars
  <2>7. CASE RivalGrabs
    BY <2>7, KeymapKeepsKInv DEF RivalGrabs, daemonVars, mapVariables, KInv
  <2>8. CASE RivalReleases
    BY <2>8, KeymapKeepsKInv DEF RivalReleases, daemonVars, mapVariables, KInv
  <2>9. CASE UNCHANGED vars
    BY <2>9 DEF vars, daemonVars, serverVars, mapVariables, KInv, NoForgottenGrab
  <2> QED
    BY <2>1, <2>2, <2>3, <2>4, <2>5, <2>6, <2>7, <2>8, <2>9, ListsOfScenario DEF Next
<1> QED
  BY <1>1, <1>2, PTL DEF Spec

\* Whatever clients register, deregister in the wrong way or leave behind, and
\* whatever other X clients grab, registryd never holds a key of the user's
\* keyboard that no entry of keygrabs_list accounts for.
THEOREM NoGrabForgotten == Spec => []NoForgottenGrab
<1>1. KInv => NoForgottenGrab
  BY DEF KInv
<1> QED
  BY <1>1, KeyGrabsInvariant, PTL

-----------------------------------------------------------------------------

(***************************************************************************)
(* What the X server holds for the entries, and the answer to a client.    *)
(***************************************************************************)

\* The keys of an entry are grabbed, unless a release has cut them or a refusal was
\* not heard of.
EntriesHeld ==
    \A g \in Grabs \ cut :
        keygrabs[g] > 0 /\ (~trapped \/ g \notin refused) => Covered(g) \subseteq xGrabs

\* KInv names the types of what is counted; these are the others.
FlagTypes ==
    /\ taken \subseteq Masks \X Keys
    /\ reply \in [for: Seq(Grabs), ok: BOOLEAN]
    /\ ended \in {"no", "assertion", "null"} /\ trapped \in BOOLEAN
    /\ refused \cup cut \cup spoilt \subseteq Grabs
    /\ leaving \in {{}} \cup {{c} : c \in KeyClients}

\* A grab that was new and not refused is held; one refused and heard of is none.
LEMMA RegisterKeepsHeld ==
    ASSUME KInv, FlagTypes, EntriesHeld, NEW grabs \in Seq(Grabs),
           RegisterGrabs(grabs), UNCHANGED trapped
    PROVE  /\ EntriesHeld'
           /\ refused' \subseteq Grabs /\ UNCHANGED cut
<1>1. /\ keygrabs' = [g \in Grabs |-> IF g \in FailedGrabs(grabs) THEN 0
                                     ELSE keygrabs[g] + Uses(grabs, g)]
      /\ xGrabs' = xGrabs \cup CoveredBy(NewGrabs(grabs) \ RefusedGrabs(grabs))
      /\ refused' = refused \cup RefusedGrabs(grabs)
      /\ UNCHANGED cut
  BY DEF RegisterGrabs
<1>0. refused' \subseteq Grabs
  <2>1. RangeOf(grabs) \subseteq Grabs
    BY ElementOfSeq DEF RangeOf
  <2> QED
    BY <1>1, <2>1 DEF FlagTypes, RefusedGrabs, NewGrabs
<1>2. SUFFICES ASSUME NEW g \in Grabs, g \notin cut, keygrabs'[g] > 0,
                      ~trapped \/ g \notin refused'
               PROVE  Covered(g) \subseteq xGrabs'
  BY <1>0, <1>1 DEF EntriesHeld
<1>3. g \notin RefusedGrabs(grabs)
  <2>1. CASE ~trapped
    BY <1>1, <1>2, <2>1 DEF FailedGrabs, Noticed
  <2>2. CASE g \notin refused'
    BY <1>1, <2>2
  <2> QED
    BY <1>2, <2>1, <2>2
<1>4. keygrabs[g] \in Nat /\ Uses(grabs, g) \in Nat
  BY UsesType DEF KInv
<1>5. CASE keygrabs[g] > 0
  <2>1. ~trapped \/ g \notin refused
    BY <1>1, <1>2
  <2> QED
    BY <1>1, <1>2, <1>5, <2>1 DEF EntriesHeld
<1>6. CASE keygrabs[g] = 0
  <2>1. Uses(grabs, g) # 0
    BY <1>1, <1>2, <1>4, <1>6
  <2>2. g \in RangeOf(grabs)
    <3>1. SUFFICES ASSUME g \notin RangeOf(grabs) PROVE Uses(grabs, g) = 0
      BY <2>1
    <3>2. {i \in DOMAIN grabs : grabs[i] = g} = {}
      BY <3>1 DEF RangeOf
    <3> QED
      BY <3>2, FS_EmptySet DEF Uses
  <2>3. g \in NewGrabs(grabs) \ RefusedGrabs(grabs)
    BY <1>3, <1>6, <2>2 DEF NewGrabs
  <2> QED
    BY <1>1, <2>3 DEF CoveredBy
<1> QED
  BY <1>4, <1>5, <1>6

\* A release that cuts no other grab leaves those of the entries that remain.
LEMMA ReleaseKeepsHeld ==
    ASSUME KInv, FlagTypes, EntriesHeld, NEW released \in [Grabs -> Nat],
           ReleaseGrabs(released), UNCHANGED <<trapped, refused>>
    PROVE  EntriesHeld' /\ cut' \subseteq Grabs
<1> DEFINE gone == {g \in Grabs : keygrabs[g] > 0 /\ released[g] >= keygrabs[g]}
<1>1. /\ keygrabs' = [g \in Grabs |-> IF keygrabs[g] = 0 \/ g \in gone THEN 0
                                     ELSE keygrabs[g] - released[g]]
      /\ xGrabs' = xGrabs \ CoveredBy(gone)
      /\ cut' = cut \cup CutGrabs(gone)
  BY DEF ReleaseGrabs
<1> HIDE DEF gone
<1>2. cut' \subseteq Grabs
  BY <1>1 DEF FlagTypes, CutGrabs
<1>3. ASSUME NEW g \in Grabs, g \notin cut', keygrabs'[g] > 0,
             ~trapped' \/ g \notin refused'
      PROVE  Covered(g) \subseteq xGrabs'
  <2>1. keygrabs[g] \in Nat /\ keygrabs[g] > 0 /\ g \notin gone
    BY <1>1, <1>3 DEF KInv
  <2>2. Covered(g) \subseteq xGrabs
    BY <1>1, <1>3, <2>1 DEF EntriesHeld
  <2>3. Covered(g) \cap CoveredBy(gone) = {}
    BY <1>1, <1>3, <2>1 DEF CutGrabs
  <2> QED
    BY <1>1, <2>2, <2>3
<1> QED
  BY <1>2, <1>3 DEF EntriesHeld

\* Grabbing keys again takes none away, and an entry forgotten holds nothing.
LEMMA ForwardKeepsHeld ==
    ASSUME KInv, FlagTypes, EntriesHeld, ForwardKeyEvent
    PROVE  EntriesHeld' /\ FlagTypes'
<1>1. PICK k \in Keys, keys \in SUBSET Masks : ReissueGrabs(k, keys)
  BY ForwardsKey
<1>2. UNCHANGED <<taken, reply, ended, trapped, leaving, cut, spoilt>>
  BY DEF ForwardKeyEvent
<1>3. PICK failed, denied :
         /\ keygrabs' = [g \in Grabs |-> IF g \in failed THEN 0 ELSE keygrabs[g]]
         /\ refused' = refused \cup denied
         /\ denied \subseteq Grabs
  <2> DEFINE again == {<<m, k>> : m \in {n \in keys : keygrabs[<<n, k>>] > 0}}
  <2>1. /\ keygrabs' = [g \in Grabs |->
                           IF g \in Noticed(again \cap taken) THEN 0 ELSE keygrabs[g]]
        /\ refused' = refused \cup (again \cap taken)
    BY <1>1, Zenon DEF ReissueGrabs
  <2>2. again \subseteq Grabs
    <3>1. \A m \in Masks : <<m, k>> \in Grabs
      BY <1>1 DEF Grabs
    <3> QED
      BY <1>1, <3>1
  <2> QED
    BY <2>1, <2>2, Zenon
<1>4. xGrabs \subseteq xGrabs'
  BY <1>1 DEF ReissueGrabs
<1>5. refused' \subseteq Grabs /\ refused \subseteq refused'
  BY <1>3 DEF FlagTypes
<1>6. ASSUME NEW g \in Grabs, keygrabs'[g] > 0
      PROVE  keygrabs[g] > 0
  BY <1>3, <1>6
<1>7. EntriesHeld'
  BY <1>2, <1>4, <1>5, <1>6 DEF EntriesHeld
<1> QED
  BY <1>2, <1>5, <1>7 DEF FlagTypes

\* What the listeners of a list took are grabs.
LEMMA TookType ==
    ASSUME NEW s \in Seq(Entry), NEW i \in DOMAIN s
    PROVE  /\ s[i] \in Entry /\ s[i].took \in Seq(Grabs)
           /\ s[i].mask \in Masks /\ s[i].keys \in Seq(KeyDefinitions)
           /\ \A j \in DOMAIN s[i].took : s[i].took[j] \in Grabs
<1>1. s[i] \in Entry
  BY ElementOfSeq, LenProperties
<1>2. s[i].took \in Seq(Grabs) /\ s[i].mask \in Masks /\ s[i].keys \in KeyLists
  BY <1>1 DEF Entry
<1>3. \A j \in DOMAIN s[i].took : s[i].took[j] \in Grabs
  BY <1>2, ElementOfSeq, LenProperties
<1> QED
  BY <1>1, <1>2, <1>3, KeyGrabsAssumption

\* The requests and the removals of a departure.
LEMMA DeregisterKeepsHeld ==
    ASSUME KInv, FlagTypes, EntriesHeld,
           NEW l, NEW mask \in Masks, NEW keys \in Seq(KeyDefinitions),
           DeregisterKeyListener(l, mask, keys),
           UNCHANGED <<taken, reply, trapped, leaving, refused>>
    PROVE  EntriesHeld' /\ FlagTypes'
<1> DEFINE grabs == GrabsFor(mask, keys)
           released == [g \in Grabs |-> Uses(grabs, g)]
<1>1. grabs \in Seq(Grabs) /\ released \in [Grabs -> Nat]
  BY GrabsForType, UsesType DEF KInv
<1>2. ReleaseGrabs(released) /\ ended' \in {"no", "assertion"}
  BY DEF DeregisterKeyListener
<1>3. spoilt' \subseteq Grabs
  <2>1. RangeOf(grabs) \subseteq Grabs
    BY <1>1, ElementOfSeq DEF RangeOf
  <2>2. TookBy(l) \subseteq Grabs
    BY TookType DEF TookBy, RangeOf, Registered, KInv
  <2>3. spoilt' \in {spoilt, spoilt \cup RangeOf(grabs) \cup TookBy(l)}
    BY DEF DeregisterKeyListener
  <2> QED
    BY <2>1, <2>2, <2>3 DEF FlagTypes
<1> HIDE DEF released, grabs
<1> QED
  BY <1>1, <1>2, <1>3, ReleaseKeepsHeld DEF FlagTypes

LEMMA RegistrationKeepsHeld ==
    ASSUME KInv, FlagTypes, EntriesHeld,
           NEW l \in KeyListeners, NEW mask \in Masks, NEW keys \in KeyLists,
           NEW global \in BOOLEAN, RegisterKeystrokeListener(l, mask, keys, global)
    PROVE  EntriesHeld' /\ FlagTypes'
<1> DEFINE grabs == GrabsFor(mask, keys)
<1>1. grabs \in Seq(Grabs)
  BY GrabsForType, KeyGrabsAssumption DEF KInv
<1>2. UNCHANGED <<taken, ended, trapped, leaving, spoilt>>
  BY DEF RegisterKeystrokeListener
<1>3. CASE global
  <2>1. RegisterGrabs(grabs) /\ reply' = [for |-> grabs, ok |-> UpdateSucceeds(grabs)]
    BY <1>3 DEF RegisterKeystrokeListener
  <2>2. UpdateSucceeds(grabs) \in BOOLEAN
    BY DEF UpdateSucceeds
  <2> HIDE DEF grabs
  <2>3. reply' \in [for: Seq(Grabs), ok: BOOLEAN]
    BY <1>1, <2>1, <2>2
  <2> QED
    BY <1>1, <1>2, <2>1, <2>3, RegisterKeepsHeld DEF FlagTypes
<1>4. CASE ~global
  <2>1. UNCHANGED <<keygrabs, xGrabs, refused, cut>>
        /\ reply' = [for |-> <<>>, ok |-> TRUE]
    BY <1>4 DEF RegisterKeystrokeListener
  <2>2. <<>> \in Seq(Grabs)
    OBVIOUS
  <2> QED
    BY <1>2, <2>1, <2>2 DEF FlagTypes, EntriesHeld
<1> QED
  BY <1>3, <1>4

LEMMA RemovalKeepsHeld ==
    ASSUME KInv, FlagTypes, EntriesHeld, RemovalProceeds
    PROVE  EntriesHeld' /\ FlagTypes'
<1>1. CASE RemoveKeyListener
  <2>1. PICK i \in DOMAIN keyListeners :
           /\ DeregisterKeyListener(keyListeners[i].id, keyListeners[i].mask,
                                    keyListeners[i].keys)
           /\ UNCHANGED <<taken, reply, trapped, leaving, refused>>
    BY <1>1 DEF RemoveKeyListener, EntriesOf
  <2>2. keyListeners[i] \in Entry
    BY ElementOfSeq DEF KInv
  <2>3. keyListeners[i].mask \in Masks /\ keyListeners[i].keys \in Seq(KeyDefinitions)
    BY <2>2, KeyGrabsAssumption DEF Entry
  <2> QED
    BY <2>1, <2>3, DeregisterKeepsHeld
<1>2. CASE RemovalEnds
  BY <1>2 DEF RemovalEnds, daemonVars, serverVars, EntriesHeld, FlagTypes, mapVariables
<1> QED
  BY <1>1, <1>2 DEF RemovalProceeds

HInv == KInv /\ FlagTypes /\ EntriesHeld

\* The formula is inductive.
THEOREM HeldInvariant == Spec => []HInv
<1>1. Init => FlagTypes /\ EntriesHeld
  <2>1. NoReply \in [for: Seq(Grabs), ok: BOOLEAN]
    <3>1. <<>> \in Seq(Grabs)
      OBVIOUS
    <3> QED
      BY <3>1 DEF NoReply
  <2> SUFFICES ASSUME Init PROVE FlagTypes /\ EntriesHeld
    OBVIOUS
  <2>2. EntriesHeld
    BY DEF Init, EntriesHeld
  <2>3. FlagTypes
    BY <2>1, Zenon DEF Init, FlagTypes
  <2> QED
    BY <2>2, <2>3
<1>2. HInv /\ [Next]_vars => FlagTypes' /\ EntriesHeld'
  <2> SUFFICES ASSUME KInv, FlagTypes, EntriesHeld, [Next]_vars
               PROVE  FlagTypes' /\ EntriesHeld'
    BY DEF HInv
  <2>1. ASSUME NEW l \in KeyListeners, NEW mask \in Masks, NEW keys \in KeyLists,
               NEW global \in BOOLEAN, RegisterKeystrokeListener(l, mask, keys, global)
        PROVE  FlagTypes' /\ EntriesHeld'
    BY <2>1, RegistrationKeepsHeld
  <2>2. ASSUME NEW l \in KeyListeners, NEW mask \in Masks,
               NEW keys \in KeyLists \cup {<<>>},
               DeregisterKeystrokeListener(l, mask, keys)
        PROVE  FlagTypes' /\ EntriesHeld'
    <3>1. keys \in Seq(KeyDefinitions)
      BY KeyListsTyped
    <3>2. /\ DeregisterKeyListener(l, mask, keys)
          /\ UNCHANGED <<taken, reply, trapped, leaving, refused>>
      BY <2>2 DEF DeregisterKeystrokeListener
    <3> QED
      BY <3>1, <3>2, DeregisterKeepsHeld
  <2>3. ASSUME NEW c \in KeyClients, ClientLeaves(c)
        PROVE  FlagTypes' /\ EntriesHeld'
    BY <2>3 DEF ClientLeaves, daemonVars, serverVars, FlagTypes, EntriesHeld
  <2>4. CASE ForwardUnmapped \/ GenerateKeyboardEvent \/ ResetReservedKey \/ UserRemaps
    BY <2>4, KeymapSteps DEF serverVars, FlagTypes, EntriesHeld
  <2>5. CASE RivalGrabs \/ RivalReleases
    <3>1. taken' \subseteq Masks \X Keys
      BY <2>5, ScenariosAssumption DEF RivalGrabs, RivalReleases, FlagTypes, KInv
    <3> QED
      BY <2>5, <3>1 DEF RivalGrabs, RivalReleases, daemonVars, FlagTypes, EntriesHeld
  <2>6. CASE UNCHANGED vars
    BY <2>6 DEF vars, daemonVars, serverVars, FlagTypes, EntriesHeld
  <2> QED
    BY <2>1, <2>2, <2>3, <2>4, <2>5, <2>6, RemovalKeepsHeld, ForwardKeepsHeld,
       ListsOfScenario DEF Next
<1> QED
  BY <1>1, <1>2, KeyGrabsInvariant, PTL DEF Spec, HInv

\* Only a registration answers, and one told TRUE for one grab has it: the grab was
\* held before, or is new and was not refused.
THEOREM RepliesHonest == Spec => OneKeyReplyHonest
<1>1. ASSUME HInv, [Next]_vars, reply' # reply, reply'.ok, ~trapped,
             Len(reply'.for) = 1
      PROVE  CoveredBy(RangeOf(reply'.for) \ cut) \subseteq xGrabs'
  <2>1. \E l \in KeyListeners, mask \in Masks, keys \in KeyLists, global \in BOOLEAN :
           RegisterKeystrokeListener(l, mask, keys, global)
    <3>1. reply' = reply \/ \E l \in KeyListeners, mask \in Masks,
                               keys \in scenario.lists, global \in BOOLEAN :
                               RegisterKeystrokeListener(l, mask, keys, global)
      BY <1>1 DEF Next, vars, DeregisterKeystrokeListener, ClientLeaves, RemovalProceeds,
                  RemoveKeyListener, RemovalEnds, ForwardKeyEvent, ForwardUnmapped,
                  GenerateKeyboardEvent, ResetReservedKey, UserRemaps, RivalGrabs,
                  RivalReleases, daemonVars
    <3> QED
      BY <1>1, <3>1, ListsOfScenario DEF HInv
  <2>2. PICK l \in KeyListeners, mask \in Masks, keys \in KeyLists, global \in BOOLEAN :
           RegisterKeystrokeListener(l, mask, keys, global)
    BY <2>1
  <2> DEFINE grabs == GrabsFor(mask, keys)
  <2>3. grabs \in Seq(Grabs)
    BY <1>1, GrabsForType, KeyGrabsAssumption DEF HInv, KInv
  <2>4. CASE ~global
    <3>1. reply' = [for |-> <<>>, ok |-> TRUE]
      BY <2>2, <2>4 DEF RegisterKeystrokeListener
    <3>2. Len(<<>>) = 0
      OBVIOUS
    <3> QED
      BY <1>1, <3>1, <3>2
  <2>5. CASE global
    <3>1. /\ RegisterGrabs(grabs) /\ UNCHANGED trapped
          /\ reply' = [for |-> grabs, ok |-> UpdateSucceeds(grabs)]
      BY <2>2, <2>5 DEF RegisterKeystrokeListener
    <3> HIDE DEF grabs
    <3>2. reply'.for = grabs /\ UpdateSucceeds(grabs) /\ Len(grabs) = 1
      BY <1>1, <3>1
    <3>3. grabs[1] \in Grabs /\ DOMAIN grabs = {1} /\ RangeOf(grabs) = {grabs[1]}
      <4>1. DOMAIN grabs = 1..1
        BY <2>3, <3>2, LenProperties
      <4>2. DOMAIN grabs = {1}
        BY <4>1
      <4>3. grabs[1] \in Grabs
        BY <2>3, <3>2, ElementOfSeq
      <4> QED
        BY <4>2, <4>3 DEF RangeOf
    <3>4. grabs[1] \notin FailedGrabs(grabs)
      <4>1. grabs[1] \in NewGrabs(grabs) => grabs[1] \notin FailedGrabs(grabs)
        BY <3>2, <3>3 DEF UpdateSucceeds
      <4> QED
        BY <4>1 DEF FailedGrabs, Noticed, RefusedGrabs
    <3>5. keygrabs'[grabs[1]] > 0
      <4>1. keygrabs[grabs[1]] \in Nat /\ Uses(grabs, grabs[1]) \in Nat
            /\ Uses(grabs, grabs[1]) > 0
        BY <1>1, <2>3, <3>3, UsesType DEF HInv, KInv
      <4> QED
        BY <3>1, <3>3, <3>4, <4>1 DEF RegisterGrabs
    <3>6. EntriesHeld' /\ UNCHANGED cut /\ ~trapped'
      BY <1>1, <2>3, <3>1, RegisterKeepsHeld DEF HInv
    <3>7. grabs[1] \notin cut => Covered(grabs[1]) \subseteq xGrabs'
      BY <3>3, <3>5, <3>6 DEF EntriesHeld
    <3> QED
      BY <3>2, <3>3, <3>7 DEF CoveredBy
  <2> QED
    BY <2>4, <2>5
<1>2. HInv /\ [Next]_vars
        => [(reply' # reply /\ reply'.ok /\ ~trapped /\ Len(reply'.for) = 1)
              => CoveredBy(RangeOf(reply'.for) \ cut) \subseteq xGrabs']_vars
  BY <1>1
<1> QED
  BY <1>2, HeldInvariant, PTL DEF Spec, OneKeyReplyHonest

-----------------------------------------------------------------------------

(***************************************************************************)
(* The counts.                                                             *)
(***************************************************************************)

\* Where the listeners of a list took g: what Asked counts.
Places(s, g) ==
    {p \in UNION {{i} \X DOMAIN s[i].took : i \in DOMAIN s} : s[p[1]].took[p[2]] = g}

LEMMA AskedCountsPlaces == \A g : Asked(g) = Cardinality(Places(keyListeners, g))
BY DEF Asked, Places

LEMMA PlacesMembers ==
    ASSUME NEW s, NEW g, NEW p
    PROVE  p \in Places(s, g) <=>
              \E i \in DOMAIN s : \E j \in DOMAIN s[i].took :
                 p = <<i, j>> /\ s[i].took[j] = g
BY DEF Places

\* The entries of a list that were kept and moved took g as often as before.
LEMMA MovedPlaces ==
    ASSUME NEW s, NEW t, NEW g, NEW kept, NEW f \in Bijection(DOMAIN t, kept),
           kept \subseteq DOMAIN s, \A i \in DOMAIN t : t[i] = s[f[i]]
    PROVE  ExistsBijection(Places(t, g), {p \in Places(s, g) : p[1] \in kept})
<1> DEFINE there == {p \in Places(s, g) : p[1] \in kept}
           move == [p \in Places(t, g) |-> <<f[p[1]], p[2]>>]
<1>1. /\ \A i \in DOMAIN t : f[i] \in kept
      /\ \A i, j \in DOMAIN t : f[i] = f[j] => i = j
      /\ \A k \in kept : \E i \in DOMAIN t : f[i] = k
  BY DEF Bijection, Injection, Surjection, IsInjective
<1>2. ASSUME NEW p \in Places(t, g)
      PROVE  /\ p[1] \in DOMAIN t /\ p = <<p[1], p[2]>>
             /\ <<f[p[1]], p[2]>> \in there
  <2>1. PICK i \in DOMAIN t : \E j \in DOMAIN t[i].took :
           p = <<i, j>> /\ t[i].took[j] = g
    BY PlacesMembers
  <2> PICK j \in DOMAIN t[i].took : p = <<i, j>> /\ t[i].took[j] = g
    BY <2>1
  <2>2. f[i] \in kept /\ j \in DOMAIN s[f[i]].took /\ s[f[i]].took[j] = g
    BY <1>1, <2>1
  <2>3. <<f[i], j>> \in Places(s, g)
    BY <2>2, PlacesMembers
  <2> QED
    BY <2>1, <2>2, <2>3
<1>3. ASSUME NEW q \in there
      PROVE  \E p \in Places(t, g) : q = <<f[p[1]], p[2]>>
  <2>1. PICK k \in DOMAIN s : \E j \in DOMAIN s[k].took :
           q = <<k, j>> /\ s[k].took[j] = g
    BY PlacesMembers
  <2> PICK j \in DOMAIN s[k].took : q = <<k, j>> /\ s[k].took[j] = g
    BY <2>1
  <2>2. k \in kept
    BY <2>1
  <2>3. PICK i \in DOMAIN t : f[i] = k
    BY <1>1, <2>2
  <2>4. <<i, j>> \in Places(t, g)
    BY <2>1, <2>3, PlacesMembers
  <2> QED
    BY <2>1, <2>3, <2>4
<1> HIDE DEF there
<1>4. move \in [Places(t, g) -> there]
  BY <1>2
<1>5. \A p, q \in Places(t, g) : move[p] = move[q] => p = q
  BY <1>1, <1>2
<1>6. \A q \in there : \E p \in Places(t, g) : move[p] = q
  BY <1>3
<1>7. move \in Bijection(Places(t, g), there)
  BY <1>4, <1>5, <1>6 DEF Bijection, Injection, Surjection, IsInjective
<1> QED
  BY <1>7 DEF ExistsBijection, there

\* List t is list s without the entry at i0; f tells where the others were.
Without(t, s, i0, f) ==
    /\ i0 \in DOMAIN s /\ s[i0].took \in Seq(Grabs)
    /\ f \in Bijection(DOMAIN t, DOMAIN s \ {i0})
    /\ \A i \in DOMAIN t : t[i] = s[f[i]]

\* A list with one entry more took g as often more as that entry did, wherever it is
\* and however the others have moved.
LEMMA OneEntryMore ==
    ASSUME NEW s, NEW t, NEW g, NEW i0, NEW f, Without(t, s, i0, f),
           IsFiniteSet(Places(s, g)) \/ IsFiniteSet(Places(t, g))
    PROVE  /\ IsFiniteSet(Places(s, g)) /\ IsFiniteSet(Places(t, g))
           /\ Cardinality(Places(s, g))
                = Cardinality(Places(t, g)) + Uses(s[i0].took, g)
<1> DEFINE uses == {j \in DOMAIN s[i0].took : s[i0].took[j] = g}
           here == {p \in Places(s, g) : p[1] = i0}
           there == {p \in Places(s, g) : p[1] \in DOMAIN s \ {i0}}
<1>0. /\ i0 \in DOMAIN s /\ s[i0].took \in Seq(Grabs)
      /\ f \in Bijection(DOMAIN t, DOMAIN s \ {i0})
      /\ \A i \in DOMAIN t : t[i] = s[f[i]]
  BY DEF Without
<1>1. /\ IsFiniteSet(here) /\ Cardinality(here) = Uses(s[i0].took, g)
  <2> DEFINE place == [j \in uses |-> <<i0, j>>]
  <2>1. IsFiniteSet(uses)
    <3>1. DOMAIN s[i0].took = 1..Len(s[i0].took) /\ Len(s[i0].took) \in Nat
      BY <1>0, LenProperties
    <3>2. IsFiniteSet(1..Len(s[i0].took))
      BY <3>1, FS_Interval
    <3> QED
      BY <3>1, <3>2, FS_Subset
  <2>2. \A j \in uses : <<i0, j>> \in here
    BY <1>0, PlacesMembers
  <2>3. \A p \in here : \E j \in uses : p = <<i0, j>>
    BY PlacesMembers
  <2> HIDE DEF uses, here
  <2>4. place \in Bijection(uses, here)
    BY <2>2, <2>3 DEF Bijection, Injection, Surjection, IsInjective
  <2>5. ExistsBijection(uses, here)
    BY <2>4 DEF ExistsBijection
  <2>6. IsFiniteSet(here) /\ Cardinality(here) = Cardinality(uses)
    BY <2>1, <2>5, FS_Bijection
  <2> QED
    BY <2>6 DEF uses, Uses
<1>2. ExistsBijection(Places(t, g), there)
  BY <1>0, MovedPlaces
<1>3. Places(s, g) = here \cup there /\ here \cap there = {}
  BY PlacesMembers
<1>4. IsFiniteSet(there) /\ IsFiniteSet(Places(t, g))
      /\ Cardinality(there) = Cardinality(Places(t, g))
  <2>1. CASE IsFiniteSet(Places(t, g))
    BY <1>2, <2>1, FS_Bijection
  <2>2. CASE IsFiniteSet(Places(s, g))
    <3>1. IsFiniteSet(there)
      BY <2>2, FS_Subset
    <3>2. ExistsBijection(there, Places(t, g))
      BY <1>2, Fun_ExistsBijSymmetric
    <3> QED
      BY <3>1, <3>2, FS_Bijection
  <2> QED
    BY <2>1, <2>2
<1> HIDE DEF here, there
<1>5. /\ Cardinality(here) \in Nat /\ Cardinality(there) \in Nat
      /\ IsFiniteSet(here \cup there)
      /\ Cardinality(here \cup there) = Cardinality(here) + Cardinality(there)
  <2>1. Cardinality(here) \in Nat /\ Cardinality(there) \in Nat
    BY <1>1, <1>4, FS_CardinalityType
  <2>2. /\ IsFiniteSet(here \cup there)
        /\ Cardinality(here \cup there)
             = Cardinality(here) + Cardinality(there) - Cardinality(here \cap there)
    BY <1>1, <1>4, FS_Union
  <2>3. Cardinality(here \cap there) = 0
    BY <1>3, FS_EmptySet
  <2> QED
    BY <2>1, <2>2, <2>3
<1> QED
  BY <1>1, <1>3, <1>4, <1>5

\* What DropEntries leaves is what it should, each entry once.
LEMMA DropEntriesMoves ==
    ASSUME keyListeners \in Seq(Entry), NEW ids, DropEntries(ids)
    PROVE  \E f \in Bijection(DOMAIN keyListeners',
                              {i \in DOMAIN keyListeners : keyListeners[i].id \notin ids}) :
              \A i \in DOMAIN keyListeners' : keyListeners'[i] = keyListeners[f[i]]
<1> DEFINE kept == {i \in DOMAIN keyListeners : keyListeners[i].id \notin ids}
<1>1. IsFiniteSet(kept) /\ Cardinality(kept) \in Nat
  <2>1. DOMAIN keyListeners = 1..Len(keyListeners) /\ Len(keyListeners) \in Nat
    OBVIOUS
  <2>2. IsFiniteSet(1..Len(keyListeners))
    BY <2>1, FS_Interval
  <2>3. IsFiniteSet(kept)
    BY <2>1, <2>2, FS_Subset
  <2> QED
    BY <2>3, FS_CardinalityType
<1>2. PICK order \in [1..Cardinality(kept) -> kept] :
         /\ \A i, j \in DOMAIN order : i < j => order[i] < order[j]
         /\ keyListeners' = [i \in DOMAIN order |-> keyListeners[order[i]]]
  BY DEF DropEntries
<1>3. kept \subseteq Nat
  BY LenProperties
<1>4. PICK n \in Nat : n = Cardinality(kept)
  BY <1>1
<1> HIDE DEF kept
<1>5. order \in [1..n -> kept] /\ DOMAIN order = 1..n
  BY <1>4
<1>6. ASSUME NEW i \in 1..n, NEW j \in 1..n, order[i] = order[j]
      PROVE  i = j
  <2>1. order[i] \in Nat
    BY <1>3, <1>5
  <2> QED
    BY <1>2, <1>5, <1>6, <2>1
<1>7. order \in Injection(1..n, kept)
  BY <1>5, <1>6 DEF Injection, IsInjective
<1>8. Cardinality(1..n) = n /\ IsFiniteSet(1..n)
  BY FS_Interval
<1>9. order \in Surjection(1..n, kept)
  BY <1>1, <1>4, <1>7, <1>8, FS_Injection
<1>10. order \in Bijection(DOMAIN keyListeners', kept)
  BY <1>2, <1>5, <1>7, <1>9 DEF Bijection
<1> QED
  BY <1>2, <1>10 DEF kept

\* A grab that no deregistration has spoilt has no more references than were taken
\* by the listeners of the list; one that was never refused has no less.
Counted ==
    /\ \A g \in Grabs :
          /\ IsFiniteSet(Places(keyListeners, g))
          /\ g \notin spoilt => keygrabs[g] <= Cardinality(Places(keyListeners, g))
          /\ g \notin spoilt \cup refused
                => keygrabs[g] = Cardinality(Places(keyListeners, g))
    /\ ended = "assertion" => refused \cup spoilt # {}

LEMMA UsedIsInRange ==
    ASSUME NEW grabs, NEW g, g \notin RangeOf(grabs)
    PROVE  Uses(grabs, g) = 0
<1>1. {i \in DOMAIN grabs : grabs[i] = g} = {}
  BY DEF RangeOf
<1> QED
  BY <1>1, FS_EmptySet DEF Uses

\* A registration counts each use of a grab once.
LEMMA RegistrationKeepsCounted ==
    ASSUME KInv, FlagTypes, Counted,
           NEW l \in KeyListeners, NEW mask \in Masks, NEW keys \in KeyLists,
           NEW global \in BOOLEAN, RegisterKeystrokeListener(l, mask, keys, global)
    PROVE  Counted'
<1> DEFINE grabs == GrabsFor(mask, keys)
           took == IF global THEN grabs ELSE <<>>
           entry == [id |-> l, mask |-> mask, keys |-> keys, global |-> global,
                     took |-> took]
           n == Len(keyListeners)
<1>1. took \in Seq(Grabs) /\ grabs \in Seq(Grabs) /\ entry \in Entry /\ entry.took = took
  BY GrabsForType, KeyGrabsAssumption DEF Entry, KInv
<1>2. /\ keyListeners' = <<entry>> \o keyListeners
      /\ global => RegisterGrabs(grabs)
      /\ ~global => UNCHANGED <<keygrabs, refused>>
      /\ UNCHANGED <<ended, spoilt>>
  BY DEF RegisterKeystrokeListener
<1> HIDE DEF entry, grabs
<1>3. /\ keyListeners \in Seq(Entry) /\ n \in Nat /\ DOMAIN keyListeners = 1..n
      /\ keyListeners' \in Seq(Entry) /\ DOMAIN keyListeners' = 1..(n + 1)
      /\ keyListeners'[1] = entry
      /\ \A i \in 1..n : keyListeners'[i + 1] = keyListeners[i]
  <2>1. keyListeners \in Seq(Entry) /\ n \in Nat /\ DOMAIN keyListeners = 1..n
    BY LenProperties DEF KInv
  <2>2. <<entry>> \in Seq(Entry) /\ Len(<<entry>>) = 1 /\ <<entry>>[1] = entry
    BY <1>1
  <2> QED
    BY <1>2, <2>1, <2>2, ConcatProperties, LenProperties
<1> HIDE DEF n
<1>4. ASSUME NEW g \in Grabs
      PROVE  /\ IsFiniteSet(Places(keyListeners', g))
             /\ Cardinality(Places(keyListeners', g))
                  = Cardinality(Places(keyListeners, g)) + Uses(took, g)
  <2> DEFINE f == [i \in 1..n |-> i + 1]
  <2>1. f \in Bijection(DOMAIN keyListeners, DOMAIN keyListeners' \ {1})
    <3>1. \A k \in 1..(n + 1) : k # 1 => \E i \in 1..n : i + 1 = k
      <4> TAKE k \in 1..(n + 1)
      <4> HAVE k # 1
      <4>1. k - 1 \in 1..n /\ k - 1 + 1 = k
        BY <1>3
      <4> QED
        BY <4>1
    <3>2. \A i, j \in 1..n : i + 1 = j + 1 => i = j
      BY <1>3
    <3>3. f \in [1..n -> 1..(n + 1) \ {1}]
      BY <1>3
    <3> QED
      BY <1>3, <3>1, <3>2, <3>3 DEF Bijection, Injection, Surjection, IsInjective
  <2>2. \A i \in DOMAIN keyListeners : keyListeners[i] = keyListeners'[f[i]]
    BY <1>3
  <2> HIDE DEF f, took
  <2>3. Without(keyListeners, keyListeners', 1, f)
    BY <1>1, <1>3, <2>1, <2>2 DEF Without
  <2>4. IsFiniteSet(Places(keyListeners, g))
    BY DEF Counted
  <2>5. keyListeners'[1].took = took
    BY <1>1, <1>3
  <2> QED
    BY <2>3, <2>4, <2>5, OneEntryMore
<1>5. ASSUME NEW g \in Grabs
      PROVE  /\ g \notin spoilt => keygrabs'[g] <= Cardinality(Places(keyListeners', g))
             /\ g \notin spoilt \cup refused'
                   => keygrabs'[g] = Cardinality(Places(keyListeners', g))
             /\ refused \subseteq refused'
  <2>1. /\ keygrabs[g] \in Nat /\ Uses(grabs, g) \in Nat
        /\ Cardinality(Places(keyListeners, g)) \in Nat
    BY <1>1, UsesType, FS_CardinalityType DEF KInv, Counted
  <2>2. CASE global
    <3>1. /\ keygrabs'[g] = IF g \in FailedGrabs(grabs) THEN 0
                           ELSE keygrabs[g] + Uses(grabs, g)
          /\ refused' = refused \cup RefusedGrabs(grabs)
      BY <1>2, <2>2 DEF RegisterGrabs
    <3>2. g \notin refused' => g \notin refused /\ g \notin FailedGrabs(grabs)
      BY <3>1 DEF FailedGrabs, Noticed
    <3>3. took = grabs
      BY <2>2
    <3> HIDE DEF took
    <3> QED
      BY <1>4, <2>1, <3>1, <3>2, <3>3 DEF Counted
  <2>3. CASE ~global
    <3>1. Uses(took, g) = 0
      BY <2>3, UsedIsInRange DEF RangeOf
    <3> HIDE DEF took
    <3> QED
      BY <1>2, <1>4, <2>1, <2>3, <3>1 DEF Counted
  <2> QED
    BY <2>2, <2>3
<1>6. ended' = "assertion" => refused' \cup spoilt' # {}
  <2>1. refused \subseteq refused'
    BY <1>2 DEF RegisterGrabs
  <2> QED
    BY <1>2, <2>1 DEF Counted
<1> QED
  BY <1>2, <1>4, <1>5, <1>6 DEF Counted

\* A listener that goes gives back what it took, and that alone: nothing is spoilt.
LEMMA MatchKeepsCounted ==
    ASSUME KInv, Counted, NEW l, NEW grabs \in Seq(Grabs), Matches(l, grabs),
           NEW released, released = [g \in Grabs |-> Uses(grabs, g)],
           ReleaseGrabs(released), DropEntries({l}), UNCHANGED <<refused, spoilt>>,
           ended' = "assertion"
              => \E g \in Grabs : 0 < keygrabs[g] /\ keygrabs[g] < released[g]
    PROVE  Counted'
<1> DEFINE kept == {i \in DOMAIN keyListeners : keyListeners[i].id \notin {l}}
<1>1. PICK i0 \in DOMAIN keyListeners :
         /\ {i \in DOMAIN keyListeners : keyListeners[i].id = l} = {i0}
         /\ keyListeners[i0].took = grabs
  BY DEF Matches
<1>2. kept = DOMAIN keyListeners \ {i0}
  BY <1>1
<1>3. PICK f \in Bijection(DOMAIN keyListeners', kept) :
         \A i \in DOMAIN keyListeners' : keyListeners'[i] = keyListeners[f[i]]
  BY DropEntriesMoves DEF KInv
<1> HIDE DEF kept
<1>4. ASSUME NEW g \in Grabs
      PROVE  /\ IsFiniteSet(Places(keyListeners', g))
             /\ Cardinality(Places(keyListeners, g))
                  = Cardinality(Places(keyListeners', g)) + Uses(grabs, g)
  <2>1. IsFiniteSet(Places(keyListeners, g))
    BY DEF Counted
  <2>2. Without(keyListeners', keyListeners, i0, f)
    BY <1>1, <1>2, <1>3 DEF Without
  <2> QED
    BY <1>1, <2>1, <2>2, OneEntryMore
<1>5. ASSUME NEW g \in Grabs
      PROVE  /\ g \notin spoilt => keygrabs'[g] <= Cardinality(Places(keyListeners', g))
             /\ g \notin spoilt \cup refused
                   => /\ keygrabs'[g] = Cardinality(Places(keyListeners', g))
                      /\ keygrabs[g] >= released[g]
  <2>1. /\ keygrabs[g] \in Nat /\ Uses(grabs, g) \in Nat
        /\ Cardinality(Places(keyListeners', g)) \in Nat
    BY <1>4, UsesType, FS_CardinalityType DEF KInv
  <2>2. released[g] = Uses(grabs, g)
    OBVIOUS
  <2>3. keygrabs'[g] = IF keygrabs[g] = 0 \/ released[g] >= keygrabs[g] THEN 0
                       ELSE keygrabs[g] - released[g]
    BY <2>1, <2>2 DEF ReleaseGrabs
  <2>4. /\ g \notin spoilt => keygrabs[g] <= Cardinality(Places(keyListeners, g))
        /\ g \notin spoilt \cup refused
              => keygrabs[g] = Cardinality(Places(keyListeners, g))
    BY DEF Counted
  <2>5. CASE keygrabs[g] = 0 \/ released[g] >= keygrabs[g]
    BY <1>4, <2>1, <2>2, <2>3, <2>4, <2>5
  <2>6. CASE ~(keygrabs[g] = 0 \/ released[g] >= keygrabs[g])
    BY <1>4, <2>1, <2>2, <2>3, <2>4, <2>6
  <2> QED
    BY <2>5, <2>6
<1>6. ASSUME ended' = "assertion" PROVE refused \cup spoilt # {}
  <2>1. PICK g \in Grabs : 0 < keygrabs[g] /\ keygrabs[g] < released[g]
    BY <1>6
  <2>2. keygrabs[g] \in Nat /\ released[g] \in Nat
    BY UsesType DEF KInv
  <2>3. g \in spoilt \cup refused
    BY <1>5, <2>1, <2>2
  <2> QED
    BY <2>3
<1> QED
  BY <1>4, <1>5, <1>6 DEF Counted

\* Any other deregistration spoils what it changes.
LEMMA MismatchKeepsCounted ==
    ASSUME KInv, Counted, NEW l, NEW grabs \in Seq(Grabs),
           NEW released, released = [g \in Grabs |-> Uses(grabs, g)],
           ReleaseGrabs(released), DropEntries({l}), UNCHANGED refused,
           spoilt' = spoilt \cup RangeOf(grabs) \cup TookBy(l),
           ended' = "assertion"
              => \E g \in Grabs : 0 < keygrabs[g] /\ keygrabs[g] < released[g]
    PROVE  Counted'
<1> DEFINE kept == {i \in DOMAIN keyListeners : keyListeners[i].id \notin {l}}
           still(g) == {p \in Places(keyListeners, g) : p[1] \in kept}
<1>1. PICK f \in Bijection(DOMAIN keyListeners', kept) :
         \A i \in DOMAIN keyListeners' : keyListeners'[i] = keyListeners[f[i]]
  BY DropEntriesMoves DEF KInv
<1>2. ASSUME NEW g \in Grabs
      PROVE  /\ IsFiniteSet(Places(keyListeners', g))
             /\ Cardinality(Places(keyListeners', g)) = Cardinality(still(g))
  <2>1. ExistsBijection(Places(keyListeners', g), still(g))
    BY <1>1, MovedPlaces
  <2>2. IsFiniteSet(still(g))
    BY FS_Subset DEF Counted
  <2> HIDE DEF still
  <2>3. ExistsBijection(still(g), Places(keyListeners', g))
    BY <2>1, Fun_ExistsBijSymmetric
  <2> QED
    BY <2>2, <2>3, FS_Bijection
<1>3. ASSUME NEW g \in Grabs, g \notin spoilt'
      PROVE  still(g) = Places(keyListeners, g)
  <2>1. SUFFICES ASSUME NEW p \in Places(keyListeners, g)
                 PROVE  p[1] \in kept
    OBVIOUS
  <2>2. PICK i \in DOMAIN keyListeners : \E j \in DOMAIN keyListeners[i].took :
           p = <<i, j>> /\ keyListeners[i].took[j] = g
    BY PlacesMembers
  <2>3. g \in RangeOf(keyListeners[i].took)
    BY <2>2 DEF RangeOf
  <2>4. keyListeners[i].id # l
    BY <1>3, <2>3 DEF TookBy, Registered
  <2> QED
    BY <2>2, <2>4
<1>4. ASSUME NEW g \in Grabs, g \notin spoilt'
      PROVE  keygrabs'[g] = keygrabs[g]
  <2>1. Uses(grabs, g) = 0 /\ released[g] = Uses(grabs, g)
    BY <1>4, UsedIsInRange
  <2>2. keygrabs[g] \in Nat
    BY DEF KInv
  <2> QED
    BY <2>1, <2>2 DEF ReleaseGrabs
<1> HIDE DEF kept, still
<1>5. ASSUME NEW g \in Grabs
      PROVE  /\ g \notin spoilt'
                   => keygrabs'[g] <= Cardinality(Places(keyListeners', g))
             /\ g \notin spoilt' \cup refused'
                   => keygrabs'[g] = Cardinality(Places(keyListeners', g))
  <2>1. spoilt \subseteq spoilt'
    OBVIOUS
  <2> QED
    BY <1>2, <1>3, <1>4, <2>1 DEF Counted
<1>6. ASSUME ended' = "assertion" PROVE spoilt' # {}
  <2>1. PICK g \in Grabs : 0 < keygrabs[g] /\ keygrabs[g] < released[g]
    BY <1>6
  <2>2. keygrabs[g] \in Nat /\ released[g] = Uses(grabs, g)
    BY DEF KInv
  <2>3. Uses(grabs, g) # 0
    BY <2>1, <2>2
  <2>4. g \in RangeOf(grabs)
    BY <2>3, UsedIsInRange
  <2> QED
    BY <2>4
<1> QED
  BY <1>2, <1>5, <1>6 DEF Counted

\* Whatever a client deregisters, and as a departure does it.
LEMMA DeregisterKeepsCounted ==
    ASSUME KInv, Counted, NEW l \in KeyListeners, NEW mask \in Masks,
           NEW keys \in Seq(KeyDefinitions),
           DeregisterKeyListener(l, mask, keys), UNCHANGED refused
    PROVE  Counted'
<1> DEFINE grabs == GrabsFor(mask, keys)
           released == [g \in Grabs |-> Uses(grabs, g)]
<1>1. grabs \in Seq(Grabs)
  BY GrabsForType DEF KInv
<1>2. /\ ended' = IF \E g \in Grabs : 0 < keygrabs[g] /\ keygrabs[g] < released[g]
                  THEN "assertion" ELSE "no"
      /\ ReleaseGrabs(released)
      /\ DropEntries({l})
      /\ spoilt' = IF Matches(l, grabs) THEN spoilt
                   ELSE spoilt \cup RangeOf(grabs) \cup TookBy(l)
  BY DEF DeregisterKeyListener
<1>3. ended' = "assertion"
         => \E g \in Grabs : 0 < keygrabs[g] /\ keygrabs[g] < released[g]
  BY <1>2
<1>4. released = [g \in Grabs |-> Uses(grabs, g)]
  OBVIOUS
<1> HIDE DEF grabs, released
<1>5. CASE Matches(l, grabs)
  <2>1. spoilt' = spoilt
    BY <1>2, <1>5
  <2> QED
    BY <1>1, <1>2, <1>3, <1>4, <1>5, <2>1, MatchKeepsCounted
<1>6. CASE ~Matches(l, grabs)
  <2>1. spoilt' = spoilt \cup RangeOf(grabs) \cup TookBy(l)
    BY <1>2, <1>6
  <2> QED
    BY <1>1, <1>2, <1>3, <1>4, <2>1, MismatchKeepsCounted
<1> QED
  BY <1>5, <1>6

\* A key grabbed again, or not, has as many listeners as before.
LEMMA ForwardKeepsCounted ==
    ASSUME KInv, Counted, ForwardKeyEvent
    PROVE  Counted'
<1>1. PICK k \in Keys, keys \in SUBSET Masks : ReissueGrabs(k, keys)
  BY ForwardsKey
<1>2. PICK failed, denied :
         /\ keygrabs' = [g \in Grabs |-> IF g \in failed THEN 0 ELSE keygrabs[g]]
         /\ refused' = refused \cup denied
         /\ failed \subseteq denied
  <2> DEFINE again == {<<m, k>> : m \in {n \in keys : keygrabs[<<n, k>>] > 0}}
  <2>1. Noticed(again \cap taken) \subseteq again \cap taken
    BY DEF Noticed
  <2>2. /\ keygrabs' = [g \in Grabs |->
                           IF g \in Noticed(again \cap taken) THEN 0 ELSE keygrabs[g]]
        /\ refused' = refused \cup (again \cap taken)
    BY <1>1, Zenon DEF ReissueGrabs
  <2> QED
    BY <2>1, <2>2, Zenon
<1>3. UNCHANGED <<keyListeners, ended, spoilt>>
  BY DEF ForwardKeyEvent
<1>4. ASSUME NEW g \in Grabs
      PROVE  /\ keygrabs'[g] \in {0, keygrabs[g]}
             /\ g \notin refused' => keygrabs'[g] = keygrabs[g]
             /\ Cardinality(Places(keyListeners, g)) \in Nat
             /\ keygrabs[g] \in Nat
  BY <1>2, FS_CardinalityType DEF KInv, Counted
<1>5. refused \subseteq refused'
  BY <1>2
<1>6. ASSUME NEW g \in Grabs
      PROVE  /\ g \notin spoilt => keygrabs'[g] <= Cardinality(Places(keyListeners, g))
             /\ g \notin spoilt \cup refused'
                   => keygrabs'[g] = Cardinality(Places(keyListeners, g))
  <2>1. /\ g \notin spoilt => keygrabs[g] <= Cardinality(Places(keyListeners, g))
        /\ g \notin spoilt \cup refused
              => keygrabs[g] = Cardinality(Places(keyListeners, g))
    BY DEF Counted
  <2> QED
    BY <1>4, <1>5, <2>1
<1> QED
  BY <1>3, <1>5, <1>6 DEF Counted

CInv == HInv /\ Counted

\* The formula is inductive, whatever clients, the user and other X clients do.
THEOREM CountedInvariant == Spec => []CInv
<1>1. Init => Counted
  <2> SUFFICES ASSUME Init PROVE Counted
    OBVIOUS
  <2>1. keyListeners = <<>> /\ DOMAIN <<>> = {} /\ ended = "no"
    BY DEF Init
  <2>2. \A g : Places(<<>>, g) = {}
    BY <2>1, PlacesMembers
  <2>3. \A g \in Grabs : keygrabs[g] = 0
    BY DEF Init
  <2>4. \A g \in Grabs : /\ IsFiniteSet(Places(<<>>, g))
                        /\ Cardinality(Places(<<>>, g)) = 0
    BY <2>2, FS_EmptySet
  <2>5. \A g \in Grabs : /\ IsFiniteSet(Places(keyListeners, g))
                        /\ keygrabs[g] <= Cardinality(Places(keyListeners, g))
                        /\ keygrabs[g] = Cardinality(Places(keyListeners, g))
    BY <2>1, <2>3, <2>4
  <2> QED
    BY <2>1, <2>5 DEF Counted
<1>2. HInv /\ Counted /\ [Next]_vars => Counted'
  <2> SUFFICES ASSUME KInv, FlagTypes, Counted, [Next]_vars
               PROVE  Counted'
    BY DEF HInv
  <2>1. ASSUME NEW l \in KeyListeners, NEW mask \in Masks, NEW keys \in scenario.lists,
               NEW global \in BOOLEAN, RegisterKeystrokeListener(l, mask, keys, global)
        PROVE  Counted'
    BY <2>1, ListsOfScenario, RegistrationKeepsCounted
  <2>2. ASSUME NEW l \in KeyListeners, NEW mask \in Masks,
               NEW keys \in scenario.lists \cup {<<>>},
               DeregisterKeystrokeListener(l, mask, keys)
        PROVE  Counted'
    <3>1. keys \in Seq(KeyDefinitions)
      BY ListsOfScenario, KeyListsTyped
    <3>2. DeregisterKeyListener(l, mask, keys) /\ UNCHANGED refused
      BY <2>2 DEF DeregisterKeystrokeListener
    <3> QED
      BY <3>1, <3>2, DeregisterKeepsCounted
  <2>3. CASE RemovalProceeds
    <3>1. CASE RemoveKeyListener
      <4>1. PICK i \in DOMAIN keyListeners :
               /\ DeregisterKeyListener(keyListeners[i].id, keyListeners[i].mask,
                                        keyListeners[i].keys)
               /\ UNCHANGED refused
        BY <3>1 DEF RemoveKeyListener, EntriesOf
      <4>2. /\ keyListeners[i].id \in KeyListeners /\ keyListeners[i].mask \in Masks
            /\ keyListeners[i].keys \in Seq(KeyDefinitions)
        BY TookType DEF KInv, Entry
      <4> QED
        BY <4>1, <4>2, DeregisterKeepsCounted
    <3>2. CASE RemovalEnds
      BY <3>2 DEF RemovalEnds, daemonVars, serverVars, Counted
    <3> QED
      BY <2>3, <3>1, <3>2 DEF RemovalProceeds
  <2>4. CASE ForwardKeyEvent
    BY <2>4, ForwardKeepsCounted
  <2>5. CASE ForwardUnmapped \/ GenerateKeyboardEvent \/ ResetReservedKey \/ UserRemaps
    <3>1. /\ UNCHANGED <<keyListeners, keygrabs, refused, spoilt>>
          /\ ended' = "assertion" => ended = "assertion"
      BY <2>5 DEF ForwardUnmapped, GenerateKeyboardEvent, ResetReservedKey, UserRemaps,
                  daemonVars, serverVars
    <3> QED
      BY <3>1 DEF Counted
  <2>6. CASE UNCHANGED <<keyListeners, keygrabs, ended, refused, spoilt>>
    BY <2>6 DEF Counted
  <2> QED
    BY <2>1, <2>2, <2>3, <2>4, <2>5, <2>6
       DEF Next, ClientLeaves, RivalGrabs, RivalReleases, vars, daemonVars, serverVars
<1> QED
  BY <1>1, <1>2, HeldInvariant, PTL DEF Spec, CInv

\* A grab that no deregistration has spoilt never has more references than there are
\* listeners that took it, so that none is leaked; as long as it was not refused none
\* is lost, and those listeners' keys are grabbed unless a release of all keys has met
\* them; the assertion holds until a grab was refused or spoilt.
THEOREM GrabsConsistent == Spec => []Consistent
<1>1. CInv => Consistent
  <2> SUFFICES ASSUME KInv, FlagTypes, EntriesHeld, Counted
               PROVE  Consistent
    BY DEF CInv, HInv
  <2>1. TypeOK
    BY DEF KInv, FlagTypes, TypeOK
  <2>2. NoLeakedGrab /\ CountsExact /\ AssertionHolds
    BY AskedCountsPlaces DEF Counted, NoLeakedGrab, CountsExact, AssertionHolds
  <2>3. ListenersGrabbed
    <3> SUFFICES ASSUME NEW e \in Registered, NEW g \in RangeOf(e.took),
                        g \notin spoilt \cup refused \cup cut
                 PROVE  Covered(g) \subseteq xGrabs
      BY DEF ListenersGrabbed
    <3>1. PICK i \in DOMAIN keyListeners : keyListeners[i] = e
      BY DEF Registered
    <3>2. PICK j \in DOMAIN e.took : e.took[j] = g
      BY DEF RangeOf
    <3>3. g \in Grabs
      BY <3>1, <3>2, TookType DEF KInv
    <3>4. Places(keyListeners, g) # {}
      BY <3>1, <3>2, PlacesMembers
    <3>5. Cardinality(Places(keyListeners, g)) # 0
          /\ keygrabs[g] = Cardinality(Places(keyListeners, g))
      BY <3>3, <3>4, FS_EmptySet DEF Counted
    <3>6. keygrabs[g] > 0
      BY <3>3, <3>5 DEF KInv
    <3> QED
      BY <3>3, <3>6 DEF EntriesHeld
  <2> QED
    BY <2>1, <2>2, <2>3 DEF Consistent
<1> QED
  BY <1>1, CountedInvariant, PTL

-----------------------------------------------------------------------------
(***************************************************************************)
(* Characters and symbols (Ucs2Keysym).                                    *)
(***************************************************************************)

\* What is counted has a least one.
LEMMA LeastNumber ==
    ASSUME NEW S \in SUBSET Nat, S # {}
    PROVE  \E m \in S : \A k \in S : m <= k
<1>1. IsWellFoundedOn(OpToRel(<, Nat), Nat)
  BY NatLessThanWellFounded
<1>2. PICK m \in S : \A k \in S : <<k, m>> \notin OpToRel(<, Nat)
  BY <1>1, WFMin
<1>3. \A k \in S : ~(k < m)
  BY <1>2 DEF OpToRel
<1> QED
  BY <1>3

\* What the search looks through: the rows from one to another, if any.
Stretches == (1..Len(keysymtab) + 1) \X (0..Len(keysymtab))

Size(part) == part[2] + 1 - part[1]

\* One step of the search for v, with f for the rest of it.
Halve(f, column, v, part) ==
    LET min == part[1]
        max == part[2]
        mid == (min + max) \div 2
        at == keysymtab[mid][column]
    IN  IF max < min THEN 0
        ELSE IF at < v THEN f[<<mid + 1, max>>]
        ELSE IF at > v THEN f[<<min, mid - 1>>]
        ELSE mid

Searches(f, column, v) == f = [part \in Stretches |-> Halve(f, column, v, part)]

LEMMA StretchIs ==
    ASSUME NEW part \in Stretches
    PROVE  /\ part = <<part[1], part[2]>>
           /\ part[1] \in 1..Len(keysymtab) + 1 /\ part[2] \in 0..Len(keysymtab)
           /\ part[1] \in Int /\ part[2] \in Int
<1>1. Len(keysymtab) \in Nat
  BY TableAssumption
<1> QED
  BY <1>1 DEF Stretches

\* Both halves are smaller than the whole and leave out its middle.
LEMMA Halves ==
    ASSUME NEW part \in Stretches, part[1] <= part[2],
           NEW mid, mid = (part[1] + part[2]) \div 2
    PROVE  /\ mid \in part[1]..part[2] /\ mid \in 1..Len(keysymtab)
           /\ <<mid + 1, part[2]>> \in Stretches /\ <<part[1], mid - 1>> \in Stretches
           /\ Size(<<mid + 1, part[2]>>) \in Nat /\ Size(<<part[1], mid - 1>>) \in Nat
           /\ Size(<<mid + 1, part[2]>>) < Size(part)
           /\ Size(<<part[1], mid - 1>>) < Size(part)
<1> DEFINE n == Len(keysymtab)
           a == part[1]
           b == part[2]
<1>1. n \in Nat
  BY TableAssumption
<1>2. a \in 1..n + 1 /\ b \in 0..n /\ a <= b /\ mid = (a + b) \div 2
  BY StretchIs
<1> HIDE DEF n, a, b
<1>3. a \in Int /\ b \in Int /\ mid \in Int /\ a <= mid /\ mid <= b
  BY <1>1, <1>2
<1>4. /\ mid \in a..b /\ mid \in 1..n
      /\ mid + 1 \in 1..n + 1 /\ mid - 1 \in 0..n
      /\ b + 1 - (mid + 1) \in Nat /\ mid - 1 + 1 - a \in Nat
      /\ b + 1 - (mid + 1) < b + 1 - a /\ mid - 1 + 1 - a < b + 1 - a
  BY <1>1, <1>2, <1>3
<1> QED
  BY <1>2, <1>4 DEF Size, Stretches, n, a, b

\* The step looks no further than the smaller stretches.
LEMMA HalveSame ==
    ASSUME NEW column, NEW v, NEW f, NEW g, NEW part \in Stretches,
           \A q \in Stretches : Size(q) \in Nat /\ Size(q) < Size(part) => f[q] = g[q]
    PROVE  Halve(f, column, v, part) = Halve(g, column, v, part)
<1>1. CASE part[2] < part[1]
  BY <1>1 DEF Halve
<1>2. CASE part[1] <= part[2]
  <2> DEFINE mid == (part[1] + part[2]) \div 2
             right == <<mid + 1, part[2]>>
             left == <<part[1], mid - 1>>
  <2>1. /\ right \in Stretches /\ left \in Stretches
        /\ Size(right) \in Nat /\ Size(left) \in Nat
        /\ Size(right) < Size(part) /\ Size(left) < Size(part)
    BY <1>2, Halves
  <2>2. f[right] = g[right] /\ f[left] = g[left]
    <3> HIDE DEF right, left
    <3> QED
      BY <2>1
  <2> QED
    BY <2>2 DEF Halve
<1> QED
  BY <1>1, <1>2, StretchIs

\* What holds of a stretch if it holds of the smaller ones holds of all.
LEMMA BySize ==
    ASSUME NEW S \in SUBSET Stretches,
           \A part \in Stretches :
              (\A q \in Stretches : Size(q) \in Nat /\ Size(q) < Size(part) => q \in S) => part \in S
    PROVE  S = Stretches
<1> SUFFICES ASSUME S # Stretches
             PROVE  FALSE
  OBVIOUS
<1> DEFINE Bad == {part \in Stretches : part \notin S /\ Size(part) \in Nat}
           sizes == {Size(part) : part \in Bad}
<1>1. \A part \in Stretches : Size(part) \in Int
  BY StretchIs DEF Size
<1>2. Bad # {}
  BY <1>1
<1>3. sizes \in SUBSET Nat /\ sizes # {}
  BY <1>2
<1>4. PICK m \in sizes : \A k \in sizes : m <= k
  <2> HIDE DEF sizes
  <2> QED
    BY <1>3, LeastNumber
<1>5. PICK part \in Bad : Size(part) = m
  BY <1>4
<1>6. \A q \in Stretches : Size(q) \in Nat /\ Size(q) < Size(part) => q \in S
  <2> SUFFICES ASSUME NEW q \in Stretches, Size(q) \in Nat, Size(q) < Size(part), q \notin S
               PROVE  FALSE
    OBVIOUS
  <2>1. Size(q) \in sizes
    OBVIOUS
  <2>2. m <= Size(q) /\ m \in Nat
    BY <1>3, <1>4, <2>1
  <2> QED
    BY <1>5, <2>2
<1> QED
  BY <1>5, <1>6

\* There is a function that searches, so the one that Row is defined with does.
LEMMA SearchExists ==
    ASSUME NEW column, NEW v
    PROVE  \E g : Searches(g, column, v)
<1> DEFINE Begun(n, g) == \A q \in Stretches : Size(q) <= n => g[q] = Halve(g, column, v, q)
           bad == {n \in Nat : ~\E g : Begun(n, g)}
<1>1. \A part \in Stretches : Size(part) \in Int
  BY StretchIs DEF Size
<1>2. ASSUME NEW n \in Nat, NEW g, n > 0 => Begun(n - 1, g)
      PROVE  \E h : Begun(n, h)
  <2> DEFINE h == [part \in Stretches |-> Halve(g, column, v, part)]
  <2>1. ASSUME NEW q \in Stretches, Size(q) <= n
        PROVE  h[q] = Halve(h, column, v, q)
    <3>1. \A r \in Stretches : Size(r) \in Nat /\ Size(r) < Size(q) => g[r] = h[r]
      <4> SUFFICES ASSUME NEW r \in Stretches, Size(r) \in Nat, Size(r) < Size(q)
                   PROVE  g[r] = h[r]
        OBVIOUS
      <4>1. n > 0 /\ Size(r) <= n - 1
        BY <1>1, <2>1
      <4>2. g[r] = Halve(g, column, v, r)
        BY <1>2, <4>1
      <4> QED
        BY <4>2
    <3>2. h[q] = Halve(g, column, v, q)
      OBVIOUS
    <3> HIDE DEF h
    <3>3. Halve(g, column, v, q) = Halve(h, column, v, q)
      BY <3>1, HalveSame
    <3> QED
      BY <3>2, <3>3
  <2> QED
    BY <2>1
<1>3. bad = {}
  <2> SUFFICES ASSUME bad # {}
               PROVE  FALSE
    OBVIOUS
  <2>1. PICK m \in bad : \A k \in bad : m <= k
    <3>1. bad \in SUBSET Nat
      OBVIOUS
    <3> HIDE DEF bad
    <3> QED
      BY <3>1, LeastNumber
  <2>2. m \in Nat /\ ~\E h : Begun(m, h)
    BY <2>1
  <2>3. CASE m = 0
    BY <1>2, <2>2, <2>3
  <2>4. CASE m > 0
    <3>1. m - 1 \in Nat /\ m - 1 \notin bad
      BY <2>1, <2>2, <2>4
    <3>2. PICK g : Begun(m - 1, g)
      BY <3>1
    <3> QED
      BY <1>2, <2>2, <3>2
  <2> QED
    BY <2>2, <2>3, <2>4
<1>4. Len(keysymtab) \in Nat
  BY TableAssumption
<1>5. PICK g : Begun(Len(keysymtab) + 1, g)
  BY <1>3, <1>4
<1>6. \A q \in Stretches : g[q] = Halve(g, column, v, q)
  <2>1. \A q \in Stretches : Size(q) <= Len(keysymtab) + 1
    BY <1>4, StretchIs DEF Size
  <2> QED
    BY <1>5, <2>1
<1> DEFINE h == [part \in Stretches |-> g[part]]
<1>7. \A q \in Stretches : h[q] = Halve(h, column, v, q)
  <2>1. \A q \in Stretches : g[q] = h[q]
    OBVIOUS
  <2> HIDE DEF h
  <2>2. \A q \in Stretches : Halve(g, column, v, q) = Halve(h, column, v, q)
    BY <2>1, HalveSame
  <2> QED
    BY <1>6, <2>1, <2>2
<1>8. h = [part \in Stretches |-> Halve(h, column, v, part)]
  <2>1. h = [part \in Stretches |-> h[part]]
    OBVIOUS
  <2> HIDE DEF h
  <2> QED
    BY <1>7, <2>1
<1> HIDE DEF h
<1> QED
  BY <1>8 DEF Searches

LEMMA RowIs ==
    ASSUME NEW column, NEW v
    PROVE  \E f : /\ \A part \in Stretches : f[part] = Halve(f, column, v, part)
                  /\ Row(column, v) = f[<<1, Len(keysymtab)>>]
<1> DEFINE h == CHOOSE f : f = [part \in Stretches |-> Halve(f, column, v, part)]
<1>1. Row(column, v) = h[<<1, Len(keysymtab)>>]
  BY DEF Row, Stretches, Halve
<1>2. h = [part \in Stretches |-> Halve(h, column, v, part)]
  <2>1. h = CHOOSE f : Searches(f, column, v)
    BY DEF Searches
  <2> HIDE DEF h
  <2>2. Searches(h, column, v)
    BY <2>1, SearchExists
  <2> QED
    BY <2>2 DEF Searches
<1> HIDE DEF h
<1> QED
  BY <1>1, <1>2

\* The table's rows as pairs.
LEMMA TableRows ==
    ASSUME NEW i \in DOMAIN keysymtab
    PROVE  /\ keysymtab[i][1] \in Nat /\ keysymtab[i][2] \in Nat
           /\ keysymtab[i] = <<keysymtab[i][1], keysymtab[i][2]>>
BY TableAssumption

LEMMA TableIs ==
    /\ Len(keysymtab) \in Nat /\ DOMAIN keysymtab = 1..Len(keysymtab)
    /\ \A column \in {1, 2} : \A i \in 1..Len(keysymtab) : keysymtab[i][column] \in Int
<1>1. Len(keysymtab) \in Nat /\ DOMAIN keysymtab = 1..Len(keysymtab)
  BY TableAssumption
<1>2. \A i \in DOMAIN keysymtab : keysymtab[i][1] \in Int /\ keysymtab[i][2] \in Int
  BY TableRows
<1> QED
  BY <1>1, <1>2

\* A search that ends at a row has found there what it looked for, sorted or not.
LEMMA RowFound ==
    ASSUME NEW column \in {1, 2}, NEW v \in Int
    PROVE  Row(column, v) = 0 \/ /\ Row(column, v) \in DOMAIN keysymtab
                                 /\ keysymtab[Row(column, v)][column] = v
<1>1. PICK f : /\ \A part \in Stretches : f[part] = Halve(f, column, v, part)
               /\ Row(column, v) = f[<<1, Len(keysymtab)>>]
  BY RowIs
<1> DEFINE n == Len(keysymtab)
           Found(i) == i = 0 \/ (i \in 1..n /\ keysymtab[i][column] = v)
           S == {part \in Stretches : Found(f[part])}
<1>2. n \in Nat /\ DOMAIN keysymtab = 1..n /\ \A i \in 1..n : keysymtab[i][column] \in Int
  BY TableIs
<1>3. ASSUME NEW part \in Stretches,
             \A q \in Stretches : Size(q) \in Nat /\ Size(q) < Size(part) => q \in S
      PROVE  Found(f[part])
  <2>0. f[part] = Halve(f, column, v, part)
    BY <1>1
  <2>1. CASE part[2] < part[1]
    BY <2>0, <2>1 DEF Halve
  <2>2. CASE part[1] <= part[2]
    <3> DEFINE mid == (part[1] + part[2]) \div 2
               at == keysymtab[mid][column]
               right == <<mid + 1, part[2]>>
               left == <<part[1], mid - 1>>
    <3>1. /\ right \in Stretches /\ left \in Stretches /\ mid \in 1..n
          /\ Size(right) \in Nat /\ Size(left) \in Nat
          /\ Size(right) < Size(part) /\ Size(left) < Size(part)
      BY <2>2, Halves
    <3>2. at \in Int
      BY <1>2, <3>1
    <3>3. Found(f[right]) /\ Found(f[left])
      <4> HIDE DEF right, left, Found
      <4> QED
        BY <1>3, <3>1
    <3>4. f[part] = IF at < v THEN f[right] ELSE IF at > v THEN f[left] ELSE mid
      BY <2>0, <2>2, StretchIs DEF Halve
    <3>5. Found(mid) \/ at # v
      BY <3>1
    <3> HIDE DEF right, left, Found, at, mid
    <3> QED
      BY <3>2, <3>3, <3>4, <3>5
  <2> QED
    BY <2>1, <2>2, StretchIs
<1>4. S = Stretches
  <2>1. S \in SUBSET Stretches
    OBVIOUS
  <2>2. \A part \in Stretches :
          (\A q \in Stretches : Size(q) \in Nat /\ Size(q) < Size(part) => q \in S) => part \in S
    BY <1>3
  <2> HIDE DEF S
  <2> QED
    BY <2>1, <2>2, BySize
<1>5. <<1, n>> \in Stretches
  BY <1>2 DEF Stretches
<1> QED
  BY <1>1, <1>2, <1>4, <1>5

LEMMA FlagIs == Flag \in Nat /\ 255 < Flag /\ \A ucs \in UCS : ucs \in Nat /\ ucs < Flag
<1>1. Flag \in Nat /\ 255 < Flag
  BY SMT DEF Flag
<1> QED
  BY <1>1 DEF UCS

\* A symbol for a character is the character itself, or one that a row of the table
\* has for it, or the flagged character; and the character for a symbol likewise.
THEOREM SymbolsAreTheTables ==
    /\ \A ucs \in UCS :
         /\ ucs2keysym(ucs) \in Nat
         /\ \/ ucs \in Latin1 /\ ucs2keysym(ucs) = ucs
            \/ \E i \in DOMAIN keysymtab : keysymtab[i] = <<ucs2keysym(ucs), ucs>>
            \/ ucs2keysym(ucs) = Flag + ucs
    /\ \A keysym \in Nat :
         \/ keysym \in Latin1 /\ keysym2ucs(keysym) = keysym
         \/ keysym \in Flag .. 2 * Flag - 1 /\ keysym2ucs(keysym) = keysym - Flag
         \/ \E i \in DOMAIN keysymtab : keysymtab[i] = <<keysym, keysym2ucs(keysym)>>
         \/ keysym2ucs(keysym) = -1
<1>1. ASSUME NEW ucs \in UCS
      PROVE  /\ ucs2keysym(ucs) \in Nat
             /\ \/ ucs \in Latin1 /\ ucs2keysym(ucs) = ucs
                \/ \E i \in DOMAIN keysymtab : keysymtab[i] = <<ucs2keysym(ucs), ucs>>
                \/ ucs2keysym(ucs) = Flag + ucs
  <2> DEFINE row == Row(2, ucs)
  <2>1. row = 0 \/ (row \in DOMAIN keysymtab /\ keysymtab[row][2] = ucs)
    BY FlagIs, RowFound
  <2>2. ucs2keysym(ucs) = IF ucs \in Latin1 THEN ucs
                          ELSE IF row # 0 THEN keysymtab[row][1] ELSE Flag + ucs
    BY DEF ucs2keysym
  <2>3. ucs \in Nat /\ Flag + ucs \in Nat
    BY FlagIs
  <2> HIDE DEF row
  <2> QED
    BY <2>1, <2>2, <2>3, TableRows
<1>2. ASSUME NEW keysym \in Nat
      PROVE  \/ keysym \in Latin1 /\ keysym2ucs(keysym) = keysym
             \/ keysym \in Flag .. 2 * Flag - 1 /\ keysym2ucs(keysym) = keysym - Flag
             \/ \E i \in DOMAIN keysymtab : keysymtab[i] = <<keysym, keysym2ucs(keysym)>>
             \/ keysym2ucs(keysym) = -1
  <2> DEFINE row == Row(1, keysym)
  <2>1. row = 0 \/ (row \in DOMAIN keysymtab /\ keysymtab[row][1] = keysym)
    BY RowFound
  <2>2. keysym2ucs(keysym) = IF keysym \in Latin1 THEN keysym
                             ELSE IF keysym \in Flag .. 2 * Flag - 1 THEN keysym - Flag
                             ELSE IF row # 0 THEN keysymtab[row][2] ELSE -1
    BY DEF keysym2ucs
  <2> HIDE DEF row
  <2> QED
    BY <2>1, <2>2, TableRows
<1> QED
  BY <1>1, <1>2

\* The way to a symbol and back never ends at another character, if the rows of a
\* symbol have one character, and neither Latin-1 nor flagged symbols have rows.
THEOREM NoOtherCharacter ==
    ASSUME OneCharacterEach(keysymtab)
    PROVE  \A ucs \in UCS : keysym2ucs(ucs2keysym(ucs)) \in {ucs, -1}
<1> SUFFICES ASSUME NEW ucs \in UCS
             PROVE  keysym2ucs(ucs2keysym(ucs)) \in {ucs, -1}
  OBVIOUS
<1> DEFINE keysym == ucs2keysym(ucs)
<1>1. ucs \in Nat /\ ucs < Flag /\ Flag \in Nat /\ 255 < Flag
  BY FlagIs
<1>2. /\ keysym \in Nat
      /\ \/ ucs \in Latin1 /\ keysym = ucs
         \/ \E i \in DOMAIN keysymtab : keysymtab[i] = <<keysym, ucs>>
         \/ keysym = Flag + ucs
  BY <1>1, SymbolsAreTheTables
<1> HIDE DEF keysym
<1>3. CASE ucs \in Latin1 /\ keysym = ucs
  BY <1>3 DEF keysym2ucs, keysym
<1>4. CASE \E i \in DOMAIN keysymtab : keysymtab[i] = <<keysym, ucs>>
  <2>1. PICK i \in DOMAIN keysymtab : keysymtab[i] = <<keysym, ucs>>
    BY <1>4
  <2>2. keysymtab[i][1] = keysym /\ keysymtab[i][2] = ucs
    BY <2>1
  <2>3. keysym \notin Latin1 /\ keysym \notin Flag .. 2 * Flag - 1
    BY <2>2 DEF OneCharacterEach
  <2>4. \/ \E j \in DOMAIN keysymtab : keysymtab[j] = <<keysym, keysym2ucs(keysym)>>
        \/ keysym2ucs(keysym) = -1
    BY <1>2, <2>3, SymbolsAreTheTables
  <2>5. ASSUME NEW j \in DOMAIN keysymtab, keysymtab[j] = <<keysym, keysym2ucs(keysym)>>
        PROVE  keysym2ucs(keysym) = ucs
    <3>1. keysymtab[j][1] = keysym /\ keysymtab[j][2] = keysym2ucs(keysym)
      BY <2>5
    <3> QED
      BY <2>2, <3>1 DEF OneCharacterEach
  <2> QED
    BY <2>4, <2>5 DEF keysym
<1>5. CASE keysym = Flag + ucs
  <2>1. keysym \in Flag .. 2 * Flag - 1 /\ keysym \notin Latin1 /\ keysym - Flag = ucs
    BY <1>1, <1>5 DEF Latin1
  <2> QED
    BY <2>1 DEF keysym2ucs, keysym
<1> QED
  BY <1>2, <1>3, <1>4, <1>5

-----------------------------------------------------------------------------
(***************************************************************************)
(* Keys that are typed for clients (KeySynth).                             *)
(***************************************************************************)

\* The keymap while key k has symbol b at its first level, and what is read from it.
MapWith(k, b) ==
    {e \in Keymap : ~(e.code = k /\ e.mods = {})}
        \cup {[code |-> k, mods |-> {}, keysym |-> b]}

ReadsIn(map, k, mods) ==
    {e.keysym : e \in {f \in map : f.code = k /\ f.mods = mods \cap Matters[k]}}

\* A key types one symbol under the same modifiers.
Unambiguous(map) == \A e, f \in map : e.code = f.code /\ e.mods = f.mods => e = f

LEMMA MapIs ==
    /\ CurrentMap = MapWith(reserved, base)
    /\ \A k, mods : Reads(k, mods) = ReadsIn(MapWith(reserved, base), k, mods)
BY DEF CurrentMap, MapWith, Reads, ReadsIn

LEMMA MapEntries ==
    ASSUME KeySynthAssumption, NEW k \in Codes, NEW b \in Nat
    PROVE  /\ MapWith(k, b) \subseteq [code : Codes, mods : SUBSET Mods, keysym : Nat]
           /\ Unambiguous(MapWith(k, b))
BY DEF KeySynthAssumption, MapWith, Unambiguous

\* A key read under the modifiers it was meant for is the one that was meant.
LEMMA ReadsMeant ==
    ASSUME NEW map, Unambiguous(map),
           NEW e \in map, NEW c \in Codes, NEW mods, e.code = c, e.mods = mods \cap Matters[c]
    PROVE  ReadsIn(map, c, mods) = {e.keysym}
<1> DEFINE under == mods \cap Matters[c]
           those == {f \in map : f.code = c /\ f.mods = under}
<1>1. ReadsIn(map, c, mods) = {f.keysym : f \in those}
  BY DEF ReadsIn
<1>2. e.mods = under
  OBVIOUS
<1> HIDE DEF under
<1>3. those = {e}
  BY <1>2 DEF Unambiguous
<1> HIDE DEF those
<1> QED
  BY <1>1, <1>3

\* Other keys do not depend on the symbol that is lent.
LEMMA ReadsElsewhere ==
    ASSUME NEW k, NEW b, NEW c, NEW other, other # k, NEW mods
    PROVE  ReadsIn(MapWith(k, b), other, mods) = ReadsIn(MapWith(k, c), other, mods)
<1>1. {f \in MapWith(k, b) : f.code = other /\ f.mods = mods \cap Matters[other]}
          = {f \in MapWith(k, c) : f.code = other /\ f.mods = mods \cap Matters[other]}
  BY DEF MapWith
<1> QED
  BY <1>1 DEF ReadsIn

\* The key that keycode_for_keysym finds has the symbol.
LEMMA KeyForFinds ==
    ASSUME KeySynthAssumption, reserved \in Codes, base \in Nat,
           NEW keysym, Reach(keysym) # {}
    PROVE  /\ KeyFor(keysym) \in MapWith(reserved, base)
           /\ KeyFor(keysym).keysym = keysym
           /\ KeyFor(keysym).code \in Codes /\ KeyFor(keysym).mods \subseteq Mods
<1> DEFINE codes == {e.code : e \in Reach(keysym)}
<1>1. Reach(keysym) = {e \in MapWith(reserved, base) : e.keysym = keysym}
  BY MapIs DEF Reach
<1>2. ASSUME NEW e \in MapWith(reserved, base)
      PROVE  e.code \in Codes /\ e.code \in Nat /\ e.mods \subseteq Mods
  <2>1. e \in [code : Codes, mods : SUBSET Mods, keysym : Nat]
    BY MapEntries
  <2> QED
    BY <2>1 DEF KeySynthAssumption
<1>3. codes \in SUBSET Nat /\ codes # {}
  BY <1>1, <1>2
<1>4. PICK c \in codes : \A d \in codes : c <= d
  <2> HIDE DEF codes
  <2> QED
    BY <1>3, LeastNumber
<1>5. \E e \in Reach(keysym) : \A f \in Reach(keysym) : e.code <= f.code
  BY <1>4
<1>6. KeyFor(keysym) \in Reach(keysym)
  BY <1>5 DEF KeyFor
<1> QED
  BY <1>1, <1>2, <1>6

-----------------------------------------------------------------------------
(* The invariant of the synthesis.                                         *)
Synths == [todo : Seq(Nat), code : Codes \cup {None}, lock : SUBSET Mods,
           before : SUBSET Mods, calm : BOOLEAN]

Delays == [slow : Codes \cup {None}, bounce : Codes \cup {None}, users : BOOLEAN]

\* There is room for the loans of the symbols still to come.
LoanInv ==
    /\ session \in Sessions
    /\ reserved \in Codes
    /\ ownSymbol \in Nat /\ base \in Nat
    /\ synth \in Synths
    /\ loans \in Seq(0..ResetDelay)
    /\ Len(loans) + Len(synth.todo) <= MaxLoans

\* Modifiers locked for a symbol are none of those that were locked before.
ModsInv ==
    /\ held \cup locked \cup latched \cup maskState \cup latchMask \cup relatch \subseteq Mods
    /\ notes \in Seq(SUBSET Mods)
    /\ clicked \in BOOLEAN
    /\ synth.code # None /\ synth.calm =>
         /\ locked = synth.before \cup synth.lock
         /\ synth.lock \cap synth.before = {}

\* The key registryd holds down is the one it pressed last, and the one the bounce
\* keys wait for is the one it released last, if it is not the user's.
KeysInv ==
    /\ down \cup asked \subseteq Codes \cup Buttons
    /\ lastPress \in Codes \cup {None} /\ lastRelease \in Codes \cup {None}
    /\ delay \in Delays
    /\ synth.code # None => lastPress = synth.code
    /\ synth.code = None => down \subseteq asked
    /\ down \subseteq asked \cup {synth.code}
    /\ delay.bounce # None /\ ~delay.users => lastRelease = delay.bounce
    /\ dropped = FALSE

\* A key that is not read yet is read as what was meant; if it is the reserved key,
\* no loan's timer ends before the key has been read.
UnreadKey == [code : Codes, mods : SUBSET Mods, meant : Nat, age : 0..Patience, calm : BOOLEAN]

ReadAsMeant(key, k, b, timers) ==
    key.calm =>
      /\ ReadsIn(MapWith(k, b), key.code, key.mods) = {key.meant}
      /\ key.code = k => \A j \in DOMAIN timers : timers[j] + Patience < ResetDelay + key.age

UnreadInv ==
    /\ unread \in Seq(UnreadKey)
    /\ \A i \in DOMAIN unread : ReadAsMeant(unread[i], reserved, base, loans)

SynthInv == LoanInv /\ ModsInv /\ KeysInv /\ UnreadInv

\* The ages of loans are numbers.
LEMMA AgesAre ==
    ASSUME KeySynthAssumption, NEW ages \in Seq(0..ResetDelay)
    PROVE  /\ DOMAIN ages = 1..Len(ages) /\ Len(ages) \in Nat
           /\ \A i \in DOMAIN ages : ages[i] \in 0..ResetDelay /\ ages[i] \in Nat
<1> DEFINE S == 0..ResetDelay
<1>1. S \subseteq Nat
  BY DEF KeySynthAssumption
<1>2. ages \in Seq(S)
  OBVIOUS
<1> HIDE DEF S
<1>3. /\ DOMAIN ages = 1..Len(ages) /\ Len(ages) \in Nat
      /\ \A i \in DOMAIN ages : ages[i] \in S
  BY <1>2
<1> QED
  BY <1>1, <1>3 DEF S

LEMMA SynthParts ==
    ASSUME LoanInv
    PROVE  /\ synth.todo \in Seq(Nat) /\ synth.code \in Codes \cup {None}
           /\ synth.lock \subseteq Mods /\ synth.before \subseteq Mods
           /\ synth.calm \in BOOLEAN
BY DEF LoanInv, Synths

\* A symbol that is typed, be it a request's first or a later one.
Typing(keysym, todo) ==
    /\ keysym \in Nat /\ todo \in Seq(Nat)
    /\ synth.code = None
    /\ Len(loans) + 1 + Len(todo) <= MaxLoans
    /\ SynthKeysym(keysym, todo)

LEMMA SymbolsTyped ==
    ASSUME KeySynthAssumption, SessionsAssumption, LoanInv,
           \/ \E keysym \in session.symbols : GenerateKeysym(keysym)
           \/ \E string \in session.strings : GenerateString(string)
           \/ NextSymbol
    PROVE  \E keysym, todo : Typing(keysym, todo)
<1>1. ASSUME NEW keysym \in session.symbols, GenerateKeysym(keysym)
      PROVE  Typing(keysym, <<>>)
  <2>1. keysym \in Nat
    BY DEF LoanInv, SessionsAssumption
  <2>2. synth.code = None /\ Len(loans) + 1 <= MaxLoans /\ SynthKeysym(keysym, <<>>)
    BY <1>1 DEF GenerateKeysym, MainLoop, Room
  <2>3. Len(loans) \in Nat /\ Len(<<>>) = 0 /\ <<>> \in Seq(Nat)
    BY DEF LoanInv
  <2> QED
    BY <2>1, <2>2, <2>3 DEF Typing
<1>2. ASSUME NEW string \in session.strings, GenerateString(string)
      PROVE  \E keysym, todo : Typing(keysym, todo)
  <2> DEFINE keysyms == [i \in DOMAIN string |-> ucs2keysym(string[i])]
  <2>1. /\ string \in Seq(UCS) /\ string # <<>>
        /\ \A i \in DOMAIN string : ucs2keysym(string[i]) \in Nat
    <3>1. string \in Seq(UCS) /\ string # <<>>
      BY DEF LoanInv, SessionsAssumption
    <3>2. \A i \in DOMAIN string : string[i] \in UCS
      BY <3>1
    <3> QED
      BY <3>1, <3>2, SymbolsAreTheTables
  <2>2. /\ synth.code = None /\ Len(loans) + Len(string) <= MaxLoans
        /\ SynthKeysym(Head(keysyms), Tail(keysyms))
    BY <1>2 DEF GenerateString, MainLoop, Room
  <2>3. keysyms \in Seq(Nat) /\ Len(keysyms) = Len(string) /\ Len(string) \in Nat
    <3>1. DOMAIN string = 1..Len(string) /\ Len(string) \in Nat
      BY <2>1
    <3> QED
      BY <2>1, <3>1
  <2> HIDE DEF keysyms
  <2>4. keysyms # <<>>
    BY <2>1, <2>3
  <2>5. /\ Head(keysyms) \in Nat /\ Tail(keysyms) \in Seq(Nat)
        /\ Len(Tail(keysyms)) = Len(string) - 1
    BY <2>3, <2>4
  <2>6. Len(loans) \in Nat
    BY DEF LoanInv
  <2>7. Typing(Head(keysyms), Tail(keysyms))
    BY <2>2, <2>3, <2>5, <2>6 DEF Typing
  <2> QED
    BY <2>7
<1>3. ASSUME NextSymbol
      PROVE  Typing(Head(synth.todo), Tail(synth.todo))
  <2>1. /\ synth.code = None /\ synth.todo # <<>> /\ SynthKeysym(Head(synth.todo), Tail(synth.todo))
    BY <1>3 DEF NextSymbol, BetweenSymbols
  <2> DEFINE todo == synth.todo
  <2>2. todo \in Seq(Nat)
    BY SynthParts
  <2>3. Len(loans) \in Nat /\ Len(loans) + Len(todo) <= MaxLoans
    BY DEF LoanInv
  <2>4. todo # <<>>
    BY <2>1
  <2> HIDE DEF todo
  <2>5. Head(todo) \in Nat /\ Tail(todo) \in Seq(Nat) /\ Len(Tail(todo)) = Len(todo) - 1
        /\ Len(todo) \in Nat
    BY <2>2, <2>4
  <2>6. Len(loans) + 1 + Len(Tail(todo)) <= MaxLoans
    BY <2>3, <2>5 DEF KeySynthAssumption
  <2> QED
    BY <2>1, <2>5, <2>6 DEF Typing, todo
<1> QED
  BY <1>1, <1>2, <1>3

\* It has a key of its own or is lent the reserved one.
Mapped(keysym, k, needed) ==
    /\ [code |-> k, mods |-> needed, keysym |-> keysym] \in MapWith(reserved, base)
    /\ UNCHANGED <<base, loans>>

Lent(keysym, k, needed) ==
    /\ k = reserved /\ needed = {}
    /\ keysym # base
    /\ base' = keysym /\ loans' = Append(loans, 0)

LEMMA SymbolHasKey ==
    ASSUME KeySynthAssumption, LoanInv, NEW keysym, NEW todo, Typing(keysym, todo)
    PROVE  \E k \in Codes, mods \in SUBSET Mods, needed \in SUBSET Mods :
             /\ PressKeysym(keysym, k, mods, needed, todo)
             /\ Mapped(keysym, k, needed) \/ Lent(keysym, k, needed)
<1>1. reserved \in Codes /\ base \in Nat
  BY DEF LoanInv
<1>2. CASE PressMapped(keysym, todo)
  <2> DEFINE e == KeyFor(keysym)
  <2>1. Reach(keysym) # {} /\ UNCHANGED <<base, loans>>
        /\ PressKeysym(keysym, e.code, ModMask(e), e.mods, todo)
    BY <1>2 DEF PressMapped
  <2>2. e \in MapWith(reserved, base) /\ e.keysym = keysym /\ e.code \in Codes /\ e.mods \subseteq Mods
    BY <1>1, <2>1, KeyForFinds
  <2> HIDE DEF e
  <2>3. ModMask(e) \subseteq Mods
    BY DEF ModMask, KeySynthAssumption
  <2>4. e = [code |-> e.code, mods |-> e.mods, keysym |-> keysym]
    <3>1. e \in [code : Codes, mods : SUBSET Mods, keysym : Nat]
      BY <1>1, <2>2, MapEntries
    <3> QED
      BY <2>2, <3>1
  <2> QED
    BY <2>1, <2>2, <2>3, <2>4 DEF Mapped
<1>3. CASE PressLent(keysym, todo)
  <2>1. /\ Reach(keysym) = {} /\ base' = keysym /\ loans' = Append(loans, 0)
        /\ PressKeysym(keysym, reserved, {}, {}, todo)
    BY <1>3 DEF PressLent
  <2>2. keysym # base
    <3>1. [code |-> reserved, mods |-> {}, keysym |-> base] \in CurrentMap
      BY DEF CurrentMap
    <3>2. [code |-> reserved, mods |-> {}, keysym |-> base].keysym = base
      OBVIOUS
    <3> QED
      BY <2>1, <3>1, <3>2 DEF Reach
  <2> QED
    BY <1>1, <2>1, <2>2 DEF Lent
<1> QED
  BY <1>2, <1>3 DEF Typing, SynthKeysym

\* The modifiers a symbol needs are those that matter to its key.
LEMMA NeededMatters ==
    ASSUME KeySynthAssumption, NEW keysym, NEW k, NEW needed,
           Mapped(keysym, k, needed) \/ Lent(keysym, k, needed)
    PROVE  needed \subseteq Matters[k]
<1>1. CASE Lent(keysym, k, needed)
  BY <1>1 DEF Lent
<1>2. CASE Mapped(keysym, k, needed)
  <2> DEFINE e == [code |-> k, mods |-> needed, keysym |-> keysym]
  <2>1. e.code = k /\ e.mods = needed
    OBVIOUS
  <2>2. e \in Keymap \/ e.mods = {}
    BY <1>2 DEF Mapped, MapWith
  <2> HIDE DEF e
  <2> QED
    BY <2>1, <2>2 DEF KeySynthAssumption
<1> QED
  BY <1>1, <1>2

LEMMA UnreadParts ==
    ASSUME NEW key \in UnreadKey
    PROVE  /\ key.code \in Codes /\ key.mods \subseteq Mods /\ key.meant \in Nat
           /\ key.age \in 0..Patience /\ key.calm \in BOOLEAN
BY DEF UnreadKey

\* Keys that are doubted stay as they are otherwise.
LEMMA ConfusedKeys ==
    ASSUME unread \in Seq(UnreadKey)
    PROVE  /\ Confused \in Seq(UnreadKey) /\ DOMAIN Confused = DOMAIN unread
           /\ \A i \in DOMAIN unread :
                 /\ Confused[i].code = unread[i].code /\ Confused[i].mods = unread[i].mods
                 /\ Confused[i].meant = unread[i].meant /\ Confused[i].age = unread[i].age
                 /\ Confused[i].calm => unread[i].calm /\ unread[i].code # reserved
<1>1. DOMAIN unread = 1..Len(unread) /\ Len(unread) \in Nat
  OBVIOUS
<1>2. Confused = [i \in 1..Len(unread) |-> [unread[i] EXCEPT !.calm = @ /\ unread[i].code # reserved]]
  BY <1>1 DEF Confused
<1>3. ASSUME NEW i \in 1..Len(unread)
      PROVE  /\ Confused[i] \in UnreadKey
             /\ Confused[i].code = unread[i].code /\ Confused[i].mods = unread[i].mods
             /\ Confused[i].meant = unread[i].meant /\ Confused[i].age = unread[i].age
             /\ Confused[i].calm => unread[i].calm /\ unread[i].code # reserved
  <2> DEFINE key == unread[i]
             still == key.calm /\ key.code # reserved
  <2>1. key \in UnreadKey
    BY <1>1
  <2>2. still \in BOOLEAN
    OBVIOUS
  <2>3. Confused[i] = [key EXCEPT !.calm = still]
    BY <1>2
  <2>4. still => key.calm /\ key.code # reserved
    OBVIOUS
  <2> HIDE DEF key, still
  <2>5. [key EXCEPT !.calm = still] \in UnreadKey
    BY <2>1, <2>2 DEF UnreadKey
  <2>6. LET doubted == [key EXCEPT !.calm = still]
        IN  /\ doubted.code = key.code /\ doubted.mods = key.mods
            /\ doubted.meant = key.meant /\ doubted.age = key.age /\ doubted.calm = still
    BY <2>1 DEF UnreadKey
  <2> QED
    BY <2>3, <2>4, <2>5, <2>6 DEF key
<1>4. Confused \in Seq(UnreadKey)
  <2> DEFINE n == Len(unread)
             doubted == Confused
  <2>1. doubted = [i \in 1..n |-> doubted[i]]
    BY <1>2
  <2>2. \A i \in 1..n : doubted[i] \in UnreadKey
    BY <1>3
  <2>3. n \in Nat
    BY <1>1
  <2> HIDE DEF doubted, n
  <2>4. doubted \in Seq(UnreadKey)
    BY <2>1, <2>2, <2>3
  <2> QED
    BY <2>4 DEF doubted
<1> QED
  BY <1>1, <1>2, <1>3, <1>4

\* What is typed is read as it was meant.
LEMMA TypingReadAsMeant ==
    ASSUME KeySynthAssumption, LoanInv, ModsInv, UnreadInv,
           NEW keysym \in Nat, NEW todo, NEW k \in Codes, NEW mods \in SUBSET Mods,
           NEW needed \in SUBSET Mods,
           PressKeysym(keysym, k, mods, needed, todo),
           Mapped(keysym, k, needed) \/ Lent(keysym, k, needed)
    PROVE  UnreadInv'
<1> DEFINE lock == LocksFor(mods)
           under == Effective \cup lock
           calm == CalmFor(k, mods, needed)
           key == [code |-> k, mods |-> under, meant |-> keysym, age |-> 0, calm |-> calm]
           old == IF base' = base THEN unread ELSE Confused
           more == Append(old, key)
<1>1. unread' = more /\ reserved' = reserved
  BY DEF PressKeysym
<1>2. /\ reserved \in Codes /\ base \in Nat /\ loans \in Seq(0..ResetDelay)
      /\ unread \in Seq(UnreadKey)
      /\ \A i \in DOMAIN unread : ReadAsMeant(unread[i], reserved, base, loans)
  BY DEF LoanInv, UnreadInv
<1>3. key \in UnreadKey
  <2>1. under \subseteq Mods
    BY DEF ModsInv, Effective, LocksFor
  <2>2. calm \in BOOLEAN /\ 0 \in 0..Patience
    BY DEF KeySynthAssumption, CalmFor
  <2> HIDE DEF under, calm
  <2> QED
    BY <2>1, <2>2 DEF UnreadKey
<1>4. /\ key.code = k /\ key.mods = under /\ key.meant = keysym /\ key.age = 0
      /\ key.calm => CalmFor(k, mods, needed)
  <2> HIDE DEF calm, under
  <2> QED
    BY DEF calm
<1> HIDE DEF key, under
<1>5. old \in Seq(UnreadKey) /\ DOMAIN old = DOMAIN unread
  BY <1>2, ConfusedKeys
<1>6. ASSUME NEW i \in DOMAIN unread
      PROVE  ReadAsMeant(old[i], reserved, base', loans')
  <2>0. ReadAsMeant(unread[i], reserved, base, loans)
    BY <1>2
  <2>1. CASE UNCHANGED <<base, loans>>
    BY <2>0, <2>1
  <2>2. CASE base' # base
    <3>1. /\ old[i].code = unread[i].code /\ old[i].mods = unread[i].mods
          /\ old[i].meant = unread[i].meant
          /\ old[i].calm => unread[i].calm /\ unread[i].code # reserved
      BY <1>2, <2>2, ConfusedKeys
    <3>2. unread[i].code # reserved =>
            ReadsIn(MapWith(reserved, base), unread[i].code, unread[i].mods)
              = ReadsIn(MapWith(reserved, base'), unread[i].code, unread[i].mods)
      BY ReadsElsewhere
    <3> HIDE DEF old
    <3> QED
      BY <2>0, <3>1, <3>2 DEF ReadAsMeant
  <2> QED
    BY <2>1, <2>2 DEF Mapped, Lent
<1>7. ReadAsMeant(key, reserved, base', loans')
  <2> SUFFICES ASSUME key.calm
               PROVE  /\ ReadsIn(MapWith(reserved, base'), k, under) = {keysym}
                      /\ k = reserved => \A j \in DOMAIN loans' :
                                            loans'[j] + Patience < ResetDelay
    BY <1>2, <1>4 DEF ReadAsMeant, KeySynthAssumption
  <2>1. CalmFor(k, mods, needed)
    BY <1>4
  <2>2. [code |-> k, mods |-> under \cap Matters[k], keysym |-> keysym]
            \in MapWith(reserved, base')
    <3>1. under \cap Matters[k] = needed
      <4>1. needed \subseteq Matters[k]
        BY NeededMatters
      <4> QED
        BY <2>1, <4>1 DEF CalmFor, under, LocksFor
    <3> QED
      BY <3>1 DEF Mapped, Lent, MapWith
  <2>3. base' \in Nat
    BY <1>2 DEF Mapped, Lent
  <2>4. ReadsIn(MapWith(reserved, base'), k, under) = {keysym}
    <3> DEFINE map == MapWith(reserved, base')
               e == [code |-> k, mods |-> under \cap Matters[k], keysym |-> keysym]
    <3>1. Unambiguous(map)
      BY <1>2, <2>3, MapEntries
    <3>2. e \in map /\ e.code = k /\ e.mods = under \cap Matters[k] /\ e.keysym = keysym
      BY <2>2
    <3> HIDE DEF map, e
    <3>3. ReadsIn(map, k, under) = {e.keysym}
      BY ONLY <3>1, <3>2, ReadsMeant, k \in Codes
    <3> QED
      BY <3>2, <3>3 DEF map
  <2>5. ASSUME k = reserved, NEW j \in DOMAIN loans'
        PROVE  loans'[j] + Patience < ResetDelay
    <3>1. \A i \in DOMAIN loans : loans[i] + Patience < ResetDelay
      BY <2>1, <2>5 DEF CalmFor
    <3>2. CASE loans' = loans
      BY <2>5, <3>1, <3>2
    <3>3. CASE loans' = Append(loans, 0)
      <4>1. 0 + Patience < ResetDelay
        BY DEF KeySynthAssumption
      <4>2. loans'[j] = 0 \/ (j \in DOMAIN loans /\ loans'[j] = loans[j])
        <5> DEFINE S == 0..ResetDelay
        <5>1. loans \in Seq(S)
          BY <1>2
        <5> HIDE DEF S
        <5>2. \A i \in DOMAIN Append(loans, 0) :
                 Append(loans, 0)[i] = 0
                   \/ (i \in DOMAIN loans /\ Append(loans, 0)[i] = loans[i])
          BY <5>1
        <5> QED
          BY <2>5, <3>3, <5>2
      <4> QED
        BY <3>1, <4>1, <4>2
    <3> QED
      BY <3>2, <3>3 DEF Mapped, Lent
  <2> QED
    BY <2>4, <2>5
<1> HIDE DEF old
<1>8. /\ more \in Seq(UnreadKey) /\ DOMAIN old = 1..Len(old) /\ Len(old) \in Nat
      /\ \A i \in DOMAIN more : (i \in DOMAIN old /\ more[i] = old[i]) \/ more[i] = key
  BY <1>3, <1>5
<1> HIDE DEF more
<1>9. \A i \in DOMAIN more : ReadAsMeant(more[i], reserved, base', loans')
  BY <1>5, <1>6, <1>7, <1>8
<1> QED
  BY <1>1, <1>8, <1>9 DEF UnreadInv

\* The press: what is locked for it was not locked before, if the modifiers were known.
LEMMA TypingKeeps ==
    ASSUME KeySynthAssumption, SynthInv, NEW keysym, NEW todo, Typing(keysym, todo)
    PROVE  SynthInv'
<1>1. PICK k \in Codes, mods \in SUBSET Mods, needed \in SUBSET Mods :
         /\ PressKeysym(keysym, k, mods, needed, todo)
         /\ Mapped(keysym, k, needed) \/ Lent(keysym, k, needed)
  BY SymbolHasKey DEF SynthInv
<1>2. /\ LoanInv /\ ModsInv /\ KeysInv /\ UnreadInv
      /\ keysym \in Nat /\ todo \in Seq(Nat) /\ synth.code = None
      /\ Len(loans) + 1 + Len(todo) <= MaxLoans
      /\ k # None
  BY DEF SynthInv, Typing, KeySynthAssumption
<1> DEFINE lock == LocksFor(mods)
           known == maskState = Effective
<1>3. /\ locked' = locked \cup lock
      /\ synth' = [todo |-> todo, code |-> k, lock |-> lock, before |-> locked, calm |-> known]
      /\ UNCHANGED <<held, latchMask, relatch, clicked, lastRelease, asked, maskState,
                     session, reserved, ownSymbol>>
      /\ Press(k) /\ UseLatches
      /\ dropped' = (dropped \/ (Bounced(k) /\ ~delay.users))
  BY <1>1 DEF PressKeysym, LockModifiers
<1>4. lock \subseteq Mods /\ locked \subseteq Mods /\ (known => lock \cap locked = {})
  BY <1>2 DEF LocksFor, ModsInv, Effective
<1>5. known \in BOOLEAN
  OBVIOUS
<1> HIDE DEF lock, known
<1>6. /\ synth' \in Synths
      /\ synth'.todo = todo /\ synth'.code = k /\ synth'.lock = lock /\ synth'.before = locked
      /\ synth'.calm = known
  BY <1>2, <1>3, <1>4, <1>5 DEF Synths
<1>7. LoanInv'
  <2>1. /\ base' \in Nat /\ loans' \in Seq(0..ResetDelay)
        /\ Len(loans') \in {Len(loans), Len(loans) + 1} /\ Len(loans) \in Nat
    <3>1. base \in Nat /\ loans \in Seq(0..ResetDelay) /\ 0 \in 0..ResetDelay
      BY <1>2 DEF LoanInv, KeySynthAssumption
    <3>2. CASE Mapped(keysym, k, needed)
      BY <3>1, <3>2 DEF Mapped
    <3>3. CASE Lent(keysym, k, needed)
      BY <1>2, <3>1, <3>3 DEF Lent
    <3> QED
      BY <1>1, <3>2, <3>3
  <2>2. Len(loans') + Len(todo) <= MaxLoans
    <3>1. Len(todo) \in Nat /\ MaxLoans \in Nat
      BY <1>2 DEF KeySynthAssumption
    <3>2. Len(loans) + 1 + Len(todo) <= MaxLoans
      BY <1>2
    <3>3. /\ Len(loans') = Len(loans) \/ Len(loans') = Len(loans) + 1
          /\ Len(loans) \in Nat
      BY <2>1
    <3> QED
      BY ONLY <3>1, <3>2, <3>3
  <2> QED
    BY <1>2, <1>3, <1>6, <2>1, <2>2 DEF LoanInv
<1>8. ModsInv'
  <2>1. latched' \subseteq Mods /\ notes' \in Seq(SUBSET Mods)
    <3>1. latched \in SUBSET Mods /\ notes \in Seq(SUBSET Mods) /\ {} \in SUBSET Mods
      BY <1>2 DEF ModsInv
    <3>2. CASE UNCHANGED <<latched, notes>>
      BY <3>1, <3>2
    <3>3. CASE latched' = {} /\ notes' = Append(notes, {})
      <4>1. Append(notes, {}) \in Seq(SUBSET Mods)
        BY <3>1, AppendProperties
      <4> QED
        BY <3>3, <4>1
    <3> QED
      BY <1>3, <3>2, <3>3 DEF UseLatches
  <2>2. synth'.calm => /\ locked' = synth'.before \cup synth'.lock
                       /\ synth'.lock \cap synth'.before = {}
    BY <1>3, <1>4, <1>6
  <2>3. clicked' \in BOOLEAN /\ UNCHANGED <<held, latchMask, relatch, maskState>>
    BY <1>2, <1>3 DEF ModsInv
  <2>4. held \cup locked \cup maskState \cup latchMask \cup relatch \subseteq Mods
    BY <1>2 DEF ModsInv
  <2> QED
    BY <1>3, <1>4, <2>1, <2>2, <2>3, <2>4 DEF ModsInv
<1>9. KeysInv'
  <2>1. ~(Bounced(k) /\ ~delay.users)
    BY <1>2 DEF KeysInv, Bounced, WaitsBounce
  <2>2. dropped' = FALSE
    BY <1>2, <1>3, <2>1 DEF KeysInv
  <2>3. /\ down' = down \cup {k} /\ lastPress' = k
        /\ \/ lastRelease = k /\ delay' = [NoDelay EXCEPT !.slow = k]
           \/ delay' = [delay EXCEPT !.slow = k]
    BY <1>3 DEF Press, WaitsBounce
  <2>4. delay' \in Delays /\ (delay'.bounce = None \/ (delay'.bounce = delay.bounce
                                                    /\ delay'.users = delay.users))
    BY <1>2, <2>3 DEF Delays, NoDelay, KeysInv
  <2>5. delay'.bounce # None /\ ~delay'.users => lastRelease' = delay'.bounce
    BY <1>2, <1>3, <2>4 DEF KeysInv
  <2>6. /\ down' \cup asked' \subseteq Codes \cup Buttons /\ down' \subseteq asked' \cup {k}
        /\ lastPress' \in Codes \cup {None} /\ lastRelease' \in Codes \cup {None}
    BY <1>2, <1>3, <2>3 DEF KeysInv
  <2> QED
    BY <1>2, <1>6, <2>2, <2>3, <2>4, <2>5, <2>6 DEF KeysInv
<1>10. UnreadInv'
  BY <1>1, <1>2, TypingReadAsMeant
<1> QED
  BY <1>7, <1>8, <1>9, <1>10 DEF SynthInv

\* The release.
LEMMA ReleaseKeysymKeeps ==
    ASSUME KeySynthAssumption, SynthInv, ReleaseKeysym
    PROVE  SynthInv'
<1> DEFINE k == synth.code
<1>1. LoanInv /\ ModsInv /\ KeysInv /\ UnreadInv /\ k \in Codes /\ k # None
  BY SynthParts DEF SynthInv, ReleaseKeysym
<1>2. /\ Release(k) /\ dropped' = (dropped \/ TooShort(k))
      /\ locked' = locked \ synth.lock
      /\ synth' = [Idle EXCEPT !.todo = synth.todo]
      /\ latchMask' \in {{}, latchMask}
      /\ UNCHANGED <<mapVars, held, latched, notes, relatch, clicked, lastPress, asked,
                     maskState, unread>>
  BY DEF ReleaseKeysym, UnlockModifiers
<1>3. synth' \in Synths /\ synth'.todo = synth.todo /\ synth'.code = None
  BY <1>1, <1>2, SynthParts DEF Idle, Synths
<1>4. LoanInv'
  BY <1>1, <1>2, <1>3 DEF LoanInv, mapVars
<1>5. ModsInv'
  BY <1>1, <1>2, <1>3 DEF ModsInv
<1>6. KeysInv'
  <2>1. ~TooShort(k)
    BY <1>1 DEF KeysInv, TooShort, WaitsSlow
  <2>2. dropped' = FALSE
    BY <1>1, <1>2, <2>1 DEF KeysInv
  <2>3. /\ down' = down \ {k} /\ lastRelease' = k
        /\ delay' = [slow |-> IF WaitsSlow(k) \/ delay.slow = k THEN None ELSE delay.slow,
                     bounce |-> k, users |-> FALSE]
    BY <1>2 DEF Release
  <2>4. delay' \in Delays /\ delay'.bounce = k
    BY <1>1, <2>3 DEF Delays, KeysInv
  <2>5. down' \subseteq asked'
    BY <1>1, <1>2, <2>3 DEF KeysInv
  <2> QED
    BY <1>1, <1>2, <1>3, <2>2, <2>3, <2>4, <2>5 DEF KeysInv
<1>7. UnreadInv'
  BY <1>1, <1>2 DEF UnreadInv, mapVars
<1> QED
  BY <1>4, <1>5, <1>6, <1>7 DEF SynthInv

\* The timer of a loan: no key that depends on it waits to be read as long as that.
LEMMA ResetReservedKeeps ==
    ASSUME KeySynthAssumption, SynthInv, ResetReserved
    PROVE  SynthInv'
<1>1. LoanInv /\ ModsInv /\ KeysInv /\ UnreadInv
  BY DEF SynthInv
<1>2. /\ loans # <<>> /\ Head(loans) >= ResetDelay
      /\ base' = ownSymbol /\ loans' = Tail(loans)
      /\ UNCHANGED <<session, reserved, ownSymbol, modVars, latchVars, keyVars, maskState,
                     synth, unread>>
  BY DEF ResetReserved
<1>3. /\ loans \in Seq(0..ResetDelay) /\ reserved \in Codes /\ ownSymbol \in Nat /\ base \in Nat
      /\ Len(loans) + Len(synth.todo) <= MaxLoans /\ Len(synth.todo) \in Nat
      /\ ResetDelay \in Nat /\ Patience \in Nat /\ Patience < ResetDelay /\ MaxLoans \in Nat
  BY <1>1, SynthParts DEF LoanInv, KeySynthAssumption
<1>4. /\ loans' \in Seq(0..ResetDelay) /\ Len(loans') = Len(loans) - 1 /\ Len(loans) \in Nat
      /\ 1 \in DOMAIN loans /\ loans[1] >= ResetDelay /\ loans[1] \in 0..ResetDelay
  BY <1>2, <1>3
<1>5. LoanInv'
  <2>1. Len(loans') + Len(synth'.todo) <= MaxLoans
    <3>1. synth' = synth
      BY <1>2
    <3>2. Len(loans) + Len(synth.todo) <= MaxLoans /\ Len(synth.todo) \in Nat /\ MaxLoans \in Nat
      BY <1>3
    <3>3. Len(loans') = Len(loans) - 1 /\ Len(loans) \in Nat
      BY <1>4
    <3> QED
      BY ONLY <3>1, <3>2, <3>3
  <2> QED
    BY <1>1, <1>2, <1>3, <1>4, <2>1 DEF LoanInv
<1>6. ModsInv' /\ KeysInv'
  BY <1>1, <1>2 DEF ModsInv, KeysInv, modVars, latchVars, keyVars
<1>7. ASSUME NEW i \in DOMAIN unread
      PROVE  ReadAsMeant(unread[i], reserved, base', loans')
  <2> SUFFICES ASSUME unread[i].calm
               PROVE  ReadAsMeant(unread[i], reserved, base', loans')
    BY DEF ReadAsMeant
  <2>1. ReadAsMeant(unread[i], reserved, base, loans) /\ unread[i] \in UnreadKey
    BY <1>1 DEF UnreadInv
  <2>2. unread[i].code # reserved
    <3> SUFFICES ASSUME unread[i].code = reserved
                 PROVE  FALSE
      OBVIOUS
    <3> DEFINE age == unread[i].age
               first == loans[1]
    <3>1. age \in 0..Patience
      BY <2>1, UnreadParts
    <3>2. first + Patience < ResetDelay + age
      BY <1>4, <2>1 DEF ReadAsMeant
    <3>3. /\ first >= ResetDelay /\ first \in 0..ResetDelay
          /\ ResetDelay \in Nat /\ Patience \in Nat /\ Patience < ResetDelay
      BY <1>3, <1>4
    <3> HIDE DEF age, first
    <3> QED
      BY ONLY <3>1, <3>2, <3>3
  <2>3. ReadsIn(MapWith(reserved, base), unread[i].code, unread[i].mods)
          = ReadsIn(MapWith(reserved, base'), unread[i].code, unread[i].mods)
    BY <2>2, ReadsElsewhere
  <2> QED
    BY <2>1, <2>2, <2>3 DEF ReadAsMeant
<1>8. UnreadInv'
  BY <1>1, <1>2, <1>7 DEF UnreadInv
<1> QED
  BY <1>5, <1>6, <1>8 DEF SynthInv

\* A press of a key or a button uses up the latches or leaves them.
LEMMA LatchesUsed ==
    ASSUME ModsInv, UseLatches \/ UNCHANGED <<latched, notes>>
    PROVE  latched' \subseteq Mods /\ notes' \in Seq(SUBSET Mods)
<1>1. latched \in SUBSET Mods /\ notes \in Seq(SUBSET Mods) /\ {} \in SUBSET Mods
  BY DEF ModsInv
<1>2. CASE UNCHANGED <<latched, notes>>
  BY <1>1, <1>2
<1>3. CASE latched' = {} /\ notes' = Append(notes, {})
  <2>1. Append(notes, {}) \in Seq(SUBSET Mods)
    BY <1>1, AppendProperties
  <2> QED
    BY <1>3, <2>1
<1> QED
  BY <1>2, <1>3 DEF UseLatches

\* A request for a key or button of its own leaves what is typed alone: it keeps the
\* invariant if it keeps the books of the keys that are down.
LEMMA RawRequestKeeps ==
    ASSUME SynthInv, RawRequest,
           UseLatches \/ UNCHANGED <<latched, notes>>,
           latchMask' \in {{}, latchMask}, clicked' \in BOOLEAN,
           down' \cup asked' \subseteq Codes \cup Buttons, down' \subseteq asked',
           lastPress' \in Codes \cup {None}, lastRelease' \in Codes \cup {None},
           delay' \in Delays,
           delay'.bounce # None /\ ~delay'.users => lastRelease' = delay'.bounce
    PROVE  SynthInv'
<1>1. LoanInv /\ ModsInv /\ KeysInv /\ UnreadInv
  BY DEF SynthInv
<1>2. /\ synth.code = None
      /\ UNCHANGED <<mapVars, modVars, relatch, maskState, synth, unread, dropped>>
  BY DEF RawRequest, MainLoop
<1>3. LoanInv' /\ UnreadInv'
  BY <1>1, <1>2 DEF LoanInv, UnreadInv, mapVars
<1>4. ModsInv'
  <2>1. latched' \subseteq Mods /\ notes' \in Seq(SUBSET Mods)
    BY <1>1, LatchesUsed
  <2>2. held \cup locked \cup maskState \cup latchMask \cup relatch \subseteq Mods
    BY <1>1 DEF ModsInv
  <2> QED
    BY <1>2, <2>1, <2>2 DEF ModsInv, modVars
<1>5. KeysInv'
  BY <1>1, <1>2 DEF KeysInv
<1> QED
  BY <1>3, <1>4, <1>5 DEF SynthInv

\* The keys and buttons that are asked for exist; those that are down were asked for.
LEMMA RawBooks ==
    ASSUME SynthInv, RawRequest
    PROVE  /\ down \subseteq asked /\ down \cup asked \subseteq Codes \cup Buttons
           /\ lastPress \in Codes \cup {None} /\ lastRelease \in Codes \cup {None}
           /\ delay \in Delays
           /\ delay.bounce # None /\ ~delay.users => lastRelease = delay.bounce
           /\ clicked \in BOOLEAN
BY DEF SynthInv, KeysInv, ModsInv, RawRequest, MainLoop

\* A press and a release alone, of a key that the server has.
LEMMA PressBooks ==
    ASSUME NEW k \in Codes, Press(k), lastRelease' = lastRelease, delay \in Delays,
           delay.bounce # None /\ ~delay.users => lastRelease = delay.bounce
    PROVE  /\ down' = down \cup {k} /\ lastPress' = k
           /\ delay' \in Delays
           /\ delay'.bounce # None /\ ~delay'.users => lastRelease' = delay'.bounce
<1>1. \/ delay' = [NoDelay EXCEPT !.slow = k]
      \/ delay' = [delay EXCEPT !.slow = k]
  BY DEF Press
<1>2. CASE delay' = [NoDelay EXCEPT !.slow = k]
  <2>1. delay' \in Delays /\ delay'.bounce = None
    BY <1>2 DEF Delays, NoDelay
  <2> QED
    BY <2>1 DEF Press
<1>3. CASE delay' = [delay EXCEPT !.slow = k]
  <2>1. delay' \in Delays /\ delay'.bounce = delay.bounce /\ delay'.users = delay.users
    BY <1>3 DEF Delays
  <2> QED
    BY <2>1 DEF Press
<1> QED
  BY <1>1, <1>2, <1>3

LEMMA ReleaseBooks ==
    ASSUME NEW k \in Codes, Release(k), delay \in Delays
    PROVE  /\ down' = down \ {k} /\ lastRelease' = k
           /\ delay' \in Delays /\ delay'.bounce = k
BY DEF Release, Delays

LEMMA RequestsKeep ==
    ASSUME KeySynthAssumption, SessionsAssumption, SynthInv, Requests
    PROVE  SynthInv'
<1>1. session.raw \subseteq Codes /\ session.buttons \subseteq Buttons
  BY DEF SynthInv, LoanInv, SessionsAssumption
<1>2. ASSUME NEW k \in Codes, GeneratePress(k)
      PROVE  SynthInv'
  <2>1. /\ RawRequest /\ Press(k) /\ UseLatches /\ asked' = asked \cup {k} /\ latchMask' = {}
        /\ UNCHANGED <<clicked, lastRelease>>
    BY <1>2 DEF GeneratePress
  <2>2. /\ down' = down \cup {k} /\ lastPress' = k /\ delay' \in Delays
        /\ delay'.bounce # None /\ ~delay'.users => lastRelease' = delay'.bounce
    BY <2>1, RawBooks, PressBooks
  <2> QED
    BY <2>1, <2>2, RawBooks, RawRequestKeeps
<1>3. ASSUME NEW k \in Codes, GenerateRelease(k)
      PROVE  SynthInv'
  <2>1. /\ RawRequest /\ Release(k) /\ asked' = asked \ {k} /\ latchMask' = {}
        /\ UNCHANGED <<latched, notes, clicked, lastPress>>
    BY <1>3 DEF GenerateRelease
  <2>2. /\ down' = down \ {k} /\ lastRelease' = k /\ delay' \in Delays /\ delay'.bounce = k
    BY <2>1, RawBooks, ReleaseBooks
  <2> QED
    BY <2>1, <2>2, RawBooks, RawRequestKeeps
<1>4. ASSUME NEW k \in Codes, GeneratePressRelease(k)
      PROVE  SynthInv'
  <2>1. /\ RawRequest /\ UseLatches /\ asked' = asked \ {k} /\ latchMask' = {}
        /\ down' = down \ {k} /\ lastPress' = k /\ lastRelease' = k /\ UNCHANGED clicked
    BY <1>4 DEF GeneratePressRelease
  <2>2. delay' \in Delays /\ delay'.bounce = k
    BY <1>4 DEF GeneratePressRelease, NoDelay, Delays
  <2> QED
    BY <2>1, <2>2, RawBooks, RawRequestKeeps
<1>5. ASSUME NEW b \in Buttons, NEW how, GenerateMouseEvent(b, how)
      PROVE  SynthInv'
  <2>1. /\ RawRequest
        /\ UseLatches \/ UNCHANGED <<latched, notes>>
        /\ UNCHANGED <<lastPress, lastRelease, delay, latchMask>>
    BY <1>5 DEF GenerateMouseEvent
  <2>2. \/ how = "p" /\ down' = down \cup {b} /\ asked' = asked \cup {b}
        \/ down' = down \ {b} /\ asked' = asked \ {b}
    BY <1>5 DEF GenerateMouseEvent, EndsUp
  <2>3. clicked' \in BOOLEAN
    <3>1. clicked' = (clicked \/ Presses(how))
      BY <1>5 DEF GenerateMouseEvent
    <3> QED
      BY <3>1, Zenon
  <2> QED
    BY <2>1, <2>2, <2>3, RawBooks, RawRequestKeeps
<1>6. ASSUME \/ \E keysym \in session.symbols : GenerateKeysym(keysym)
             \/ \E string \in session.strings : GenerateString(string)
      PROVE  SynthInv'
  <2>1. LoanInv
    BY DEF SynthInv
  <2>2. \E keysym, todo : Typing(keysym, todo)
    BY <1>6, <2>1, SymbolsTyped
  <2> QED
    BY <2>2, TypingKeeps
<1> QED
  BY <1>1, <1>2, <1>3, <1>4, <1>5, <1>6 DEF Requests

-----------------------------------------------------------------------------
(* The latches, the poll, the user and the application.                    *)

LEMMA LatchStepsKeep ==
    ASSUME SynthInv, SeeClick \/ XkbStateNotify \/ PollModifiers
    PROVE  SynthInv'
<1>1. LoanInv /\ ModsInv /\ KeysInv /\ UnreadInv
  BY DEF SynthInv
<1>2. /\ synth.code = None
      /\ UNCHANGED <<mapVars, modVars, keyVars, synth, unread>>
  BY DEF SeeClick, XkbStateNotify, PollModifiers, MainLoop
<1>3. LoanInv' /\ KeysInv' /\ UnreadInv'
  BY <1>1, <1>2 DEF LoanInv, KeysInv, UnreadInv, mapVars, keyVars
<1>4. /\ held \cup locked \cup latched \cup maskState \cup latchMask \cup relatch \subseteq Mods
      /\ notes \in Seq(SUBSET Mods) /\ clicked \in BOOLEAN
  BY <1>1 DEF ModsInv
<1>5. ASSUME latched' \cup maskState' \cup latchMask' \cup relatch' \subseteq Mods,
             notes' \in Seq(SUBSET Mods), clicked' \in BOOLEAN
      PROVE  ModsInv'
  BY <1>2, <1>4, <1>5 DEF ModsInv, modVars
<1>6. \A consumed \in BOOLEAN : UnlatchPending(consumed) \subseteq Mods
  BY <1>4 DEF UnlatchPending
<1>7. CASE SeeClick
  <2>1. /\ relatch' \subseteq Mods /\ clicked' = FALSE
        /\ UNCHANGED <<latched, notes, latchMask, maskState>>
    BY <1>6, <1>7 DEF SeeClick
  <2>2. clicked' \in BOOLEAN
    BY <2>1
  <2> QED
    BY <1>3, <1>4, <1>5, <2>1, <2>2 DEF SynthInv
<1>8. CASE PollModifiers
  <2>1. maskState' \subseteq Mods /\ UNCHANGED <<latched, notes, latchMask, relatch, clicked>>
    BY <1>4, <1>8 DEF PollModifiers, Effective, latchVars
  <2> QED
    BY <1>3, <1>4, <1>5, <2>1 DEF SynthInv
<1>9. CASE XkbStateNotify
  <2>1. PICK sees \in BOOLEAN, pending \in SUBSET Mods :
           /\ notes # <<>> /\ relatch' = {} /\ clicked' = (clicked /\ ~sees)
           /\ \/ /\ latched' = latched \cup pending /\ latchMask' = latchMask
                 /\ notes' = Append(Tail(notes), latched \cup pending)
              \/ latched' = latched /\ latchMask' = Head(notes) /\ notes' = Tail(notes)
           /\ UNCHANGED maskState
    <3>1. PICK consumed \in BOOLEAN :
        LET sees == clicked /\ relatch = {}
            pending == IF sees THEN UnlatchPending(consumed) ELSE relatch
        IN  /\ clicked' = (clicked /\ ~sees)
            /\ relatch' = {}
            /\ IF pending # {}
               THEN /\ latched' = latched \cup pending
                    /\ notes' = Append(Tail(notes), latched \cup pending)
                    /\ UNCHANGED latchMask
               ELSE /\ latchMask' = Head(notes)
                    /\ notes' = Tail(notes)
                    /\ UNCHANGED latched
      BY <1>9 DEF XkbStateNotify
    <3> DEFINE sees == clicked /\ relatch = {}
               pending == IF sees THEN UnlatchPending(consumed) ELSE relatch
    <3>2. sees \in BOOLEAN /\ pending \in SUBSET Mods
      BY <1>4, <1>6
    <3>3. notes # <<>> /\ UNCHANGED maskState
      BY <1>9 DEF XkbStateNotify
    <3> HIDE DEF sees, pending
    <3> QED
      BY <3>1, <3>2, <3>3 DEF sees, pending
  <2>2. clicked' \in BOOLEAN
    <3>1. clicked' = (clicked /\ ~sees)
      BY <2>1
    <3> QED
      BY <3>1, Zenon
  <2>3. Head(notes) \in SUBSET Mods /\ Tail(notes) \in Seq(SUBSET Mods)
    <3> DEFINE S == SUBSET Mods
    <3>1. notes \in Seq(S) /\ notes # <<>>
      BY <1>4, <2>1
    <3> HIDE DEF S
    <3>2. Head(notes) \in S /\ Tail(notes) \in Seq(S)
      BY <3>1
    <3> QED
      BY <3>2 DEF S
  <2>4. Append(Tail(notes), latched \cup pending) \in Seq(SUBSET Mods)
    <3>1. latched \cup pending \in SUBSET Mods
      BY <1>4
    <3> QED
      BY <2>3, <3>1, AppendProperties
  <2>5. /\ latched' \cup maskState' \cup latchMask' \cup relatch' \subseteq Mods
        /\ notes' \in Seq(SUBSET Mods)
    BY <1>4, <2>1, <2>3, <2>4
  <2> QED
    BY <1>3, <1>5, <2>2, <2>5 DEF SynthInv
<1> QED
  BY <1>7, <1>8, <1>9

\* What the user does keeps the invariant if the modifiers are some, and if the bounce
\* keys that come to wait for a key are known to wait for the user's.
LEMMA UserStepKeeps ==
    ASSUME SynthInv, UserUnchanged,
           held' \cup locked' \cup latched' \subseteq Mods, notes' \in Seq(SUBSET Mods),
           clicked' \in BOOLEAN, delay' \in Delays,
           delay' = delay \/ delay'.users,
           \/ synth' = synth /\ locked' = locked
           \/ synth' = synth /\ synth.code = None
           \/ synth' = [synth EXCEPT !.calm = FALSE]
    PROVE  SynthInv'
<1>1. LoanInv /\ ModsInv /\ KeysInv /\ UnreadInv
  BY DEF SynthInv
<1>2. UNCHANGED <<mapVars, latchMask, relatch, maskState, unread, down, lastPress, lastRelease,
                  asked, dropped>>
  BY DEF UserUnchanged
<1>3. /\ synth' \in Synths
      /\ synth'.code = synth.code /\ synth'.todo = synth.todo
      /\ synth'.lock = synth.lock /\ synth'.before = synth.before
      /\ synth'.calm /\ synth.code # None => synth.calm /\ locked' = locked
  <2>1. synth \in Synths
    BY <1>1 DEF LoanInv
  <2>2. CASE synth' = synth /\ (locked' = locked \/ synth.code = None)
    BY <2>1, <2>2
  <2>3. CASE synth' = [synth EXCEPT !.calm = FALSE]
    BY <2>1, <2>3 DEF Synths
  <2> QED
    BY <2>2, <2>3
<1>4. LoanInv' /\ UnreadInv'
  BY <1>1, <1>2, <1>3 DEF LoanInv, UnreadInv, mapVars
<1>5. ModsInv'
  <2>1. maskState \cup latchMask \cup relatch \subseteq Mods
    BY <1>1 DEF ModsInv
  <2> QED
    BY <1>1, <1>2, <1>3, <2>1 DEF ModsInv
<1>6. KeysInv'
  BY <1>1, <1>2, <1>3 DEF KeysInv
<1> QED
  BY <1>4, <1>5, <1>6 DEF SynthInv

LEMMA UserKeeps ==
    ASSUME SessionsAssumption, SynthInv, User
    PROVE  SynthInv'
<1>1. /\ held \cup locked \cup latched \subseteq Mods /\ notes \in Seq(SUBSET Mods)
      /\ clicked \in BOOLEAN /\ delay \in Delays /\ ModsInv
  BY DEF SynthInv, ModsInv, KeysInv
<1>2. /\ session.holds \cup session.locks \cup session.latches \subseteq Mods
      /\ session.types \subseteq Codes
  BY DEF SynthInv, LoanInv, SessionsAssumption
<1>3. ASSUME NEW m \in Mods, UserHolds(m)
      PROVE  SynthInv'
  <2>1. /\ UserUnchanged /\ held' \subseteq Mods
        /\ UNCHANGED <<locked, latched, notes, clicked, delay, synth>>
    BY <1>1, <1>3 DEF UserHolds
  <2> QED
    BY <1>1, <2>1, UserStepKeeps
<1>4. ASSUME NEW m \in Mods, UserLocks(m)
      PROVE  SynthInv'
  <2>1. /\ UserUnchanged /\ locked' \subseteq Mods
        /\ \/ synth' = synth /\ synth.code = None
           \/ synth' = [synth EXCEPT !.calm = FALSE]
        /\ UNCHANGED <<held, latched, notes, clicked, delay>>
    BY <1>1, <1>4 DEF UserLocks
  <2> QED
    BY <1>1, <2>1, UserStepKeeps
<1>5. ASSUME NEW m \in Mods, UserLatches(m)
      PROVE  SynthInv'
  <2>1. /\ UserUnchanged /\ latched' = latched \cup {m} /\ notes' = Append(notes, latched')
        /\ UNCHANGED <<modVars, clicked, delay, synth>>
    BY <1>5 DEF UserLatches
  <2>2. latched' \in SUBSET Mods
    BY <1>1, <2>1
  <2>3. notes' \in Seq(SUBSET Mods)
    BY <1>1, <2>1, <2>2, AppendProperties
  <2> QED
    BY <1>1, <2>1, <2>2, <2>3, UserStepKeeps DEF modVars
<1>6. ASSUME UserClicks
      PROVE  SynthInv'
  <2>1. /\ UserUnchanged /\ clicked' = TRUE /\ UseLatches
        /\ UNCHANGED <<modVars, delay, synth>>
    BY <1>6 DEF UserClicks
  <2>2. latched' \subseteq Mods /\ notes' \in Seq(SUBSET Mods)
    BY <1>1, <2>1, LatchesUsed
  <2>3. clicked' \in BOOLEAN
    BY <2>1
  <2> QED
    BY <1>1, <2>1, <2>2, <2>3, UserStepKeeps DEF modVars
<1>7. ASSUME ModifiersNotify
      PROVE  SynthInv'
  <2>1. /\ UserUnchanged /\ notes' = Append(notes, latched)
        /\ UNCHANGED <<modVars, latched, clicked, delay, synth>>
    BY <1>7 DEF ModifiersNotify
  <2>2. latched \in SUBSET Mods
    BY <1>1
  <2>3. notes' \in Seq(SUBSET Mods)
    BY <1>1, <2>1, <2>2, AppendProperties
  <2> QED
    BY <1>1, <2>1, <2>3, UserStepKeeps DEF modVars
<1>8. ASSUME NEW k \in Codes, UserTypes(k)
      PROVE  SynthInv'
  <2>1. /\ UserUnchanged /\ UseLatches
        /\ delay' = [slow |-> None, bounce |-> k, users |-> TRUE]
        /\ UNCHANGED <<modVars, clicked, synth>>
    BY <1>8 DEF UserTypes
  <2>2. delay' \in Delays /\ delay'.users
    BY <2>1 DEF Delays
  <2>3. latched' \subseteq Mods /\ notes' \in Seq(SUBSET Mods)
    BY <1>1, <2>1, LatchesUsed
  <2> QED
    BY <1>1, <2>1, <2>2, <2>3, UserStepKeeps DEF modVars
<1> QED
  BY <1>2, <1>3, <1>4, <1>5, <1>6, <1>7, <1>8 DEF User

\* The keys left to be read are read as before.
LEMMA ApplicationReadsKeeps ==
    ASSUME SynthInv, ApplicationReads
    PROVE  SynthInv'
<1>1. LoanInv /\ ModsInv /\ KeysInv /\ UnreadInv
  BY DEF SynthInv
<1>2. /\ unread # <<>> /\ unread' = Tail(unread)
      /\ UNCHANGED <<mapVars, modVars, latchVars, keyVars, maskState, synth>>
  BY DEF ApplicationReads
<1>3. LoanInv' /\ ModsInv' /\ KeysInv'
  BY <1>1, <1>2 DEF LoanInv, ModsInv, KeysInv, mapVars, modVars, latchVars, keyVars
<1>4. UnreadInv'
  <2>1. unread \in Seq(UnreadKey)
        /\ \A i \in DOMAIN unread : ReadAsMeant(unread[i], reserved, base, loans)
    BY <1>1 DEF UnreadInv
  <2> DEFINE rest == Tail(unread)
  <2>2. rest \in Seq(UnreadKey)
        /\ \A i \in DOMAIN rest : i + 1 \in DOMAIN unread /\ rest[i] = unread[i + 1]
    BY <1>2, <2>1
  <2> HIDE DEF rest
  <2>3. \A i \in DOMAIN rest : ReadAsMeant(rest[i], reserved, base, loans)
    BY <2>1, <2>2
  <2>4. unread' = rest /\ UNCHANGED <<reserved, base, loans>>
    BY <1>2 DEF rest, mapVars
  <2> QED
    BY <2>2, <2>3, <2>4 DEF UnreadInv
<1> QED
  BY <1>3, <1>4 DEF SynthInv

\* Time passes for the keys and for the loans alike.
LEMMA TickKeeps ==
    ASSUME KeySynthAssumption, SynthInv, Tick
    PROVE  SynthInv'
<1>1. LoanInv /\ ModsInv /\ KeysInv /\ UnreadInv
  BY DEF SynthInv
<1>2. /\ \A i \in DOMAIN unread : unread[i].age < Patience
      /\ unread' = [i \in DOMAIN unread |-> [unread[i] EXCEPT !.age = @ + 1]]
      /\ loans' = [i \in DOMAIN loans |-> IF loans[i] < ResetDelay THEN loans[i] + 1
                                                                  ELSE ResetDelay]
      /\ delay' = NoDelay
      /\ UNCHANGED <<session, reserved, ownSymbol, base, modVars, latchVars, down, lastPress,
                     lastRelease, asked, dropped, maskState, synth>>
  BY DEF Tick
<1>3. /\ loans \in Seq(0..ResetDelay) /\ unread \in Seq(UnreadKey)
      /\ ResetDelay \in Nat /\ Patience \in Nat
      /\ \A i \in DOMAIN unread : ReadAsMeant(unread[i], reserved, base, loans)
  BY <1>1 DEF LoanInv, UnreadInv, KeySynthAssumption
<1>4. /\ loans' \in Seq(0..ResetDelay) /\ Len(loans') = Len(loans) /\ DOMAIN loans' = DOMAIN loans
      /\ \A j \in DOMAIN loans : loans'[j] <= loans[j] + 1
  <2> DEFINE n == Len(loans)
             older == [i \in 1..n |-> IF loans[i] < ResetDelay THEN loans[i] + 1 ELSE ResetDelay]
  <2>1. n \in Nat /\ DOMAIN loans = 1..n /\ \A i \in 1..n : loans[i] \in 0..ResetDelay
    BY <1>3, AgesAre
  <2>2. loans' = older
    BY <1>2, <2>1
  <2>3. \A i \in 1..n : older[i] \in 0..ResetDelay /\ older[i] <= loans[i] + 1
    BY <1>3, <2>1
  <2>4. older \in Seq(0..ResetDelay) /\ Len(older) = n /\ DOMAIN older = 1..n
    <3>1. DOMAIN older = 1..n
      OBVIOUS
    <3>2. older = [i \in 1..n |-> older[i]]
      OBVIOUS
    <3> DEFINE S == 0..ResetDelay
    <3>3. \A i \in 1..n : older[i] \in S
      BY <2>3
    <3> HIDE DEF older, n, S
    <3>4. older \in [1..n -> S]
      BY <3>2, <3>3
    <3>5. older \in Seq(S) /\ Len(older) = n
      BY <2>1, <3>1, <3>4
    <3> QED
      BY <3>1, <3>5 DEF S
  <2> HIDE DEF older, n
  <2> QED
    BY <2>1, <2>2, <2>3, <2>4 DEF n
<1>5. /\ unread' \in Seq(UnreadKey) /\ DOMAIN unread' = DOMAIN unread
      /\ \A i \in DOMAIN unread :
            /\ unread'[i].code = unread[i].code /\ unread'[i].mods = unread[i].mods
            /\ unread'[i].meant = unread[i].meant /\ unread'[i].calm = unread[i].calm
            /\ unread'[i].age = unread[i].age + 1
  <2> DEFINE n == Len(unread)
             older == [i \in 1..n |-> [unread[i] EXCEPT !.age = @ + 1]]
  <2>1. n \in Nat /\ DOMAIN unread = 1..n /\ \A i \in 1..n : unread[i] \in UnreadKey
    BY <1>3
  <2>2. unread' = older
    BY <1>2, <2>1
  <2>3. ASSUME NEW i \in 1..n
        PROVE  /\ older[i] \in UnreadKey
               /\ older[i].code = unread[i].code /\ older[i].mods = unread[i].mods
               /\ older[i].meant = unread[i].meant /\ older[i].calm = unread[i].calm
               /\ older[i].age = unread[i].age + 1
    <3> DEFINE key == unread[i]
               next == key.age + 1
    <3>1. key \in UnreadKey /\ key.age < Patience
      BY <1>2, <2>1
    <3>2. next \in 0..Patience
      <4> DEFINE age == key.age
      <4>1. age \in 0..Patience /\ age < Patience /\ Patience \in Nat
        BY <1>3, <3>1, UnreadParts
      <4> HIDE DEF age
      <4>2. age + 1 \in 0..Patience
        BY ONLY <4>1
      <4> QED
        BY <4>2 DEF age
    <3>3. older[i] = [key EXCEPT !.age = next]
      OBVIOUS
    <3> HIDE DEF key, next
    <3>4. [key EXCEPT !.age = next] \in UnreadKey
      BY <3>1, <3>2 DEF UnreadKey
    <3>5. LET later == [key EXCEPT !.age = next]
          IN  /\ later.code = key.code /\ later.mods = key.mods /\ later.meant = key.meant
              /\ later.calm = key.calm /\ later.age = next
      BY <3>1 DEF UnreadKey
    <3> QED
      BY <3>3, <3>4, <3>5 DEF key, next
  <2>4. older \in Seq(UnreadKey) /\ DOMAIN older = 1..n
    <3>1. DOMAIN older = 1..n
      OBVIOUS
    <3>2. older = [i \in 1..n |-> older[i]]
      OBVIOUS
    <3>3. \A i \in 1..n : older[i] \in UnreadKey
      BY <2>3
    <3> HIDE DEF older, n
    <3> DEFINE S == UnreadKey
    <3> HIDE DEF S
    <3>4. \A i \in 1..n : older[i] \in S
      BY <3>3 DEF S
    <3>5. n \in Nat
      BY <2>1
    <3>6. older \in [1..n -> S]
      BY <3>2, <3>4
    <3>7. older \in Seq(S)
      BY <3>5, <3>6
    <3> QED
      BY <3>1, <3>7 DEF S
  <2> HIDE DEF older, n
  <2> QED
    BY <2>1, <2>2, <2>3, <2>4 DEF n
<1>6. LoanInv'
  BY <1>1, <1>2, <1>4 DEF LoanInv
<1>7. ModsInv'
  BY <1>1, <1>2 DEF ModsInv, modVars, latchVars
<1>8. KeysInv'
  <2>1. delay' \in Delays /\ delay'.bounce = None
    BY <1>2 DEF NoDelay, Delays
  <2> QED
    BY <1>1, <1>2, <2>1 DEF KeysInv
<1>9. ASSUME NEW i \in DOMAIN unread
      PROVE  ReadAsMeant(unread'[i], reserved, base, loans')
  <2>1. unread[i].age \in 0..Patience
    BY <1>3, UnreadParts
  <2>2. \A j \in DOMAIN loans : loans[j] \in Nat /\ loans'[j] \in Nat
    <3>1. \A j \in DOMAIN loans : loans[j] \in Nat
      BY <1>3, AgesAre
    <3> DEFINE later == loans'
    <3>2. later \in Seq(0..ResetDelay) /\ DOMAIN later = DOMAIN loans
      BY <1>4
    <3> HIDE DEF later
    <3>3. \A j \in DOMAIN loans : later[j] \in Nat
      BY <3>2, AgesAre
    <3> QED
      BY <3>1, <3>3 DEF later
  <2> SUFFICES ASSUME unread[i].calm
               PROVE  ReadAsMeant(unread'[i], reserved, base, loans')
    BY <1>5 DEF ReadAsMeant
  <2>3. ReadAsMeant(unread[i], reserved, base, loans)
    BY <1>3
  <2> DEFINE key == unread[i]
             later == unread'[i]
  <2>4. /\ later.code = key.code /\ later.mods = key.mods /\ later.meant = key.meant
        /\ later.age = key.age + 1 /\ key.age \in Nat /\ key.calm
    BY <1>5, <2>1
  <2>5. ReadAsMeant(key, reserved, base, loans)
    BY <2>3
  <2> HIDE DEF key, later
  <2>6. ASSUME key.code = reserved, NEW j \in DOMAIN loans
        PROVE  loans'[j] + Patience < ResetDelay + later.age
    <3>1. loans[j] + Patience < ResetDelay + key.age
      BY <2>4, <2>5, <2>6 DEF ReadAsMeant
    <3>2. loans'[j] <= loans[j] + 1 /\ loans[j] \in Nat /\ loans'[j] \in Nat
      BY <1>4, <2>2, <2>6
    <3>3. later.age = key.age + 1 /\ key.age \in Nat /\ Patience \in Nat /\ ResetDelay \in Nat
      BY <1>3, <2>4
    <3> QED
      BY ONLY <3>1, <3>2, <3>3
  <2>7. ReadsIn(MapWith(reserved, base), later.code, later.mods) = {later.meant}
    BY <2>4, <2>5 DEF ReadAsMeant
  <2> QED
    BY <1>4, <2>4, <2>6, <2>7 DEF ReadAsMeant, later
<1>10. UnreadInv'
  BY <1>2, <1>5, <1>9 DEF UnreadInv
<1> QED
  BY <1>6, <1>7, <1>8, <1>10 DEF SynthInv

-----------------------------------------------------------------------------
(* The invariant of the synthesis, and what it says.                       *)

LEMMA SynthInvInitially ==
    ASSUME KeySynthAssumption, SynthInit
    PROVE  SynthInv
<1>1. PICK grabbed \in Taken : reserved = SearchReserved(grabbed)
  BY DEF SynthInit
<1>2. reserved \in {Spare[i] : i \in DOMAIN Spare} \cup {NumberSign}
  <2>1. Spare # <<>> => 1 \in DOMAIN Spare
    BY DEF KeySynthAssumption
  <2> QED
    BY <1>1, <2>1 DEF SearchReserved
<1>3. reserved \in Codes
  <2>1. \A i \in DOMAIN Spare : Spare[i] \in Codes
    BY DEF KeySynthAssumption
  <2> QED
    BY <1>2, <2>1 DEF KeySynthAssumption
<1>4. FirstLevel(reserved) \in Nat
  <2>1. \E e \in Keymap : e.code = reserved /\ e.mods = {}
    BY <1>2 DEF KeySynthAssumption
  <2>2. \A e \in Keymap : e.keysym \in Nat
    BY DEF KeySynthAssumption
  <2> QED
    BY <2>1, <2>2 DEF FirstLevel
<1>5. /\ session \in Sessions
      /\ ownSymbol = OwnSymbol(reserved) /\ base = FirstLevel(reserved)
      /\ loans = <<>> /\ unread = <<>> /\ notes = <<>>
      /\ held = {} /\ locked = {} /\ latched = {} /\ maskState = {}
      /\ latchMask = {} /\ relatch = {} /\ clicked = FALSE
      /\ down = {} /\ asked = {} /\ dropped = FALSE
      /\ lastPress = None /\ lastRelease = None
      /\ delay = NoDelay
      /\ synth = Idle
  BY DEF SynthInit
<1>6. /\ synth \in Synths /\ synth.code = None /\ synth.todo = <<>> /\ Len(synth.todo) = 0
  <2>1. Idle \in Synths /\ Idle.code = None /\ Idle.todo = <<>>
    BY DEF Idle, Synths
  <2> QED
    BY <1>5, <2>1
<1>7. LoanInv
  <2>1. ownSymbol \in Nat
    BY <1>4, <1>5 DEF OwnSymbol
  <2>2. loans \in Seq(0..ResetDelay) /\ Len(loans) = 0
    BY <1>5
  <2> QED
    BY <1>3, <1>4, <1>5, <1>6, <2>1, <2>2 DEF LoanInv, KeySynthAssumption
<1>8. ModsInv
  <2>1. clicked \in BOOLEAN
    BY <1>5
  <2>2. notes \in Seq(SUBSET Mods)
    BY <1>5
  <2> QED
    BY <1>5, <1>6, <2>1, <2>2 DEF ModsInv
<1>9. KeysInv
  <2>1. delay \in Delays /\ delay.bounce = None
    BY <1>5 DEF NoDelay, Delays
  <2> QED
    BY <1>5, <1>6, <2>1 DEF KeysInv
<1>10. UnreadInv
  BY <1>5 DEF UnreadInv
<1> QED
  BY <1>7, <1>8, <1>9, <1>10 DEF SynthInv

LEMMA SynthInvInductive ==
    ASSUME KeySynthAssumption, SessionsAssumption, SynthInv, [SynthNext]_synthVars
    PROVE  SynthInv'
<1>1. ASSUME NextSymbol
      PROVE  SynthInv'
  <2>1. LoanInv
    BY DEF SynthInv
  <2>2. \E keysym, todo : Typing(keysym, todo)
    BY <1>1, <2>1, SymbolsTyped
  <2> QED
    BY <2>2, TypingKeeps
<1>2. CASE UNCHANGED synthVars
  BY <1>2 DEF SynthInv, LoanInv, ModsInv, KeysInv, UnreadInv, synthVars, mapVars, modVars,
              latchVars, keyVars
<1> QED
  BY <1>1, <1>2, RequestsKeep, ReleaseKeysymKeeps, ResetReservedKeeps, LatchStepsKeep,
     UserKeeps, ApplicationReadsKeeps, TickKeeps DEF SynthNext

LEMMA SynthInvAlways == SynthSpec => []SynthInv
<1>1. SynthInit => SynthInv
  BY SynthInvInitially, KeySynthAssumption
<1>2. SynthInv /\ [SynthNext]_synthVars => SynthInv'
  BY SynthInvInductive, KeySynthAssumption, SessionsAssumption
<1> QED
  BY <1>1, <1>2, PTL DEF SynthSpec

\* Between requests no key or button is down that a client has not pressed for itself,
\* and slow and bounce keys lose none of the symbols, for any keymap, any sessions of
\* clients and users and any bounds: registryd holds down one key at most, the one it
\* has pressed last, and the bounce keys wait for the one it released last or for one
\* of the user's.
THEOREM KeysNeverStick == SynthSpec => []SynthConsistent
<1>1. ASSUME SynthInv
      PROVE  SynthTypeOK
  <2>1. LoanInv /\ ModsInv /\ KeysInv /\ UnreadInv
    BY <1>1 DEF SynthInv
  <2>2. /\ reserved \in Codes /\ {ownSymbol, base} \subseteq Nat
        /\ loans \in Seq(0..ResetDelay) /\ Len(loans) <= MaxLoans
    <3>1. synth.todo \in Seq(Nat) /\ Len(synth.todo) \in Nat
      BY <2>1, SynthParts
    <3>2. Len(loans) \in Nat /\ MaxLoans \in Nat /\ Len(loans) + Len(synth.todo) <= MaxLoans
      BY <2>1, KeySynthAssumption DEF LoanInv, KeySynthAssumption
    <3> QED
      BY <2>1, <3>1, <3>2 DEF LoanInv
  <2>3. /\ held \cup locked \cup latched \cup maskState \cup latchMask \cup relatch \subseteq Mods
        /\ notes \in Seq(SUBSET Mods) /\ clicked \in BOOLEAN
    BY <2>1 DEF ModsInv
  <2>4. down \cup asked \subseteq Codes \cup Buttons /\ dropped \in BOOLEAN
    BY <2>1 DEF KeysInv
  <2>5. {lastPress, lastRelease, delay.slow, delay.bounce, synth.code} \subseteq Codes \cup {None}
    BY <2>1, SynthParts DEF KeysInv, Delays
  <2>6. synth.lock \cup synth.before \subseteq Mods
    BY <2>1, SynthParts
  <2>7. \A i \in DOMAIN unread : unread[i].code \in Codes /\ unread[i].age \in 0..Patience
    <3>1. \A i \in DOMAIN unread : unread[i] \in UnreadKey
      BY <2>1 DEF UnreadInv
    <3> QED
      BY <3>1, UnreadParts
  <2> QED
    BY <2>2, <2>3, <2>4, <2>5, <2>6, <2>7 DEF SynthTypeOK
<1>2. SynthInv => SynthConsistent
  BY <1>1 DEF SynthConsistent, KeystrokesWhole, SynthInv, KeysInv, MainLoop
<1> QED
  BY <1>2, SynthInvAlways, PTL

\* After a symbol the locked modifiers are those from before it, if the modifiers were
\* known and the user left them alone: what was locked for it was not locked before.
THEOREM LocksAreRestored == SynthSpec => LocksRestored
<1> DEFINE Restores ==
      synth.code # None /\ synth'.code = None /\ synth.calm => locked' = synth.before
<1>1. SynthInv /\ [SynthNext]_synthVars => [Restores]_synthVars
  <2> SUFFICES ASSUME SynthInv, SynthNext, synth.code # None, synth'.code = None, synth.calm
               PROVE  locked' = synth.before
    OBVIOUS
  <2>1. locked = synth.before \cup synth.lock /\ synth.lock \cap synth.before = {}
    BY DEF SynthInv, ModsInv
  <2>2. CASE ReleaseKeysym
    BY <2>1, <2>2 DEF ReleaseKeysym, UnlockModifiers
  <2>3. CASE User \/ ApplicationReads \/ Tick
    <3>1. synth \in Synths
      BY DEF SynthInv, LoanInv
    <3>2. synth' = synth \/ synth' = [synth EXCEPT !.calm = FALSE]
      BY <2>3 DEF User, UserHolds, UserLocks, UserLatches, UserClicks, ModifiersNotify,
                  UserTypes, ApplicationReads, Tick
    <3>3. synth'.code = synth.code
      BY <3>1, <3>2 DEF Synths
    <3> QED
      BY <3>3
  <2>4. CASE ~(ReleaseKeysym \/ User \/ ApplicationReads \/ Tick)
    <3>1. synth.code = None
      BY <2>4 DEF SynthNext, Requests, GenerateKeysym, GenerateString, GeneratePress,
                  GenerateRelease, GeneratePressRelease, GenerateMouseEvent, RawRequest,
                  NextSymbol, BetweenSymbols, ResetReserved, SeeClick, XkbStateNotify,
                  PollModifiers, MainLoop
    <3> QED
      BY <3>1
  <2> QED
    BY <2>2, <2>3, <2>4
<1> QED
  BY <1>1, SynthInvAlways, PTL DEF SynthSpec, LocksRestored

\* The application reads the symbol that was asked for, whether a key has it or the
\* reserved key was lent it: what is locked makes up for the modifiers that are missing,
\* and the timers of all loans end after the key is read, if those of earlier loans had
\* more than the application's patience left when it was pressed.
THEOREM SymbolsReadAsMeant == SynthSpec => TypedAsMeant
<1> DEFINE Meant ==
      unread # <<>> /\ unread' = Tail(unread) /\ Head(unread).calm =>
        Reads(Head(unread).code, Head(unread).mods) = {Head(unread).meant}
<1>1. SynthInv => [Meant]_synthVars
  <2> SUFFICES ASSUME SynthInv, unread # <<>>, Head(unread).calm
               PROVE  Reads(Head(unread).code, Head(unread).mods) = {Head(unread).meant}
    OBVIOUS
  <2>1. unread \in Seq(UnreadKey)
        /\ \A i \in DOMAIN unread : ReadAsMeant(unread[i], reserved, base, loans)
    BY DEF SynthInv, UnreadInv
  <2>2. 1 \in DOMAIN unread /\ Head(unread) = unread[1]
    BY <2>1
  <2> QED
    BY <2>1, <2>2, MapIs DEF ReadAsMeant
<1> QED
  BY <1>1, SynthInvAlways, PTL DEF SynthSpec, TypedAsMeant
=============================================================================
