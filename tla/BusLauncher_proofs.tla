-------------------------- MODULE BusLauncher_proofs ---------------------------
(***************************************************************************)
(* Theorems about BusLauncher, for any launchers and programs and any      *)
(* bound on the buses: whichever launchers are started, lose the name, are *)
(* told to end, lose their bus or are killed, in any order, each bus and   *)
(* the address on the root window have a launcher that takes care of them, *)
(* and IsEnabled follows the setting.                                      *)
(***************************************************************************)
EXTENDS BusLauncher, WellFoundedInduction, TLAPS

Phases == {"off", "started", "acquired", "running", "quitting", "exiting"}

-----------------------------------------------------------------------------
(* The inductive invariant.                                                *)

\* The address on the root window and the child of a launcher are buses that were
\* launched, so that no later launch gives one of them another launcher.
BornBuses ==
    /\ property \in Buses => bus[property] # "unborn"
    /\ \A l \in Launchers : pid[l] \in Buses => bus[pid[l]] # "unborn"
    /\ \A b \in Buses : bus[b] # "unborn" => maker[b] \in Launchers

\* A launcher has no bus until it launches one, which it does once.
FreshLaunchers == \A l \in Launchers : phase[l] \in {"off", "started"} => pid[l] = 0

\* At its end a launcher has told its bus to end.
BusToldFirst ==
    \A l \in Launchers : phase[l] = "exiting" /\ pid[l] \in Buses => bus[pid[l]] # "alive"

\* Nobody reads the history of a launcher that is not up.
FreshHistory == \A l \in Launchers : ~Up(l) => ~changed[l]

BInv == /\ Consistent
        /\ BornBuses
        /\ FreshLaunchers
        /\ BusToldFirst

SInv == TypeOK /\ FreshHistory /\ EnabledFollowsSetting

-----------------------------------------------------------------------------
(* What a launch does.                                                     *)

\* There is no smallest one to choose unless the numbers are a set of naturals
\* that is not empty.
LEMMA Least ==
    ASSUME NEW S \in SUBSET Nat, S # {}
    PROVE  \E m \in S : \A k \in S : m <= k
<1>1. IsWellFoundedOn(OpToRel(<, Nat), Nat)
  BY NatLessThanWellFounded
<1>2. PICK m \in S : \A y \in S : <<y, m>> \notin OpToRel(<, Nat)
  BY <1>1, WFMin
<1>3. \A k \in S : ~(k < m)
  BY <1>2 DEF OpToRel
<1> QED  BY <1>3

\* ensure_a11y_bus of a launcher without a bus starts at most one bus, one that was
\* never there, for this launcher; what it publishes is that or the empty address.
LEMMA LaunchStarts ==
    ASSUME BusLauncherAssumption, TypeOK, NEW l \in Launchers, Launch(l)
    PROVE  \/ /\ pid' = [pid EXCEPT ![l] = -1]
              /\ UNCHANGED <<maker, bus, address, property>>
           \/ \E b \in Buses, fate \in {"alive", "dead", "dying"}, where \in Addresses :
                /\ bus[b] = "unborn"
                /\ maker' = [maker EXCEPT ![b] = l]
                /\ bus' = [bus EXCEPT ![b] = fate]
                /\ pid' = [pid EXCEPT ![l] = b]
                /\ address' = [address EXCEPT ![l] = where]
                /\ property' \in {property, b, Empty}
<1>1. CASE /\ pid' = [pid EXCEPT ![l] = -1]
           /\ UNCHANGED <<maker, bus, address, property>>
  BY <1>1
<1>2. CASE \E fate \in {"alive", "dead", "dying"} :
             LET b == CHOOSE c \in Unborn : \A d \in Unborn : c <= d
                 where == CASE fate = "alive" -> b [] fate = "dead" -> Empty
                            [] fate = "dying" -> NoAddress
             IN  /\ Unborn # {}
                 /\ maker' = [maker EXCEPT ![b] = l]
                 /\ bus' = [bus EXCEPT ![b] = fate]
                 /\ pid' = [pid EXCEPT ![l] = b]
                 /\ address' = [address EXCEPT ![l] = where]
                 /\ property' = IF fate = "dying" THEN property ELSE where
  <2> DEFINE b == CHOOSE c \in Unborn : \A d \in Unborn : c <= d
             where(f) == CASE f = "alive" -> b [] f = "dead" -> Empty
                           [] f = "dying" -> NoAddress
  <2>1. PICK fate \in {"alive", "dead", "dying"} :
          /\ Unborn # {}
          /\ maker' = [maker EXCEPT ![b] = l]
          /\ bus' = [bus EXCEPT ![b] = fate]
          /\ pid' = [pid EXCEPT ![l] = b]
          /\ address' = [address EXCEPT ![l] = where(fate)]
          /\ property' = IF fate = "dying" THEN property ELSE where(fate)
    BY <1>2
  <2>2. Unborn \in SUBSET Nat
    BY DEF Unborn, Buses, BusLauncherAssumption
  <2>3. \E m \in Unborn : \A k \in Unborn : m <= k
    BY <2>1, <2>2, Least
  <2>4. b \in Unborn
    BY <2>3
  <2>5. b \in Buses /\ bus[b] = "unborn"
    BY <2>4 DEF Unborn
  <2> HIDE DEF b
  <2>6. where(fate) \in Addresses
    BY <2>5 DEF Addresses
  <2>7. property' \in {property, b, Empty}
    BY <2>1
  <2> HIDE DEF where
  <2> QED  BY <2>1, <2>5, <2>6, <2>7
<1> QED  BY <1>1, <1>2 DEF Launch

\* DoomBus changes nothing but the launcher's own bus, and that to "dying".
LEMMA DoomKeeps ==
    ASSUME TypeOK, NEW l \in Launchers
    PROVE  /\ DoomBus(l) \in [Buses -> {"unborn", "alive", "dying", "dead"}]
           /\ \A c \in Buses : /\ (DoomBus(l)[c] = "alive") => (bus[c] = "alive" /\ pid[l] # c)
                               /\ (DoomBus(l)[c] = "unborn") <=> (bus[c] = "unborn")
BY DEF TypeOK, DoomBus

-----------------------------------------------------------------------------
(* Types.                                                                  *)

LEMMA LaunchTyped ==
    ASSUME BusLauncherAssumption, TypeOK, NEW l \in Launchers, Launch(l)
    PROVE  /\ pid' \in [Launchers -> Buses \cup {0, -1}]
           /\ address' \in [Launchers -> Addresses]
           /\ maker' \in [Buses -> Launchers \cup {Nobody}]
           /\ bus' \in [Buses -> {"unborn", "alive", "dying", "dead"}]
           /\ property' \in Addresses
<1> USE DEF TypeOK
<1>1. CASE /\ pid' = [pid EXCEPT ![l] = -1]
           /\ UNCHANGED <<maker, bus, address, property>>
  BY <1>1
<1>2. CASE \E b \in Buses, fate \in {"alive", "dead", "dying"}, where \in Addresses :
             /\ bus[b] = "unborn"
             /\ maker' = [maker EXCEPT ![b] = l]
             /\ bus' = [bus EXCEPT ![b] = fate]
             /\ pid' = [pid EXCEPT ![l] = b]
             /\ address' = [address EXCEPT ![l] = where]
             /\ property' \in {property, b, Empty}
  BY <1>2 DEF Addresses
<1> QED  BY <1>1, <1>2, LaunchStarts

LEMMA GoneTyped ==
    ASSUME TypeOK, NEW l \in Launchers, Gone(l)
    PROVE  /\ world' \in Worlds
           /\ phase' \in [Launchers -> Phases]
           /\ immediate' \in [Launchers -> BOOLEAN]
           /\ pid' \in [Launchers -> Buses \cup {0, -1}]
           /\ address' \in [Launchers -> Addresses]
           /\ maker' \in [Buses -> Launchers \cup {Nobody}]
           /\ owner' \in Launchers \cup {Nobody}
           /\ program' \in [Programs -> [at: {"idle", "asking", "opening", "connected"}, of: Addresses]]
           /\ enabled' \in [Launchers -> BOOLEAN] /\ setting' \in BOOLEAN
           /\ told' \in [Launchers -> BOOLEAN] /\ changed' \in [Launchers -> BOOLEAN]
BY DEF TypeOK, Gone, Phases, Addresses

\* What programs are at: they open addresses that were published.
LEMMA ProgramTyped ==
    ASSUME TypeOK, NEW p \in Programs, NEW a \in Addresses,
           NEW at \in {"idle", "asking", "opening", "connected"},
           program' = [program EXCEPT ![p] = At(at, a)]
    PROVE  program' \in [Programs -> [at: {"idle", "asking", "opening", "connected"}, of: Addresses]]
BY DEF TypeOK, At

LEMMA TypesKept ==
    ASSUME BusLauncherAssumption, TypeOK, [Next]_vars
    PROVE  TypeOK'
<1> USE DEF TypeOK
<1> NoAddress \in Addresses  BY DEF Addresses
<1>1. ASSUME NEW l \in Launchers, NEW now \in BOOLEAN, Start(l, now)
      PROVE  TypeOK'
  BY <1>1 DEF Start, busVars
<1>2. ASSUME NEW l \in Launchers, BusAcquired(l)
      PROVE  TypeOK'
  <2>1. /\ phase' \in [Launchers -> Phases]
        /\ UNCHANGED <<immediate, owner, program, settingVars, crashed>>
    BY <1>2 DEF BusAcquired, Phases
  <2>2. CASE immediate[l]
    <3>1. Launch(l)
      BY <1>2, <2>2 DEF BusAcquired
    <3> QED  BY <3>1, <2>1, LaunchTyped DEF Phases, settingVars
  <2>3. CASE ~immediate[l]
    BY <1>2, <2>1, <2>3 DEF BusAcquired, busVars, Phases, settingVars
  <2> QED  BY <2>2, <2>3
<1>3. ASSUME NEW l \in Launchers, NameAnswered(l)
      PROVE  TypeOK'
  BY <1>3 DEF NameAnswered, busVars, settingVars
<1>4. ASSUME NEW l \in Launchers, BusExited(l)
      PROVE  TypeOK'
  BY <1>4 DEF BusExited, settingVars
<1>5. ASSUME NEW l \in Launchers, KillBus(l)
      PROVE  TypeOK'
  BY <1>5, DoomKeeps DEF KillBus, settingVars
<1>6. ASSUME NEW l \in Launchers, Exit(l)
      PROVE  TypeOK'
  BY <1>6, GoneTyped DEF Exit, Phases
<1>7. ASSUME NEW l \in Launchers, SettingChanged(l)
      PROVE  TypeOK'
  BY <1>7 DEF SettingChanged, busVars, nameVars
<1>8. ASSUME NEW l \in Launchers, Terminate(l)
      PROVE  TypeOK'
  BY <1>8 DEF Terminate, busVars, settingVars
<1>9. ASSUME NEW l \in Launchers, Crash(l)
      PROVE  TypeOK'
  BY <1>9, GoneTyped, DoomKeeps DEF Crash, Phases
<1>10. ASSUME NEW l \in Launchers, NEW v \in BOOLEAN, SetIsEnabled(l, v)
       PROVE  TypeOK'
  BY <1>10 DEF SetIsEnabled, SettingBecomes, busVars, nameVars, Up
<1>11. ASSUME NEW l \in Launchers, NEW p \in Programs, GetAddress(p, l)
       PROVE  TypeOK'
  <2>1. /\ pid' \in [Launchers -> Buses \cup {0, -1}]
        /\ address' \in [Launchers -> Addresses]
        /\ maker' \in [Buses -> Launchers \cup {Nobody}]
        /\ bus' \in [Buses -> {"unborn", "alive", "dying", "dead"}]
        /\ property' \in Addresses
    BY <1>11, LaunchTyped DEF GetAddress, busVars
  <2>2. program' \in [Programs -> [at: {"idle", "asking", "opening", "connected"}, of: Addresses]]
    <3>1. address'[l] \in Addresses
      BY <2>1
    <3>2. program' = [program EXCEPT ![p] = At("opening", address'[l])]
          \/ program' = [program EXCEPT ![p] = At("idle", NoAddress)]
      BY <1>11 DEF GetAddress
    <3> QED  BY <3>1, <3>2, ProgramTyped
  <2>3. UNCHANGED <<nameVars, settingVars, crashed>>
    BY <1>11 DEF GetAddress
  <2> QED  BY <2>1, <2>2, <2>3 DEF nameVars, settingVars
<1>12. ASSUME NEW b \in Buses, BusEnds(b)
       PROVE  TypeOK'
  BY <1>12 DEF BusEnds, nameVars, settingVars
<1>13. ASSUME NEW p \in Programs, LookForBus(p) \/ NoReply(p) \/ Open(p) \/ Disconnected(p)
       PROVE  TypeOK'
  <2>1. program[p].of \in Addresses /\ property \in Addresses
    OBVIOUS
  <2>2. \E at \in {"idle", "asking", "opening", "connected"}, a \in Addresses :
          program' = [program EXCEPT ![p] = At(at, a)]
    BY <1>13, <2>1 DEF LookForBus, NoReply, Open, Disconnected
  <2>3. program' \in [Programs -> [at: {"idle", "asking", "opening", "connected"}, of: Addresses]]
    BY <2>2, ProgramTyped
  <2>4. UNCHANGED <<busVars, nameVars, property, settingVars, crashed>>
    BY <1>13 DEF LookForBus, NoReply, Open, Disconnected
  <2> QED  BY <2>3, <2>4 DEF busVars, nameVars, settingVars
<1>14. ASSUME NEW v \in BOOLEAN, UserSets(v)
       PROVE  TypeOK'
  BY <1>14 DEF UserSets, SettingBecomes, busVars, nameVars, Up
<1>15. CASE UNCHANGED vars
  BY <1>15 DEF vars, busVars, nameVars, settingVars
<1> HIDE DEF TypeOK
<1> QED
  BY <1>1, <1>2, <1>3, <1>4, <1>5, <1>6, <1>7, <1>8, <1>9, <1>10, <1>11, <1>12, <1>13, <1>14,
     <1>15 DEF Next, Step, Activate

-----------------------------------------------------------------------------
(* The buses and the address on the root window.                           *)

\* What a step leaves alone of what the buses are judged by.
BusesAlone == UNCHANGED <<pid, maker, bus, property, crashed>>

\* A launcher that has no bus yet, and is there, launches.
LEMMA LaunchKeeps ==
    ASSUME BusLauncherAssumption, BInv, TypeOK', NEW l \in Launchers, Launch(l),
           phase[l] \in {"started", "acquired", "running"}, pid[l] = 0,
           phase'[l] \in {"acquired", "running", "quitting"},
           \A k \in Launchers \ {l} : phase'[k] = phase[k],
           crashed' = crashed
    PROVE  BInv'
<1> USE DEF BInv, Consistent, TypeOK
<1> 0 \notin Buses /\ -1 \notin Buses
  BY DEF Buses, BusLauncherAssumption
<1>0. Empty \notin Buses
  BY DEF Empty, Buses, BusLauncherAssumption
<1>a. \A k \in Launchers : Up(k) => Up(k)'
  BY DEF Up
<1>1. CASE /\ pid' = [pid EXCEPT ![l] = -1]
           /\ UNCHANGED <<maker, bus, address, property>>
  <2>1. PropertyHasLauncher'
    BY <1>1, <1>a DEF PropertyHasLauncher, BornBuses, Up
  <2>2. BusesHaveLaunchers'
    BY <1>1, <1>a DEF BusesHaveLaunchers
  <2>3. BornBuses' /\ FreshLaunchers' /\ BusToldFirst'
    BY <1>1 DEF BornBuses, FreshLaunchers, BusToldFirst
  <2> QED  BY <2>1, <2>2, <2>3
<1>2. ASSUME NEW b \in Buses, NEW fate \in {"alive", "dead", "dying"},
             bus[b] = "unborn",
             maker' = [maker EXCEPT ![b] = l],
             bus' = [bus EXCEPT ![b] = fate],
             pid' = [pid EXCEPT ![l] = b],
             property' \in {property, b, Empty}
      PROVE  BInv'
  <2>0. Up(l)' /\ maker'[b] = l
    BY <1>2 DEF Up
  <2>1. PropertyHasLauncher'
    <3>1. CASE property' = property /\ property # b
      BY <1>a, <1>2, <3>1 DEF PropertyHasLauncher, BornBuses, Up
    <3>2. CASE property' = b
      BY <1>0, <2>0, <3>2 DEF PropertyHasLauncher, Up
    <3>3. CASE property' = Empty
      BY <1>0, <2>0, <3>3 DEF PropertyHasLauncher
    <3>4. property # b
      BY <1>2 DEF BornBuses
    <3> QED  BY <1>2, <3>1, <3>2, <3>3, <3>4
  <2>2. BusesHaveLaunchers'
    BY <1>2 DEF BusesHaveLaunchers, Up
  <2>3. BornBuses'
    BY <1>0, <1>2 DEF BornBuses
  <2>4. FreshLaunchers'
    BY <1>2 DEF FreshLaunchers
  <2>5. BusToldFirst'
    BY <1>2 DEF BusToldFirst, BornBuses
  <2> QED  BY <2>1, <2>2, <2>3, <2>4, <2>5
<1>3. TypeOK
  OBVIOUS
<1> HIDE DEF BInv, Consistent, TypeOK
<1> QED  BY <1>1, <1>2, <1>3, LaunchStarts

\* Whatever a launcher is at, it is up as long as it is not gone.
LEMMA PhaseKeeps ==
    ASSUME BInv, TypeOK', BusesAlone, NEW l \in Launchers,
           phase'[l] \in {"started", "acquired", "running", "quitting"},
           phase'[l] = "started" => pid[l] = 0,
           \A k \in Launchers \ {l} : phase'[k] = phase[k]
    PROVE  BInv'
<1> USE DEF BInv, Consistent, BusesAlone, TypeOK
<1>1. \A k \in Launchers : Up(k) => Up(k)'
  BY DEF Up
<1>2. PropertyHasLauncher'
  BY <1>1 DEF PropertyHasLauncher, BornBuses, Up
<1>3. BusesHaveLaunchers'
  BY <1>1 DEF BusesHaveLaunchers
<1>4. BornBuses' /\ FreshLaunchers' /\ BusToldFirst'
  BY DEF BornBuses, FreshLaunchers, BusToldFirst
<1> QED  BY <1>2, <1>3, <1>4

LEMMA BusesKept ==
    ASSUME BusLauncherAssumption, BInv, [Next]_vars
    PROVE  BInv'
<1> TypeOK /\ TypeOK'
  BY TypesKept DEF BInv, Consistent
<1> 0 \notin Buses /\ -1 \notin Buses
  BY DEF Buses, BusLauncherAssumption
<1>1. ASSUME NEW l \in Launchers, NEW now \in BOOLEAN, Start(l, now)
      PROVE  BInv'
  <2>1. BusesAlone /\ phase'[l] = "started" /\ \A k \in Launchers \ {l} : phase'[k] = phase[k]
    BY <1>1 DEF Start, BusesAlone, busVars, TypeOK
  <2>2. pid[l] = 0
    BY <1>1 DEF Start, BInv, FreshLaunchers
  <2> QED  BY <2>1, <2>2, PhaseKeeps
<1>2. ASSUME NEW l \in Launchers, BusAcquired(l)
      PROVE  BInv'
  <2>1. /\ phase'[l] \in {"acquired", "quitting"}
        /\ \A k \in Launchers \ {l} : phase'[k] = phase[k]
        /\ crashed' = crashed
    BY <1>2 DEF BusAcquired, TypeOK
  <2>2. CASE immediate[l]
    <3>1. Launch(l) /\ phase[l] = "started"
      BY <1>2, <2>2 DEF BusAcquired
    <3>2. pid[l] = 0
      BY <3>1 DEF BInv, FreshLaunchers
    <3> QED  BY <3>1, <3>2, <2>1, LaunchKeeps
  <2>3. CASE ~immediate[l]
    <3>1. BusesAlone
      BY <1>2, <2>1, <2>3 DEF BusAcquired, busVars, BusesAlone
    <3> QED  BY <3>1, <2>1, PhaseKeeps
  <2> QED  BY <2>2, <2>3
<1>3. ASSUME NEW l \in Launchers, NameAnswered(l) \/ Terminate(l)
      PROVE  BInv'
  <2>1. BusesAlone /\ phase'[l] \in {"running", "quitting"}
        /\ \A k \in Launchers \ {l} : phase'[k] = phase[k]
    BY <1>3 DEF NameAnswered, Terminate, busVars, BusesAlone, TypeOK
  <2> QED  BY <2>1, PhaseKeeps
<1>4. ASSUME NEW l \in Launchers, BusExited(l)
      PROVE  BInv'
  BY <1>4 DEF BusExited, BInv, Consistent, TypeOK, PropertyHasLauncher, BusesHaveLaunchers,
              BornBuses, FreshLaunchers, BusToldFirst, Up
<1>5. ASSUME NEW l \in Launchers, KillBus(l)
      PROVE  BInv'
  <2>1. /\ phase' = [phase EXCEPT ![l] = "exiting"] /\ bus' = DoomBus(l)
        /\ UNCHANGED <<pid, maker, property, crashed>>
    BY <1>5 DEF KillBus
  <2>2. \A c \in Buses : /\ (bus'[c] = "alive") => (bus[c] = "alive" /\ pid[l] # c)
                         /\ (bus'[c] = "unborn") <=> (bus[c] = "unborn")
    BY <2>1, DoomKeeps
  <2> QED
    <3>1. \A k \in Launchers : Up(k) => Up(k)'
      BY <2>1 DEF Up, TypeOK
    <3>2. PropertyHasLauncher'
      BY <2>1, <3>1 DEF BInv, Consistent, TypeOK, PropertyHasLauncher, BornBuses, Up
    <3>3. BusesHaveLaunchers'
      BY <2>1, <2>2, <3>1 DEF BInv, Consistent, BusesHaveLaunchers, Up
    <3>4. BornBuses'
      BY <2>1, <2>2 DEF BInv, BornBuses
    <3>5. FreshLaunchers' /\ BusToldFirst'
      BY <2>1, <2>2 DEF BInv, Consistent, TypeOK, FreshLaunchers, BusToldFirst
    <3> QED  BY <3>2, <3>3, <3>4, <3>5 DEF BInv, Consistent
<1>6. ASSUME NEW l \in Launchers, Exit(l)
      PROVE  BInv'
  <2>1. /\ phase' = [phase EXCEPT ![l] = "off"] /\ pid' = [pid EXCEPT ![l] = 0]
        /\ property' = NoAddress /\ phase[l] = "exiting"
        /\ UNCHANGED <<bus, maker, crashed>>
    BY <1>6 DEF Exit, Gone
  <2>2. property' \notin Buses /\ property' # Empty
    BY <2>1 DEF NoAddress, Empty
  <2> QED
    BY <2>1, <2>2 DEF BInv, Consistent, TypeOK, PropertyHasLauncher, BusesHaveLaunchers,
              BornBuses, FreshLaunchers, BusToldFirst, Up
<1>7. ASSUME NEW l \in Launchers, Crash(l)
      PROVE  BInv'
  <2>1. /\ phase' = [phase EXCEPT ![l] = "off"] /\ pid' = [pid EXCEPT ![l] = 0]
        /\ bus' = DoomBus(l) /\ crashed'
        /\ UNCHANGED <<property, maker>>
    BY <1>7 DEF Crash, Gone
  <2>2. \A c \in Buses : /\ (bus'[c] = "alive") => (bus[c] = "alive" /\ pid[l] # c)
                         /\ (bus'[c] = "unborn") <=> (bus[c] = "unborn")
    BY <2>1, DoomKeeps
  <2> QED
    <3>1. PropertyHasLauncher'
      BY <2>1 DEF PropertyHasLauncher
    <3>2. BusesHaveLaunchers'
      BY <2>1, <2>2 DEF BInv, Consistent, TypeOK, BusesHaveLaunchers, Up
    <3>3. BornBuses'
      <4>1. pid'[l] = 0 /\ \A k \in Launchers \ {l} : pid'[k] = pid[k]
        BY <2>1 DEF TypeOK
      <4> QED  BY <2>1, <2>2, <4>1 DEF BInv, BornBuses
    <3>4. FreshLaunchers' /\ BusToldFirst'
      BY <2>1, <2>2 DEF BInv, Consistent, TypeOK, FreshLaunchers, BusToldFirst
    <3> QED  BY <3>1, <3>2, <3>3, <3>4 DEF BInv, Consistent
<1>8. ASSUME NEW l \in Launchers, NEW p \in Programs, GetAddress(p, l)
      PROVE  BInv'
  <2>1. phase[l] = "running" /\ UNCHANGED <<phase, crashed>>
    BY <1>8 DEF GetAddress, nameVars
  <2>2. CASE pid[l] = 0
    <3>1. Launch(l)
      BY <1>8, <2>2 DEF GetAddress
    <3> QED  BY <2>1, <2>2, <3>1, LaunchKeeps
  <2>3. CASE pid[l] # 0
    <3>1. BusesAlone
      BY <1>8, <2>1, <2>3 DEF GetAddress, busVars, BusesAlone
    <3> QED  BY <3>1, <2>1, PhaseKeeps
  <2> QED  BY <2>2, <2>3
<1>9. ASSUME NEW b \in Buses, BusEnds(b)
      PROVE  BInv'
  BY <1>9 DEF BusEnds, nameVars, Living, BInv, Consistent, TypeOK, PropertyHasLauncher,
              BusesHaveLaunchers, BornBuses, FreshLaunchers, BusToldFirst, Up
<1>10. CASE BusesAlone /\ UNCHANGED phase
  BY <1>10 DEF BusesAlone, BInv, Consistent, PropertyHasLauncher, BusesHaveLaunchers,
              BornBuses, FreshLaunchers, BusToldFirst, Up
<1>11. ASSUME NEW l \in Launchers, SettingChanged(l) \/ \E v \in BOOLEAN : SetIsEnabled(l, v)
       PROVE  BInv'
  BY <1>10, <1>11 DEF SettingChanged, SetIsEnabled, BusesAlone, busVars, nameVars
<1>12. ASSUME NEW p \in Programs, LookForBus(p) \/ NoReply(p) \/ Open(p) \/ Disconnected(p)
       PROVE  BInv'
  BY <1>10, <1>12 DEF LookForBus, NoReply, Open, Disconnected, BusesAlone, busVars, nameVars
<1>13. ASSUME NEW v \in BOOLEAN, UserSets(v)
       PROVE  BInv'
  BY <1>10, <1>13 DEF UserSets, BusesAlone, busVars, nameVars
<1>14. CASE UNCHANGED vars
  BY <1>10, <1>14 DEF vars, BusesAlone, busVars, nameVars
<1> QED
  BY <1>1, <1>2, <1>3, <1>4, <1>5, <1>6, <1>7, <1>8, <1>9, <1>11, <1>12, <1>13, <1>14
     DEF Next, Step, Activate

LEMMA BusesAtFirst ==
    ASSUME BusLauncherAssumption, Init
    PROVE  BInv
<1>1. TypeOK
  BY DEF Init, TypeOK, Addresses, At, MaySet
<1>2. property \notin Buses /\ property # Empty /\ 0 \notin Buses
  BY DEF Init, NoAddress, Empty, Buses, BusLauncherAssumption
<1> QED
  BY <1>1, <1>2 DEF Init, BInv, Consistent, PropertyHasLauncher, BusesHaveLaunchers,
     BornBuses, FreshLaunchers, BusToldFirst

\* With any launchers, programs and buses: a bus that nobody has told to end has its
\* launcher, and so has the address on the root window unless one was killed
\* (ensure_a11y_bus, on_bus_exited and the end of main).
THEOREM BusesLookedAfter == Spec => []Consistent
<1>1. BusLauncherAssumption
  BY BusLauncherAssumption
<1>2. Init => BInv
  BY <1>1, BusesAtFirst
<1>3. BInv /\ [Next]_vars => BInv'
  BY <1>1, BusesKept
<1>4. BInv => Consistent
  BY DEF BInv
<1> QED  BY <1>2, <1>3, <1>4, PTL DEF Spec

-----------------------------------------------------------------------------
(* IsEnabled and the setting.                                              *)

\* A launcher whose IsEnabled and history stay does not care what else happens, as
\* long as it does not come into the main loop with an old history.
LEMMA SettingsAlone ==
    ASSUME SInv, TypeOK', UNCHANGED <<enabled, setting, told, changed>>,
           \A l \in Launchers : (Up(l) <=> Up(l)') /\ (InMainLoop(l)' => InMainLoop(l))
    PROVE  SInv'
BY DEF SInv, FreshHistory, EnabledFollowsSetting, TypeOK

\* What is written to the setting comes back to every launcher that is up.
LEMMA WrittenComesBack ==
    ASSUME SInv, TypeOK', NEW v \in BOOLEAN, SettingBecomes(v), UNCHANGED phase,
           \A l \in Launchers : enabled'[l] = enabled[l] \/ enabled'[l] = v
    PROVE  SInv'
BY DEF SInv, FreshHistory, EnabledFollowsSetting, TypeOK, SettingBecomes, Up, InMainLoop

LEMMA SettingsKept ==
    ASSUME BusLauncherAssumption, SInv, [Next]_vars
    PROVE  SInv'
<1> TypeOK /\ TypeOK'
  BY TypesKept DEF SInv
<1>1. ASSUME NEW l \in Launchers, NEW now \in BOOLEAN, Start(l, now)
      PROVE  SInv'
  <2>1. /\ phase[l] = "off" /\ phase' = [phase EXCEPT ![l] = "started"]
        /\ enabled' = [enabled EXCEPT ![l] = now] /\ UNCHANGED <<setting, told, changed>>
    BY <1>1 DEF Start
  <2>2. ~changed[l]
    BY <2>1 DEF SInv, FreshHistory, Up
  <2>3. \A k \in Launchers \ {l} : enabled'[k] = enabled[k] /\ phase'[k] = phase[k]
    BY <2>1 DEF TypeOK
  <2>4. FreshHistory' /\ EnabledFollowsSetting'
    BY <2>1, <2>2, <2>3 DEF SInv, FreshHistory, EnabledFollowsSetting, Up, InMainLoop
  <2> QED  BY <2>4 DEF SInv
<1>2. ASSUME NEW l \in Launchers, Exit(l) \/ Crash(l)
      PROVE  SInv'
  <2>1. Gone(l)
    BY <1>2 DEF Exit, Crash
  <2>2. /\ phase' = [phase EXCEPT ![l] = "off"] /\ changed' = [changed EXCEPT ![l] = FALSE]
        /\ UNCHANGED setting
        /\ \A k \in Launchers \ {l} : enabled'[k] = enabled[k] /\ told'[k] = told[k]
    BY <2>1 DEF Gone, TypeOK
  <2>3. FreshHistory' /\ EnabledFollowsSetting'
    BY <2>2 DEF SInv, FreshHistory, EnabledFollowsSetting, TypeOK, Up, InMainLoop
  <2> QED  BY <2>3 DEF SInv
<1>3. ASSUME NEW l \in Launchers, SettingChanged(l)
      PROVE  SInv'
  BY <1>3 DEF SettingChanged, nameVars, SInv, FreshHistory, EnabledFollowsSetting, TypeOK, Up,
              InMainLoop
<1>4. ASSUME NEW l \in Launchers, NEW v \in BOOLEAN, SetIsEnabled(l, v)
      PROVE  SInv'
  <2>1. enabled' = [enabled EXCEPT ![l] = v] /\ UNCHANGED phase
    BY <1>4 DEF SetIsEnabled, nameVars
  <2>2. \A k \in Launchers : enabled'[k] = enabled[k] \/ enabled'[k] = v
    BY <2>1 DEF TypeOK
  <2>3. CASE enabled[l] = v
    <3>1. UNCHANGED <<enabled, setting, told, changed>>
      BY <1>4, <2>1, <2>3 DEF SetIsEnabled, TypeOK
    <3> QED  BY <2>1, <3>1, SettingsAlone DEF Up, InMainLoop
  <2>4. CASE enabled[l] # v
    BY <1>4, <2>1, <2>2, <2>4, WrittenComesBack DEF SetIsEnabled
  <2> QED  BY <2>3, <2>4
<1>5. ASSUME NEW v \in BOOLEAN, UserSets(v)
      PROVE  SInv'
  BY <1>5, WrittenComesBack DEF UserSets, nameVars
<1>6. ASSUME NEW l \in Launchers,
             BusAcquired(l) \/ NameAnswered(l) \/ BusExited(l) \/ KillBus(l) \/ Terminate(l)
      PROVE  SInv'
  <2>1. /\ UNCHANGED settingVars
        /\ phase[l] # "off" /\ phase'[l] \in Phases \ {"off"}
        /\ InMainLoop(l)' => InMainLoop(l)
        /\ \A k \in Launchers \ {l} : phase'[k] = phase[k]
    BY <1>6 DEF BusAcquired, NameAnswered, BusExited, KillBus, Terminate, InMainLoop, TypeOK, Phases
  <2> QED  BY <2>1, SettingsAlone DEF settingVars, Up, InMainLoop
<1>7. CASE UNCHANGED <<phase, enabled, setting, told, changed>>
  BY <1>7, SettingsAlone DEF Up, InMainLoop
<1>8. ASSUME NEW l \in Launchers, NEW p \in Programs, GetAddress(p, l)
      PROVE  SInv'
  BY <1>7, <1>8 DEF GetAddress, nameVars, settingVars
<1>9. ASSUME NEW b \in Buses, BusEnds(b)
      PROVE  SInv'
  BY <1>7, <1>9 DEF BusEnds, nameVars, settingVars
<1>10. ASSUME NEW p \in Programs, LookForBus(p) \/ NoReply(p) \/ Open(p) \/ Disconnected(p)
       PROVE  SInv'
  BY <1>7, <1>10 DEF LookForBus, NoReply, Open, Disconnected, nameVars, settingVars
<1>11. CASE UNCHANGED vars
  BY <1>7, <1>11 DEF vars, nameVars, settingVars
<1> QED
  BY <1>1, <1>2, <1>3, <1>4, <1>5, <1>6, <1>8, <1>9, <1>10, <1>11 DEF Next, Step, Activate

\* Once the setting has changed, a launcher in its main loop says what the setting is
\* unless it is about to be told, whoever writes which of the two (handle_set_property,
\* gsettings_key_changed).
THEOREM IsEnabledFollows == Spec => []EnabledFollowsSetting
<1>1. BusLauncherAssumption
  BY BusLauncherAssumption
<1>2. Init => SInv
  <2>1. Init => TypeOK
    BY <1>1, BusesAtFirst DEF BInv, Consistent
  <2> QED  BY <2>1 DEF Init, SInv, FreshHistory, EnabledFollowsSetting
<1>3. SInv /\ [Next]_vars => SInv'
  BY <1>1, SettingsKept
<1>4. SInv => EnabledFollowsSetting
  BY DEF SInv
<1> QED  BY <1>2, <1>3, <1>4, PTL DEF Spec
=============================================================================
