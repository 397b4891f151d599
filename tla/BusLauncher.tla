----------------------------- MODULE BusLauncher ------------------------------
(***************************************************************************)
(* at-spi-bus-launcher (bus/at-spi-bus-launcher.c) and the programs that   *)
(* look for the accessibility bus (atspi_get_a11y_bus).                    *)
(*                                                                         *)
(* A launcher starts the bus, a dbus-daemon, when the session begins or    *)
(* when it is first asked for the address, and leaves the address in a     *)
(* property of the X root window.  Programs read the property first and    *)
(* ask the owner of the name org.a11y.Bus if there is none; the session    *)
(* bus starts a launcher for a name without an owner.  So several may be   *)
(* starting at once; they find out from each other's bus, before they do   *)
(* anything, and from the name, after they may have started a bus.         *)
(***************************************************************************)
EXTENDS Integers, FiniteSets

CONSTANTS
    Launchers,  \* launchers; each may be started again after it has ended
    Programs,   \* programs that look for the accessibility bus
    Nobody,     \* no owner
    MaxBuses,   \* bound: buses launched
    Worlds      \* bound: what behaviours are about, of "buses" and "settings"

ASSUME BusLauncherAssumption ==
    /\ Nobody \notin Launchers
    /\ MaxBuses \in Nat
    /\ Worlds \subseteq {"buses", "settings"}

Buses == 1..MaxBuses
NoAddress == 0
Empty == -1
Addresses == Buses \cup {NoAddress, Empty}

VARIABLES
    world,    \* bound: programs look for a bus and launchers are killed, or
              \* toolkit-accessibility is changed
    phase,    \* of each launcher: "off", "started", "acquired", "running",
              \* "quitting" (main loop left), "exiting" (bus killed)
    immediate,\* launch_immediately
    pid,      \* a11y_bus_pid: 0 none, -1 gone or failed, or the bus
    address,  \* a11y_bus_address
    maker,    \* the launcher of each bus launched so far
    bus,      \* what becomes of the buses: "unborn", "alive", "dying", "dead"
    property, \* AT_SPI_BUS on the X root window
    owner,    \* the session bus: who has the name org.a11y.Bus
    program,  \* programs: [at: "idle" | "asking" | "opening" | "connected", of]
    enabled,  \* a11y_enabled
    setting,  \* the desktop's toolkit-accessibility
    told,     \* FALSE: a "changed" signal is on its way to the launcher
    changed,  \* history: the setting has changed while the launcher was up
    crashed   \* history: a launcher was killed

busVars == <<pid, address, maker, bus>>
nameVars == <<phase, immediate, owner>>
settingVars == <<world, enabled, setting, told, changed>>
vars == <<busVars, nameVars, property, program, settingVars, crashed>>

Up(l) == phase[l] # "off"
Living(b) == bus[b] \in {"alive", "dying"}
Unborn == {b \in Buses : bus[b] = "unborn"}
MayCrash == world = "buses"
MaySet == world = "settings"
InMainLoop(l) == phase[l] \in {"started", "acquired", "running"}

-----------------------------------------------------------------------------
(* Starting and stopping a launcher.                                       *)

\* already_running: the property has an address somebody answers at.
AlreadyRunning == property \in Buses /\ Living(property)

\* main, up to g_bus_own_name; IsEnabled is not taken from the setting.
Start(l, now) ==
    /\ phase[l] = "off"
    /\ ~AlreadyRunning
    /\ phase' = [phase EXCEPT ![l] = "started"]
    /\ immediate' = [immediate EXCEPT ![l] = now]
    /\ enabled' = [enabled EXCEPT ![l] = now]
    /\ UNCHANGED <<world, told, changed, busVars, owner, property, program, setting, crashed>>

\* The process ends: its name goes, and what the next one starts with is fresh.
Gone(l) ==
    /\ phase' = [phase EXCEPT ![l] = "off"]
    /\ owner' = IF owner = l THEN Nobody ELSE owner
    /\ immediate' = [immediate EXCEPT ![l] = FALSE]
    /\ pid' = [pid EXCEPT ![l] = 0]
    /\ address' = [address EXCEPT ![l] = NoAddress]
    /\ enabled' = [enabled EXCEPT ![l] = FALSE]
    /\ told' = [told EXCEPT ![l] = TRUE]
    /\ changed' = [changed EXCEPT ![l] = FALSE]
    /\ UNCHANGED <<world, setting, maker, program>>

\* ensure_a11y_bus of a launcher that has no bus yet: the bus runs; it ends before
\* it has said where (the address is read as empty, and published); reading fails
\* and the bus is told to end; or nothing was started.
Launch(l) ==
    \/ \E fate \in {"alive", "dead", "dying"} :
        LET b == CHOOSE c \in Unborn : \A d \in Unborn : c <= d
            where == CASE fate = "alive" -> b [] fate = "dead" -> Empty
                       [] fate = "dying" -> NoAddress
        IN  /\ Unborn # {}
            /\ maker' = [maker EXCEPT ![b] = l]
            /\ bus' = [bus EXCEPT ![b] = fate]
            /\ pid' = [pid EXCEPT ![l] = b]
            /\ address' = [address EXCEPT ![l] = where]
            /\ property' = IF fate = "dying" THEN property ELSE where
    \/ /\ pid' = [pid EXCEPT ![l] = -1]
       /\ UNCHANGED <<maker, bus, address, property>>

\* A11Y_BUS_STATE_ERROR after the launch: no address was read.
Failed(l) == address'[l] = NoAddress

\* on_bus_acquired: launches before anybody knows who gets the name.
BusAcquired(l) ==
    /\ phase[l] = "started"
    /\ IF immediate[l] THEN Launch(l) ELSE UNCHANGED <<busVars, property>>
    /\ phase' = [phase EXCEPT ![l] = IF immediate[l] /\ Failed(l) THEN "quitting" ELSE "acquired"]
    /\ UNCHANGED <<immediate, owner, program, settingVars, crashed>>

\* Mutant: a launcher that has to wait for the name goes on.
MutantNameAnswered(l) ==
    /\ phase[l] = "acquired"
    /\ owner' = IF owner = Nobody THEN l ELSE owner
    /\ phase' = [phase EXCEPT ![l] = "running"]
    /\ UNCHANGED <<immediate, busVars, property, program, settingVars, crashed>>

\* The session bus gives the name to the first that asks; for another one
\* on_name_lost is called, which leaves the main loop.
NameAnswered(l) ==
    /\ phase[l] = "acquired"
    /\ owner' = IF owner = Nobody THEN l ELSE owner
    /\ phase' = [phase EXCEPT ![l] = IF owner = Nobody THEN "running" ELSE "quitting"]
    /\ UNCHANGED <<immediate, busVars, property, program, settingVars, crashed>>

\* SIGTERM: on_sigterm_pipe.
Terminate(l) ==
    /\ InMainLoop(l)
    /\ phase' = [phase EXCEPT ![l] = "quitting"]
    /\ UNCHANGED <<immediate, owner, busVars, property, program, settingVars, crashed>>

\* on_bus_exited, when the launcher's child is gone.
BusExited(l) ==
    /\ InMainLoop(l)
    /\ pid[l] \in Buses /\ bus[pid[l]] = "dead"
    /\ pid' = [pid EXCEPT ![l] = -1]
    /\ phase' = [phase EXCEPT ![l] = "quitting"]
    /\ UNCHANGED <<immediate, owner, address, maker, bus, property, program, settingVars, crashed>>

DoomBus(l) == IF pid[l] \in Buses /\ bus[pid[l]] = "alive"
              THEN [bus EXCEPT ![pid[l]] = "dying"] ELSE bus

\* The end of main: the bus is told to end ...
KillBus(l) ==
    /\ phase[l] = "quitting"
    /\ bus' = DoomBus(l)
    /\ phase' = [phase EXCEPT ![l] = "exiting"]
    /\ UNCHANGED <<immediate, owner, pid, address, maker, property, program, settingVars, crashed>>

\* Mutant: the property is left alone by a launcher whose bus is gone already.
MutantExit(l) ==
    /\ phase[l] = "exiting"
    /\ property' = IF pid[l] > 0 THEN NoAddress ELSE property
    /\ Gone(l)
    /\ UNCHANGED <<bus, crashed>>

\* ... and the property is deleted, whoever has set it.
Exit(l) ==
    /\ phase[l] = "exiting"
    /\ property' = NoAddress
    /\ Gone(l)
    /\ UNCHANGED <<bus, crashed>>

\* A launcher is killed: its bus asked to be told of that (PR_SET_PDEATHSIG).
Crash(l) ==
    /\ MayCrash
    /\ Up(l)
    /\ bus' = DoomBus(l)
    /\ crashed' = TRUE
    /\ Gone(l)
    /\ UNCHANGED property

\* A bus ends: one that is told to, and any other that fails.
BusEnds(b) ==
    /\ Living(b)
    /\ bus' = [bus EXCEPT ![b] = "dead"]
    /\ UNCHANGED <<pid, address, maker, nameVars, property, program, settingVars, crashed>>
BusObeys(b) == bus[b] = "dying" /\ BusEnds(b)

-----------------------------------------------------------------------------
(* Programs: atspi_get_a11y_bus.                                           *)

At(at, of) == [at |-> at, of |-> of]

\* get_accessibility_bus_address_x11, then get_accessibility_bus_address_dbus.
LookForBus(p) ==
    /\ world = "buses"
    /\ program[p].at = "idle"
    /\ program' = [program EXCEPT ![p] = IF property = NoAddress THEN At("asking", NoAddress)
                                         ELSE At("opening", property)]
    /\ UNCHANGED <<busVars, nameVars, property, settingVars, crashed>>

\* GetAddress at a launcher that has the name: ensure_a11y_bus, then the address,
\* or an error when there is no bus (the program gives up).
GetAddress(p, l) ==
    /\ program[p].at = "asking"
    /\ owner = l /\ phase[l] = "running"
    /\ IF pid[l] = 0 THEN Launch(l) ELSE UNCHANGED <<busVars, property>>
    /\ program' = [program EXCEPT ![p] = IF pid'[l] > 0 THEN At("opening", address'[l])
                                         ELSE At("idle", NoAddress)]
    /\ UNCHANGED <<nameVars, settingVars, crashed>>

\* A call to a name without an owner starts a launcher, and waits for it.
Activate(p, l) ==
    /\ program[p].at = "asking"
    /\ owner = Nobody
    /\ \A k \in Launchers : phase[k] \notin {"started", "acquired"}
    /\ Start(l, FALSE)

\* The session bus answers the call of a program when the launcher it was for has
\* ended without it.
NoReply(p) ==
    /\ program[p].at = "asking"
    /\ owner = Nobody
    /\ program' = [program EXCEPT ![p] = At("idle", NoAddress)]
    /\ UNCHANGED <<busVars, nameVars, property, settingVars, crashed>>

\* dbus_connection_open and dbus_bus_register.  There is no second try with
\* GetAddress for an address from the property.
Open(p) ==
    /\ program[p].at = "opening"
    /\ LET a == program[p].of
       IN  program' = [program EXCEPT ![p] = IF a \in Buses /\ Living(a) THEN At("connected", a)
                                             ELSE At("idle", NoAddress)]
    /\ UNCHANGED <<busVars, nameVars, property, settingVars, crashed>>

Disconnected(p) ==
    /\ program[p].at = "connected" /\ ~Living(program[p].of)
    /\ program' = [program EXCEPT ![p] = At("idle", NoAddress)]
    /\ UNCHANGED <<busVars, nameVars, property, settingVars, crashed>>

-----------------------------------------------------------------------------
(* org.a11y.Status.IsEnabled and the setting it stands for.                *)

\* The setting is written: every launcher that is up will be told.
SettingBecomes(v) ==
    /\ setting' = v
    /\ told' = [l \in Launchers |-> IF v = setting THEN told[l] ELSE ~Up(l)]
    /\ changed' = [l \in Launchers |-> changed[l] \/ (Up(l) /\ v # setting)]

UserSets(v) ==
    /\ MaySet
    /\ SettingBecomes(v)
    /\ UNCHANGED <<world, enabled, busVars, nameVars, property, program, crashed>>

\* Mutant: a change of the property does not reach the setting.
MutantSetIsEnabled(l, v) ==
    /\ MaySet
    /\ owner = l /\ phase[l] = "running"
    /\ enabled' = [enabled EXCEPT ![l] = v]
    /\ UNCHANGED <<world, setting, told, changed, busVars, nameVars, property, program, crashed>>

\* handle_set_property, handle_a11y_enabled_change: nothing is done, and the
\* setting not written, if the property has the value already.
SetIsEnabled(l, v) ==
    /\ MaySet
    /\ owner = l /\ phase[l] = "running"
    /\ enabled' = [enabled EXCEPT ![l] = v]
    /\ IF enabled[l] = v THEN UNCHANGED <<setting, told, changed>> ELSE SettingBecomes(v)
    /\ UNCHANGED <<world, busVars, nameVars, property, program, crashed>>

\* gsettings_key_changed: the setting is read when the signal is handled.
SettingChanged(l) ==
    /\ InMainLoop(l)
    /\ ~told[l]
    /\ told' = [told EXCEPT ![l] = TRUE]
    /\ enabled' = [enabled EXCEPT ![l] = setting]
    /\ UNCHANGED <<world, setting, changed, busVars, nameVars, property, program, crashed>>

-----------------------------------------------------------------------------
Init ==
    /\ world \in Worlds
    /\ phase = [l \in Launchers |-> "off"]
    /\ immediate = [l \in Launchers |-> FALSE]
    /\ pid = [l \in Launchers |-> 0]
    /\ address = [l \in Launchers |-> NoAddress]
    /\ maker = [b \in Buses |-> Nobody]
    /\ bus = [b \in Buses |-> "unborn"]
    /\ property = NoAddress
    /\ owner = Nobody
    /\ program = [p \in Programs |-> At("idle", NoAddress)]
    /\ enabled = [l \in Launchers |-> FALSE]
    /\ setting \in (IF MaySet THEN BOOLEAN ELSE {FALSE})
    /\ told = [l \in Launchers |-> TRUE]
    /\ changed = [l \in Launchers |-> FALSE]
    /\ crashed = FALSE

Step(l) ==
    \/ BusAcquired(l) \/ NameAnswered(l) \/ BusExited(l) \/ KillBus(l) \/ Exit(l)

Next ==
    \/ \E l \in Launchers : \/ \E now \in BOOLEAN : Start(l, now)
                            \/ Step(l) \/ SettingChanged(l)
                            \/ Terminate(l) \/ Crash(l)
                            \/ \E v \in BOOLEAN : SetIsEnabled(l, v)
                            \/ \E p \in Programs : GetAddress(p, l) \/ Activate(p, l)
    \/ \E b \in Buses : BusEnds(b)
    \/ \E p \in Programs : LookForBus(p) \/ NoReply(p) \/ Open(p) \/ Disconnected(p)
    \/ \E v \in BOOLEAN : UserSets(v)

\* Launchers handle what concerns them, a bus told to end does.
Fairness ==
    /\ \A l \in Launchers : WF_vars(Step(l))
    /\ \A b \in Buses : WF_vars(BusObeys(b))

Spec == Init /\ [][Next]_vars /\ Fairness

-----------------------------------------------------------------------------
TypeOK ==
    /\ world \in Worlds
    /\ phase \in [Launchers -> {"off", "started", "acquired", "running", "quitting", "exiting"}]
    /\ immediate \in [Launchers -> BOOLEAN]
    /\ pid \in [Launchers -> Buses \cup {0, -1}]
    /\ address \in [Launchers -> Addresses]
    /\ maker \in [Buses -> Launchers \cup {Nobody}]
    /\ bus \in [Buses -> {"unborn", "alive", "dying", "dead"}]
    /\ property \in Addresses
    /\ owner \in Launchers \cup {Nobody}
    /\ program \in [Programs -> [at: {"idle", "asking", "opening", "connected"}, of: Addresses]]
    /\ enabled \in [Launchers -> BOOLEAN] /\ setting \in BOOLEAN
    /\ told \in [Launchers -> BOOLEAN] /\ changed \in [Launchers -> BOOLEAN]
    /\ crashed \in BOOLEAN

\* As long as no launcher was killed, the address on the root window is that of a
\* launcher that is still there to delete it, whichever launchers start, lose the
\* name, lose their bus and end, in any order.
PropertyHasLauncher ==
    ~crashed => /\ property \in Buses => Up(maker[property])
                /\ property = Empty => \E l \in Launchers : Up(l)

\* A bus that nobody has told to end is the one bus of a launcher that is there to
\* tell it, killed launchers included; a launcher leaves only after it has done so.
BusesHaveLaunchers ==
    \A b \in Buses : bus[b] = "alive" =>
        maker[b] \in Launchers /\ Up(maker[b]) /\ pid[maker[b]] = b

\* The values the variables take, the address on the root window and the buses.
Consistent == TypeOK /\ PropertyHasLauncher /\ BusesHaveLaunchers

\* Only one accessibility bus lasts: one whose launcher does not get the name, or
\* has lost it by ending, ends as well, killed launchers included.
OneBusLasts ==
    \A b \in Buses : (Living(b) /\ owner # maker[b]) ~> (~Living(b) \/ owner = maker[b])

\* Once the setting has changed, IsEnabled is its value whenever no signal is on
\* its way, whoever changes which of the two, and in the middle of what.
EnabledFollowsSetting ==
    \A l \in Launchers : InMainLoop(l) /\ changed[l] /\ told[l] => enabled[l] = setting
=============================================================================
