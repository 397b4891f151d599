SPECIFICATION FairSpec
CONSTANTS
    Listeners = {"a1", "a2", "b1"}
    Owner <- MCOwner
    NButtons = 1
    Modifiers = {shift}
    Positions = {"p0", "p1"}
    Home = "p0"
    MaxTimers = 3
INVARIANTS
    Consistent
PROPERTIES
    CheckTellsAll
    ChangesReported
    PollersDie
