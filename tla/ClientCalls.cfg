SPECIFICATION ClientSpec
CONSTANTS
    Listeners = {1}
    Callbacks = {"c1", "c2"}
    Kinds = {"key"}
    Worlds = {"devices", "objects"}
    MaxNodes = 3
    MaxCalls = 3
    MaxAsks = 2
    MaxEvents = 1
INVARIANTS
    ClientConsistent
    ToldHeld
    FailureSeen
PROPERTIES
    EventsAnswered
    WalkWhole
CHECK_DEADLOCK FALSE
