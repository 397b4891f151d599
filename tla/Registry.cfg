SPECIFICATION Spec
CONSTANTS
    Names = {"a", "b", "c"}
    Paths = {"p"}
    EventNames <- SomeEvents
    Removals <- SomeRemovals
    Reembeds = TRUE
    Unembeds = TRUE
    OwnsNames = {"b"}
    Rereads = {TRUE, FALSE}
    MaxEmbeds = 3
INVARIANTS
    Consistent
    PollFollowsEvents
    ViewFollowsApps
PROPERTIES
    ConnectedStay
CHECK_DEADLOCK FALSE
