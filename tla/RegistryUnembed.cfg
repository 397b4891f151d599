SPECIFICATION Spec
CONSTANTS
    Names = {"a", "b", "c"}
    Paths = {"p"}
    EventNames <- FewEvents
    Removals <- FewRemovals
    Reembeds = FALSE
    Unembeds = TRUE
    OwnsNames = {}
    Rereads = {FALSE}
    MaxEmbeds = 4
PROPERTIES
    UnembedTakesPlug
CHECK_DEADLOCK FALSE
