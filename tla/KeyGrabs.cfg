SPECIFICATION Spec
CONSTANTS
    KeyListeners = {"a1", "b1"}
    KeyOwner <- MCOwner
    Masks = {"m1"}
    Keys = {"k1", "k2"}
    AnyKey = "any"
    Symbols = {"s", "own"}
    ReservedKey = "k2"
    ReservedSymbol = "own"
    KeyLists <- AllLists
    Scenarios <- MCScenarios
    MaxEntries = 3
    MaxRefs = 3
    MaxResets = 1
INVARIANTS
    Consistent
    NoForgottenGrab
PROPERTIES
    OneKeyReplyHonest
CHECK_DEADLOCK FALSE
