SPECIFICATION FairSpec
CONSTANTS
    KeyListeners = {"reader", "filter", "toolkit"}
    Profile <- ProfileOf
    Keys = {1, 2}
    MaxPresses = 3
    MaxSyncs = 1
INVARIANTS
    Consistent
    PressesOnce
PROPERTIES
    KeyboardThaws
    ReleaseTold
CHECK_DEADLOCK FALSE
