SPECIFICATION Spec
CONSTANTS
    Callbacks = {"f", "g"}
    Wanted <- MCWanted
    Broader <- MCBroader
    Events <- MCEvents
    Defunct <- MCDefunct
    MaxListeners = 3
    MaxDeregs = 3
    MaxEvents = 2
INVARIANTS
    Consistent
    AllTold
    NobodyDeaf
CHECK_DEADLOCK FALSE
