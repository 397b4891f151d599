SPECIFICATION Spec
CONSTANTS
    x = x
    y = y
    Objects <- MCObjects
    FirstKids <- MCFirstKids
    MaxChanges = 3
    MaxCalls = 2
INVARIANTS
    Consistent
    NoneLostOrSwapped
    CacheSettles
