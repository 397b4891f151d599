SPECIFICATION Spec
CONSTANTS
    Launchers = {"l1", "l2"}
    Programs = {"p1"}
    Nobody = "nobody"
    MaxBuses = 2
    Worlds = {"buses", "settings"}
INVARIANTS
    Consistent
    EnabledFollowsSetting
PROPERTIES
    OneBusLasts
