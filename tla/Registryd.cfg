SPECIFICATION FairSpec
CONSTANTS
    Names = {"a", "b"}
    EmbedFirst = TRUE
    Calls = {"Embed", "RegisterEvent", "DeregisterEvent", "RegisterDeviceEventListener", "DeregisterDeviceEventListener", "NotifyListenersSync"}
    MaxCalls <- MostCalls
    MaxWaiting = 2
    NButtons = 1
    MaxTimers = 3
INVARIANTS
    Consistent
PROPERTIES
    RegistryAsSpecified
    PollerAsSpecified
    DepartureCleansListeners
    AnswersInOrder
    DeviceCallsAnswered
CHECK_DEADLOCK FALSE
