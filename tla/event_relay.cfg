SPECIFICATION FairRelaySpec
CONSTANTS
    Events <- MCEvents
    Workers = {"w1", "w2"}
    Batch = 2
    Sockets = {"till", "office"}
    RelayFaults = 1
INVARIANT RepeatedOnlyAfterFault
PROPERTIES EventuallyPublished EveryoneHears
CHECK_DEADLOCK FALSE
