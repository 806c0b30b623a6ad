SPECIFICATION FairSpec
CONSTANTS
    Targets = {"t1", "t2"}
    Cleanups = {"down", "off", "on"}
    Kind <- Preferences
    Retry = "retry"
    NoOne = NoOne
    MaxIntent = 3
INVARIANT TypeOK OneConnectionOwner SupersededStaysDown DisconnectIsFinal DropIsRetried
PROPERTY RetryYields RequestsEnd
CHECK_DEADLOCK FALSE
