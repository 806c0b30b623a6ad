SPECIFICATION Spec
CONSTANTS
    Targets = {"t1"}
    Cleanups = {"down"}
    Kind <- DisconnectOnly
    Retry = "retry"
    NoOne = NoOne
    MaxIntent = 2
INVARIANT PendingErrorHasOwner
CHECK_DEADLOCK FALSE
