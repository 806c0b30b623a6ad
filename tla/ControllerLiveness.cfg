SPECIFICATION FairSpec
CONSTANTS
    Requests <- LivenessRequests
    Class <- LivenessClass
    Kinds = {"disconnect", "capture-stop"}
    MaxReads = 1
    MaxEpoch = 0
    MaxSaves = 0
    NoOne = NoOne
    Closer = Closer
PROPERTY CleanupRetires CloseTerminates
CHECK_DEADLOCK FALSE
