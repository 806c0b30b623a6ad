SPECIFICATION Spec
CONSTANTS
    Requests <- OwnershipRequests
    Class <- OwnershipClass
    Kinds = {"disconnect", "capture-stop"}
    MaxReads = 1
    MaxEpoch = 1
    MaxSaves = 0
    NoOne = NoOne
    Closer = Closer
INVARIANT TypeOK OneOwner DownPreservesTransaction CleanupFollowsCaptureStart CloseIsLast
PROPERTY ImplementsOwnership
CHECK_DEADLOCK FALSE
