SPECIFICATION FairSpec
CONSTANTS
    Names = {"app", "tray"}
    Trusted = {"app", "tray"}
    Calls <- SmallCalls
    ClientOf <- SmallClientOf
    MethodOf <- SmallMethodOf
    Operations = {"login"}
    MaxKeys = 1
    Snapshots <- SmallSnapshots
    MaxGeneration = 1
INVARIANT TypeOK LostHoldNothing NoResidue
PROPERTY FreshGrace ImplementsLeases IdleServiceStops
CHECK_DEADLOCK FALSE
