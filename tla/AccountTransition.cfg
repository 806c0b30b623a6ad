SPECIFICATION FairSpec
CONSTANTS
    Accounts = {a, b}
    NoAccount = none
    MaxFaults = 3
INVARIANT AccountHandoff ProtectionKept
PROPERTY TransitionEnds
CHECK_DEADLOCK FALSE
