SPECIFICATION FairSpec
CONSTANTS
    MaxSeconds = 2
    MaxClock = 4
    MaxTunnels = 3
    MaxGeneration = 4
    MaxCrashes = 1
INVARIANT Watched OneStopAtATime
PROPERTY ImplementsHandoff CaptureEnds
CHECK_DEADLOCK FALSE
