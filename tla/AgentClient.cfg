SPECIFICATION FairSpec
CONSTANTS
    MaxRequests = 2
    MaxTimeouts = 1
    MaxProcesses = 2
    MaxInbox = 0
INVARIANT LeaseIsHeld
PROPERTY AgentSettles
CHECK_DEADLOCK FALSE
