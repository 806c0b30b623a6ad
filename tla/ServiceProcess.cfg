SPECIFICATION FairSpec
CONSTANTS
    Callers = {c1, c2}
INVARIANT OrderlyService
PROPERTY ProcessEnds
CHECK_DEADLOCK FALSE
