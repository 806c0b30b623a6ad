SPECIFICATION FairSpec
CONSTANT MaxPrompts = 2
INVARIANT NothingLeftBehind
PROPERTY ScopeNeverStuck
CHECK_DEADLOCK FALSE
