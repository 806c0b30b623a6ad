SPECIFICATION Spec
CONSTANTS
    Requests <- SessionRequests
    Class <- SessionClass
    Kinds = {"disconnect"}
    MaxReads = 2
    MaxEpoch = 2
    MaxSaves = 2
    NoOne = NoOne
    Closer = Closer
INVARIANT TransactionsNeverCancelled
PROPERTY DispatchInSession SettingsOrder FreshAccountData
CHECK_DEADLOCK FALSE
