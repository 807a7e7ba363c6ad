SPECIFICATION ServersSpec
CONSTANTS
    Call = {c1, c2, c3}
    Third = c3
    Closer = closer
    PoolMax = 2
    MaxPools = 2
    None = None
INVARIANTS NoPoolLost ConnectionsComeBack DriverReadsWhatWasWritten StatementsStandAlone
PROPERTY MysqlAcloseReturns
\* Calls may wait for a connection or a lock for ever.
CHECK_DEADLOCK FALSE
