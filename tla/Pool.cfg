SPECIFICATION FairSpec
CONSTANTS
    Threads = {t1, t2, t3, t4}
    PoolSize = 2
    NoConn = NoConn
    MaxCalls = 4
INVARIANTS
    TypeOK
    ConnectionsConserved
    IdleConnectionsClean
    NoLostWakeup
PROPERTY
    CallsReturn
CHECK_DEADLOCK FALSE
