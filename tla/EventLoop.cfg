\* Two connections, five steps of the clients, a timeout of one tick, one ttl
\* longer than that.
SPECIFICATION FairSpec
CONSTANTS
    Fd = {5, 6}
    k_idle_timeout_ms = 1
    Ttl = {2}
    IntBits = 4
    ReplySize = 2
    MaxClientSteps = 5
INVARIANTS TypeOK ReportedAlive Intent NoneStranded IdleListOrdered WakesInTime
PROPERTY SilentClosed
