\* A ttl that does not fit the result of next_timer_ms.
SPECIFICATION Spec
CONSTANTS
    Fd = {5}
    k_idle_timeout_ms = 1
    Ttl = {11}
    IntBits = 4
    ReplySize = 1
    MaxClientSteps = 3
INVARIANT WakesInTime
