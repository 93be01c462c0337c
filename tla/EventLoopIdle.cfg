\* One connection whose deadline is now when process_timers looks at it.
SPECIFICATION Spec
CONSTANTS
    Fd = {5}
    k_idle_timeout_ms = 1
    Ttl = {}
    IntBits = 4
    ReplySize = 1
    MaxClientSteps = 2
PROPERTY NoneDueAfterTimers
