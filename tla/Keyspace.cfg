\* Two keys in three addresses, two workers; a sorted set with a member is large, and one
\* call of process_timers reaps one entry.
SPECIFICATION Spec
CONSTANTS
    Key = {k1, k2}
    Value = {v1}
    Member = {m1}
    Score = {1}
    Ttl <- MCTtl
    Entry = {e1, e2, e3}
    Worker = {w1, w2}
    MaxTime = 2
    k_max_works = 1
    k_large_container_size = 0
SYMMETRY Symmetry
INVARIANTS TypeOK OneOwner TimersMatchTable UniqueKeys
PROPERTY ImplementsStore
