\* One key: a `get' on a sorted set.
SPECIFICATION Spec
CONSTANTS
    Key = {k1}
    Value = {v1}
    Member = {m1}
    Score = {1}
    Ttl <- MCTtl
    Entry = {e1, e2}
    Worker = {w1}
    MaxTime = 2
    k_max_works = 1
    k_large_container_size = 0
PROPERTY GetTypeChecked
