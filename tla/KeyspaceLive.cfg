\* The keys are sorted sets; every one with a member is large; one entry is reaped at a time.
SPECIFICATION FairSpec
CONSTANTS
    Key = {k1, k2}
    Value = {}
    Member = {m1}
    Score = {1}
    Ttl <- MCTtl
    Entry = {e1, e2}
    Worker = {w1}
    MaxTime = 2
    k_max_works = 1
    k_large_container_size = 0
PROPERTIES ExpiredGoes JobsFinish
