CONSTANTS
    Key = {1, 2, 3, 4, 5, 6}
    HashCode <- MCHashCode
    BitAnd <- MCBitAnd
    k_max_load_factor = 1
    k_rehashing_work = 2
SPECIFICATION Spec
INVARIANT TraversalExact
PROPERTY ImplementsHMap
CHECK_DEADLOCK FALSE
