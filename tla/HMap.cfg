CONSTANTS
    Key = {1, 2, 3, 4, 5, 6}
    HashCode <- MCHashCode
    BitAnd <- MCBitAnd
    k_max_load_factor = 1
    k_rehashing_work = 1
SPECIFICATION FairSpec
INVARIANTS TypeOK Consistent ScanInBounds LoadBounded
PROPERTIES ImplementsNodeSet MigrationEnds
CHECK_DEADLOCK FALSE
