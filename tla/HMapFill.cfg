CONSTANTS
    Key = {1, 2, 3, 4, 5, 6, 7, 8, 9, 10, 11, 12, 13, 14, 15, 16, 17, 18, 19, 20,
           21, 22, 23, 24, 25, 26, 27, 28, 29, 30, 31, 32, 33}
    HashCode <- FillHashCode
    BitAnd <- MCBitAnd
    k_max_load_factor = 8
    k_rehashing_work = 128
SPECIFICATION FillSpec
INVARIANT AssertsHold
CHECK_DEADLOCK FALSE
