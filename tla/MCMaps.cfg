SPECIFICATION MCSpec
CONSTANTS
    t1 = t1
    t2 = t2
    Threads = {t1, t2}
    Nodes = 2
    Keys = {1, 2}
    Main <- OneSeat
    Extra <- OneExtra
    Clients <- AtomicClients
    Elem = {1, 2, 3, 4}
    KeyOf <- MCKeyOf
    Rank <- MCRank
    Hashes = {0, 2}
    HASH_INITIAL_NUM_BUCKETS = 1
    HASH_BKT_CAPACITY_THRESH = 2
    MayClear = TRUE
    MaySelect = FALSE
    MaxBuckets = 4
    MAX_CACHE_SIZE = 3
SYMMETRY Symmetry
INVARIANTS
    UtHashSound
    HoldsMostRecent
    AhTableSound
    HatTrieSound
    NodesSound
CHECK_DEADLOCK FALSE
