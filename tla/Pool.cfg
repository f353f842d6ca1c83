SPECIFICATION Spec
CONSTANTS
    Memory = {m1, m2, m3, m4}
    DEFAULT_ALLOC_SIZE = 2
    FREE_PACKET_POOL = 2
    Size = {1, 2, 3}
INVARIANTS
    CountersExact
    OneOwner
    LongEnough
    DeinitFreesAll
