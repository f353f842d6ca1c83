SPECIFICATION Spec
CONSTANTS
    Block = {b1, b2, b3}
    Addr = {a1, a2, a3}
    Data = {d}
    MayClose = {"idle", "packet", "new", "left", "expired"}
    NULL = NULL
INVARIANTS
    KnownIsValid
    NoUseAfterFree
    KnowsAll
    OnePeerPerAddress
    DataIsOwn
    ClosedIsQuiet
PROPERTIES
    SilentClientsAreForgotten
CHECK_DEADLOCK FALSE
