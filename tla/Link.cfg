SPECIFICATION Spec
CONSTANTS
    Modulus = 12
    ClientSeq = {9}
    ServerSeq = {9}
    ClientIssued = 3
    ServerIssued = 1
    ClientUnreliable = 1
    ServerUnreliable = 2
    MaxPackets = 6
    RandomSeq <- MCRandomSeq
    MaxIssued <- MCMaxIssued
    MaxUnreliable <- MCMaxUnreliable
CONSTRAINT
    FewPackets
INVARIANTS
    TypeOK
    InOrder
    NoGap
    NothingLost
    CloseIsLast
    IInv
    InStep
    AckNeverAhead
    SendqIsWindow
PROPERTIES
    AckNeverMovesBack
    ImplementsChannel
CHECK_DEADLOCK FALSE
