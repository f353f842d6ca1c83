SPECIFICATION Spec
CONSTANTS
    Modulus = 14
    ClientSeq = {3}
    ServerSeq = {12}
    ClientIssued = 1
    ServerIssued = 1
    ClientUnreliable = 1
    ServerUnreliable = 1
    MaxPackets = 6
    RandomSeq <- MCRandomSeq
    MaxIssued <- MCMaxIssued
    MaxUnreliable <- MCMaxUnreliable
CONSTRAINT
    FewPackets
INVARIANTS
    NothingLost
CHECK_DEADLOCK FALSE
