SPECIFICATION Spec
CONSTANTS
    Modulus = 14
    ClientSeq = {3}
    ServerSeq = {5}
    ClientIssued = 1
    ServerIssued = 0
    ClientUnreliable = 0
    ServerUnreliable = 2
    MaxPackets = 6
    RandomSeq <- MCRandomSeq
    MaxIssued <- MCMaxIssued
    MaxUnreliable <- MCMaxUnreliable
CONSTRAINT
    FewPackets
INVARIANTS
    ConnectedIsEstablished
CHECK_DEADLOCK FALSE
