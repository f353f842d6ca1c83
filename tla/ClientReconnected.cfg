SPECIFICATION Spec
CONSTANTS
    Liberty = {"reconnect"}
    MaxQueue = 2
INVARIANTS
    PacketOnlyWhenConnected
CHECK_DEADLOCK FALSE
