SPECIFICATION Spec
CONSTANTS
    Liberty = {"reconnect"}
    MaxQueue = 16
INVARIANTS
    NoTimerOfDeadPeer
    TimerLivesWithPeer
    SocketLivesWithConnection
    BuffersAreOwned
PROPERTIES
    LostIsInitialized
    ConnectEnds
CHECK_DEADLOCK FALSE
