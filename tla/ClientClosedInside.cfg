SPECIFICATION Spec
CONSTANTS
    Liberty = {"close_inside"}
    MaxQueue = 2
INVARIANTS
    NoTimerOfDeadPeer
CHECK_DEADLOCK FALSE
