SPECIFICATION Spec
CONSTANTS
    ACTION_TIMEOUT = 5
    MAX_RTO = 3
    INITIAL_RTT = 4
    RttSamples = {0, 9}
    QueueSizes = {0, 1}
    MaxLate = 1
INVARIANTS
    TypeOK
    ArmedForDeadline
    AsapIsNextTick
PROPERTIES
    RetransmitNotEarly
    SilentPeerIsDropped
CHECK_DEADLOCK FALSE
