SPECIFICATION Spec
CONSTANTS
    Modulus = 8
    ACTION_TIMEOUT = 12
    MAX_RTO = 4
    INITIAL_RTT = 2
    RttSamples = {2}
    Late = 1
    MaxReliable = 1
    MaxLoss = 1
INVARIANTS
    StaysWithoutLoss
PROPERTIES
    EverythingIsAcked
    EachIsATimer
CHECK_DEADLOCK FALSE
