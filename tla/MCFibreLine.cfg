\* Four frames over a line two deep, jitter as long as the propagation delay.
SPECIFICATION LineSpec
CONSTANTS
    FibreDepth = 2
    Propagation = 1
    Jitter = 1
    MaxSerialization = 1
    MaxTime = 5
    MaxSent = 4
INVARIANTS
    OrderPreserved
    CrossingTime
    EveryFrameAccountedFor
