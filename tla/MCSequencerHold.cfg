\* HOLD without TTL, so without rejoin; deliveries pause at watermark 5 and the
\* model stops when the watermark has reached its bound.
SPECIFICATION FairSpec
CONSTANTS
    MaxSeq = 4
    MaxBuffer = 2
    Policy = "HOLD"
    StateTtl = 0
    Realert = 2
    RejoinReseed = FALSE
    DropLate = FALSE
    Total <- MCTotal
    EventTs <- MCEventTs
    MaxRows = 2
    MaxWatermark = 7
    MaxStep = 5
    LastDelivery = 5
INVARIANTS
    HoldAppliesPrefix
PROPERTIES
    HeldGapAsserted
CHECK_DEADLOCK FALSE
