\* HOLD: how far apart are two assertions of the same hole?  The model stops
\* when the watermark has reached its bound and every row would be late.
SPECIFICATION Spec
CONSTANTS
    MaxSeq = 3
    MaxBuffer = 2
    Policy = "HOLD"
    StateTtl = 0
    Realert = 3
    RejoinReseed = TRUE
    DropLate = TRUE
    Total <- MCTotal
    EventTs <- MCEventTsInStep
    MaxRows = 1
    MaxWatermark = 10
    MaxStep = 6
    LastDelivery = 6
PROPERTIES
    HoldCadence
CHECK_DEADLOCK FALSE
