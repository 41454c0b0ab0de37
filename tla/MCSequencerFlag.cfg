\* FLAG_AND_CONTINUE with TTL release and rejoin; deliveries pause at watermark 5
\* and the model stops when the watermark has reached its bound.
SPECIFICATION FairSpec
CONSTANTS
    MaxSeq = 4
    MaxBuffer = 2
    Policy = "FLAG_AND_CONTINUE"
    StateTtl = 2
    Realert = 2
    RejoinReseed = TRUE
    DropLate = FALSE
    Total <- MCTotal
    EventTs <- MCEventTs
    MaxRows = 2
    MaxWatermark = 12
    MaxStep = 2
    LastDelivery = 5
INVARIANTS
    IInv
    OpenGapIsArmed
    NoStaleAlarm
PROPERTIES
    NoGapBeforeWatermark
    ImplementsLedger
    GapsResolve
    IdleStateReleased
CHECK_DEADLOCK FALSE
