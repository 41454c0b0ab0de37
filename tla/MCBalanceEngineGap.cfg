\* Is a gap settled by the first batch that reaches its alarm?
SPECIFICATION Spec
CONSTANTS
    MaxSeq = 3
    MaxBuffer = 2
    Policy = "FLAG_AND_CONTINUE"
    StateTtl = 1
    Realert = 2
    RejoinReseed = TRUE
    DropLate = TRUE
    Total <- MCTotal
    EventTs <- MCEventTsInStep
    Accounts = {a1}
    Delay = 1
    Ticks = {3}
    MaxRows = 2
    MaxBatchRows = 2
    MaxCrashes = 0
PROPERTIES
    ExpiredGapIsSettled
