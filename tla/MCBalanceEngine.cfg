\* One account and the heartbeat, crashes in every step.
SPECIFICATION FairSpec
CONSTANTS
    MaxSeq = 3
    MaxBuffer = 1
    Policy = "FLAG_AND_CONTINUE"
    StateTtl = 1
    Realert = 2
    RejoinReseed = TRUE
    DropLate = FALSE
    Total <- MCTotal
    EventTs <- MCEventTs
    Accounts = {a1}
    Delay = 1
    Ticks = {2, 4}
    MaxRows = 3
    MaxBatchRows = 3
    MaxCrashes = 2
INVARIANTS
    ReplayReproducesState
    TableFollowsState
    AuditIsComplete
    TopicsFollowTable
PROPERTIES
    TableImplementsLedger
    EveryBatchCommits
