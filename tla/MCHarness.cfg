\* FLAG_AND_CONTINUE, one account: shuffles, gaps, duplicates, bursts, a refused record.
SPECIFICATION FairSpec
CONSTANTS
    MaxSeq = 4
    MaxBuffer = 1
    Policy = "FLAG_AND_CONTINUE"
    StateTtl = 0
    Realert = 2
    RejoinReseed = TRUE
    DropLate = FALSE
    Total <- MCTotal
    EventTs <- MCEventTs
    Order <- OneAccount
    Partitions <- MCPartitions
    PartitionOf <- MCPartitionOf
    Delay = 2
    Trailing = 4
    Streams <- OneAccountStreams
    MaxLost = 1
    MaxReleases = 1
INVARIANTS
    OraclePredictsEngine
    StrictPassIsEarned
    CountIsDerivable
    ReorderIsNotLoss
    DrillVerdictsHold
PROPERTIES
    TailIsConfirmed
\* The run ends.
CHECK_DEADLOCK FALSE
