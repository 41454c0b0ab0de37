\* Two snapshots of a live engine, of which one is pruned, a restore or an upgrade,
\* a replay from earliest, and a key that is released and comes back.
SPECIFICATION FairSpec
CONSTANTS
    MaxSeq = 3
    MaxBuffer = 2
    Policy = "FLAG_AND_CONTINUE"
    StateTtl = 1
    Realert = 2
    RejoinReseed = TRUE
    DropLate = TRUE
    Total <- MCTotal
    EventTs <- MCEventTs
    Topics <- MCTopics
    Delay = 3
    Keep = 1
    MaxSnapshots = 2
INVARIANTS
    SnapshotIsRecoverable
    ReplayConverges
PROPERTIES
    TableNeverRegresses
    RestoreCompletes
\* The run ends.
CHECK_DEADLOCK FALSE
