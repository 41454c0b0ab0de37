\* Does a rejoin proof that passes prove a rejoin?
SPECIFICATION RejoinSpec
CONSTANTS
    MaxSeq = 3
    MaxBuffer = 2
    Policy = "FLAG_AND_CONTINUE"
    StateTtl = 3
    Realert = 2
    RejoinReseed = TRUE
    DropLate = TRUE
    Total <- MCTotal
    EventTs <- MCEventTs
    Accounts = {a1, a2}
    Back = a1
    Delay = 2
    Ticks <- MCTicks
    MinPoints = 3
    MinDecline = 50
    VelocityRows = {7}
INVARIANTS
    ProofIsRight
    FallIsEviction
\* The drill ends.
CHECK_DEADLOCK FALSE
