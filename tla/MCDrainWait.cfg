\* The sequencer in two processes, one of them killed or failed, on one file.
SPECIFICATION WaitFairSpec
CONSTANTS
    balance_engine = balance_engine
    Queries = {balance_engine}
    Sequencer = balance_engine
    Alarms = {1}
    MaxEvents = 1
    MaxLives = 2
    Stable = 2
    Timeout = 6
    Regular = TRUE
INVARIANTS
    FileIsSound
    CaughtUpIsTrue
    DrainedRunPasses
PROPERTIES
    AliveEngineIsConfirmed
\* A run ends when its processes have.
CHECK_DEADLOCK FALSE
