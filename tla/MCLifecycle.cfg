\* Every script on its own; the recovery drill tries twice.
SPECIFICATION FairSpec
CONSTANTS
    Scripts = {"stage_run", "recovery_drill", "sink_replay_drill"}
    MaxScripts = 1
    Attempts = 2
    Tuples = {t1}
    MaxCopies = 1
    MaxBatches = 3
INVARIANTS
    RecoversAlone
    ReadyIsTheLaunched
    FailureIsShown
PROPERTIES
    NoEngineIsLeft
\* The scripts end.
CHECK_DEADLOCK FALSE
