\* The short window, with crashes.
SPECIFICATION Spec
CONSTANTS
    Streams <- MCStreams
    Size = 4
    Slide = 2
    Which = "short"
    VelLimit = 3
    Delay = 2
    MaxCrashes = 2
INVARIANTS
    StreamAgreesWithBatch
    BreachIsAnnounced
\* The stream ends.
CHECK_DEADLOCK FALSE
