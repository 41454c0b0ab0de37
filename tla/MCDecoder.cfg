\* Outages of the registry, restarts, and records that are no events.
SPECIFICATION DecoderFairSpec
CONSTANTS
    Topics <- MCTopics
    Registered = {1, 2}
    MaxOutages = 3
INVARIANTS
    ReadIsPassed
PROPERTIES
    CleanTopicIsRead
\* A topic that has been read ends the run.
CHECK_DEADLOCK FALSE
