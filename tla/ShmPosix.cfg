\* Two producers of two versions, two consumers that retry once.
SPECIFICATION PosixSpec
\* every process may end, and the last version has no successor
CHECK_DEADLOCK FALSE
CONSTANTS
    NumProducers = 2
    Consumers = {c1, c2}
    None = None
    Retries = 1
    MaxVersion = 2
    MaxKills = 1
INVARIANTS UsedInitialised WholeVersions
PROPERTIES CatchesUp
