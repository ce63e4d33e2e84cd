\* Lab 15 with batches of at most two and four items in all.
CONSTANTS
    Nobody = Nobody
    MaxBatch = 2
    MaxItems = 4
SPECIFICATION Spec
INVARIANTS WrittenInOrder LeftAsleepIdle
PROPERTIES EveryItemWritten ShutdownEnds
CHECK_DEADLOCK FALSE
