\* Three threads of two updates, in each of the three modes.
CONSTANTS
    Nobody = Nobody
    NumThreads = 3
    Updates = 2
SPECIFICATION CounterSpec
INVARIANTS FinalExact LossIsBounded
CHECK_DEADLOCK FALSE
