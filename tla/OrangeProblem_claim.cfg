\* Lab 12 as it runs without an argument: two threads of one round.
CONSTANTS
    Nobody = Nobody
    t1 = t1
    t2 = t2
    Threads = {t1, t2}
    Rounds = 1
SPECIFICATION Spec
INVARIANTS WholeArrayUpdated
CHECK_DEADLOCK FALSE
