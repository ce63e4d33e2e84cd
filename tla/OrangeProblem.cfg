\* Lab 12 with and without the mutex: three threads of two rounds.
CONSTANTS
    Nobody = Nobody
    t1 = t1
    t2 = t2
    t3 = t3
    Threads = {t1, t2, t3}
    Rounds = 2
SPECIFICATION Spec
SYMMETRY Symmetry
INVARIANTS TypeOK EachChunkOnce NeverAborts
CHECK_DEADLOCK FALSE
