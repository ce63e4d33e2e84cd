\* main with every lab that has no run of its own.
SPECIFICATION Spec
\* the process ends, and its children after it
CHECK_DEADLOCK FALSE
CONSTANTS
    Nobody = Nobody
    NumThreads = 2
    Modulus = 3
    ArrayLength = 4
    ThreadCount = 2
    MaxPulses = 4
    ChildLimit = 3
    MaxTime = 100
    Users = {u1, u2}
    Sizes = {0, 1, 2}
    DataSize = 1
INVARIANTS PairAgrees ChildrenAccounted AnsweredOnce
PROPERTIES EndsByItself KeepsServing
