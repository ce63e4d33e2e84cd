\* Lab 17 with a counter that wraps at four.
CONSTANTS
    Nobody = Nobody
    Modulus = 4
SPECIFICATION Spec
INVARIANTS StandsOnlyWithoutItsThread
PROPERTIES KeepsGoing StepsAsMachine
CHECK_DEADLOCK FALSE
