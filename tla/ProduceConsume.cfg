\* Lab 16 with at most four products before main stops it.
CONSTANTS
    Nobody = Nobody
    MaxProduct = 4
SPECIFICATION Spec
INVARIANTS DriftBounded SleepsOnlyAtShutdown
PROPERTIES ProductConsumed TakesTurns
CHECK_DEADLOCK FALSE
