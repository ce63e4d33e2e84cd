\* The header's period against the one the code sets.
SPECIFICATION TimerSpec
CHECK_DEADLOCK FALSE
CONSTANTS
    MaxPulses = 3
    MaxTime = 80
INVARIANT EveryStatedInterval
