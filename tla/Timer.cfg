SPECIFICATION FairSpec
CONSTANTS
    MaxTimers = 2
    Delays = {0, 1}
    Iterations = {0, 2}
    MaxClock = 3
    Wrap = 4
    MaxReloads = 1
INVARIANTS TypeOK CancelledHoldsNoCallback NoLeakedCallback IterationsKept
PROPERTIES FiresOnTime EveryTimerFires
