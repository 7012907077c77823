SPECIFICATION Spec
CONSTANTS
    MaxTimers = 2
    Delays = {0, 1}
    Iterations = {0}
    MaxClock = 2
    Wrap = 3
    MaxReloads = 0
PROPERTIES FiresInALaterFrame
