SPECIFICATION Spec
CONSTANTS
    j1 = j1
    j2 = j2
    k1 = k1
    Idle = Idle
    JobIds = {j1, j2}
    NumGpus = 1
    Streams = {}
    MaxRestarts = 0
    MaxFaults = 0
PROPERTIES
    CancelledStays
CHECK_DEADLOCK FALSE
