SPECIFICATION FairSpec
CONSTANTS
    j1 = j1
    j2 = j2
    k1 = k1
    Idle = Idle
    JobIds = {j1, j2}
    NumGpus = 2
    Streams = {k1}
    MaxRestarts = 1
    MaxFaults = 2
INVARIANTS
    OneProcessPerGpu
    RecordsAreAttended
    FirstComeFirstServed
PROPERTIES
    OutcomeIsFinal
    JobsEnd
    WatchedStreamEnds
CHECK_DEADLOCK FALSE
