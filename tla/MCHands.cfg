SPECIFICATION Spec
CONSTANTS
    Procs = {runner, other}
    NoProc = NoProc
    Configs = {"unset", "file", "missing"}
    N = 4
    Sides = {"left", "right"}
    Depth <- MCDepth
    MaxGap = 2
    MissPercent = 30
    Runner = runner
    Raws <- MCRaws
    Modes = {TRUE, FALSE}
    NoFile = NoFile
    Torn = Torn
    MaxCalls <- MCCalls
    MaxTroubles <- MCTroubles
INVARIANTS
    ResumedAsIfAtOnce
    PassedOverIsDone
    CountedDepthIsThere
    ResolvedModelStays
CHECK_DEADLOCK FALSE
