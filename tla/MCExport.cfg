SPECIFICATION Spec
CONSTANTS
    a0 = a0
    a1 = a1
    b0 = b0
    x1 = x1
    x2 = x2
    c1 = c1
    grasp = grasp
    unlabeled = unlabeled
    Absent = Absent
    AnyConfig = AnyConfig
    Unlabeled = unlabeled
    Episodes = {0, 1}
    NumFrames = 2
    Source <- MCSource
    Runs = {a0, a1, b0}
    About <- MCAbout
    Drafts <- MCDrafts
    FirstProfile <- Lenient
    FirstSegs <- MCFirstSegs
    Phases = {grasp}
    Requests <- MCRequests
    Exporters = {x1, x2}
    MaxWrites = 1
    MaxExports = 2
    MaxKills = 1
SYMMETRY ExporterSymmetry
INVARIANTS
    TreesAreSound
    NotOlderThanHash
    PreviousKept
PROPERTIES
    ReusedIsCurrent
CHECK_DEADLOCK FALSE
