SPECIFICATION Spec
CONSTANTS
    r1 = r1
    short1 = short1
    long1 = long1
    p1 = p1
    p2 = p2
    c1 = c1
    c2 = c2
    s1 = s1
    auto = auto
    pick = pick
    place = place
    Absent = Absent
    NoDir = NoDir
    NoWriter = NoWriter
    Free = Free
    Requests <- MCRequests
    Names <- MCNames
    ShortName <- MCShortName
    LongName <- MCLongName
    Segments = {s1}
    Values = {auto, pick, place}
    FirstValue = auto
    Edits <- MCEdits
    Annotators = {p1, p2}
    Editors = {c1, c2}
    MaxEdits = 1
    MaxStarts = 2
    MaxCrashes = 1
    MaxFaults = 1
INVARIANTS
    TypeOK
    LockHeld
    AnnotationAtMostOneAhead
    AuditExplainsRun
    LiveTmpKept
    IndexMatchesRuns
PROPERTIES
    EditsAreCompareAndAppend
CHECK_DEADLOCK FALSE
SYMMETRY Interchangeable
