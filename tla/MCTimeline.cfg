SPECIFICATION Spec
CONSTANTS
    NoConfidence = NoConfidence
    FrameTicks = 4
    Duration = 32
    Weight <- MCWeight
    ScoreThreshold <- MCThreshold
    MergeWindow = 4
    Labelset <- MCLabelset
    Confidences <- MCConfidences
    MaxRetries = 2
    FaultThreshold = 2
    Preserve = {"gripper_zero_crossing"}
    MinDuration = 9
    ViterbiEnabled = TRUE
    Forbidden <- MCForbidden
    Lambda <- MCLambda
    AlphaRank <- MCAlphaRank
    EventSets <- MCEventSets
    Targets = {1, 2, 4}
INVARIANTS
    CoversEpisode
    SmoothingReachesItsGoals
    SmoothingExplained
    AllLabelsOrNone
PROPERTIES
    ViterbiIsBest
    AnnotationEnds
CHECK_DEADLOCK FALSE
