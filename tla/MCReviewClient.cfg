SPECIFICATION FairSpec
CONSTANTS
    Gens <- MCGens
    Values <- MCValues
    FirstValue = "old"
    None = None
    Other = Other
    Publisher = Publisher
    Linked = {TRUE}
    MaxEdits = 2
    MaxOthers = 1
    MaxPublications = 1
    MaxReloads = 1
INVARIANTS
    NoBlindEdit
    HeldIsShown
    UrlLagsByReviewsOnly
PROPERTIES
    ControlsComeBack
CHECK_DEADLOCK FALSE
