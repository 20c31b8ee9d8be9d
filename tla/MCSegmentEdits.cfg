SPECIFICATION Spec
CONSTANTS
    grasp = grasp
    unlabeled = unlabeled
    plain = plain
    failed = failed
    alice = alice
    none = none
    NumFrames = 4
    MaxSegments = 3
    LabelSet = {grasp}
    Reserved = {unlabeled}
    FieldValues = {plain, failed}
    Reviewers = {alice}
    NoReviewer = none
    MaxEdits = 3
INVARIANTS
    TypeOK
    Tiles
    AuditIsChain
    ReviewFollowsAudit
    HumanBoundaryOnBothSides
CHECK_DEADLOCK FALSE
