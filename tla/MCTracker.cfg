SPECIFICATION Spec
CONSTANTS
    NumFrames = 7
    Stride = 2
    MaxGap = 2
    Quarters <- MCQuarters
    Places = {"here", "there"}
    Slug <- MCSlug
    Plans <- MCPlans
    MaxTries = 2
    Shared = {TRUE, FALSE}
INVARIANTS
    NoStraySession
    LostFramesAreMasked
    OnePrimaryPerRole
