SPECIFICATION Spec
CONSTANTS
    NumFrames = 3
    Stride = 2
    MaxGap = 2
    Quarters <- MCHalf
    Places = {"here", "there"}
    Slug <- MCSlug
    Plans <- MCOnePlan
    MaxTries = 2
    Shared = {FALSE}
INVARIANTS
    SamplesHaveCenters
