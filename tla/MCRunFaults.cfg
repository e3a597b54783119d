SPECIFICATION FairSpec
CONSTANTS
    Runs <- TwoRuns
    Experiments <- OneExperiment
    Weights <- OneWeight
    Requests <- UserAndOneShort
    Slots = 1
    Kept = 1
    MaxCrashes = 1
    MaxFaults = 2
INVARIANTS
    CancelNeedsEveryOwner
    CompletedIsDurable
    NoStrayResult
    SavedBeforeDropped
PROPERTIES
    ImplementsLifecycle
    StartedEnds
    OnlyPausedWait
