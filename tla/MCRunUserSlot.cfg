SPECIFICATION Spec
CONSTANTS
    Runs <- TwoRuns
    Experiments <- OneExperiment
    Weights <- OneWeight
    Requests <- UserAndOneShort
    Slots = 2
    Kept = 1
    MaxCrashes = 0
    MaxFaults = 0
INVARIANT
    UserSlotReserved
