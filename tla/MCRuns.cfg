SPECIFICATION Spec
CONSTANTS
    Runs <- ThreeRuns
    Experiments <- TwoExperiments
    Weights <- OneWeight
    Requests <- UserAndTwo
    Slots = 2
    Kept = 1
    MaxCrashes = 0
    MaxFaults = 0
INVARIANTS
    SlotAccounting
    WaitingIsQueued
    HoldExplained
    LaneMatchesOwners
    ControlsApplied
