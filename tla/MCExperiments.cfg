SPECIFICATION FairSpec
CONSTANTS
    Trials = 2
    Windows = 1
    MaxFaults = 1
    MaxRetries = 1
    MaxRestarts = 1
CHECK_DEADLOCK FALSE
INVARIANTS EveryRunIsCurrent CancelReachesAll SameCellAgain
PROPERTY WalkEnds
