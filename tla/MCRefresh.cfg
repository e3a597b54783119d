SPECIFICATION FairSpec
CONSTANTS
    Requests = {r1}
    Starters = {s1, s2}
    Keep = 3
    MaxBuild = 3
    MaxApps = 2
CHECK_DEADLOCK FALSE
INVARIANTS RefreshIsAlone PinnedIsKept ShutdownLeavesNothing
PROPERTY RefreshEnds
