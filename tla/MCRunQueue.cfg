SPECIFICATION QueueSpec
CONSTANTS
    Runs <- MCRuns
    Experiments <- MCExperiments
    Priorities <- MCPriorities
INVARIANTS
    QueueInOrder
    BoundedBypass
CHECK_DEADLOCK FALSE
