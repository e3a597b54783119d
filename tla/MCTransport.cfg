SPECIFICATION FairSpec
CONSTANTS
    Runs = {r1}
    Limit = 2
    MaxSpares = 2
CHECK_DEADLOCK FALSE
INVARIANT NoOrphan
PROPERTIES KilledForAReason StoppedEnds ImplementsTransport
