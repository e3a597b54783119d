SPECIFICATION FairSpec
CONSTANTS
    long = long
    short = short
    Turns <- TwoTurns
    Sessions <- OneSession
    SessionOf <- AllInOne
    NoTurn = NoTurn
    MaxEvents <- Lengths
    Watched <- TheLong
    MaxFaults = 1
CHECK_DEADLOCK FALSE
INVARIANTS TurnsDoNotMix NothingMissed CompletedIsWhole
PROPERTIES EndNeverReverts SlotFreed
