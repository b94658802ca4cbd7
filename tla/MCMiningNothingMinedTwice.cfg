SPECIFICATION Spec
CONSTANTS
    Miners = {1, 2}
    Escorts = {}
    Clusters = {1, 2}
    Ores = {1, 2}
    Volume <- MCVolume
    PerCycle <- MCPerCycle
    HoldLitres = 1
    Pristine <- MCPristine
    Hazards = {"Nebula"}
    CycleTicks = 1
    SlowTicks = 1
    StackCap = 1
    DecayTicks = 1
    HeatPerCycle = 2
    HeatThreshold = 2
    HeatDecay = 1
    LockoutTicks = 2
    Filters = {0, 2}
    MaxGroups = 2
    AnyLoad = TRUE
    NoLedger = NoLedger
INVARIANT NothingMinedTwice
CHECK_DEADLOCK FALSE
