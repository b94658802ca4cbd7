SPECIFICATION Spec
CONSTANTS
    p1 = p1
    p2 = p2
    Players <- MCPlayers
    Cargo <- MCCargo
    Stored <- MCStored
    HoldUnits = 3
    Batches <- MCBatches
    OrePerUnit = 1
    AlloyTier = 1
    MaxTier = 2
    AuthoredTier = 1
    TierCap = 2
    RecipeCap <- MCRecipeCap
    Slots <- MCSlots
    RefundPct <- MCRefundPct
    JobTicks <- MCJobTicks
    QueueDepth = 1
    ProjectCost <- MCProjectCost
    MaxJobs = 4
    MaxTick = 4
    MaxRestarts = 1
INVARIANTS TypeOK BooksBalance QueueKept
PROPERTY TicksFillSlots
CHECK_DEADLOCK FALSE
