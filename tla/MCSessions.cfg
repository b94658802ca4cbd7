SPECIFICATION Spec
CONSTANTS
    Alice = Alice
    Bob = Bob
    Clients <- MCClients
    Grids <- MCGrids
    HomeGrid <- MCHomeGrid
    MaxSessions = 2
    MaxCatchUp = 2
    GraceTicks = 1
    TopTick = 3
    MaxTick = 3
    MaxConns = 3
    MaxWire = 1
CHECK_DEADLOCK FALSE
INVARIANTS TypeOK OneSeatEach HoldsFollowSessions
PROPERTIES TokensAreSpent GraceHolds
