SPECIFICATION FairSpec
CONSTANTS
    s1 = s1
    s2 = s2
    Ships <- MCShips
    Station = Station
    Cluster = Cluster
    Points = {}
    Space = Space
    Nowhere = Nowhere
    MaxLegs = 2
    LegTicks = 1
    SpoolTicks <- MCSpoolTicks
    LingerTicks = 1
    OreUnits = 1
    MaxOrders = 4
    MaxPending = 2
INVARIANTS TypeOK OrdersApart PlansFit ShipsFlyTheirPlan
PROPERTY EveryOrderEnds
CHECK_DEADLOCK FALSE
