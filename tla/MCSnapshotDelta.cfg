SPECIFICATION Spec
CONSTANTS
    s1 = s1
    s2 = s2
    s3 = s3
    Ships <- MCShips
    Owned <- MCOwned
    Grids = {1, 2}
    HomeGrid = 1
    RingTicks = 2
    Budget = 2
    FirstRoom = 1
    PartRoom = 1
    LeftRoom = 3
    MaxTick = 5
    MaxChange = 2
    MaxSwitch = 1
INVARIANTS
    TypeOK
    ViewsAgree
    ShowsTheGrid
SYMMETRY MCSymmetry
CHECK_DEADLOCK FALSE
