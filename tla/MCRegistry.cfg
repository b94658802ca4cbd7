SPECIFICATION Spec
CONSTANTS
    Anchors <- MCAnchors
    Stations <- MCStations
    StartAnchor = 1
    s1 = s1
    s2 = s2
    s3 = s3
    Players <- MCPlayers
    FirstPlayer = 1
    Ships <- MCShips
    Grants <- MCGrants
    BootGrant = 1
    Fleet <- MCFleet
    WingCount = 2
    TransitTicks <- MCTransitTicks
    MaxTick = 3
    StopTicks = {2}
    NoAnchor = 0
    NoPlayer = 0
    NoRow = NoRow
INVARIANTS TypeOK ExactlyOnePlace IndexPlacesShips OwnerKept ViewsHoldGrids
PROPERTIES DockFormsAWing SecondFleetOnlyMidDock
CHECK_DEADLOCK FALSE
SYMMETRY MCSymmetry
