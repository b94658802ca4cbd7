SPECIFICATION FeedSpec
CONSTANTS
    port = port
    gate = gate
    far = far
    Nowhere = nowhere
    Anchors <- MCAnchors
    System <- MCSystem
    Pair <- MCPair
    RouteOf <- MCRouteOf
    Strangers <- MCStrangers
    Start = port
    MaxSeq = 3
    MaxActs = 2
INVARIANTS
    FeedTypeOK
    LegsInOrder
    
PROPERTIES
    AcceptedLegsEnd
    FollowsTheFleet
