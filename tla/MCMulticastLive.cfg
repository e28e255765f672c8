CONSTANTS
    Peers = {x, y}
    Senders = {s1, s2}
    s1 = s1
    s2 = s2
    s3 = s3
    x = x
    y = y
    z = z
    Routes <- AnyRoute
    Mortal = {x, y}
    MaxClosed = 2
    Blocking = {x, y}
    Tag <- DistinctTags
    MaxSends <- OneEach
    Types = {2}
    TypeUnit = 32
    NULL = NULL
    Nodes <- MCNodes
SPECIFICATION FairSpec
CHECK_DEADLOCK FALSE
PROPERTY CommittedIsDelivered
