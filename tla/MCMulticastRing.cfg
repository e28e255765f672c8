CONSTANTS
    Peers = {x, y, z}
    Senders = {s1, s2, s3}
    s1 = s1
    s2 = s2
    s3 = s3
    x = x
    y = y
    z = z
    Routes <- Ring
    Mortal = {}
    MaxClosed = 0
    Blocking = {}
    Tag <- DistinctTags
    MaxSends <- OneEach
    Types = {2}
    TypeUnit = 32
    NULL = NULL
    Nodes <- MCNodes
SPECIFICATION Spec
CHECK_DEADLOCK FALSE
INVARIANT ConsistentOrder
