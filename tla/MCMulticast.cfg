CONSTANTS
    Peers = {x, y}
    Senders = {s1, s2}
    s1 = s1
    s2 = s2
    s3 = s3
    x = x
    y = y
    z = z
    Routes <- AnyRoute
    Mortal = {x, y}
    MaxClosed = 1
    Blocking = {x, y}
    Tag <- DistinctTags
    MaxSends <- TwoAndOne
    Types = {2}
    TypeUnit = 32
    NULL = NULL
    Nodes <- MCNodes
SPECIFICATION Spec
SYMMETRY PeerSymmetry
CHECK_DEADLOCK FALSE
INVARIANT TypeOK
INVARIANT ClockCoversQueue
INVARIANT NoDuplicateKey
INVARIANT DeliveryOrdered
INVARIANT ConsistentOrder
INVARIANT QueuedAfterQueued
INVARIANT StagingHasOwner
INVARIANT NoMissedWake
PROPERTY CommitNeverOvertakes
PROPERTY ReadyStaysReady
