CONSTANTS
    p1 = p1
    p2 = p2
    i1 = i1
    i2 = i2
    a = a
    b = b
    NoImage = NoImage
    NoWriting = NoWriting
    NoFile = NoFile
    NoHolder = NoHolder
    NotReconciling = NotReconciling
    VPaths <- MCVPaths
    AppendOnly <- MCAppendOnly
    Images <- MCImages
    Sigs <- MCSigs
    GoodSigs <- MCGoodSigs
    Timestamps <- MCTimestamps
    Peers <- MCPeers
    RemoteStates <- MCRemoteStates
    MaxReqSigs = 1
    MaxRequests = 3
    MaxWriteFailures = 0
    MaxAnnounces = 3
SPECIFICATION Spec
CHECK_DEADLOCK FALSE
PROPERTY
    ReconcileTerminates
