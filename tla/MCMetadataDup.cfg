CONSTANTS
    p1 = p1
    p2 = p2
    i1 = i1
    i2 = i2
    NoImage = NoImage
    NoWriting = NoWriting
    NoFile = NoFile
    NoHolder = NoHolder
    VPaths <- MCVPaths
    AppendOnly <- MCAppendOnly
    Images <- MCImages
    Sigs <- MCSigs
    GoodSigs <- MCGoodSigs
    Timestamps <- MCTimestamps
    MaxReqSigs = 2
    MaxRequests = 1
    MaxWriteFailures = 0
SYMMETRY MCSymmetry
SPECIFICATION Spec
CHECK_DEADLOCK FALSE
INVARIANT
    NoDuplicateSignatures
