CONSTANTS
    i1 = i1
    i2 = i2
    b1 = b1
    b2 = b2
    Images <- MCImages
    Blocks <- MCBlocks
    Manifest <- MCManifest
    MaxAttempts = 3
    MaxCrashes = 1
    NoInode = NoInode
    NoImage = NoImage
    Empty = Empty
    Torn = Torn
SPECIFICATION Spec
\* The path stops changing once the assemblies allowed have ended.
CHECK_DEADLOCK FALSE
INVARIANT
    CommittedBlocksIntact
