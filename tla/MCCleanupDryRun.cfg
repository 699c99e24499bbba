CONSTANTS
    d1 = d1
    d2 = d2
    p1 = p1
    p2 = p2
    p3 = p3
    i1 = i1
    i2 = i2
    NoImage = NoImage
    NoDir = NoDir
    NoCommand = NoCommand
    BaseDirs <- MCBaseDirs
    AutoClean <- MCAutoClean
    DirPaths <- MCDirPaths
    KeepList <- MCKeepList
    Images <- MCImages
    GcThreshold = 1
    AggressiveGc = FALSE
SPECIFICATION Spec
PROPERTY
    NoRemovalDecidedInDryRun
