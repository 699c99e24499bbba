CONSTANTS
    i1 = i1
    i2 = i2
    NoFuture = NoFuture
    Images <- MCImages
    MaxFetches = 4
SPECIFICATION Spec
CHECK_DEADLOCK FALSE
INVARIANT
    SingleFlight
