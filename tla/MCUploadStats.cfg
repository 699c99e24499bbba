CONSTANTS
    h1 = h1
    h2 = h2
    h3 = h3
    Hosts <- MCHosts
    Answer <- MCAnswer
    Reasons <- MCReasons
    MaxDeliveries = 6
    NoReason = NoReason
    NoVerdict = NoVerdict
SPECIFICATION Spec
\* The upload stops when the peers stop talking.
CHECK_DEADLOCK FALSE
INVARIANTS
    TypeOK
