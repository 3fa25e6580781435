\* Two publications in every combination of ways, two attempts, two deliveries.
SPECIFICATION Spec
CONSTANTS
    Publications = {p1, p2}
    NoHeader = NoHeader
    MaxAttempts = 2
    MaxDeliveries = 2
SYMMETRY MCSymmetry
INVARIANTS
    TypeOK
    NoFalseDuplicate
    ProcessedOnce
    TraceFollowsPublish
CHECK_DEADLOCK FALSE
