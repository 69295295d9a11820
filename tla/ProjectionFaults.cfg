SPECIFICATION FairSpec
CONSTANTS
    Key <- Keys
    Ids <- SameIds
    Request <- Requests
    Batch <- Repeats
    Company = {"e2"}
    Projector = {p1, p2}
    NoProjector = NoProjector
    MaxAttempts = 2
    MaxSeq = 4
    MaxFaults = 1
    MaxRetries = 1
INVARIANTS
    DoneIsApplied
    FirstInOrder
    ReapplicationsArePaidFor
PROPERTIES
    EveryEventSettles
CHECK_DEADLOCK FALSE
