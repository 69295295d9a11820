SPECIFICATION FairSpec
CONSTANTS
    j1 = j1
    j2 = j2
    Job = {j1, j2}
    JobKinds <- AllKinds
    Replays = {j2}
    Worker = {w1, w2}
    NoWorker = NoWorker
    Batches <- FewBatches
    MaxPage = 1
    Errors = TRUE
    MaxAttempts = 2
    MaxFaults = 1
    MaxCalls = 1
CHECK_DEADLOCK FALSE
INVARIANTS
    SuccessesArePaidFor
    RequestsAgree
    AnswersAreTrue
    RunsAreClosed
PROPERTIES
    EveryJobSettles
