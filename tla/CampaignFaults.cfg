SPECIFICATION FairSpec
CONSTANTS
    r1 = r1
    r2 = r2
    p1 = p1
    p2 = p2
    Recipient = {r1, r2}
    Profile = {p1, p2}
    ProfileOf <- TwoProfiles
    Holdout = {r2}
    MaxJobs = 2
    Audiences <- SmallAudiences
    Dispatcher = {d1}
    Worker = {w1, w2}
    NoWorker = NoWorker
    MaxAttempts = 2
    Refusals = {"failed"}
    Failures = {"dispatch", "resolve", "emit", "panic"}
    MaxFaults = 1
    EditTo = {"scheduled"}
    MaxEdits = 1
CHECK_DEADLOCK FALSE
INVARIANTS
    AttemptsAreTrue
    SendsArePaidFor
    CompletedIsDecided
PROPERTIES
    EveryJobSettles
