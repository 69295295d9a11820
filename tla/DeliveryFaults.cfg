SPECIFICATION FairSpec
CONSTANTS
    Intent = {i1}
    Transactional = {}
    Push = {i1}
    Worker = {w1, w2}
    NoWorker = NoWorker
    MaxAttempts = 2
    InFlightCap = 2
    MaxSends = 1
    Failures = {"load", "panic", "emit"}
    MaxFaults = 1
    MaxRetries = 1
INVARIANTS
    SentIsTrue
    DuplicatesArePaidFor
PROPERTIES
    EveryIntentSettles
