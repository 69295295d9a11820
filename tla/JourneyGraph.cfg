SPECIFICATION FairSpec
CONSTANTS
    Run = {r1}
    Slot <- NineSlots
    Worker = {w1, w2}
    Steady = {w1}
    Projector = {p1}
    Node <- AllNodes
    NodeType <- AllTypes
    Edge <- AllEdges
    EntryNode = "e"
    WaitEvent <- AllEvents
    Event <- Events
    NoEvent = NoEvent
    NoNode = NoNode
    Rank <- Ranks
    MaxAttempts = 2
    Faults = {}
    LatePolicies = {"run"}
    MaxRetries = 0
INVARIANTS
    IInv
    CrossedRunsKeepWork
    EffectsMatchHistory
PROPERTIES
    ImplementsWalk
    EveryRunSettles
