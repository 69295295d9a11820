SPECIFICATION Spec
CONSTANTS
    Run = {r1}
    Slot <- FourSlots
    Worker = {w1, w2}
    Steady = {}
    Projector = {p1}
    Node <- ShortNodes
    NodeType <- ShortTypes
    Edge <- ShortEdges
    EntryNode = "e"
    WaitEvent <- ShortEvents
    Event <- Events
    NoEvent = NoEvent
    NoNode = NoNode
    Rank <- Ranks
    MaxAttempts = 2
    Faults = {"error", "crash"}
    LatePolicies = {"run", "skip", "reschedule"}
    MaxRetries = 1
INVARIANTS
    WorkConserved
    LeavesEachNodeOnce
    HistoryExplainsPosition
    ClaimNeverBlocked
PROPERTIES
    TerminalIsFinal
SYMMETRY Symmetry
