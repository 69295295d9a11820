SPECIFICATION ExperimentsSpec
CONSTANTS
    u1 = u1
    u2 = u2
    k1 = k1
    good = good
    better = better
    bad = bad
    a = a
    b = b
    NoLabel = NoLabel
    Holdout = Holdout
    NoRow = NoRow
    NoContent = NoContent
    NoOne = NoOne
    Users <- MCUsers
    Keys <- MCKeys
    Contents <- MCContents
    Invalid <- MCInvalid
    Kinds <- AllKinds
    MaxVersions = 2
    MaxSessions = 2
    Labels <- MCLabels
    Bound <- MCBound
    Pinned <- MCPinned
    MaxProposals = 2
    MaxRollouts = 2
SYMMETRY Symmetry
CHECK_DEADLOCK FALSE
INVARIANTS
    FrozenContent
    RepublishAddsNothing
    NumberedInOrder
    ApprovalsAreSnapshots
