SPECIFICATION Spec
CONSTANTS
  c1 = c1
  c2 = c2
  NoRow = NoRow
  Callers <- TwoCallers
  Requested = {"messages:write"}
  Ungranted = "journeys:write"
  Manifests <- TwoManifests
  Threshold = 2
  RatePerMin = 1
  MaxVersions = 2
  MaxActivity = 1
SYMMETRY CallerSymmetry
INVARIANTS
  CurrentIsVerified
  BreakerTrips
