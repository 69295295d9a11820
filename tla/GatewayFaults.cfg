SPECIFICATION Spec
CONSTANTS
  c1 = c1
  c2 = c2
  noConfig = noConfig
  NoConfig <- noConfig
  Callers <- TwoCallers
  Budgets = {0, 2}
  MaxCost = 2
  CallCap = 1
  MaxSteps = 2
  MaxSpend = 5
  MaxFaults = 2
SYMMETRY CallerSymmetry
INVARIANTS
  ChargesAreCounted
  OverrunBounded
