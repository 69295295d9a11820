SPECIFICATION ContactsSpec
CONSTANTS
  p1 = p1
  p2 = p2
  p3 = p3
  x = x
  y = y
  a = a
  b = b
  Null = Null
  Profile <- Profiles
  Ext <- Externals
  Anon <- Anonymous
  Value = {"v"}
  Payloads <- SomeIdentities
  Lag = {0}
  Endpoint = {"n"}
  Token = {"t"}
  Message = {"m"}
  Client = {"c"}
  Application = {"app1"}
  FirstApp = "app1"
  Priority <- DefaultPriority
  FormLead = 2
  MaxSteps = 4
SYMMETRY ContactSymmetry
INVARIANTS
  StopBlocksTheNextSend
CHECK_DEADLOCK FALSE
