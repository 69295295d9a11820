SPECIFICATION AccessSpec
CONSTANTS
  u1 = u1
  u2 = u2
  u3 = u3
  s1 = s1
  s2 = s2
  None = None
  Users <- SomeUsers
  Sessions <- SomeSessions
  Roles = {"administrator", "member"}
  Administrator = "administrator"
  Teams = {"t"}
  TeamNames = {"n"}
  Keys = {"k"}
  Subjects = {"admin", "m"}
  AdminEmail = "admin"
  Assertions <- OneAssertion
  Posts = {"p"}
  IssueDelay = 1
  Skew = 1
  CacheCap = 2
  MaxClock = 1
  MaxChanges = 2
SYMMETRY AccessSymmetry
INVARIANTS
  OneSessionPerAssertion
PROPERTIES
  AuthorityIsGranted
CHECK_DEADLOCK FALSE
