------------------------------ MODULE MCAccess ------------------------------
(* Access on a small instance: an administrator, a member that signs in    *)
(* through the identity provider, room for one more user, and an assertion *)
(* that outlives the time the library accepts it for.                      *)
EXTENDS Access, TLC

CONSTANTS u1, u2, u3, s1, s2

SomeUsers == {u1, u2, u3}
SomeSessions == {s1, s2}
OneAssertion == {[subject |-> "m", issued |-> 0, notOnOrAfter |-> 2]}
AccessSymmetry == Permutations(SomeUsers) \cup Permutations(SomeSessions)
=============================================================================
