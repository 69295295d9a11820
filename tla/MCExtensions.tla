---------------------------- MODULE MCExtensions ----------------------------
(* Extensions on a small instance.                                         *)
EXTENDS Extensions, TLC

CONSTANTS c1, c2

TwoCallers == {c1, c2}
\* A remote version that verifies, and a local one that does not.
TwoManifests == {[signed |-> TRUE, remote |-> TRUE], [signed |-> FALSE, remote |-> FALSE]}
CallerSymmetry == Permutations(TwoCallers)
=============================================================================
