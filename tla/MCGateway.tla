----------------------------- MODULE MCGateway -----------------------------
(* Gateway on a small instance.                                            *)
EXTENDS Gateway, TLC

CONSTANTS c1, c2, noConfig

TwoCallers == {c1, c2}
CallerSymmetry == Permutations(TwoCallers)
=============================================================================
