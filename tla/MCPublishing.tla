---------------------------- MODULE MCPublishing ----------------------------
(* Two people and an API key, two valid documents and an invalid one.      *)
EXTENDS Experiments, TLC
CONSTANTS u1, u2, k1, good, better, bad, a, b

MCUsers == {u1, u2}
MCKeys == {k1}
MCContents == {good, better, bad}
MCInvalid == {bad}
AllKinds == {"journey", "form", "page", "pipeline", "template", "flag", "prompt", "scoring",
             "experiment"}

\* The better document splits on the experiment, and has no branch for b.
MCLabels == {a, b}
MCBound == {better}
MCPinned == [x \in MCBound \X MCLabels |-> IF x[2] = a THEN good ELSE NoContent]

\* The users are interchangeable: nothing orders them.
Symmetry == Permutations(MCUsers)
=============================================================================
