------------------------- MODULE MCEventProjection --------------------------
(***************************************************************************)
(* Instances of EventProjection for model checking: two events of one      *)
(* subject, each with a request of its own.                                *)
(***************************************************************************)
EXTENDS EventProjection

Keys == {"e1", "e2"}
SameIds == [e \in Keys |-> {"x"}]
Requests == {"q1", "q2"}
\* The batch of q1 repeats its event.
Repeats == [q \in Requests |-> IF q = "q1" THEN <<"e1", "e1">> ELSE <<"e2">>]
=============================================================================
