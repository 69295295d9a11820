---------------------------- MODULE MCOperations ----------------------------
(***************************************************************************)
(* Instances of Operations for model checking.                             *)
(***************************************************************************)
EXTENDS Operations, TLC
CONSTANTS j1, j2

Only(k) == (j1 :> k) @@ (j2 :> "unused")
EveryKind == {Only(k) : k \in Kind \ {"unused"}}
TwoSyncs == {(j1 :> "warehouse.sync") @@ (j2 :> "warehouse.sync")}

\* Each kind of job alone, and a source pipeline that is run twice.
AllKinds == EveryKind \cup TwoSyncs

\* Two batches of a file and of an audience, one of a source.
FewBatches == [k \in Kind |-> IF k = "warehouse.sync" THEN 1 ELSE 2]
=============================================================================
