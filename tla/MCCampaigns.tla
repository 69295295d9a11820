---------------------------- MODULE MCCampaigns -----------------------------
(***************************************************************************)
(* Instances of Campaigns for model checking.                              *)
(***************************************************************************)
EXTENDS Campaigns, TLC
CONSTANTS r1, r2, p1, p2

TwoProfiles == (r1 :> p1) @@ (r2 :> p2)

\* Nobody, one recipient, or two shards of one recipient each.
SmallAudiences == {<<>>, <<<<r1>>>>, <<<<r1>>, <<r2>>>>}
=============================================================================
