------------------------- MODULE MCJourneyDelivery --------------------------
(***************************************************************************)
(* Instances of JourneyDelivery for model checking.                        *)
(***************************************************************************)
EXTENDS JourneyDelivery
=============================================================================
