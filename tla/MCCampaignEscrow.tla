--------------------------- MODULE MCCampaignEscrow ---------------------------
(***************************************************************************)
(* CampaignEscrow on a small instance: two campaigns, so that a call made  *)
(* for one can touch the other, two settlement ids and three accounts, any *)
(* of which may be organizer, agent or clipper.                            *)
(***************************************************************************)
EXTENDS CampaignEscrow

MCAmounts == 0 .. 2
\* The largest duration overflows createdAt + maxDuration after time 0.
MCDurations == {0, 1, UintMax}
=============================================================================
