-------------------------- MODULE MCCampaignCreation --------------------------
(***************************************************************************)
(* CampaignCreation on a small instance: two submissions of the creation   *)
(* form and one of the funding form, and windows of two polls.             *)
(***************************************************************************)
EXTENDS CampaignCreation

CONSTANTS mine, again, fund

MCFlows == {mine, again, fund}
MCCreates == {mine, again}
=============================================================================
