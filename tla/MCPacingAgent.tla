---------------------------- MODULE MCPacingAgent ----------------------------
(***************************************************************************)
(* PacingAgent on a small instance: a campaign of two clips and one that   *)
(* never gets any; rates that the ceiling cuts and rates that it does not, *)
(* a release that leaves the runway below the threshold and a deposit that *)
(* lifts it, factors inside Claude's bound and outside.                    *)
(***************************************************************************)
EXTENDS PacingAgent

MCCampaignOf == [k \in Clips |-> 1]
MCCpmRate == [c \in Campaigns |-> 1000]
MCMaxCpm == [c \in Campaigns |-> 1200]
MCInitialDeposit == [c \in Campaigns |-> IF c = 1 THEN 10 ELSE 0]
MCMaxBudget == [c \in Campaigns |-> IF c = 1 THEN 20 ELSE 0]
=============================================================================
