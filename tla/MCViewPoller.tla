----------------------------- MODULE MCViewPoller -----------------------------
(***************************************************************************)
(* ViewPoller on a small instance: clips of one campaign, a plausible rate *)
(* that three views in one tick exceed, and rates on both sides of a whole *)
(* amount per view.                                                        *)
(***************************************************************************)
EXTENDS ViewPoller

MCCampaignOf == [k \in Clips |-> 1]
MCCpmRate == [c \in Campaigns |-> 1000]
MCMaxCpm == [c \in Campaigns |-> 1999]

AllFaults == {"crash", "x", "dip", "clock", "stamp"}
XErrors == {"x"}
CrashOnly == {"crash"}
=============================================================================
