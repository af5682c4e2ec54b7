-------------------------- MODULE MCSettlementWorker --------------------------
(***************************************************************************)
(* SettlementWorker on a small instance: one campaign whose deposit two    *)
(* rows can use up, a clip whose cap two rows can exceed and an uncapped   *)
(* one, and a rate below a thousand, whose rate per view is zero.          *)
(***************************************************************************)
EXTENDS SettlementWorker

CONSTANTS k1, k2, org, agent, wallet

MCCampaignOf == [k \in Clips |-> 0]
MCWalletOf == [k \in Clips |-> wallet]
MCCapOf == [k \in Clips |-> IF k = k1 THEN 2 ELSE NoCap]
MCMaxCpm == [c \in CampaignIds |-> 1000]
MCCpmRates == {999, 1000}
MCViewDeltas == {0, 1, 2}
MCInitialDeposit == [c \in CampaignIds |-> 2]

AllFaults == {"crash", "rpc", "lost", "wait", "refuse"}
NoFaults == {}
CrashOnly == {"crash"}
=============================================================================
