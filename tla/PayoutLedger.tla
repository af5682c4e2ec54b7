----------------------------- MODULE PayoutLedger -----------------------------
(***************************************************************************)
(* What ClipStream promises about money, whatever its processes do: a      *)
(* settlement id is paid at most once and its payout never changes, money  *)
(* leaves a campaign only to a clipper or back to its organizer and never  *)
(* exceeds what was put in, and once the rest went back to the organizer   *)
(* the campaign is over.  CampaignEscrow and SettlementWorker implement    *)
(* it.                                                                     *)
(***************************************************************************)
EXTENDS Integers

CONSTANTS
    Campaigns,  \* the campaign ids
    Ids,        \* the settlement ids
    Payouts     \* every possible payout, records with campaign and amount

VARIABLES
    paid,       \* for each id: no payout yet, << >>, or its payout, <<p>>
    deposits,   \* for each campaign the money put in
    spent,      \* for each campaign the money paid to clippers
    refunds,    \* for each campaign the money returned to the organizer
    finished    \* the campaigns whose rest was returned

ledgerVars == <<paid, deposits, spent, refunds, finished>>

LedgerInit ==
    /\ paid = [i \in Ids |-> << >>]
    /\ deposits \in [Campaigns -> Nat]
    /\ spent = [c \in Campaigns |-> 0]
    /\ refunds = [c \in Campaigns |-> 0]
    /\ finished = {}

\* Money comes in only for campaigns that are not over, and never goes missing.
DepositsGrow ==
    /\ deposits' \in [Campaigns -> Nat]
    /\ \A c \in Campaigns : deposits'[c] >= deposits[c]
    /\ \A c \in finished : deposits'[c] = deposits[c]

Deposit ==
    /\ DepositsGrow
    /\ UNCHANGED <<paid, spent, refunds, finished>>

\* The payout of i is read from the step itself, so that Payouts may be infinite.
Pay(i) ==
    /\ paid[i] = << >>
    /\ paid'[i] # << >>
    /\ LET p == paid'[i][1]
       IN  /\ p \in Payouts
           /\ paid' = [paid EXCEPT ![i] = <<p>>]
           /\ p.campaign \notin finished
           /\ spent[p.campaign] + p.amount <= deposits[p.campaign]
           /\ spent' = [spent EXCEPT ![p.campaign] = @ + p.amount]
    /\ DepositsGrow
    /\ UNCHANGED <<refunds, finished>>

Refund(c) ==
    /\ c \notin finished
    /\ refunds' = [refunds EXCEPT ![c] = deposits[c] - spent[c]]
    /\ finished' = finished \cup {c}
    /\ DepositsGrow
    /\ deposits'[c] = deposits[c]
    /\ UNCHANGED <<paid, spent>>

LedgerNext ==
    \/ Deposit
    \/ \E i \in Ids : Pay(i)
    \/ \E c \in Campaigns : Refund(c)

LedgerSpec == LedgerInit /\ [][LedgerNext]_ledgerVars
=============================================================================
