--------------------------- MODULE CampaignCreation ---------------------------
(***************************************************************************)
(* An organizer creates or funds a campaign from a tab                     *)
(* (web/lib/circleTransactions.ts): Circle asks for a PIN, signs and sends *)
(* the transaction, the API server waits for it                            *)
(* (server/circleTransactions.ts), reads the new campaign's id from its    *)
(* receipt and indexes the campaign with the prices of the form            *)
(* (server/campaigns.ts).                                                  *)
(*                                                                         *)
(* A flow is one submission of a form; the organizer, a single Circle      *)
(* user, may have several in several tabs.  It is at one await at a time,  *)
(* in the tab or in a handler of the server, and whatever ends it there (a *)
(* request that fails, the server's death, the tab that is closed) leaves  *)
(* what it did so far.                                                     *)
(***************************************************************************)
EXTENDS Naturals, Sequences, FiniteSets

CONSTANTS
    Flows,
    Creates,            \* the flows that create a campaign; the others fund one
    ChallengePolls,     \* CHALLENGE_POLL_ATTEMPTS
    TransactionPolls    \* TX_POLL_ATTEMPTS

ASSUME CreationAssumption ==
    /\ Creates \subseteq Flows
    /\ ChallengePolls \in Nat \ {0}
    /\ TransactionPolls \in Nat \ {0}

VARIABLES
    flow,        \* where a flow is, and the locals it holds there
    approved,    \* challenges with the PIN, whose transaction is not sent yet
    txs,         \* Circle's CONTRACT_EXECUTION transactions, oldest first
    campaigns,   \* the campaigns of the contract; an id is a position
    rows         \* the table campaigns: an id, the flow whose prices it has, and
                 \* (history) whether that flow had guessed

vars == <<flow, approved, txs, campaigns, rows>>

InHandler == {"challenge", "list", "transaction", "resolve", "post", "details", "summary"}
Ended == {"done", "failed"}

\* tx is a position in txs, id a contract_campaign_id (a top-up's from the
\* beginning); guessed is history: the transaction came from listTransactions.
Flow == [at : {"idle"} \cup InHandler \cup Ended,
         polls : Nat, tx : Nat, id : Nat, guessed : BOOLEAN]
Transaction == [flow : Flows, id : Nat, state : {"sent", "confirmed", "failed"}]
Campaign == [by : Flows, topUps : SUBSET Flows]

TypeOK ==
    /\ flow \in [Flows -> Flow]
    /\ approved \subseteq Flows
    /\ txs \in Seq(Transaction)
    /\ campaigns \in Seq(Campaign)
    /\ rows \subseteq [id : 1..Len(campaigns), by : Creates, guessed : BOOLEAN]
    /\ \A f \in Flows :
         /\ flow[f].polls <= ChallengePolls + TransactionPolls
         /\ flow[f].at \in {"transaction", "resolve"} => flow[f].tx \in DOMAIN txs
         /\ flow[f].at \in {"post", "details", "summary"} => flow[f].id \in DOMAIN campaigns

Init ==
    /\ flow = [f \in Flows |-> [at |-> "idle", polls |-> 0, tx |-> 0, id |-> 0,
                                guessed |-> FALSE]]
    /\ approved = {}
    /\ txs = <<>>
    /\ campaigns = <<>>
    /\ rows = {}

\* The locals that the next step does not need are forgotten.
Goes(f, at) ==
    flow' = [flow EXCEPT ![f] =
        [at |-> at,
         polls |-> 0,
         tx |-> IF at = "resolve" THEN flow[f].tx ELSE 0,
         id |-> IF at \in Ended /\ f \in Creates THEN 0 ELSE flow[f].id,
         guessed |-> flow[f].guessed /\ at # "failed"]]

-----------------------------------------------------------------------------
(* The tab.  A form is submitted: a session is minted and a challenge      *)
(* started, which change nothing, and the PIN is asked for.  If it is      *)
(* entered the tab asks the server to finalize, unless it is closed before *)
(* that; or a request failed, or the transaction is not approved.  A       *)
(* top-up is for a campaign that is listed.                                *)
StartFlow(f) ==
    /\ flow[f].at = "idle"
    /\ \E at \in {"challenge", "failed"} :
         IF f \in Creates THEN Goes(f, at)
         ELSE \E r \in rows : flow' = [flow EXCEPT ![f].at = at, ![f].id = r.id]
    /\ \/ approved' = approved \cup {f}
       \/ flow'[f].at = "failed" /\ UNCHANGED approved
    /\ UNCHANGED <<txs, campaigns, rows>>

-----------------------------------------------------------------------------
(* Circle and the chain.                                                   *)

SendTransaction(f) ==
    /\ f \in approved
    /\ approved' = approved \ {f}
    /\ txs' = Append(txs, [flow |-> f, id |-> flow[f].id, state |-> "sent"])
    /\ UNCHANGED <<flow, campaigns, rows>>

(* The contract gives a new campaign the next id.                          *)
MineTransaction(i) ==
    /\ txs[i].state = "sent"
    /\ \/ /\ txs' = [txs EXCEPT ![i].state = "failed"]
          /\ UNCHANGED campaigns
       \/ LET f == txs[i].flow IN
          IF f \in Creates
            THEN /\ campaigns' = Append(campaigns, [by |-> f, topUps |-> {}])
                 /\ txs' = [txs EXCEPT ![i].state = "confirmed", ![i].id = Len(campaigns) + 1]
            ELSE /\ campaigns' = [campaigns EXCEPT ![txs[i].id].topUps = @ \cup {f}]
                 /\ txs' = [txs EXCEPT ![i].state = "confirmed"]
    /\ UNCHANGED <<flow, approved, rows>>

-----------------------------------------------------------------------------
(* The server: POST /circle-wallets/transactions/finalize.                 *)

(* Layer 1, by what Circle says of the challenge: complete, with the id of *)
(* the transaction; complete without it, or still not complete when the    *)
(* window is over, and the transactions are listed; failed; or pending.    *)
PollChallenge(f) ==
    /\ flow[f].at = "challenge"
    /\ \/ /\ \E i \in DOMAIN txs :
               /\ txs[i].flow = f
               /\ flow' = [flow EXCEPT ![f].at = "transaction", ![f].tx = i, ![f].polls = 0]
          /\ UNCHANGED approved
       \/ Goes(f, "list") /\ UNCHANGED approved
       \/ /\ f \in approved
          /\ approved' = approved \ {f}
          /\ Goes(f, "failed")
       \/ /\ flow[f].polls + 1 < ChallengePolls
          /\ flow' = [flow EXCEPT ![f].polls = @ + 1]
          /\ UNCHANGED approved
    /\ UNCHANGED <<txs, campaigns, rows>>

ListedTransaction(f, i) ==
    flow' = [flow EXCEPT ![f].at = "transaction", ![f].tx = i, ![f].polls = 0, ![f].guessed = TRUE]

(* The list is not expected to be empty.                                   *)
ListTransactionsUnchecked(f) ==
    /\ flow[f].at = "list"
    /\ ListedTransaction(f, Len(txs))
    /\ UNCHANGED <<approved, txs, campaigns, rows>>

(* The newest transaction is taken for the challenge's.                    *)
ListTransactions(f) ==
    /\ flow[f].at = "list"
    /\ IF txs = <<>> THEN Goes(f, "failed") ELSE ListedTransaction(f, Len(txs))
    /\ UNCHANGED <<approved, txs, campaigns, rows>>

Confirmed(f) == Goes(f, IF f \in Creates THEN "resolve" ELSE "done")

(* A transaction that was sent is believed to be as good as mined.         *)
PollTransactionOnce(f) ==
    /\ flow[f].at = "transaction"
    /\ IF txs[flow[f].tx].state = "failed" THEN Goes(f, "failed") ELSE Confirmed(f)
    /\ UNCHANGED <<approved, txs, campaigns, rows>>

(* The attempts are not counted.                                           *)
PollTransactionForever(f) ==
    /\ flow[f].at = "transaction"
    /\ \/ txs[flow[f].tx].state = "failed" /\ Goes(f, "failed")
       \/ txs[flow[f].tx].state = "confirmed" /\ Confirmed(f)
    /\ UNCHANGED <<approved, txs, campaigns, rows>>

(* Layer 2, until the transaction is in a terminal state or the window is  *)
(* over.  That is the end of a top-up.                                     *)
PollTransaction(f) ==
    /\ flow[f].at = "transaction"
    /\ \/ txs[flow[f].tx].state = "failed" /\ Goes(f, "failed")
       \/ txs[flow[f].tx].state = "confirmed" /\ Confirmed(f)
       \/ /\ txs[flow[f].tx].state = "sent"
          /\ IF flow[f].polls + 1 = TransactionPolls THEN Goes(f, "failed")
             ELSE flow' = [flow EXCEPT ![f].polls = @ + 1]
    /\ UNCHANGED <<approved, txs, campaigns, rows>>

-----------------------------------------------------------------------------
(* GET /campaigns/resolve-tx, POST /campaigns.                             *)

(* The id is what the contract's counter says.                             *)
ResolveByCount(f) ==
    /\ flow[f].at = "resolve"
    /\ flow' = [flow EXCEPT ![f].at = "post", ![f].id = Len(campaigns), ![f].tx = 0]
    /\ UNCHANGED <<approved, txs, campaigns, rows>>

(* The id is in the receipt's CampaignCreated.  A top-up has none, and a    *)
(* transaction that is not mined has no receipt.                           *)
ResolveTx(f) ==
    /\ flow[f].at = "resolve"
    /\ LET tx == txs[flow[f].tx] IN
       IF tx.flow \in Creates /\ tx.state = "confirmed"
         THEN flow' = [flow EXCEPT ![f].at = "post", ![f].id = tx.id, ![f].tx = 0]
         ELSE Goes(f, "failed")
    /\ UNCHANGED <<approved, txs, campaigns, rows>>

NewRow(f) == [id |-> flow[f].id, by |-> f, guessed |-> flow[f].guessed]
Indexed(id) == \E r \in rows : r.id = id

(* A campaign that is indexed is refused (409); then the chain is asked    *)
(* for its organizer, agent and terms.                                     *)
PostCampaign(f) ==
    /\ flow[f].at = "post"
    /\ Goes(f, IF Indexed(flow[f].id) THEN "failed" ELSE "details")
    /\ UNCHANGED <<approved, txs, campaigns, rows>>

(* contract_campaign_id is not UNIQUE.                                     *)
InsertCampaignTwice(f) ==
    /\ flow[f].at = "details"
    /\ rows' = rows \cup {NewRow(f)}
    /\ Goes(f, "summary")
    /\ UNCHANGED <<approved, txs, campaigns>>

(* The chain has answered: the row is inserted unless contract_campaign_id *)
(* is there by now (UNIQUE), and the chain is asked for the balance.       *)
InsertCampaign(f) ==
    /\ flow[f].at = "details"
    /\ IF Indexed(flow[f].id)
         THEN Goes(f, "failed") /\ UNCHANGED rows
         ELSE Goes(f, "summary") /\ rows' = rows \cup {NewRow(f)}
    /\ UNCHANGED <<approved, txs, campaigns>>

SummarizeCampaign(f) ==
    /\ flow[f].at = "summary"
    /\ Goes(f, "done")
    /\ UNCHANGED <<approved, txs, campaigns, rows>>

(* A request fails, or the server dies.  A tab that is closed ends the flow *)
(* no sooner than the handler it waits for, which goes on to its end: that  *)
(* is this step, taken after the handler's.                                *)
FlowFails(f) ==
    /\ flow[f].at \in InHandler
    /\ Goes(f, "failed")
    /\ UNCHANGED <<approved, txs, campaigns, rows>>

-----------------------------------------------------------------------------
HandlerStep(f) ==
    \/ PollChallenge(f)
    \/ ListTransactions(f)
    \/ PollTransaction(f)
    \/ ResolveTx(f)
    \/ PostCampaign(f)
    \/ InsertCampaign(f)
    \/ SummarizeCampaign(f)

Next ==
    \/ \E f \in Flows : StartFlow(f) \/ HandlerStep(f) \/ FlowFails(f)
    \/ \E f \in Flows : SendTransaction(f)
    \/ \E i \in DOMAIN txs : MineTransaction(i)

(* A handler goes on by itself, from one timer or answer to the next: the  *)
(* clients give every request an end.  Neither the user nor Circle nor the *)
(* chain is assumed to do anything.                                        *)
Spec == Init /\ [][Next]_vars /\ \A f \in Flows : WF_vars(HandlerStep(f))

-----------------------------------------------------------------------------
(* A campaign is indexed with the prices that its own creation was         *)
(* submitted with, unless the server had to guess the transaction, though  *)
(* other campaigns are created meanwhile (chain.ts:111-119).               *)
PricedAsEntered == \A r \in rows : r.guessed \/ campaigns[r.id].by = r.by

(* A campaign of the contract is one row, though two requests may both     *)
(* have found it missing before either inserted it (campaigns.ts:263).     *)
OneRowPerCampaign == \A r, s \in rows : r.id = s.id => r = s

(* What the form reports as created is on the chain and in the table with  *)
(* its prices, and what it reports as funded is in the campaign it was     *)
(* meant for, unless the transaction was guessed                           *)
(* (circleTransactions.ts:188-197).                                        *)
ReportsAreTrue ==
    \A f \in Flows : flow[f].at = "done" /\ ~flow[f].guessed =>
        IF f \in Creates
          THEN \E r \in rows : r.by = f /\ campaigns[r.id].by = f
          ELSE f \in campaigns[flow[f].id].topUps

(* Once the PIN is entered, the form stops saying "Working" even if Circle *)
(* never completes the challenge and the chain never mines                 *)
(* (circleTransactions.ts:222, 246).                                       *)
FlowsEnd ==
    \A f \in Flows : flow[f].at \in InHandler ~> flow[f].at \in Ended
=============================================================================
