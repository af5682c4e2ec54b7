------------------------ MODULE CampaignCreationProofs ------------------------
(***************************************************************************)
(* The safety properties of CampaignCreation, for every set of flows and   *)
(* every length of the polling windows.                                    *)
(*                                                                         *)
(* A row has the prices of its own campaign because of what every station  *)
(* on the way to it knows (FlowOK): the transaction that is polled is the  *)
(* flow's own unless it was guessed, a transaction that is confirmed names *)
(* the campaign its flow created (TxOK), and so does the id that is posted.*)
(***************************************************************************)
EXTENDS CampaignCreation, TLAPS

\* A transaction's flow has begun; a top-up is for the flow's campaign; one that
\* is confirmed did what its flow asked for.
TxOK(tx) ==
    /\ flow[tx.flow].at # "idle"
    /\ tx.flow \notin Creates => tx.id \in DOMAIN campaigns /\ tx.id = flow[tx.flow].id
    /\ tx.state = "confirmed" =>
         /\ tx.id \in DOMAIN campaigns
         /\ IF tx.flow \in Creates THEN campaigns[tx.id].by = tx.flow
                                   ELSE tx.flow \in campaigns[tx.id].topUps

FlowOK(f) ==
    /\ f \in approved => flow[f].at # "idle"
    /\ f \notin Creates /\ flow[f].at # "idle" => flow[f].id \in DOMAIN campaigns
    /\ flow[f].at = "transaction" => flow[f].polls < TransactionPolls
    /\ flow[f].at \in {"resolve", "post", "details", "summary"} => f \in Creates
    /\ flow[f].at \in {"transaction", "resolve"} /\ ~flow[f].guessed => txs[flow[f].tx].flow = f
    /\ flow[f].at \in {"post", "details", "summary"} /\ ~flow[f].guessed
         => campaigns[flow[f].id].by = f
    /\ flow[f].at = "summary" => \E r \in rows : r.by = f /\ r.id = flow[f].id

\* What the form reports, of one flow (ReportsAreTrue is this of every flow).
ReportOK(f) ==
    flow[f].at = "done" /\ ~flow[f].guessed =>
        IF f \in Creates
          THEN \E r \in rows : r.by = f /\ campaigns[r.id].by = f
          ELSE f \in campaigns[flow[f].id].topUps

IInv ==
    /\ TypeOK
    /\ \A i \in DOMAIN txs : TxOK(txs[i])
    /\ \A f \in Flows : FlowOK(f) /\ ReportOK(f)
    /\ PricedAsEntered
    /\ OneRowPerCampaign

-----------------------------------------------------------------------------
LEMMA InitSatisfiesIInv == Init => IInv
<1> SUFFICES ASSUME Init PROVE IInv
  OBVIOUS
<1>1. TypeOK
  BY CreationAssumption DEF Init, TypeOK, Flow
<1>2. \A f \in Flows : FlowOK(f) /\ ReportOK(f)
  BY DEF Init, FlowOK, ReportOK
<1>3. \A i \in DOMAIN txs : TxOK(txs[i])
  BY DEF Init
<1>4. QED
  BY <1>1, <1>2, <1>3 DEF Init, IInv, PricedAsEntered, OneRowPerCampaign

-----------------------------------------------------------------------------
(* The steps of a flow.                                                    *)

LEMMA GoesEffect ==
    ASSUME flow \in [Flows -> Flow], NEW f \in Flows, NEW at \in InHandler \cup Ended, Goes(f, at)
    PROVE  /\ flow' \in [Flows -> Flow]
           /\ flow'[f].at = at
           /\ flow'[f].polls = 0
           /\ at = "resolve" => flow'[f].tx = flow[f].tx
           /\ (at \notin Ended \/ f \notin Creates) => flow'[f].id = flow[f].id
           /\ at # "failed" => flow'[f].guessed = flow[f].guessed
           /\ \A g \in Flows \ {f} : flow'[g] = flow[g]
<1> DEFINE to == [at |-> at, polls |-> 0,
                  tx |-> IF at = "resolve" THEN flow[f].tx ELSE 0,
                  id |-> IF at \in Ended /\ f \in Creates THEN 0 ELSE flow[f].id,
                  guessed |-> flow[f].guessed /\ at # "failed"]
<1>1. flow[f] \in Flow
  OBVIOUS
<1>2. flow' = [flow EXCEPT ![f] = to]
  BY DEF Goes
<1>3. to \in Flow
  BY <1>1 DEF Flow
<1>4. flow'[f] = to
  BY <1>2
<1>5. /\ flow'[f].at = at
      /\ flow'[f].polls = 0
      /\ at = "resolve" => flow'[f].tx = flow[f].tx
      /\ (at \notin Ended \/ f \notin Creates) => flow'[f].id = flow[f].id
  BY <1>4
<1>6. at # "failed" => flow'[f].guessed = flow[f].guessed
  <2>1. flow[f].guessed \in BOOLEAN
    BY <1>1 DEF Flow
  <2>2. flow'[f].guessed = (flow[f].guessed /\ at # "failed")
    BY <1>4
  <2>3. QED
    BY <2>1, <2>2
<1>7. flow' \in [Flows -> Flow] /\ \A g \in Flows \ {f} : flow'[g] = flow[g]
  BY <1>2, <1>3
<1>8. QED
  BY <1>5, <1>6, <1>7

\* What is left to show of a step of one flow that is under way.
LEMMA StepOfFlow ==
    ASSUME IInv, NEW f \in Flows,
           UNCHANGED <<txs, campaigns>>, approved' \subseteq approved, rows \subseteq rows',
           flow' \in [Flows -> Flow], \A g \in Flows \ {f} : flow'[g] = flow[g],
           flow'[f].at # "idle", f \notin Creates => flow'[f].id = flow[f].id,
           flow'[f].polls <= ChallengePolls + TransactionPolls,
           flow'[f].at \in {"transaction", "resolve"} => flow'[f].tx \in DOMAIN txs,
           flow'[f].at \in {"post", "details", "summary"} => flow'[f].id \in DOMAIN campaigns,
           rows' \subseteq [id : 1..Len(campaigns), by : Creates, guessed : BOOLEAN],
           FlowOK(f)', ReportOK(f)', PricedAsEntered', OneRowPerCampaign'
    PROVE  IInv'
<1>1. TypeOK'
  BY DEF IInv, TypeOK
<1>2. ASSUME NEW g \in Flows \ {f} PROVE FlowOK(g)' /\ ReportOK(g)'
  <2>1. FlowOK(g) /\ ReportOK(g) /\ flow'[g] = flow[g]
    BY DEF IInv
  <2>2. QED
    BY <2>1 DEF FlowOK, ReportOK
<1>3. ASSUME NEW i \in DOMAIN txs PROVE TxOK(txs[i])'
  <2>1. TxOK(txs[i])
    BY DEF IInv
  <2>2. txs[i] \in Transaction
    BY DEF IInv, TypeOK
  <2>3. txs[i].flow \in Flows
    BY <2>2 DEF Transaction
  <2>4. QED
    BY <2>1, <2>3 DEF TxOK
<1>4. QED
  BY <1>1, <1>2, <1>3 DEF IInv

\* A flow may always give up.
LEMMA FailKeepsIInv ==
    ASSUME IInv, NEW f \in Flows, flow[f].at # "idle", Goes(f, "failed"),
           approved' \subseteq approved, UNCHANGED <<txs, campaigns, rows>>
    PROVE  IInv'
<1>1. /\ flow' \in [Flows -> Flow]
      /\ flow'[f].at = "failed" /\ flow'[f].polls = 0
      /\ f \notin Creates => flow'[f].id = flow[f].id
      /\ \A g \in Flows \ {f} : flow'[g] = flow[g]
  <2>1. "failed" \in InHandler \cup Ended
    BY DEF Ended
  <2>2. flow \in [Flows -> Flow]
    BY DEF IInv, TypeOK
  <2>3. QED
    BY <2>1, <2>2, GoesEffect
<1>2. FlowOK(f)' /\ ReportOK(f)'
  BY <1>1 DEF IInv, FlowOK, ReportOK
<1>3. 0 <= ChallengePolls + TransactionPolls
  BY CreationAssumption
<1>4. QED
  BY <1>1, <1>2, <1>3, StepOfFlow DEF IInv, TypeOK, PricedAsEntered, OneRowPerCampaign

LEMMA StartFlowKeepsIInv ==
    ASSUME IInv, NEW f \in Flows, StartFlow(f) PROVE IInv'
<1>1. /\ flow[f].at = "idle" /\ UNCHANGED <<txs, campaigns, rows>>
      /\ approved' \subseteq approved \cup {f}
  BY DEF StartFlow
<1>2. /\ flow' \in [Flows -> Flow]
      /\ \A g \in Flows \ {f} : flow'[g] = flow[g]
      /\ flow'[f].at \in {"challenge", "failed"}
      /\ flow'[f].polls <= ChallengePolls + TransactionPolls
      /\ f \notin Creates => flow'[f].id \in DOMAIN campaigns
  <2>1. PICK at \in {"challenge", "failed"} :
          IF f \in Creates THEN Goes(f, at)
          ELSE \E r \in rows : flow' = [flow EXCEPT ![f].at = at, ![f].id = r.id]
    BY DEF StartFlow
  <2>2. at \in InHandler \cup Ended
    BY <2>1 DEF InHandler, Ended
  <2>3. flow \in [Flows -> Flow] /\ flow[f] \in Flow /\ flow[f].polls <= ChallengePolls + TransactionPolls
    BY DEF IInv, TypeOK
  <2>4. CASE f \in Creates
    <3>1. Goes(f, at)
      BY <2>1, <2>4
    <3>2. /\ flow' \in [Flows -> Flow] /\ \A g \in Flows \ {f} : flow'[g] = flow[g]
          /\ flow'[f].at = at /\ flow'[f].polls = 0
      BY <2>2, <2>3, <3>1, GoesEffect
    <3>3. QED
      BY <2>1, <2>4, <3>2, CreationAssumption
  <2>5. CASE f \notin Creates
    <3>1. PICK r \in rows : flow' = [flow EXCEPT ![f].at = at, ![f].id = r.id]
      BY <2>1, <2>5
    <3>2. r.id \in 1..Len(campaigns) /\ 1..Len(campaigns) = DOMAIN campaigns
      BY DEF IInv, TypeOK
    <3>3. [flow[f] EXCEPT !.at = at, !.id = r.id] \in Flow
      <4>1. r.id \in Nat
        BY <3>2
      <4>2. QED
        BY <2>2, <2>3, <4>1 DEF Flow
    <3>4. /\ flow'[f].at = at /\ flow'[f].id = r.id /\ flow'[f].polls = flow[f].polls
          /\ \A g \in Flows \ {f} : flow'[g] = flow[g]
      BY <2>3, <3>1 DEF Flow
    <3>5. QED
      BY <2>1, <2>3, <3>1, <3>2, <3>3, <3>4
  <2>6. QED
    BY <2>4, <2>5
<1>3. TypeOK'
  BY <1>1, <1>2 DEF IInv, TypeOK
<1>4. ASSUME NEW g \in Flows PROVE FlowOK(g)' /\ ReportOK(g)'
  <2>1. FlowOK(g) /\ ReportOK(g)
    BY DEF IInv
  <2>2. QED
    BY <1>1, <1>2, <2>1 DEF FlowOK, ReportOK
<1>5. ASSUME NEW i \in DOMAIN txs PROVE TxOK(txs[i])'
  <2>1. TxOK(txs[i])
    BY DEF IInv
  <2>2. txs[i] \in Transaction
    BY DEF IInv, TypeOK
  <2>3. txs[i].flow \in Flows \ {f}
    BY <1>1, <2>1, <2>2 DEF Transaction, TxOK
  <2>4. QED
    BY <1>1, <1>2, <2>1, <2>3 DEF TxOK
<1>6. PricedAsEntered' /\ OneRowPerCampaign'
  BY <1>1 DEF IInv, PricedAsEntered, OneRowPerCampaign
<1>7. QED
  BY <1>1, <1>3, <1>4, <1>5, <1>6 DEF IInv

LEMMA PollChallengeKeepsIInv ==
    ASSUME IInv, NEW f \in Flows, PollChallenge(f) PROVE IInv'
<1>1. /\ flow[f].at = "challenge" /\ UNCHANGED <<txs, campaigns, rows>> /\ approved' \subseteq approved
      /\ flow \in [Flows -> Flow] /\ flow[f] \in Flow
  BY DEF PollChallenge, IInv, TypeOK
<1>2. FlowOK(f) /\ ReportOK(f)
  BY DEF IInv
<1>3. ASSUME NEW i \in DOMAIN txs, txs[i].flow = f,
             flow' = [flow EXCEPT ![f].at = "transaction", ![f].tx = i, ![f].polls = 0]
      PROVE  IInv'
  <2>1. i \in Nat
    BY DEF IInv, TypeOK
  <2>2. [flow[f] EXCEPT !.at = "transaction", !.tx = i, !.polls = 0] \in Flow
    BY <1>1, <2>1 DEF Flow, InHandler
  <2>3. /\ flow' \in [Flows -> Flow] /\ \A g \in Flows \ {f} : flow'[g] = flow[g]
        /\ flow'[f].at = "transaction" /\ flow'[f].tx = i /\ flow'[f].polls = 0
        /\ flow'[f].id = flow[f].id
    BY <1>1, <1>3, <2>2 DEF Flow
  <2>4. FlowOK(f)' /\ ReportOK(f)'
    BY <1>1, <1>2, <1>3, <2>3, CreationAssumption DEF FlowOK, ReportOK
  <2>5. QED
    BY <1>1, <2>3, <2>4, StepOfFlow, CreationAssumption
       DEF IInv, TypeOK, PricedAsEntered, OneRowPerCampaign
<1>4. CASE Goes(f, "list")
  <2>1. /\ flow' \in [Flows -> Flow] /\ \A g \in Flows \ {f} : flow'[g] = flow[g]
        /\ flow'[f].at = "list" /\ flow'[f].polls = 0
        /\ f \notin Creates => flow'[f].id = flow[f].id
    <3>1. "list" \in InHandler \cup Ended
      BY DEF InHandler
    <3>2. QED
      BY <1>1, <1>4, <3>1, GoesEffect
  <2>2. FlowOK(f)' /\ ReportOK(f)'
    BY <1>1, <1>2, <2>1 DEF FlowOK, ReportOK
  <2>3. QED
    BY <1>1, <2>1, <2>2, StepOfFlow, CreationAssumption
       DEF IInv, TypeOK, PricedAsEntered, OneRowPerCampaign
<1>5. CASE Goes(f, "failed")
  BY <1>1, <1>5, FailKeepsIInv
<1>6. CASE flow[f].polls + 1 < ChallengePolls /\ flow' = [flow EXCEPT ![f].polls = @ + 1]
  <2>1. /\ flow' \in [Flows -> Flow] /\ \A g \in Flows \ {f} : flow'[g] = flow[g]
        /\ flow'[f].at = "challenge" /\ flow'[f].polls = flow[f].polls + 1
        /\ flow'[f].id = flow[f].id
    BY <1>1, <1>6 DEF Flow
  <2>2. FlowOK(f)' /\ ReportOK(f)'
    BY <1>1, <1>2, <2>1 DEF FlowOK, ReportOK
  <2>3. flow'[f].polls <= ChallengePolls + TransactionPolls
    BY <1>1, <1>6, <2>1, CreationAssumption DEF Flow
  <2>4. QED
    BY <1>1, <2>1, <2>2, <2>3, StepOfFlow DEF IInv, TypeOK, PricedAsEntered, OneRowPerCampaign
<1>7. QED
  BY <1>3, <1>4, <1>5, <1>6 DEF PollChallenge

LEMMA ListTransactionsKeepsIInv ==
    ASSUME IInv, NEW f \in Flows, ListTransactions(f) PROVE IInv'
<1>1. /\ flow[f].at = "list" /\ UNCHANGED <<approved, txs, campaigns, rows>>
      /\ flow \in [Flows -> Flow] /\ flow[f] \in Flow
  BY DEF ListTransactions, IInv, TypeOK
<1>2. FlowOK(f) /\ ReportOK(f)
  BY DEF IInv
<1>3. CASE Goes(f, "failed")
  BY <1>1, <1>3, FailKeepsIInv
<1>4. CASE txs # <<>> /\ ListedTransaction(f, Len(txs))
  <2>1. Len(txs) \in Nat /\ Len(txs) \in DOMAIN txs
    BY <1>4 DEF IInv, TypeOK
  <2>2. [flow[f] EXCEPT !.at = "transaction", !.tx = Len(txs), !.polls = 0, !.guessed = TRUE] \in Flow
    BY <1>1, <2>1 DEF Flow, InHandler
  <2>3. /\ flow' \in [Flows -> Flow] /\ \A g \in Flows \ {f} : flow'[g] = flow[g]
        /\ flow'[f].at = "transaction" /\ flow'[f].tx = Len(txs) /\ flow'[f].polls = 0
        /\ flow'[f].guessed /\ flow'[f].id = flow[f].id
    BY <1>1, <1>4, <2>2 DEF Flow, ListedTransaction
  <2>4. FlowOK(f)' /\ ReportOK(f)'
    BY <1>1, <1>2, <2>3, CreationAssumption DEF FlowOK, ReportOK
  <2>5. QED
    BY <1>1, <2>1, <2>3, <2>4, StepOfFlow, CreationAssumption
       DEF IInv, TypeOK, PricedAsEntered, OneRowPerCampaign
<1>5. QED
  BY <1>3, <1>4 DEF ListTransactions

LEMMA PollTransactionKeepsIInv ==
    ASSUME IInv, NEW f \in Flows, PollTransaction(f) PROVE IInv'
<1> DEFINE tx == txs[flow[f].tx]
<1>1. /\ flow[f].at = "transaction" /\ UNCHANGED <<approved, txs, campaigns, rows>>
      /\ flow \in [Flows -> Flow] /\ flow[f] \in Flow
      /\ flow[f].tx \in DOMAIN txs
  BY DEF PollTransaction, IInv, TypeOK
<1>2. FlowOK(f) /\ ReportOK(f) /\ TxOK(tx)
  BY <1>1 DEF IInv
<1>3. CASE Goes(f, "failed")
  BY <1>1, <1>3, FailKeepsIInv
<1>4. CASE tx.state = "confirmed" /\ f \in Creates /\ Goes(f, "resolve")
  <2>1. /\ flow' \in [Flows -> Flow] /\ \A g \in Flows \ {f} : flow'[g] = flow[g]
        /\ flow'[f].at = "resolve" /\ flow'[f].polls = 0 /\ flow'[f].tx = flow[f].tx
        /\ flow'[f].guessed = flow[f].guessed
    <3>1. "resolve" \in InHandler \cup Ended
      BY DEF InHandler
    <3>2. QED
      BY <1>1, <1>4, <3>1, GoesEffect
  <2>2. FlowOK(f)' /\ ReportOK(f)'
    BY <1>1, <1>2, <1>4, <2>1 DEF FlowOK, ReportOK
  <2>3. QED
    BY <1>1, <1>4, <2>1, <2>2, StepOfFlow, CreationAssumption
       DEF IInv, TypeOK, PricedAsEntered, OneRowPerCampaign
<1>5. CASE tx.state = "confirmed" /\ f \notin Creates /\ Goes(f, "done")
  <2>1. /\ flow' \in [Flows -> Flow] /\ \A g \in Flows \ {f} : flow'[g] = flow[g]
        /\ flow'[f].at = "done" /\ flow'[f].polls = 0 /\ flow'[f].id = flow[f].id
        /\ flow'[f].guessed = flow[f].guessed
    <3>1. "done" \in InHandler \cup Ended
      BY DEF Ended
    <3>2. QED
      BY <1>1, <1>5, <3>1, GoesEffect
  <2>2. ~flow[f].guessed => f \in campaigns[flow[f].id].topUps
    BY <1>1, <1>2, <1>5 DEF FlowOK, TxOK
  <2>3. FlowOK(f)' /\ ReportOK(f)'
    BY <1>1, <1>2, <1>5, <2>1, <2>2 DEF FlowOK, ReportOK
  <2>4. QED
    BY <1>1, <1>5, <2>1, <2>3, StepOfFlow, CreationAssumption
       DEF IInv, TypeOK, PricedAsEntered, OneRowPerCampaign
<1>6. CASE flow[f].polls + 1 # TransactionPolls /\ flow' = [flow EXCEPT ![f].polls = @ + 1]
  <2>1. /\ flow' \in [Flows -> Flow] /\ \A g \in Flows \ {f} : flow'[g] = flow[g]
        /\ flow'[f].at = "transaction" /\ flow'[f].polls = flow[f].polls + 1
        /\ flow'[f].id = flow[f].id /\ flow'[f].tx = flow[f].tx
        /\ flow'[f].guessed = flow[f].guessed
    BY <1>1, <1>6 DEF Flow
  <2>2. flow'[f].polls < TransactionPolls
    BY <1>1, <1>2, <1>6, <2>1, CreationAssumption DEF FlowOK, Flow
  <2>3. FlowOK(f)' /\ ReportOK(f)'
    BY <1>1, <1>2, <2>1, <2>2 DEF FlowOK, ReportOK
  <2>4. flow'[f].polls <= ChallengePolls + TransactionPolls
    BY <1>1, <2>1, <2>2, CreationAssumption DEF Flow
  <2>5. QED
    BY <1>1, <2>1, <2>3, <2>4, StepOfFlow DEF IInv, TypeOK, PricedAsEntered, OneRowPerCampaign
<1>7. QED
  BY <1>3, <1>4, <1>5, <1>6 DEF PollTransaction, Confirmed

LEMMA ResolveTxKeepsIInv ==
    ASSUME IInv, NEW f \in Flows, ResolveTx(f) PROVE IInv'
<1> DEFINE tx == txs[flow[f].tx]
<1>1. /\ flow[f].at = "resolve" /\ UNCHANGED <<approved, txs, campaigns, rows>>
      /\ flow \in [Flows -> Flow] /\ flow[f] \in Flow
      /\ flow[f].polls <= ChallengePolls + TransactionPolls
      /\ flow[f].tx \in DOMAIN txs /\ DOMAIN campaigns \subseteq Nat
  BY DEF ResolveTx, IInv, TypeOK
<1>2. FlowOK(f) /\ ReportOK(f) /\ TxOK(tx)
  BY <1>1 DEF IInv
<1>3. CASE Goes(f, "failed")
  BY <1>1, <1>3, FailKeepsIInv
<1>4. CASE /\ tx.flow \in Creates /\ tx.state = "confirmed"
           /\ flow' = [flow EXCEPT ![f].at = "post", ![f].id = tx.id, ![f].tx = 0]
  <2>1. tx.id \in DOMAIN campaigns /\ campaigns[tx.id].by = tx.flow
    BY <1>2, <1>4 DEF TxOK
  <2>2. [flow[f] EXCEPT !.at = "post", !.id = tx.id, !.tx = 0] \in Flow
    BY <1>1, <2>1 DEF Flow, InHandler
  <2>3. /\ flow' \in [Flows -> Flow] /\ \A g \in Flows \ {f} : flow'[g] = flow[g]
        /\ flow'[f].at = "post" /\ flow'[f].id = tx.id /\ flow'[f].polls = flow[f].polls
        /\ flow'[f].guessed = flow[f].guessed
    BY <1>1, <1>4, <2>2 DEF Flow
  <2>4. f \in Creates /\ (~flow[f].guessed => tx.flow = f)
    BY <1>1, <1>2 DEF FlowOK
  <2>5. FlowOK(f)' /\ ReportOK(f)'
    BY <1>1, <2>1, <2>3, <2>4 DEF FlowOK, ReportOK
  <2>6. QED
    BY <1>1, <2>1, <2>3, <2>4, <2>5, StepOfFlow DEF IInv, TypeOK, PricedAsEntered, OneRowPerCampaign
<1>5. QED
  BY <1>3, <1>4 DEF ResolveTx

LEMMA PostCampaignKeepsIInv ==
    ASSUME IInv, NEW f \in Flows, PostCampaign(f) PROVE IInv'
<1>1. /\ flow[f].at = "post" /\ UNCHANGED <<approved, txs, campaigns, rows>>
      /\ flow \in [Flows -> Flow] /\ flow[f].id \in DOMAIN campaigns
  BY DEF PostCampaign, IInv, TypeOK
<1>2. FlowOK(f) /\ ReportOK(f)
  BY DEF IInv
<1>3. CASE Goes(f, "failed")
  BY <1>1, <1>3, FailKeepsIInv
<1>4. CASE Goes(f, "details")
  <2>1. /\ flow' \in [Flows -> Flow] /\ \A g \in Flows \ {f} : flow'[g] = flow[g]
        /\ flow'[f].at = "details" /\ flow'[f].polls = 0 /\ flow'[f].id = flow[f].id
        /\ flow'[f].guessed = flow[f].guessed
    <3>1. "details" \in InHandler \cup Ended /\ "details" \notin Ended
      BY DEF InHandler, Ended
    <3>2. QED
      BY <1>1, <1>4, <3>1, GoesEffect
  <2>2. FlowOK(f)' /\ ReportOK(f)'
    BY <1>1, <1>2, <2>1 DEF FlowOK, ReportOK
  <2>3. QED
    <3>1. 0 <= ChallengePolls + TransactionPolls
      BY CreationAssumption
    <3>2. QED
      BY <1>1, <2>1, <2>2, <3>1, StepOfFlow DEF IInv, TypeOK, PricedAsEntered, OneRowPerCampaign
<1>5. QED
  BY <1>3, <1>4 DEF PostCampaign

LEMMA InsertCampaignKeepsIInv ==
    ASSUME IInv, NEW f \in Flows, InsertCampaign(f) PROVE IInv'
<1>1. /\ flow[f].at = "details" /\ UNCHANGED <<approved, txs, campaigns>>
      /\ flow \in [Flows -> Flow] /\ flow[f] \in Flow /\ flow[f].id \in DOMAIN campaigns
      /\ DOMAIN campaigns = 1..Len(campaigns)
  BY DEF InsertCampaign, IInv, TypeOK
<1>2. FlowOK(f) /\ ReportOK(f)
  BY DEF IInv
<1>3. CASE Indexed(flow[f].id)
  BY <1>1, <1>3, FailKeepsIInv DEF InsertCampaign
<1>4. CASE ~Indexed(flow[f].id)
  <2>1. Goes(f, "summary") /\ rows' = rows \cup {NewRow(f)}
    BY <1>4 DEF InsertCampaign
  <2>2. /\ flow' \in [Flows -> Flow] /\ \A g \in Flows \ {f} : flow'[g] = flow[g]
        /\ flow'[f].at = "summary" /\ flow'[f].polls = 0 /\ flow'[f].id = flow[f].id
        /\ flow'[f].guessed = flow[f].guessed
    <3>1. "summary" \in InHandler \cup Ended /\ "summary" \notin Ended
      BY DEF InHandler, Ended
    <3>2. QED
      BY <1>1, <2>1, <3>1, GoesEffect
  <2>3. f \in Creates /\ (flow[f].guessed \/ campaigns[flow[f].id].by = f)
    BY <1>1, <1>2 DEF FlowOK
  <2>4. /\ NewRow(f).id = flow[f].id /\ NewRow(f).by = f /\ NewRow(f).guessed = flow[f].guessed
        /\ NewRow(f) \in [id : 1..Len(campaigns), by : Creates, guessed : BOOLEAN]
    BY <1>1, <2>3 DEF NewRow, Flow
  <2>5. FlowOK(f)' /\ ReportOK(f)'
    BY <1>1, <1>2, <2>1, <2>2, <2>3, <2>4 DEF FlowOK, ReportOK
  <2>6. PricedAsEntered'
    BY <1>1, <2>1, <2>3, <2>4 DEF IInv, PricedAsEntered
  <2>7. OneRowPerCampaign'
    BY <1>4, <2>1, <2>4 DEF IInv, OneRowPerCampaign, Indexed
  <2>8. rows' \subseteq [id : 1..Len(campaigns), by : Creates, guessed : BOOLEAN]
    BY <2>1, <2>4 DEF IInv, TypeOK
  <2>9. 0 <= ChallengePolls + TransactionPolls
    BY CreationAssumption
  <2> HIDE DEF NewRow
  <2>10. QED
    BY <1>1, <2>1, <2>2, <2>5, <2>6, <2>7, <2>8, <2>9, StepOfFlow
<1>5. QED
  BY <1>3, <1>4

LEMMA SummarizeCampaignKeepsIInv ==
    ASSUME IInv, NEW f \in Flows, SummarizeCampaign(f) PROVE IInv'
<1>1. /\ flow[f].at = "summary" /\ UNCHANGED <<approved, txs, campaigns, rows>>
      /\ flow \in [Flows -> Flow] /\ Goes(f, "done")
  BY DEF SummarizeCampaign, IInv, TypeOK
<1>2. FlowOK(f) /\ ReportOK(f)
  BY DEF IInv
<1>3. /\ flow' \in [Flows -> Flow] /\ \A g \in Flows \ {f} : flow'[g] = flow[g]
      /\ flow'[f].at = "done" /\ flow'[f].polls = 0
      /\ flow'[f].guessed = flow[f].guessed
  <2>1. "done" \in InHandler \cup Ended
    BY DEF Ended
  <2>2. QED
    BY <1>1, <2>1, GoesEffect
<1>4. f \in Creates
  BY <1>1, <1>2 DEF FlowOK
<1>5. ~flow[f].guessed => \E r \in rows : r.by = f /\ campaigns[r.id].by = f
  BY <1>1, <1>2 DEF FlowOK
<1>6. FlowOK(f)' /\ ReportOK(f)'
  BY <1>1, <1>2, <1>3, <1>4, <1>5 DEF FlowOK, ReportOK
<1>7. QED
  BY <1>1, <1>3, <1>4, <1>6, StepOfFlow, CreationAssumption
     DEF IInv, TypeOK, PricedAsEntered, OneRowPerCampaign

-----------------------------------------------------------------------------
(* The steps of Circle and the chain.                                      *)

\* Transactions keep their place and their flow, campaigns their creator and
\* what they have received: then every flow knows what it knew.
LEMMA StepOfChain ==
    ASSUME IInv, UNCHANGED <<flow, rows>>, approved' \subseteq approved,
           DOMAIN txs \subseteq DOMAIN txs', \A i \in DOMAIN txs : txs'[i].flow = txs[i].flow,
           DOMAIN campaigns \subseteq DOMAIN campaigns',
           \A i \in DOMAIN campaigns :
             campaigns'[i].by = campaigns[i].by /\ campaigns[i].topUps \subseteq campaigns'[i].topUps
    PROVE  /\ \A f \in Flows : FlowOK(f)' /\ ReportOK(f)'
           /\ PricedAsEntered' /\ OneRowPerCampaign'
<1>1. \A r \in rows : r.id \in DOMAIN campaigns
  BY DEF IInv, TypeOK
<1>2. ASSUME NEW f \in Flows PROVE FlowOK(f)' /\ ReportOK(f)'
  <2>1. /\ FlowOK(f) /\ ReportOK(f)
        /\ flow[f].at \in {"transaction", "resolve"} => flow[f].tx \in DOMAIN txs
        /\ flow[f].at \in {"post", "details", "summary"} => flow[f].id \in DOMAIN campaigns
    BY DEF IInv, TypeOK
  <2>2. FlowOK(f)'
    BY <2>1 DEF FlowOK
  <2>3. ReportOK(f)'
    BY <1>1, <2>1 DEF FlowOK, ReportOK
  <2>4. QED
    BY <2>2, <2>3
<1>3. PricedAsEntered' /\ OneRowPerCampaign'
  BY <1>1 DEF IInv, PricedAsEntered, OneRowPerCampaign
<1>4. QED
  BY <1>2, <1>3

LEMMA SendTransactionKeepsIInv ==
    ASSUME IInv, NEW f \in Flows, SendTransaction(f) PROVE IInv'
<1> DEFINE new == [flow |-> f, id |-> flow[f].id, state |-> "sent"]
<1>1. /\ f \in approved /\ approved' \subseteq approved /\ txs' = Append(txs, new)
      /\ UNCHANGED <<flow, campaigns, rows>>
      /\ flow[f] \in Flow /\ txs \in Seq(Transaction) /\ FlowOK(f)
  BY DEF SendTransaction, IInv, TypeOK
<1>2. new \in Transaction
  BY <1>1 DEF Flow, Transaction
<1>3. /\ txs' \in Seq(Transaction) /\ DOMAIN txs' = DOMAIN txs \cup {Len(txs) + 1}
      /\ DOMAIN txs \subseteq DOMAIN txs' /\ \A i \in DOMAIN txs : txs'[i] = txs[i]
      /\ txs'[Len(txs) + 1] = new
  <2> HIDE DEF new
  <2>1. QED
    BY <1>1, <1>2
<1>4. TypeOK'
  BY <1>1, <1>3 DEF IInv, TypeOK
<1>5. \A i \in DOMAIN txs' : TxOK(txs[i])'
  <2>1. ASSUME NEW i \in DOMAIN txs PROVE TxOK(txs[i])'
    BY <1>1, <1>3 DEF IInv, TxOK
  <2>2. ASSUME NEW i \in DOMAIN txs', txs'[i] = new PROVE TxOK(txs[i])'
    BY <1>1, <2>2 DEF FlowOK, TxOK
  <2>3. QED
    BY <1>3, <2>1, <2>2
<1>6. QED
  BY <1>1, <1>3, <1>4, <1>5, StepOfChain DEF IInv

LEMMA MineTransactionKeepsIInv ==
    ASSUME IInv, NEW i \in DOMAIN txs, MineTransaction(i) PROVE IInv'
<1> DEFINE f == txs[i].flow
<1>1. /\ UNCHANGED <<flow, approved, rows>>
      /\ txs \in Seq(Transaction) /\ campaigns \in Seq(Campaign) /\ txs[i] \in Transaction
  BY DEF MineTransaction, IInv, TypeOK
<1>2. f \in Flows /\ TxOK(txs[i])
  BY <1>1 DEF IInv, Transaction
<1>3. CASE txs' = [txs EXCEPT ![i].state = "failed"] /\ UNCHANGED campaigns
  <2>1. /\ txs' \in Seq(Transaction) /\ DOMAIN txs' = DOMAIN txs
        /\ txs'[i].state = "failed" /\ txs'[i].flow = f /\ txs'[i].id = txs[i].id
        /\ \A j \in DOMAIN txs \ {i} : txs'[j] = txs[j]
    <3>1. [txs[i] EXCEPT !.state = "failed"] \in Transaction
      BY <1>1 DEF Transaction
    <3>2. QED
      BY <1>1, <1>3, <3>1 DEF Transaction
  <2>2. TypeOK'
    BY <1>1, <1>3, <2>1 DEF IInv, TypeOK
  <2>3. \A j \in DOMAIN txs' : TxOK(txs[j])'
    BY <1>1, <1>2, <1>3, <2>1 DEF IInv, TxOK
  <2>4. QED
    BY <1>1, <1>3, <2>1, <2>2, <2>3, StepOfChain DEF IInv
<1>4. CASE /\ f \in Creates
           /\ campaigns' = Append(campaigns, [by |-> f, topUps |-> {}])
           /\ txs' = [txs EXCEPT ![i].state = "confirmed", ![i].id = Len(campaigns) + 1]
  <2> DEFINE n == Len(campaigns) + 1
             new == [by |-> f, topUps |-> {}]
  <2>1. n \in Nat /\ new \in Campaign /\ new.by = f
    BY <1>1, <1>2 DEF Campaign
  <2>2. /\ campaigns' \in Seq(Campaign) /\ DOMAIN campaigns' = DOMAIN campaigns \cup {n}
        /\ \A j \in DOMAIN campaigns : campaigns'[j] = campaigns[j]
        /\ campaigns'[n] = new
    <3>1. campaigns' = Append(campaigns, new)
      BY <1>4
    <3> HIDE DEF new
    <3>2. QED
      BY <1>1, <2>1, <3>1
  <2>3. [txs[i] EXCEPT !.state = "confirmed", !.id = n] \in Transaction
    BY <1>1, <2>1 DEF Transaction
  <2>4. /\ txs' \in Seq(Transaction) /\ DOMAIN txs' = DOMAIN txs
        /\ txs'[i].flow = f /\ txs'[i].id = n
        /\ \A j \in DOMAIN txs \ {i} : txs'[j] = txs[j]
    <3> DEFINE confirmed == [txs[i] EXCEPT !.state = "confirmed", !.id = n]
    <3>1. txs' = [txs EXCEPT ![i] = confirmed]
      BY <1>1, <1>4
    <3>2. confirmed.flow = f /\ confirmed.id = n
      BY <1>1 DEF Transaction
    <3>3. confirmed \in Transaction
      BY <2>3
    <3> HIDE DEF confirmed
    <3>4. QED
      BY <1>1, <3>1, <3>2, <3>3
  <2>5. TypeOK'
    BY <1>1, <2>2, <2>4 DEF IInv, TypeOK
  <2>6. \A j \in DOMAIN txs' : TxOK(txs[j])'
    <3>1. ASSUME NEW j \in DOMAIN txs \ {i} PROVE TxOK(txs[j])'
      BY <1>1, <2>2, <2>4 DEF IInv, TxOK
    <3>2. TxOK(txs[i])'
      BY <1>1, <1>2, <1>4, <2>1, <2>2, <2>4 DEF TxOK
    <3>3. QED
      BY <2>4, <3>1, <3>2
  <2>7. QED
    BY <1>1, <2>2, <2>4, <2>5, <2>6, StepOfChain DEF IInv
<1>5. CASE /\ f \notin Creates
           /\ campaigns' = [campaigns EXCEPT ![txs[i].id].topUps = @ \cup {f}]
           /\ txs' = [txs EXCEPT ![i].state = "confirmed"]
  <2> DEFINE c == txs[i].id
  <2>1. c \in DOMAIN campaigns /\ campaigns[c] \in Campaign
    BY <1>1, <1>2, <1>5 DEF TxOK
  <2>2. /\ campaigns' \in Seq(Campaign) /\ DOMAIN campaigns' = DOMAIN campaigns
        /\ campaigns'[c].by = campaigns[c].by /\ campaigns'[c].topUps = campaigns[c].topUps \cup {f}
        /\ \A j \in DOMAIN campaigns \ {c} : campaigns'[j] = campaigns[j]
    <3>1. [campaigns[c] EXCEPT !.topUps = campaigns[c].topUps \cup {f}] \in Campaign
      BY <1>2, <2>1 DEF Campaign
    <3>2. QED
      BY <1>1, <1>5, <2>1, <3>1 DEF Campaign
  <2>3. /\ txs' \in Seq(Transaction) /\ DOMAIN txs' = DOMAIN txs
        /\ txs'[i].flow = f /\ txs'[i].id = c
        /\ \A j \in DOMAIN txs \ {i} : txs'[j] = txs[j]
    <3>1. [txs[i] EXCEPT !.state = "confirmed"] \in Transaction
      BY <1>1 DEF Transaction
    <3>2. QED
      BY <1>1, <1>5, <3>1 DEF Transaction
  <2>4. Len(campaigns') = Len(campaigns)
    BY <1>1, <2>2
  <2>5. TypeOK'
    BY <1>1, <2>2, <2>3, <2>4 DEF IInv, TypeOK
  <2>6. \A j \in DOMAIN txs' : TxOK(txs[j])'
    <3>1. ASSUME NEW j \in DOMAIN txs \ {i} PROVE TxOK(txs[j])'
      <4>1. TxOK(txs[j]) /\ txs'[j] = txs[j]
        BY <2>3 DEF IInv
      <4>2. \A k \in DOMAIN campaigns : /\ campaigns'[k].by = campaigns[k].by
                                        /\ campaigns[k].topUps \subseteq campaigns'[k].topUps
        BY <2>2
      <4>3. QED
        BY <1>1, <2>2, <4>1, <4>2 DEF TxOK
    <3>2. TxOK(txs[i])'
      BY <1>1, <1>2, <1>5, <2>1, <2>2, <2>3 DEF TxOK
    <3>3. QED
      BY <2>3, <3>1, <3>2
  <2>7. QED
    BY <1>1, <2>2, <2>3, <2>5, <2>6, StepOfChain DEF IInv
<1>6. QED
  BY <1>3, <1>4, <1>5 DEF MineTransaction

-----------------------------------------------------------------------------
(***************************************************************************)
(* What every station of a flow knows is true, whatever other flows do,    *)
(* Circle answers and the chain mines, and wherever a flow is abandoned    *)
(* (circleTransactions.ts:198-274, campaigns.ts:245-307).                  *)
(***************************************************************************)
THEOREM FlowsKnowTheTruth == Spec => []IInv
<1>1. IInv /\ [Next]_vars => IInv'
  <2> SUFFICES ASSUME IInv, [Next]_vars PROVE IInv'
    OBVIOUS
  <2>1. ASSUME NEW f \in Flows, FlowFails(f) PROVE IInv'
    <3>1. flow[f].at # "idle"
      BY <2>1 DEF FlowFails, InHandler
    <3>2. QED
      BY <2>1, <3>1, FailKeepsIInv DEF FlowFails
  <2>2. ASSUME NEW f \in Flows, HandlerStep(f) PROVE IInv'
    BY <2>2, PollChallengeKeepsIInv, ListTransactionsKeepsIInv, PollTransactionKeepsIInv,
       ResolveTxKeepsIInv, PostCampaignKeepsIInv, InsertCampaignKeepsIInv,
       SummarizeCampaignKeepsIInv DEF HandlerStep
  <2>3. CASE UNCHANGED vars
    BY <2>3 DEF vars, IInv, TypeOK, TxOK, FlowOK, ReportOK, PricedAsEntered, OneRowPerCampaign
  <2>4. QED
    BY <2>1, <2>2, <2>3, StartFlowKeepsIInv, SendTransactionKeepsIInv, MineTransactionKeepsIInv
       DEF Next
<1>2. QED
  BY InitSatisfiesIInv, <1>1, PTL DEF Spec

(***************************************************************************)
(* Flows, transactions, campaigns and rows are type correct; a flow never  *)
(* looks up a transaction or a campaign that is not there.                 *)
(***************************************************************************)
THEOREM CreationTypeCorrect == Spec => []TypeOK
<1>1. IInv => TypeOK
  BY DEF IInv
<1>2. QED
  BY <1>1, FlowsKnowTheTruth, PTL

(***************************************************************************)
(* However many campaigns are created at once, each is indexed with the    *)
(* prices of its own form, unless its transaction was guessed              *)
(* (chain.ts:111-135).                                                     *)
(***************************************************************************)
THEOREM CampaignsHaveTheirPrices == Spec => []PricedAsEntered
<1>1. IInv => PricedAsEntered
  BY DEF IInv
<1>2. QED
  BY <1>1, FlowsKnowTheTruth, PTL

(***************************************************************************)
(* A campaign is never indexed twice, though the check and the insertion   *)
(* have a wait between them (campaigns.ts:263-301).                        *)
(***************************************************************************)
THEOREM CampaignsAreIndexedOnce == Spec => []OneRowPerCampaign
<1>1. IInv => OneRowPerCampaign
  BY DEF IInv
<1>2. QED
  BY <1>1, FlowsKnowTheTruth, PTL

(***************************************************************************)
(* What the form reports as created or funded is so, unless the            *)
(* transaction was guessed (circleTransactions.ts:228-262).                *)
(***************************************************************************)
THEOREM FormsReportTheTruth == Spec => []ReportsAreTrue
<1>1. IInv => ReportsAreTrue
  BY DEF IInv, ReportOK, ReportsAreTrue
<1>2. QED
  BY <1>1, FlowsKnowTheTruth, PTL
=============================================================================
