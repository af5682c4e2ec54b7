------------------------ MODULE SettlementWorkerProofs ------------------------
(***************************************************************************)
(* IInv is an inductive invariant of SettlementWorker for every set of     *)
(* campaigns, clips, rows, amounts and faults, and what follows from it.   *)
(*                                                                         *)
(* The proof has one lemma per action.  Before them stand lemmas for the   *)
(* three ways an action can disturb a part of IInv that is not about the   *)
(* worker's own statement: it changes neither store, it gives a row its    *)
(* verdict, or it sends a transaction.                                     *)
(***************************************************************************)
EXTENDS SettlementWorker, SumProofs, FiniteSetTheorems, TLAPS

-----------------------------------------------------------------------------
(* The payout arithmetic, for every amount, rate and cap.                  *)

(***************************************************************************)
(* clampToRemainingCap (pendingSettlement.ts:54-73) never pays more than   *)
(* was requested, and takes a clip that was within its cap at most to it.  *)
(***************************************************************************)
THEOREM ClampRespectsCap ==
    ASSUME NEW requested \in Nat, NEW paidBefore \in Nat, NEW cap \in Caps
    PROVE  LET c == clampToRemainingCap(requested, paidBefore, cap)
           IN  /\ c.payable \in Nat
               /\ c.isCapped \in BOOLEAN
               /\ c.payable <= requested
               /\ cap # NoCap /\ paidBefore <= cap => paidBefore + c.payable <= cap
  BY DEF clampToRemainingCap, Caps, NoCap

(***************************************************************************)
(* The hint isCapped is given exactly when the clip could not be paid what *)
(* it asked for, or had nothing left: what is then paid fills the cap.     *)
(***************************************************************************)
THEOREM CappedMeansFull ==
    ASSUME NEW requested \in Nat, NEW paidBefore \in Nat, NEW cap \in Nat,
           paidBefore <= cap
    PROVE  LET c == clampToRemainingCap(requested, paidBefore, cap)
           IN  c.isCapped => paidBefore + c.payable = cap
  BY DEF clampToRemainingCap, NoCap

(***************************************************************************)
(* A row the worker goes on to pay is paid something: release() would      *)
(* revert on a zero amount (worker.ts:164-169, 210-213).                   *)
(***************************************************************************)
THEOREM AcceptedAmountIsPositive ==
    ASSUME NEW requested \in Nat, NEW viewDelta \in Nat, NEW maxCpm \in Nat,
           NEW paidBefore \in Nat, NEW cap \in Caps,
           rejectReason(requested, viewDelta, maxCpm, paidBefore, cap) = "none"
    PROVE  clampToRemainingCap(requested, paidBefore, cap).payable \in Nat \ {0}
<1>1. clampToRemainingCap(requested, paidBefore, cap).payable # 0
  BY DEF rejectReason
<1>2. QED
  BY <1>1, ClampRespectsCap

-----------------------------------------------------------------------------
(***************************************************************************)
(* The parts of IInv that only look at the database and the chain.         *)
(***************************************************************************)
StoresInv == EscrowInv /\ TxInv /\ PayoutsMatchTheQueue /\ SettledMeansPaid
             /\ AuditMatchesPayouts /\ TotalsWithinCap

LEMMA StoresUntouched ==
    ASSUME StoresInv, UNCHANGED <<chainVars, dbVars>>
    PROVE  StoresInv'
<1> USE DEF StoresInv, chainVars, dbVars, storageVars
<1>1. EscrowInv' /\ AuditMatchesPayouts' /\ TotalsWithinCap'
  BY DEF EscrowInv, AuditMatchesPayouts, TotalsWithinCap
<1>2. PayoutsMatchTheQueue' /\ SettledMeansPaid'
  BY DEF PayoutsMatchTheQueue, SettledMeansPaid
<1>3. TxInv'
  BY DEF TxInv, MatchesRow, PaidFor
<1>4. QED
  BY <1>1, <1>2, <1>3

(***************************************************************************)
(* Rows stay in the queue with their clip and amount.                      *)
(***************************************************************************)
KeepsRows ==
    \A s \in SettlementIds : pending[s] \in Row =>
       /\ pending'[s] \in Row
       /\ pending'[s].clip = pending[s].clip
       /\ pending'[s].amount = pending[s].amount

LEMMA RowIsNotNoRow == \A r \in Row : r # NoRow /\ r.status # "none"
  BY DEF Row, NoRow

LEMMA RowOrNoRow ==
    ASSUME TypeOK, NEW s \in SettlementIds
    PROVE  /\ pending[s] \in Row \/ pending[s] = NoRow
           /\ pending[s] # NoRow => pending[s] \in Row
           /\ pending[s].status # "none" => pending[s] \in Row
  BY RowIsNotNoRow DEF TypeOK, NoRow

\* A verdict: a row gets a status and a reason.
Judged(r, status, reason) == [r EXCEPT !.status = status, !.reason = reason]

LEMMA JudgedRow ==
    ASSUME NEW r \in Row, NEW status \in {"settled", "failed"},
           NEW reason \in RejectReasons \cup {"none", "release"}
    PROVE  /\ Judged(r, status, reason) \in Row
           /\ Judged(r, status, reason).status = status
           /\ Judged(r, status, reason).clip = r.clip
           /\ Judged(r, status, reason).amount = r.amount
  BY DEF Row, Judged

LEMMA VerdictKeepsRows ==
    ASSUME TypeOK, NEW s \in SettlementIds, pending[s] \in Row,
           NEW status \in {"settled", "failed"},
           NEW reason \in RejectReasons \cup {"none", "release"},
           pending' = [pending EXCEPT ![s].status = status, ![s].reason = reason]
    PROVE  /\ pending' \in [SettlementIds -> Row \cup {NoRow}]
           /\ KeepsRows
           /\ pending'[s].status = status
           /\ \A t \in SettlementIds \ {s} : pending'[t] = pending[t]
<1>1. pending' = [pending EXCEPT ![s] = Judged(pending[s], status, reason)]
  BY DEF TypeOK, Judged
<1>2. /\ pending'[s] = Judged(pending[s], status, reason)
      /\ \A t \in SettlementIds \ {s} : pending'[t] = pending[t]
  BY <1>1 DEF TypeOK
<1>3. /\ pending'[s] \in Row
      /\ pending'[s].status = status
      /\ pending'[s].clip = pending[s].clip
      /\ pending'[s].amount = pending[s].amount
  BY <1>2, JudgedRow
<1>4. pending' \in [SettlementIds -> Row \cup {NoRow}]
  BY <1>1, <1>2, <1>3 DEF TypeOK
<1>5. KeepsRows
  BY <1>2, <1>3 DEF KeepsRows
<1>6. QED
  BY <1>2, <1>3, <1>4, <1>5

(***************************************************************************)
(* What is left of the queue, the transactions and the settlements when    *)
(* rows are only added or judged and transactions are only added.          *)
(***************************************************************************)
LEMMA TxInvKept ==
    ASSUME TypeOK, TxInv, KeepsRows, UNCHANGED <<payouts, mined>>,
           \A t \in mempool' : t \in mempool \/
              (t \in Tx /\ MatchesRow(t) /\ (t.function = "recordPayout" => PaidFor(t)))
    PROVE  TxInv'
<1>1. \A t \in mempool' : t \in Tx /\ MatchesRow(t)
                             /\ (t.function = "recordPayout" => PaidFor(t))
  BY DEF TypeOK, TxInv
<1>2. ASSUME NEW t \in mempool' PROVE MatchesRow(t)'
  <2>1. t.id \in SettlementIds
    BY <1>1 DEF Tx
  <2>2. QED
    BY <1>1, <2>1 DEF MatchesRow, KeepsRows
<1>3. \A t : PaidFor(t)' <=> PaidFor(t)
  BY DEF PaidFor
<1>4. QED
  BY <1>1, <1>2, <1>3 DEF TxInv

LEMMA PayoutsStillMatch ==
    ASSUME TypeOK, PayoutsMatchTheQueue, KeepsRows, UNCHANGED payouts
    PROVE  PayoutsMatchTheQueue'
<1>1. SUFFICES ASSUME NEW s \in SettlementIds, payouts[s] # << >>
               PROVE  /\ pending'[s] # NoRow
                      /\ payouts[s][1].campaign = CampaignOf[pending'[s].clip]
                      /\ payouts[s][1].clipper = WalletOf[pending'[s].clip]
                      /\ payouts[s][1].amount <= pending'[s].amount
  BY DEF PayoutsMatchTheQueue
<1>2. pending[s] \in Row
  BY <1>1, RowOrNoRow DEF PayoutsMatchTheQueue
<1>3. QED
  BY <1>1, <1>2, RowIsNotNoRow DEF PayoutsMatchTheQueue, KeepsRows

LEMMA SettlementsStillPaid ==
    ASSUME TypeOK, PayoutsMatchTheQueue, SettledMeansPaid, KeepsRows,
           UNCHANGED <<payouts, settlements>>,
           \A s \in SettlementIds : pending'[s].status = "settled" => settlements[s] # 0
    PROVE  SettledMeansPaid'
<1>1. SUFFICES ASSUME NEW s \in SettlementIds, settlements[s] # 0
               PROVE  payouts[s] = <<PayoutOf([clip |-> pending'[s].clip,
                                               amount |-> settlements[s]])>>
  BY DEF SettledMeansPaid, PayoutOf
<1>2. payouts[s] = <<PayoutOf([clip |-> pending[s].clip, amount |-> settlements[s]])>>
  BY <1>1 DEF SettledMeansPaid
<1>3. pending[s] \in Row
  <2>1. payouts[s] # << >>
    BY <1>2
  <2>2. QED
    BY <2>1, RowOrNoRow DEF PayoutsMatchTheQueue
<1>4. QED
  BY <1>2, <1>3 DEF KeepsRows, PayoutOf

-----------------------------------------------------------------------------
(***************************************************************************)
(* Sending a transaction.                                                  *)
(***************************************************************************)
LEMMA BroadcastAdds ==
    ASSUME TypeOK, NEW t \in Tx, Broadcast(t)
    PROVE  mempool' \in SUBSET Tx /\ \A u \in mempool' : u \in mempool \/ u = t
  BY DEF TypeOK, Broadcast, SameNonce

LEMMA TransactionsOfTheJob ==
    ASSUME IInv, pc \in Paying \cup Paid, NEW n \in Nat
    PROVE  /\ ReleaseTx(n) \in Tx /\ MatchesRow(ReleaseTx(n))
           /\ ReleaseTx(n).function = "release"
           /\ RecordTx(n) \in Tx /\ MatchesRow(RecordTx(n))
           /\ pc \in Paid => PaidFor(RecordTx(n))
<1>1. job \in Job /\ MatchesRow(job) /\ (pc \in Paid => PaidFor(job))
  BY DEF IInv, TypeOK, JobInv
<1>2. QED
  BY <1>1 DEF Job, Tx, ReleaseTx, RecordTx, MatchesRow, PaidFor, PayoutOf

(***************************************************************************)
(* Steps that touch neither store.                                         *)
(***************************************************************************)
LEMMA LocalStep ==
    ASSUME IInv, UNCHANGED <<chainVars, dbVars>>, TypeOK', JobInv'
    PROVE  IInv'
  BY StoresUntouched DEF IInv, StoresInv

\* Between two rows nothing is in the worker's hands.
LEMMA BetweenRows ==
    ASSUME IInv, UNCHANGED <<chainVars, blockTimestamp, dbVars>>,
           pc' \in {"down", "idle", "readNonce", "next"}, job' = NoJob,
           batch' \in SUBSET SettlementIds,
           \A s \in batch' : pending[s].status = "pending",
           nextNonce' \in Nat, crashes' \in Nat
    PROVE  IInv'
<1>1. TypeOK'
  BY DEF IInv, TypeOK, StorageTypeOK, chainVars, storageVars, dbVars, Paying, Paid
<1>2. JobInv'
  BY DEF JobInv, dbVars, Paying, Paid
<1>3. QED
  BY <1>1, <1>2, LocalStep

LEMMA ListPendingSettlementsStep ==
    ASSUME IInv, ListPendingSettlements  PROVE IInv'
<1>1. job' = NoJob
  BY DEF IInv, TypeOK, ListPendingSettlements, Paying, Paid
<1>2. QED
  BY <1>1, BetweenRows DEF ListPendingSettlements, Rows, IInv, TypeOK

LEMMA ReadNonceStep ==
    ASSUME IInv, ReadNonce  PROVE IInv'
<1>1. job' = NoJob
  BY DEF IInv, TypeOK, ReadNonce, Paying, Paid
<1>2. QED
  BY <1>1, BetweenRows DEF ReadNonce, IInv, TypeOK, JobInv

LEMMA EndCycleStep ==
    ASSUME IInv, EndCycle  PROVE IInv'
<1>1. job' = NoJob
  BY DEF IInv, TypeOK, EndCycle, Paying, Paid
<1>2. QED
  BY <1>1, BetweenRows DEF EndCycle, IInv, TypeOK, JobInv

LEMMA EndJobStep ==
    ASSUME IInv, EndJob,
           UNCHANGED <<chainVars, blockTimestamp, dbVars, batch, nextNonce, crashes>>
    PROVE  IInv'
  BY BetweenRows DEF EndJob, IInv, TypeOK, JobInv

LEMMA CrashStep ==
    ASSUME IInv, Crash  PROVE IInv'
  BY BetweenRows DEF Crash, IInv, TypeOK

LEMMA RestartStep ==
    ASSUME IInv, Restart  PROVE IInv'
<1>1. job' = NoJob
  BY DEF IInv, TypeOK, Restart, Paying, Paid
<1>2. QED
  BY <1>1, BetweenRows DEF Restart, IInv, TypeOK, JobInv

LEMMA NextBlockStep ==
    ASSUME IInv, NextBlock  PROVE IInv'
<1>1. TypeOK'
  BY DEF IInv, TypeOK, StorageTypeOK, NextBlock, chainVars, storageVars, dbVars
<1>2. JobInv'
  BY DEF IInv, JobInv, NextBlock, chainVars, storageVars, dbVars, MatchesRow, PaidFor
<1>3. QED
  BY <1>1, <1>2, LocalStep DEF NextBlock

LEMMA UnpaidIsUnsettled ==
    ASSUME SettledMeansPaid, NEW s \in SettlementIds, payouts[s] = << >>
    PROVE  settlements[s] = 0
<1>1. SUFFICES ASSUME settlements[s] # 0 PROVE FALSE
  OBVIOUS
<1>2. PICK p : payouts[s] = <<p>>
  BY <1>1 DEF SettledMeansPaid
<1>3. QED
  BY <1>2

\* The worker goes on with the row it has.
LEMMA SameJob ==
    ASSUME IInv, pc \in Paying \cup Paid,
           UNCHANGED <<chainVars, blockTimestamp, dbVars, batch, nextNonce, job, crashes>>,
           pc' \in Paying \cup Paid,
           pc' \in Paying => pc \in Paying,
           pc' \in {"send", "wait"} => settlements[job.id] = 0,
           pc' \in Paid => PaidFor(job),
           pc' = "insertSettlement" => pc = "wait",
           pc' \in Paid \ {"insertSettlement"} => pc \in Paid \ {"insertSettlement"},
           pc' # "markSettled"
    PROVE  IInv'
<1>1. TypeOK'
  BY DEF IInv, TypeOK, StorageTypeOK, chainVars, storageVars, dbVars, Paying, Paid
<1>2. JobInv'
  BY DEF IInv, JobInv, chainVars, storageVars, dbVars, MatchesRow, PaidFor, Paying, Paid
<1>3. QED
  BY <1>1, <1>2, LocalStep

\* Nothing was released under an id the contract still accepts.
LEMMA EstimateReleaseStep ==
    ASSUME IInv, EstimateRelease  PROVE IInv'
<1>1. job.id \notin usedSettlementIds /\ job.id \in SettlementIds
  BY DEF EstimateRelease, releaseSucceeds, releaseAllowed, IInv, TypeOK, Job, Paying
<1>2. payouts[job.id] = << >>
  BY <1>1 DEF IInv, EscrowInv
<1>3. settlements[job.id] = 0
  BY <1>1, <1>2, UnpaidIsUnsettled DEF IInv
<1>4. QED
  BY <1>3, SameJob DEF EstimateRelease, Paying, Paid

\* A receipt with status 1 means the clipper was paid.
LEMMA WaitReleaseStep ==
    ASSUME IInv, WaitRelease  PROVE IInv'
<1>1. PaidFor(ReleaseTx(job.nonce))
  BY DEF WaitRelease, Confirmed, ReleaseTx, IInv, TxInv
<1>2. PaidFor(job)
  BY <1>1 DEF PaidFor, ReleaseTx, PayoutOf
<1>3. QED
  BY <1>2, SameJob DEF WaitRelease, Paying, Paid

LEMMA ReadBalanceStep ==
    ASSUME IInv, ReadBalance  PROVE IInv'
<1>1. PaidFor(job)
  BY DEF ReadBalance, IInv, JobInv, Paid, Paying
<1>2. QED
  BY <1>1, SameJob DEF ReadBalance, Paying, Paid

-----------------------------------------------------------------------------
(***************************************************************************)
(* Steps that write the database.                                          *)
(***************************************************************************)
LEMMA QueuedRow ==
    ASSUME NEW k \in Clips, NEW delta \in ViewDeltas, NEW cpm \in CpmRates,
           NEW n \in Nat
    PROVE  [status |-> "pending", clip |-> k, viewDelta |-> delta,
            amount |-> computeSettlementAmount(delta, perViewRate(cpm)),
            createdAt |-> n, reason |-> "none"] \in Row
<1>1. delta \in Nat /\ cpm \in Nat
  BY WorkerAssumption
<1>2. perViewRate(cpm) \in Nat
  BY <1>1, DivMonotone DEF perViewRate
<1>3. computeSettlementAmount(delta, perViewRate(cpm)) \in Nat
  BY <1>1, <1>2 DEF computeSettlementAmount
<1>4. QED
  BY <1>1, <1>3 DEF Row

LEMMA InsertPendingSettlementStep ==
    ASSUME IInv, InsertPendingSettlement  PROVE IInv'
<1>1. PICK s \in SettlementIds, row \in Row :
         /\ pending[s] = NoRow
         /\ row.status = "pending"
         /\ pending' = [pending EXCEPT ![s] = row]
  <2>1. PICK s \in SettlementIds, k \in Clips, delta \in ViewDeltas, cpm \in CpmRates :
           /\ pending[s] = NoRow
           /\ pending' = [pending EXCEPT ![s] =
                 [status |-> "pending", clip |-> k, viewDelta |-> delta,
                  amount |-> computeSettlementAmount(delta, perViewRate(cpm)),
                  createdAt |-> Cardinality({t \in SettlementIds : pending[t] # NoRow}),
                  reason |-> "none"]]
    BY DEF InsertPendingSettlement
  <2>2. Cardinality({t \in SettlementIds : pending[t] # NoRow}) \in Nat
    BY WorkerAssumption, FS_Subset, FS_CardinalityType
  <2>3. QED
    BY <2>1, <2>2, QueuedRow
<1>2. /\ pending' \in [SettlementIds -> Row \cup {NoRow}]
      /\ pending'[s] = row
      /\ \A t \in SettlementIds \ {s} : pending'[t] = pending[t]
  BY <1>1 DEF IInv, TypeOK
<1>3. KeepsRows
  BY <1>1, <1>2, RowIsNotNoRow DEF KeepsRows
<1>4. UNCHANGED <<chainVars, blockTimestamp, settlements, settledTotal, isCapped,
                  closedInDb, pc, batch, nextNonce, job, crashes>>
  BY DEF InsertPendingSettlement
<1>5. TypeOK'
  BY <1>2, <1>4 DEF IInv, TypeOK, StorageTypeOK, chainVars, storageVars
<1>6. EscrowInv' /\ AuditMatchesPayouts' /\ TotalsWithinCap'
  BY <1>4 DEF IInv, EscrowInv, AuditMatchesPayouts, TotalsWithinCap, chainVars, storageVars
<1>7. TxInv'
  BY <1>3, <1>4, TxInvKept DEF IInv, chainVars, storageVars
<1>8. PayoutsMatchTheQueue'
  BY <1>3, <1>4, PayoutsStillMatch DEF IInv, chainVars, storageVars
<1>9. SettledMeansPaid'
  <2>1. \A t \in SettlementIds : pending'[t].status = "settled" => settlements[t] # 0
    BY <1>1, <1>2 DEF IInv, SettledMeansPaid
  <2>2. QED
    BY <1>3, <1>4, <2>1, SettlementsStillPaid DEF IInv, chainVars, storageVars
<1>10. JobInv'
  <2>1. \A t \in batch : pending'[t].status = "pending"
    BY <1>1, <1>2 DEF IInv, TypeOK, JobInv
  <2>2. ASSUME pc \in Paying \cup Paid
        PROVE  /\ MatchesRow(job)'
               /\ pending[job.id].status = "pending" => pending'[job.id].status = "pending"
    <3>1. job.id \in SettlementIds /\ MatchesRow(job)
      BY <2>2 DEF IInv, TypeOK, JobInv, Job
    <3>2. pending'[job.id] = pending[job.id]
      BY <1>1, <1>2, <3>1, RowIsNotNoRow DEF MatchesRow
    <3>3. QED
      BY <1>4, <3>1, <3>2 DEF MatchesRow
  <2>3. PaidFor(job) => PaidFor(job)'
    BY <1>4 DEF PaidFor, PayoutOf, chainVars, storageVars
  <2>4. QED
    BY <1>4, <2>1, <2>2, <2>3 DEF IInv, JobInv
<1>11. QED
  BY <1>5, <1>6, <1>7, <1>8, <1>9, <1>10 DEF IInv

(***************************************************************************)
(* A row gets its verdict: it is rejected, its release failed, or it is    *)
(* settled.  Transactions may have been sent in the same step.             *)
(***************************************************************************)
LEMMA VerdictStep ==
    ASSUME IInv, NEW s \in SettlementIds, pending[s].status = "pending",
           NEW status \in {"settled", "failed"},
           NEW reason \in RejectReasons \cup {"none", "release"},
           pending' = [pending EXCEPT ![s].status = status, ![s].reason = reason],
           status = "settled" => settlements[s] # 0,
           UNCHANGED <<storageVars, recorded, mined, settlements, settledTotal>>,
           \A t \in mempool' : t \in mempool \/
              (t \in Tx /\ MatchesRow(t) /\ (t.function = "recordPayout" => PaidFor(t)))
    PROVE  /\ pending' \in [SettlementIds -> Row \cup {NoRow}]
           /\ pending'[s].status = status
           /\ \A t \in SettlementIds \ {s} : pending'[t] = pending[t]
           /\ KeepsRows
           /\ StoresInv'
<1>1. pending[s] \in Row
  BY RowOrNoRow DEF IInv
<1>2. /\ pending' \in [SettlementIds -> Row \cup {NoRow}]
      /\ pending'[s].status = status
      /\ \A t \in SettlementIds \ {s} : pending'[t] = pending[t]
      /\ KeepsRows
  BY <1>1, VerdictKeepsRows DEF IInv
<1>3. EscrowInv' /\ AuditMatchesPayouts' /\ TotalsWithinCap'
  BY DEF IInv, EscrowInv, AuditMatchesPayouts, TotalsWithinCap, storageVars
<1>4. TxInv'
  BY <1>2, TxInvKept DEF IInv, storageVars
<1>5. PayoutsMatchTheQueue'
  BY <1>2, PayoutsStillMatch DEF IInv, storageVars
<1>6. SettledMeansPaid'
  <2>1. \A t \in SettlementIds : pending'[t].status = "settled" => settlements[t] # 0
    BY <1>2 DEF IInv, SettledMeansPaid
  <2>2. QED
    BY <1>2, <2>1, SettlementsStillPaid DEF IInv, storageVars
<1>7. QED
  BY <1>2, <1>3, <1>4, <1>5, <1>6 DEF StoresInv

LEMMA RejectRowStep ==
    ASSUME IInv, RejectRow  PROVE IInv'
<1>1. PICK s \in batch :
         /\ pc = "next"
         /\ ReasonToReject(s) \in RejectReasons
         /\ pending' = [pending EXCEPT ![s].status = "failed",
                                       ![s].reason = ReasonToReject(s)]
         /\ batch' = batch \ {s}
         /\ \/ UNCHANGED <<job, pc>>
            \/ job' = [clip |-> pending[s].clip] /\ pc' = "rejected"
  BY DEF RejectRow
<1>2. s \in SettlementIds /\ pending[s].status = "pending"
  BY <1>1 DEF IInv, TypeOK, JobInv
<1>3. UNCHANGED <<chainVars, blockTimestamp, settlements, settledTotal, isCapped,
                  closedInDb, nextNonce, crashes>>
  BY DEF RejectRow
<1>4. /\ pending' \in [SettlementIds -> Row \cup {NoRow}]
      /\ \A t \in SettlementIds \ {s} : pending'[t] = pending[t]
      /\ StoresInv'
  BY <1>1, <1>2, <1>3, VerdictStep DEF chainVars
<1>5. pc' \in {"next", "rejected"} /\ (pc' = "next" => job' = NoJob)
      /\ (pc' = "rejected" => job' \in [clip : Clips])
  <2>1. pending[s].clip \in Clips
    BY <1>2, RowOrNoRow DEF IInv, Row
  <2>2. job = NoJob
    BY <1>1 DEF IInv, TypeOK, Paying, Paid
  <2>3. QED
    BY <1>1, <2>1, <2>2
<1>6. TypeOK'
  BY <1>1, <1>3, <1>4, <1>5
     DEF IInv, TypeOK, StorageTypeOK, chainVars, storageVars, Paying, Paid
<1>7. JobInv'
  BY <1>1, <1>3, <1>4, <1>5 DEF IInv, TypeOK, JobInv, Paying, Paid
<1>8. QED
  BY <1>4, <1>6, <1>7 DEF IInv, StoresInv

LEMMA CapRejectedClipStep ==
    ASSUME IInv, CapRejectedClip  PROVE IInv'
<1>1. /\ pc' = "next" /\ job' = NoJob
      /\ isCapped' = [isCapped EXCEPT ![job.clip] = TRUE]
      /\ UNCHANGED <<chainVars, blockTimestamp, pending, settlements, settledTotal,
                     closedInDb, batch, nextNonce, crashes>>
  BY DEF CapRejectedClip
<1>2. isCapped' \in [Clips -> BOOLEAN]
  BY <1>1 DEF IInv, TypeOK
<1>3. TypeOK'
  BY <1>1, <1>2 DEF IInv, TypeOK, StorageTypeOK, chainVars, storageVars, Paying, Paid
<1>4. JobInv'
  BY <1>1 DEF IInv, JobInv, Paying, Paid
<1>5. EscrowInv' /\ TxInv' /\ PayoutsMatchTheQueue' /\ SettledMeansPaid'
      /\ AuditMatchesPayouts' /\ TotalsWithinCap'
  BY <1>1 DEF IInv, EscrowInv, TxInv, MatchesRow, PaidFor, PayoutsMatchTheQueue,
              SettledMeansPaid, AuditMatchesPayouts, TotalsWithinCap, chainVars, storageVars
<1>6. QED
  BY <1>3, <1>4, <1>5 DEF IInv

LEMMA AcceptRowStep ==
    ASSUME IInv, AcceptRow  PROVE IInv'
<1>1. PICK s \in batch :
         /\ pc = "next"
         /\ ReasonToReject(s) = "none"
         /\ LET k == pending[s].clip
                clamped == clampToRemainingCap(pending[s].amount, alreadyPaid(k), CapOf[k])
            IN  job' = [id |-> s, clip |-> k, amount |-> clamped.payable,
                        isCapped |-> clamped.isCapped,
                        campaignClosed |-> closedInDb[CampaignOf[k]],
                        nonce |-> nextNonce]
         /\ batch' = batch \ {s}
  BY DEF AcceptRow
<1>2. /\ pc' = "estimate"
      /\ UNCHANGED <<chainVars, blockTimestamp, dbVars, nextNonce, crashes>>
  BY DEF AcceptRow
<1>3. s \in SettlementIds /\ pending[s].status = "pending" /\ pending[s] \in Row
  <2>1. s \in SettlementIds /\ pending[s].status = "pending"
    BY DEF IInv, TypeOK, JobInv
  <2>2. QED
    BY <2>1, RowOrNoRow DEF IInv
<1> DEFINE k == pending[s].clip
           requested == pending[s].amount
           clamped == clampToRemainingCap(requested, settledTotal[k], CapOf[k])
<1>4. /\ k \in Clips /\ requested \in Nat /\ settledTotal[k] \in Nat
      /\ CapOf[k] \in Caps /\ MaxCpm[CampaignOf[k]] \in Nat
      /\ pending[s].viewDelta \in Nat /\ closedInDb[CampaignOf[k]] \in BOOLEAN
      /\ CapOf[k] # NoCap => settledTotal[k] <= CapOf[k]
  BY <1>3, WorkerAssumption DEF Row, IInv, TypeOK, TotalsWithinCap
<1>5. /\ clamped.payable \in Nat \ {0}
      /\ clamped.payable <= requested
      /\ clamped.isCapped \in BOOLEAN
      /\ CapOf[k] # NoCap => settledTotal[k] + clamped.payable <= CapOf[k]
  <2>1. clamped.payable \in Nat \ {0}
    BY <1>1, <1>4, AcceptedAmountIsPositive DEF ReasonToReject, alreadyPaid
  <2>2. QED
    BY <1>4, <2>1, ClampRespectsCap
<1>6. job' = [id |-> s, clip |-> k, amount |-> clamped.payable,
              isCapped |-> clamped.isCapped,
              campaignClosed |-> closedInDb[CampaignOf[k]], nonce |-> nextNonce]
  BY <1>1 DEF alreadyPaid
<1>7. nextNonce \in Nat
  BY DEF IInv, TypeOK
<1> HIDE DEF clamped
<1>8. /\ job' \in Job /\ job'.id = s /\ job'.clip = k
      /\ job'.amount = clamped.payable
  BY <1>3, <1>4, <1>5, <1>6, <1>7 DEF Job
<1>9. TypeOK'
  BY <1>1, <1>2, <1>8 DEF IInv, TypeOK, StorageTypeOK, chainVars, storageVars, dbVars,
                          Paying, Paid
<1>10. JobInv'
  <2>1. MatchesRow(job)'
    BY <1>2, <1>3, <1>5, <1>8 DEF MatchesRow, dbVars
  <2>2. \A t \in batch' : pending'[t].status = "pending"
    BY <1>1, <1>2 DEF IInv, JobInv, dbVars
  <2>3. QED
    BY <1>1, <1>2, <1>3, <1>5, <1>8, <2>1, <2>2 DEF JobInv, dbVars, Paying, Paid
<1>11. QED
  BY <1>2, <1>9, <1>10, LocalStep

\* The catch around the release: the row is failed, whatever was sent before.
LEMMA MarkFailedStep ==
    ASSUME IInv, pc \in Paying, MarkFailed,
           UNCHANGED <<storageVars, recorded, mined, chainNonce, blockTimestamp, nextNonce>>,
           \A t \in mempool' : t \in mempool \/
              (t \in Tx /\ MatchesRow(t) /\ (t.function = "recordPayout" => PaidFor(t)))
    PROVE  IInv'
<1>1. /\ job.id \in SettlementIds /\ job.id \notin batch
      /\ pending[job.id].status = "pending"
  BY DEF IInv, TypeOK, JobInv, Job
<1>2. /\ pending' \in [SettlementIds -> Row \cup {NoRow}]
      /\ \A t \in SettlementIds \ {job.id} : pending'[t] = pending[t]
      /\ StoresInv'
  BY <1>1, VerdictStep DEF MarkFailed
<1>3. TypeOK'
  BY <1>2 DEF MarkFailed, IInv, TypeOK, StorageTypeOK, storageVars, Paying, Paid
<1>4. JobInv'
  BY <1>1, <1>2 DEF MarkFailed, IInv, TypeOK, JobInv, Paying, Paid
<1>5. QED
  BY <1>2, <1>3, <1>4 DEF IInv, StoresInv

LEMMA EstimateFailsStep ==
    ASSUME IInv, EstimateFails  PROVE IInv'
  BY MarkFailedStep DEF EstimateFails, chainVars, Paying

LEMMA SendRefusedStep ==
    ASSUME IInv, SendRefused  PROVE IInv'
  BY MarkFailedStep DEF SendRefused, chainVars, Paying

LEMMA WaitReleaseFailsStep ==
    ASSUME IInv, WaitReleaseFails  PROVE IInv'
  BY MarkFailedStep DEF WaitReleaseFails, chainVars, Paying

LEMMA SendAnswerLostStep ==
    ASSUME IInv, SendAnswerLost  PROVE IInv'
<1>1. pc \in Paying /\ nextNonce \in Nat
  BY DEF SendAnswerLost, Paying, IInv, TypeOK
<1>2. \A t \in mempool' : t \in mempool \/
         (t \in Tx /\ MatchesRow(t) /\ (t.function = "recordPayout" => PaidFor(t)))
  BY <1>1, TransactionsOfTheJob, BroadcastAdds DEF SendAnswerLost, IInv
<1>3. QED
  BY <1>1, <1>2, MarkFailedStep DEF SendAnswerLost

(***************************************************************************)
(* A transaction is sent and the worker waits for its receipt.             *)
(***************************************************************************)
LEMMA SentStep ==
    ASSUME IInv, NEW t \in Tx, Broadcast(t), MatchesRow(t),
           t.function = "recordPayout" => PaidFor(t),
           UNCHANGED <<storageVars, recorded, mined, chainNonce, blockTimestamp, dbVars>>
    PROVE  mempool' \in SUBSET Tx /\ StoresInv'
<1>1. mempool' \in SUBSET Tx /\ \A u \in mempool' : u \in mempool \/ u = t
  BY BroadcastAdds DEF IInv
<1>2. KeepsRows
  BY DEF KeepsRows, dbVars
<1>3. TxInv'
  BY <1>1, <1>2, TxInvKept DEF IInv, storageVars
<1>4. EscrowInv' /\ AuditMatchesPayouts' /\ TotalsWithinCap'
  BY DEF IInv, EscrowInv, AuditMatchesPayouts, TotalsWithinCap, storageVars, dbVars
<1>5. PayoutsMatchTheQueue' /\ SettledMeansPaid'
  BY DEF IInv, PayoutsMatchTheQueue, SettledMeansPaid, storageVars, dbVars
<1>6. QED
  BY <1>1, <1>3, <1>4, <1>5 DEF StoresInv

LEMMA SameJobNewNonce ==
    ASSUME NEW j \in Job, NEW n \in Nat
    PROVE  LET q == [j EXCEPT !.nonce = n]
           IN  /\ q \in Job /\ q.id = j.id /\ q.clip = j.clip /\ q.amount = j.amount
  BY DEF Job

LEMMA SendReleaseStep ==
    ASSUME IInv, SendRelease  PROVE IInv'
<1>1. pc \in Paying /\ pc = "send" /\ nextNonce \in Nat /\ job \in Job
  BY DEF SendRelease, Paying, IInv, TypeOK
<1>2. mempool' \in SUBSET Tx /\ StoresInv'
  BY <1>1, TransactionsOfTheJob, SentStep DEF SendRelease
<1>3. /\ job' \in Job /\ job'.id = job.id /\ job'.clip = job.clip
      /\ job'.amount = job.amount
  BY <1>1, SameJobNewNonce DEF SendRelease
<1>4. TypeOK'
  BY <1>1, <1>2, <1>3 DEF SendRelease, IInv, TypeOK, StorageTypeOK, storageVars, dbVars,
                          Paying, Paid
<1>5. JobInv'
  BY <1>1, <1>3 DEF SendRelease, IInv, JobInv, MatchesRow, dbVars, Paying, Paid
<1>6. QED
  BY <1>2, <1>4, <1>5 DEF IInv, StoresInv

LEMMA SendRecordStep ==
    ASSUME IInv, SendRecord  PROVE IInv'
<1>1. pc \in Paid /\ pc = "record" /\ nextNonce \in Nat /\ job \in Job
  BY DEF SendRecord, Paid, IInv, TypeOK
<1>2. mempool' \in SUBSET Tx /\ StoresInv'
  BY <1>1, TransactionsOfTheJob, SentStep DEF SendRecord
<1>3. /\ job' \in Job /\ job'.id = job.id /\ job'.clip = job.clip
      /\ job'.amount = job.amount
  BY <1>1, SameJobNewNonce DEF SendRecord
<1>4. TypeOK'
  BY <1>1, <1>2, <1>3 DEF SendRecord, IInv, TypeOK, StorageTypeOK, storageVars, dbVars,
                          Paying, Paid
<1>5. PaidFor(job)'
  BY <1>1, <1>3 DEF SendRecord, IInv, JobInv, PaidFor, PayoutOf, storageVars
<1>6. JobInv'
  BY <1>1, <1>3, <1>5 DEF SendRecord, IInv, JobInv, MatchesRow, dbVars, Paying, Paid
<1>7. QED
  BY <1>2, <1>4, <1>6 DEF IInv, StoresInv

LEMMA RecordRefusedStep ==
    ASSUME IInv, RecordRefused  PROVE IInv'
  BY EndJobStep DEF RecordRefused

LEMMA WaitRecordStep ==
    ASSUME IInv, WaitRecord  PROVE IInv'
  BY EndJobStep DEF WaitRecord

LEMMA RecordAnswerLostStep ==
    ASSUME IInv, RecordAnswerLost  PROVE IInv'
<1>1. pc \in Paid /\ nextNonce \in Nat
  BY DEF RecordAnswerLost, Paid, IInv, TypeOK
<1>2. mempool' \in SUBSET Tx /\ StoresInv'
  BY <1>1, TransactionsOfTheJob, SentStep DEF RecordAnswerLost
<1>3. TypeOK'
  BY <1>2 DEF RecordAnswerLost, EndJob, IInv, TypeOK, StorageTypeOK, storageVars, dbVars,
              Paying, Paid
<1>4. JobInv'
  BY DEF RecordAnswerLost, EndJob, IInv, JobInv, dbVars, Paying, Paid
<1>5. QED
  BY <1>2, <1>3, <1>4 DEF IInv, StoresInv

(***************************************************************************)
(* The writes after the receipt.                                           *)
(***************************************************************************)
LEMMA InsertSettlementStep ==
    ASSUME IInv, InsertSettlement  PROVE IInv'
<1>1. /\ pc = "insertSettlement" /\ pc' = "markSettled"
      /\ settlements' = [settlements EXCEPT ![job.id] = job.amount]
      /\ settledTotal' = [settledTotal EXCEPT ![job.clip] = @ + job.amount]
      /\ UNCHANGED <<chainVars, blockTimestamp, pending, isCapped, closedInDb, batch,
                     nextNonce, job, crashes>>
  BY DEF InsertSettlement
<1>2. /\ job \in Job /\ MatchesRow(job) /\ PaidFor(job)
      /\ job.id \notin batch
      /\ pending[job.id].status = "pending"
      /\ CapOf[job.clip] # NoCap => settledTotal[job.clip] + job.amount <= CapOf[job.clip]
  BY <1>1 DEF IInv, TypeOK, JobInv, Paying, Paid
<1>3. /\ job.id \in SettlementIds /\ job.clip \in Clips /\ job.amount \in Nat \ {0}
  BY <1>2 DEF Job
<1>4. settlements' \in [SettlementIds -> Nat] /\ settledTotal' \in [Clips -> Nat]
  BY <1>1, <1>3 DEF IInv, TypeOK
<1>5. TypeOK'
  BY <1>1, <1>4 DEF IInv, TypeOK, StorageTypeOK, chainVars, storageVars, Paying, Paid
<1>6. EscrowInv' /\ AuditMatchesPayouts' /\ PayoutsMatchTheQueue'
  BY <1>1 DEF IInv, EscrowInv, AuditMatchesPayouts, PayoutsMatchTheQueue,
              chainVars, storageVars
<1>7. TxInv'
  <2>1. KeepsRows
    BY <1>1 DEF KeepsRows
  <2>2. QED
    BY <1>1, <2>1, TxInvKept DEF IInv, chainVars, storageVars
<1>8. JobInv'
  BY <1>1, <1>2, <1>3 DEF IInv, TypeOK, JobInv, MatchesRow, PaidFor, PayoutOf,
                          chainVars, storageVars, Paying, Paid
<1>9. SettledMeansPaid'
  <2>1. payouts' = payouts /\ pending' = pending
    BY <1>1 DEF chainVars, storageVars
  <2>2. ASSUME NEW s \in SettlementIds
        PROVE  /\ settlements'[s] # 0 =>
                     payouts[s] = <<PayoutOf([clip |-> pending[s].clip,
                                              amount |-> settlements'[s]])>>
               /\ pending[s].status = "settled" => settlements'[s] # 0
    <3>1. CASE s = job.id
      <4>1. settlements'[s] = job.amount
        BY <1>1, <1>3, <3>1 DEF IInv, TypeOK
      <4>2. pending[s].clip = job.clip
        BY <1>2, <3>1 DEF MatchesRow
      <4>3. QED
        BY <1>2, <1>3, <3>1, <4>1, <4>2 DEF PaidFor, PayoutOf
    <3>2. CASE s # job.id
      <4>1. settlements'[s] = settlements[s]
        BY <1>1, <3>2 DEF IInv, TypeOK
      <4>2. QED
        BY <4>1 DEF IInv, SettledMeansPaid
    <3>3. QED
      BY <3>1, <3>2
  <2>3. QED
    BY <2>1, <2>2 DEF SettledMeansPaid, PayoutOf
<1>10. TotalsWithinCap'
  BY <1>1, <1>2, <1>3 DEF IInv, TypeOK, TotalsWithinCap
<1>11. QED
  BY <1>5, <1>6, <1>7, <1>8, <1>9, <1>10 DEF IInv

LEMMA MarkSettledStep ==
    ASSUME IInv, MarkSettled  PROVE IInv'
<1>1. /\ pc = "markSettled" /\ pc' \in {"setCapped", "readBalance"}
      /\ pending' = [pending EXCEPT ![job.id].status = "settled", ![job.id].reason = "none"]
      /\ UNCHANGED <<chainVars, blockTimestamp, settlements, settledTotal, isCapped,
                     closedInDb, batch, nextNonce, job, crashes>>
  BY DEF MarkSettled
<1>2. /\ job \in Job /\ MatchesRow(job) /\ PaidFor(job)
      /\ job.id \notin batch
      /\ pending[job.id].status = "pending"
      /\ settlements[job.id] = job.amount
  BY <1>1 DEF IInv, TypeOK, JobInv, Paying, Paid
<1>3. job.id \in SettlementIds /\ settlements[job.id] # 0
  BY <1>2 DEF Job
<1>4. /\ pending' \in [SettlementIds -> Row \cup {NoRow}]
      /\ \A t \in SettlementIds \ {job.id} : pending'[t] = pending[t]
      /\ KeepsRows
      /\ StoresInv'
  BY <1>1, <1>2, <1>3, VerdictStep DEF chainVars
<1>5. TypeOK'
  BY <1>1, <1>4 DEF IInv, TypeOK, StorageTypeOK, chainVars, storageVars, Paying, Paid
<1>6. JobInv'
  <2>1. \A t \in batch' : pending'[t].status = "pending"
    BY <1>1, <1>2, <1>4 DEF IInv, TypeOK, JobInv
  <2>2. MatchesRow(job)'
    BY <1>1, <1>2, <1>3, <1>4 DEF MatchesRow, KeepsRows
  <2>3. PaidFor(job)'
    BY <1>1, <1>2 DEF PaidFor, PayoutOf, chainVars, storageVars
  <2>4. QED
    BY <1>1, <1>2, <2>1, <2>2, <2>3 DEF JobInv, Paying, Paid
<1>7. QED
  BY <1>4, <1>5, <1>6 DEF IInv, StoresInv

\* Writing a hint on the clip or the campaign.
LEMMA HintStep ==
    ASSUME IInv, pc \in {"setCapped", "closeCampaign"}, pc' \in {"readBalance", "record"},
           isCapped' \in [Clips -> BOOLEAN], closedInDb' \in [CampaignIds -> BOOLEAN],
           UNCHANGED <<chainVars, blockTimestamp, pending, settlements, settledTotal,
                       batch, nextNonce, job, crashes>>
    PROVE  IInv'
<1>1. TypeOK'
  BY DEF IInv, TypeOK, StorageTypeOK, chainVars, storageVars, Paying, Paid
<1>2. EscrowInv' /\ AuditMatchesPayouts' /\ PayoutsMatchTheQueue' /\ SettledMeansPaid'
  BY DEF IInv, EscrowInv, AuditMatchesPayouts, PayoutsMatchTheQueue, SettledMeansPaid,
         chainVars, storageVars
<1>3. TxInv' /\ TotalsWithinCap'
  BY DEF IInv, TxInv, TotalsWithinCap, MatchesRow, PaidFor, chainVars, storageVars
<1>4. JobInv'
  BY DEF IInv, JobInv, MatchesRow, PaidFor, PayoutOf, chainVars, storageVars, Paying, Paid
<1>5. QED
  BY <1>1, <1>2, <1>3, <1>4 DEF IInv

LEMMA SetClipCappedStep ==
    ASSUME IInv, SetClipCapped  PROVE IInv'
  BY HintStep DEF SetClipCapped, IInv, TypeOK

LEMMA CloseCampaignStep ==
    ASSUME IInv, CloseCampaign  PROVE IInv'
  BY HintStep DEF CloseCampaign, IInv, TypeOK

-----------------------------------------------------------------------------
(***************************************************************************)
(* The chain.                                                              *)
(***************************************************************************)
LEMMA MinedTypes ==
    ASSUME TypeOK, NEW t \in NextTx, NEW ok \in BOOLEAN, Included(t, ok)
    PROVE  /\ t \in Tx /\ t \in mempool
           /\ mempool' \in SUBSET Tx /\ mempool' \subseteq mempool
           /\ mined' \in SUBSET [tx : Tx, ok : BOOLEAN]
           /\ mined' = mined \cup {[tx |-> t, ok |-> ok]}
           /\ chainNonce' \in Nat
  BY DEF TypeOK, NextTx, Included

\* The first payment of an id: what was paid before stays as it was.
LEMMA FirstPayment ==
    ASSUME IInv, NEW t \in Tx, MatchesRow(t), t.id \notin usedSettlementIds,
           payouts' = [payouts EXCEPT ![t.id] = Append(@, PayoutOf(t))]
    PROVE  /\ payouts[t.id] = << >>
           /\ payouts' = [payouts EXCEPT ![t.id] = <<PayoutOf(t)>>]
           /\ PaidFor(t)'
           /\ \A x : x.id \in SettlementIds /\ PaidFor(x) => PaidFor(x)'
<1>1. t.id \in SettlementIds
  BY DEF Tx
<1>2. payouts[t.id] = << >>
  BY <1>1 DEF IInv, EscrowInv
<1>3. payouts' = [payouts EXCEPT ![t.id] = <<PayoutOf(t)>>]
  <2>1. Append(payouts[t.id], PayoutOf(t)) = <<PayoutOf(t)>>
    BY <1>2
  <2>2. QED
    BY <2>1
<1>4. PaidFor(t)'
  BY <1>1, <1>3 DEF PaidFor, PayoutOf, IInv, TypeOK, StorageTypeOK
<1>5. ASSUME NEW x, x.id \in SettlementIds, PaidFor(x)  PROVE PaidFor(x)'
  <2>1. payouts[x.id] # << >>
    BY <1>5 DEF PaidFor
  <2>2. payouts'[x.id] = payouts[x.id]
    BY <1>2, <1>3, <1>5, <2>1 DEF IInv, TypeOK, StorageTypeOK
  <2>3. QED
    BY <1>5, <2>2 DEF PaidFor, PayoutOf
<1>6. QED
  BY <1>2, <1>3, <1>4, <1>5

LEMMA CampaignUpdate ==
    ASSUME TypeOK, NEW c \in CampaignIds, NEW b \in Nat,
           campaigns' = [campaigns EXCEPT ![c].balance = b]
    PROVE  /\ campaigns' \in [CampaignIds -> Campaign]
           /\ campaigns'[c].balance = b
           /\ campaigns'[c].closed = campaigns[c].closed
           /\ \A d \in CampaignIds \ {c} : campaigns'[d] = campaigns[d]
<1>1. campaigns \in [CampaignIds -> Campaign]
  BY DEF TypeOK, StorageTypeOK
<1>2. campaigns' = [campaigns EXCEPT ![c] = [campaigns[c] EXCEPT !.balance = b]]
  BY <1>1
<1>3. \A r \in Campaign : /\ [r EXCEPT !.balance = b] \in Campaign
                          /\ [r EXCEPT !.balance = b].balance = b
                          /\ [r EXCEPT !.balance = b].closed = r.closed
  BY DEF Campaign
<1>4. campaigns[c] \in Campaign
  BY <1>1
<1>5. campaigns'[c] = [campaigns[c] EXCEPT !.balance = b]
  BY <1>1, <1>2
<1>6. QED
  BY <1>1, <1>2, <1>3, <1>4, <1>5

\* What the release that is mined finds and leaves.
ReleaseMined(t) ==
    LET c == CampaignOf[t.clip]
    IN  /\ t \in mempool /\ MatchesRow(t)
        /\ mempool' \in SUBSET Tx /\ mempool' \subseteq mempool
        /\ mined' \in SUBSET [tx : Tx, ok : BOOLEAN]
        /\ mined' = mined \cup {[tx |-> t, ok |-> TRUE]}
        /\ chainNonce' \in Nat
        /\ c \in CampaignIds /\ t.id \in SettlementIds /\ t.amount \in Nat \ {0}
        /\ PayoutOf(t) \in Payout
        /\ ~campaigns[c].closed
        /\ campaigns[c].balance >= t.amount
        /\ usedSettlementIds' = usedSettlementIds \cup {t.id}
        /\ released' = [released EXCEPT ![c] = @ + t.amount]
        /\ UNCHANGED <<campaignCount, deposited, returned, recorded, blockTimestamp, dbVars,
                       pc, batch, nextNonce, job, crashes>>
        /\ payouts[t.id] = << >>
        /\ payouts' = [payouts EXCEPT ![t.id] = <<PayoutOf(t)>>]
        /\ PaidFor(t)'
        /\ \A x : x.id \in SettlementIds /\ PaidFor(x) => PaidFor(x)'
        /\ campaigns' \in [CampaignIds -> Campaign]
        /\ campaigns'[c].balance = campaigns[c].balance - t.amount
        /\ campaigns'[c].closed = campaigns[c].closed
        /\ \A d \in CampaignIds \ {c} : campaigns'[d] = campaigns[d]

LEMMA ReleaseFacts ==
    ASSUME IInv, MineRelease  PROVE \E t \in Tx : ReleaseMined(t)
<1>1. PICK t \in NextTx :
         /\ t.function = "release"
         /\ releaseSucceeds(t.clip, t.amount, t.id)
         /\ releaseEffects(CampaignOf[t.clip], t.amount, t.id)
         /\ emitPayoutReleased(CampaignOf[t.clip], WalletOf[t.clip], t.amount, t.id)
         /\ Included(t, TRUE)
         /\ UNCHANGED recorded
  BY DEF MineRelease
<1>2. /\ t \in Tx /\ t \in mempool /\ MatchesRow(t)
      /\ mempool' \in SUBSET Tx /\ mempool' \subseteq mempool
      /\ mined' \in SUBSET [tx : Tx, ok : BOOLEAN]
      /\ mined' = mined \cup {[tx |-> t, ok |-> TRUE]}
      /\ chainNonce' \in Nat
  BY <1>1, MinedTypes DEF IInv, TxInv
<1> DEFINE c == CampaignOf[t.clip]
<1>3. /\ c \in CampaignIds /\ t.id \in SettlementIds /\ t.amount \in Nat \ {0}
      /\ WalletOf[t.clip] \in Accounts
  BY <1>2, WorkerAssumption DEF Tx
<1>4. /\ t.id \notin usedSettlementIds
      /\ ~campaigns[c].closed
      /\ campaigns[c].balance >= t.amount
  BY <1>1 DEF releaseSucceeds, releaseAllowed
<1>5. /\ usedSettlementIds' = usedSettlementIds \cup {t.id}
      /\ campaigns' = [campaigns EXCEPT ![c].balance = @ - t.amount]
      /\ released' = [released EXCEPT ![c] = @ + t.amount]
      /\ payouts' = [payouts EXCEPT ![t.id] = Append(@, PayoutOf(t))]
      /\ UNCHANGED <<campaignCount, deposited, returned, recorded, blockTimestamp, dbVars,
                     pc, batch, nextNonce, job, crashes>>
  BY <1>1 DEF releaseEffects, emitPayoutReleased, Included, PayoutOf
<1>6. /\ payouts[t.id] = << >>
      /\ payouts' = [payouts EXCEPT ![t.id] = <<PayoutOf(t)>>]
      /\ PaidFor(t)'
      /\ \A x : x.id \in SettlementIds /\ PaidFor(x) => PaidFor(x)'
  BY <1>2, <1>4, <1>5, FirstPayment
<1>7. PayoutOf(t) \in Payout
  BY <1>3 DEF PayoutOf, Payout
<1>8. /\ campaigns' \in [CampaignIds -> Campaign]
      /\ campaigns'[c].balance = campaigns[c].balance - t.amount
      /\ campaigns'[c].closed = campaigns[c].closed
      /\ \A d \in CampaignIds \ {c} : campaigns'[d] = campaigns[d]
  <2>1. campaigns[c].balance \in Nat
    BY <1>3 DEF IInv, TypeOK, StorageTypeOK, Campaign
  <2>2. campaigns[c].balance - t.amount \in Nat
    BY <1>3, <1>4, <2>1
  <2>3. QED
    BY <1>3, <1>5, <2>2, CampaignUpdate DEF IInv
<1>9. QED
  BY <1>2, <1>3, <1>4, <1>5, <1>6, <1>7, <1>8 DEF ReleaseMined

LEMMA MineReleaseStep ==
    ASSUME IInv, MineRelease  PROVE IInv'
<1>1. PICK t \in Tx : ReleaseMined(t)
  BY ReleaseFacts
<1> DEFINE c == CampaignOf[t.clip]
<1>2. /\ t \in mempool /\ MatchesRow(t)
      /\ mempool' \in SUBSET Tx /\ mempool' \subseteq mempool
      /\ mined' \in SUBSET [tx : Tx, ok : BOOLEAN]
      /\ mined' = mined \cup {[tx |-> t, ok |-> TRUE]}
      /\ chainNonce' \in Nat
  BY <1>1 DEF ReleaseMined
<1>3. c \in CampaignIds /\ t.id \in SettlementIds /\ t.amount \in Nat \ {0}
  BY <1>1 DEF ReleaseMined
<1>4. /\ usedSettlementIds' = usedSettlementIds \cup {t.id}
      /\ released' = [released EXCEPT ![c] = @ + t.amount]
      /\ UNCHANGED <<campaignCount, deposited, returned, recorded, blockTimestamp, dbVars,
                     pc, batch, nextNonce, job, crashes>>
  BY <1>1 DEF ReleaseMined
<1>5. /\ payouts[t.id] = << >>
      /\ payouts' = [payouts EXCEPT ![t.id] = <<PayoutOf(t)>>]
      /\ PaidFor(t)'
      /\ \A x : x.id \in SettlementIds /\ PaidFor(x) => PaidFor(x)'
  BY <1>1 DEF ReleaseMined
<1>6. /\ \A s \in SettlementIds \ {t.id} : payouts'[s] = payouts[s]
      /\ payouts'[t.id] = <<PayoutOf(t)>>
      /\ payouts \in [SettlementIds -> Seq(Payout)]
  BY <1>3, <1>5 DEF IInv, TypeOK, StorageTypeOK
<1>7. /\ campaigns' \in [CampaignIds -> Campaign]
      /\ campaigns'[c].balance = campaigns[c].balance - t.amount
      /\ campaigns'[c].closed = campaigns[c].closed
      /\ \A d \in CampaignIds \ {c} : campaigns'[d] = campaigns[d]
  BY <1>1 DEF ReleaseMined
<1>8. TypeOK'
  <2>1. PayoutOf(t) \in Payout
    BY <1>1 DEF ReleaseMined
  <2>2. payouts' \in [SettlementIds -> Seq(Payout)]
    BY <1>3, <1>5, <1>6, <2>1
  <2>3. released' \in [CampaignIds -> Nat]
    BY <1>3, <1>4 DEF IInv, TypeOK, StorageTypeOK
  <2>4. StorageTypeOK'
    BY <1>3, <1>4, <1>7, <2>2, <2>3 DEF IInv, TypeOK, StorageTypeOK
  <2>5. QED
    BY <1>2, <1>4, <2>4 DEF IInv, TypeOK, dbVars
<1>9. EscrowInv'
  <2>1. ASSUME NEW s \in SettlementIds
        PROVE  IF s \in usedSettlementIds' THEN Len(payouts'[s]) = 1 ELSE payouts'[s] = << >>
    <3>1. CASE s = t.id
      <4>1. s \in usedSettlementIds'
        BY <1>4, <3>1
      <4>2. \A p : Len(<<p>>) = 1
        OBVIOUS
      <4>3. QED
        BY <1>6, <3>1, <4>1, <4>2
    <3>2. CASE s # t.id
      BY <1>4, <1>6, <3>2 DEF IInv, EscrowInv
    <3>3. QED
      BY <3>1, <3>2
  <2>2. ASSUME NEW d \in CampaignIds
        PROVE  /\ deposited'[d] = campaigns'[d].balance + released'[d] + returned'[d]
               /\ ~campaigns'[d].closed => returned'[d] = 0
    <3>1. /\ deposited[d] = campaigns[d].balance + released[d] + returned[d]
          /\ ~campaigns[d].closed => returned[d] = 0
          /\ campaigns[d].balance \in Nat /\ released[d] \in Nat /\ returned[d] \in Nat
      BY DEF IInv, EscrowInv, TypeOK, StorageTypeOK, Campaign
    <3>2. released'[d] = IF d = c THEN released[d] + t.amount ELSE released[d]
      BY <1>4 DEF IInv, TypeOK, StorageTypeOK
    <3>3. QED
      BY <1>3, <1>4, <1>7, <3>1, <3>2
  <2>3. QED
    BY <2>1, <2>2 DEF EscrowInv
<1>10. TxInv'
  <2>1. \A u \in mempool : u.id \in SettlementIds
    BY DEF IInv, TypeOK, Tx
  <2>2. \A u \in mempool' : MatchesRow(u)' /\ (u.function = "recordPayout" => PaidFor(u)')
    BY <1>2, <1>4, <1>5, <2>1 DEF IInv, TxInv, MatchesRow, dbVars
  <2>3. \A m \in mined' : m.ok /\ m.tx.function = "release" => PaidFor(m.tx)'
    <3>1. \A m \in mined : m.tx.id \in SettlementIds
      BY DEF IInv, TypeOK, Tx
    <3>2. QED
      BY <1>2, <1>5, <3>1 DEF IInv, TxInv
  <2>4. QED
    BY <2>2, <2>3 DEF TxInv
<1>11. JobInv'
  <2>1. pc \in Paid => PaidFor(job)'
    <3>1. job' = job
      BY <1>4
    <3>2. pc \in Paid => job.id \in SettlementIds /\ PaidFor(job)
      BY DEF IInv, TypeOK, JobInv, Job
    <3>3. QED
      BY <1>5, <3>1, <3>2 DEF PaidFor, PayoutOf
  <2>2. QED
    BY <1>4, <2>1 DEF IInv, JobInv, MatchesRow, dbVars
<1>12. PayoutsMatchTheQueue'
  <2>1. ASSUME NEW s \in SettlementIds, payouts'[s] # << >>
        PROVE  /\ pending[s] # NoRow
               /\ payouts'[s][1].campaign = CampaignOf[pending[s].clip]
               /\ payouts'[s][1].clipper = WalletOf[pending[s].clip]
               /\ payouts'[s][1].amount <= pending[s].amount
    <3>1. CASE s = t.id
      <4>1. payouts'[s][1] = PayoutOf(t)
        BY <1>6, <3>1
      <4>2. QED
        BY <1>2, <3>1, <4>1, RowIsNotNoRow DEF MatchesRow, PayoutOf
    <3>2. CASE s # t.id
      <4>1. payouts'[s] = payouts[s]
        BY <1>6, <3>2
      <4>2. QED
        BY <2>1, <4>1 DEF IInv, PayoutsMatchTheQueue
    <3>3. QED
      BY <3>1, <3>2
  <2>2. QED
    BY <1>4, <2>1 DEF PayoutsMatchTheQueue, dbVars
<1>13. SettledMeansPaid' /\ AuditMatchesPayouts'
  <2>1. ASSUME NEW s \in SettlementIds, payouts[s] # << >>  PROVE payouts'[s] = payouts[s]
    BY <1>5, <1>6, <2>1
  <2>2. ASSUME NEW s \in SettlementIds, settlements[s] # 0  PROVE payouts[s] # << >>
    BY <2>2, UnpaidIsUnsettled DEF IInv
  <2>3. SettledMeansPaid'
    BY <1>4, <2>1, <2>2 DEF IInv, SettledMeansPaid, PayoutOf, dbVars
  <2>4. AuditMatchesPayouts'
    BY <1>4, <2>1 DEF IInv, AuditMatchesPayouts
  <2>5. QED
    BY <2>3, <2>4
<1>14. TotalsWithinCap'
  BY <1>4 DEF IInv, TotalsWithinCap, dbVars
<1>15. QED
  BY <1>8, <1>9, <1>10, <1>11, <1>12, <1>13, <1>14 DEF IInv

LEMMA MineRecordStep ==
    ASSUME IInv, MineRecord  PROVE IInv'
<1>1. PICK t \in NextTx :
         /\ t.function = "recordPayout"
         /\ recordSucceeds(t.id)
         /\ recorded' = [recorded EXCEPT ![t.id] = Append(@, PayoutOf(t))]
         /\ Included(t, TRUE)
         /\ UNCHANGED storageVars
  BY DEF MineRecord
<1>2. /\ t \in Tx /\ t \in mempool /\ PaidFor(t)
      /\ mempool' \in SUBSET Tx /\ mempool' \subseteq mempool
      /\ mined' \in SUBSET [tx : Tx, ok : BOOLEAN]
      /\ mined' = mined \cup {[tx |-> t, ok |-> TRUE]}
      /\ chainNonce' \in Nat
  BY <1>1, MinedTypes DEF IInv, TxInv
<1>3. t.id \in SettlementIds /\ recorded[t.id] = << >>
  BY <1>1, <1>2 DEF Tx, recordSucceeds
<1>4. UNCHANGED <<storageVars, blockTimestamp, dbVars, pc, batch, nextNonce, job, crashes>>
  BY <1>1 DEF Included
<1>5. recorded' = [recorded EXCEPT ![t.id] = payouts[t.id]]
  <2>1. Append(recorded[t.id], PayoutOf(t)) = <<PayoutOf(t)>>
    BY <1>3
  <2>2. QED
    BY <1>1, <1>2, <2>1 DEF PaidFor
<1>6. TypeOK'
  <2>1. recorded' \in [SettlementIds -> Seq(Payout)]
    BY <1>3, <1>5 DEF IInv, TypeOK, StorageTypeOK
  <2>2. QED
    BY <1>2, <1>4, <2>1 DEF IInv, TypeOK, StorageTypeOK, storageVars, dbVars
<1>7. EscrowInv' /\ PayoutsMatchTheQueue' /\ SettledMeansPaid' /\ TotalsWithinCap'
  BY <1>4 DEF IInv, EscrowInv, PayoutsMatchTheQueue, SettledMeansPaid, TotalsWithinCap,
              storageVars, dbVars
<1>8. TxInv'
  <2>1. \A u : (MatchesRow(u)' <=> MatchesRow(u)) /\ (PaidFor(u)' <=> PaidFor(u))
    BY <1>4 DEF MatchesRow, PaidFor, PayoutOf, storageVars, dbVars
  <2>2. \A m \in mined' : m.ok /\ m.tx.function = "release" => m \in mined
    BY <1>1, <1>2
  <2>3. QED
    BY <1>2, <2>1, <2>2 DEF IInv, TxInv
<1>9. JobInv'
  BY <1>4 DEF IInv, JobInv, MatchesRow, PaidFor, storageVars, dbVars
<1>10. AuditMatchesPayouts'
  BY <1>3, <1>4, <1>5 DEF IInv, TypeOK, AuditMatchesPayouts, storageVars
<1>11. QED
  BY <1>6, <1>7, <1>8, <1>9, <1>10 DEF IInv

LEMMA MineRevertedStep ==
    ASSUME IInv, MineReverted  PROVE IInv'
<1>1. PICK t \in NextTx : Included(t, FALSE) /\ UNCHANGED <<storageVars, recorded>>
  BY DEF MineReverted
<1>2. /\ mempool' \in SUBSET Tx /\ mempool' \subseteq mempool
      /\ mined' \in SUBSET [tx : Tx, ok : BOOLEAN]
      /\ mined' = mined \cup {[tx |-> t, ok |-> FALSE]}
      /\ chainNonce' \in Nat
  BY <1>1, MinedTypes DEF IInv
<1>3. UNCHANGED <<storageVars, recorded, blockTimestamp, dbVars, pc, batch, nextNonce,
                  job, crashes>>
  BY <1>1 DEF Included
<1>4. TypeOK'
  BY <1>2, <1>3 DEF IInv, TypeOK, StorageTypeOK, storageVars, dbVars
<1>5. EscrowInv' /\ PayoutsMatchTheQueue' /\ SettledMeansPaid' /\ TotalsWithinCap'
  BY <1>3 DEF IInv, EscrowInv, PayoutsMatchTheQueue, SettledMeansPaid, TotalsWithinCap,
              storageVars, dbVars
<1>6. TxInv' /\ AuditMatchesPayouts'
  BY <1>2, <1>3 DEF IInv, TxInv, AuditMatchesPayouts, MatchesRow, PaidFor, storageVars, dbVars
<1>7. JobInv'
  BY <1>3 DEF IInv, JobInv, MatchesRow, PaidFor, storageVars, dbVars
<1>8. QED
  BY <1>4, <1>5, <1>6, <1>7 DEF IInv

(***************************************************************************)
(* A call of the contract by someone else: no id is used or paid.          *)
(***************************************************************************)
LEMMA OthersCall ==
    ASSUME IInv,
           UNCHANGED <<campaignCount, usedSettlementIds, payouts, released, blockTimestamp,
                       dbVars, recorded, mempool, mined, chainNonce, pc, batch, nextNonce,
                       job, crashes>>,
           campaigns' \in [CampaignIds -> Campaign],
           deposited' \in [CampaignIds -> Nat], returned' \in [CampaignIds -> Nat],
           \A c \in CampaignIds :
              /\ deposited'[c] = campaigns'[c].balance + released[c] + returned'[c]
              /\ ~campaigns'[c].closed => returned'[c] = 0
    PROVE  IInv'
<1>1. TypeOK'
  BY DEF IInv, TypeOK, StorageTypeOK, dbVars
<1>2. EscrowInv'
  BY DEF IInv, EscrowInv
<1>3. PayoutsMatchTheQueue' /\ SettledMeansPaid' /\ TotalsWithinCap' /\ AuditMatchesPayouts'
  BY DEF IInv, PayoutsMatchTheQueue, SettledMeansPaid, TotalsWithinCap, AuditMatchesPayouts,
         dbVars
<1>4. TxInv'
  BY DEF IInv, TxInv, MatchesRow, PaidFor, dbVars
<1>5. JobInv'
  BY DEF IInv, JobInv, MatchesRow, PaidFor, dbVars
<1>6. QED
  BY <1>1, <1>2, <1>3, <1>4, <1>5 DEF IInv

LEMMA CampaignBooks ==
    ASSUME IInv, NEW c \in CampaignIds
    PROVE  /\ campaigns[c] \in Campaign
           /\ campaigns[c].balance \in Nat /\ deposited[c] \in Nat
           /\ released[c] \in Nat /\ returned[c] \in Nat
           /\ deposited[c] = campaigns[c].balance + released[c] + returned[c]
           /\ ~campaigns[c].closed => returned[c] = 0
  BY DEF IInv, TypeOK, StorageTypeOK, EscrowInv, Campaign

LEMMA TopUpStep ==
    ASSUME IInv, TopUp  PROVE IInv'
<1>1. PICK c \in CampaignIds, value \in TopUps : topUp(c, value)
  BY DEF TopUp
<1>2. value \in Nat
  BY WorkerAssumption
<1>3. /\ campaigns' = [campaigns EXCEPT ![c].balance = @ + value]
      /\ deposited' = [deposited EXCEPT ![c] = @ + value]
      /\ UNCHANGED <<campaignCount, usedSettlementIds, payouts, released, returned>>
  BY <1>1 DEF topUp
<1>4. /\ campaigns' \in [CampaignIds -> Campaign]
      /\ campaigns'[c].balance = campaigns[c].balance + value
      /\ campaigns'[c].closed = campaigns[c].closed
      /\ \A d \in CampaignIds \ {c} : campaigns'[d] = campaigns[d]
  <2>1. campaigns[c].balance + value \in Nat
    BY <1>2, CampaignBooks
  <2>2. QED
    BY <1>3, <2>1, CampaignUpdate DEF IInv
<1>5. /\ deposited' \in [CampaignIds -> Nat] /\ returned' \in [CampaignIds -> Nat]
      /\ deposited'[c] = deposited[c] + value
      /\ \A d \in CampaignIds \ {c} : deposited'[d] = deposited[d]
  BY <1>2, <1>3 DEF IInv, TypeOK, StorageTypeOK
<1>6. ASSUME NEW d \in CampaignIds
      PROVE  /\ deposited'[d] = campaigns'[d].balance + released[d] + returned'[d]
             /\ ~campaigns'[d].closed => returned'[d] = 0
  BY <1>2, <1>3, <1>4, <1>5, CampaignBooks
<1>7. QED
  BY <1>3, <1>4, <1>5, <1>6, OthersCall DEF TopUp

LEMMA WithdrawRemainingStep ==
    ASSUME IInv, WithdrawRemaining  PROVE IInv'
<1>1. PICK c \in CampaignIds : withdrawAllowed(Organizer, c) /\ withdrawEffects(c)
  BY DEF WithdrawRemaining
<1>2. /\ campaigns' = [campaigns EXCEPT ![c].balance = 0, ![c].closed = TRUE]
      /\ returned' = [returned EXCEPT ![c] = @ + campaigns[c].balance]
      /\ UNCHANGED <<campaignCount, usedSettlementIds, deposited, released>>
      /\ ~campaigns[c].closed
  BY <1>1 DEF withdrawAllowed, withdrawEffects
<1>3. campaigns \in [CampaignIds -> Campaign] /\ returned \in [CampaignIds -> Nat]
  BY DEF IInv, TypeOK, StorageTypeOK
<1>4. /\ campaigns' \in [CampaignIds -> Campaign]
      /\ campaigns'[c].balance = 0 /\ campaigns'[c].closed
      /\ \A d \in CampaignIds \ {c} : campaigns'[d] = campaigns[d]
  <2> DEFINE Emptied(r) == [r EXCEPT !.balance = 0, !.closed = TRUE]
  <2>1. \A r \in Campaign : /\ Emptied(r) \in Campaign
                            /\ Emptied(r).balance = 0 /\ Emptied(r).closed
    BY DEF Campaign
  <2>2. campaigns' = [campaigns EXCEPT ![c] = Emptied(campaigns[c])]
    BY <1>2, <1>3
  <2> HIDE DEF Emptied
  <2>3. QED
    BY <1>3, <2>1, <2>2
<1>5. /\ returned' \in [CampaignIds -> Nat]
      /\ returned'[c] = returned[c] + campaigns[c].balance
      /\ \A d \in CampaignIds \ {c} : returned'[d] = returned[d]
  BY <1>2, <1>3, CampaignBooks
<1>6. ASSUME NEW d \in CampaignIds
      PROVE  /\ deposited'[d] = campaigns'[d].balance + released[d] + returned'[d]
             /\ ~campaigns'[d].closed => returned'[d] = 0
  BY <1>2, <1>4, <1>5, CampaignBooks
<1>7. deposited' \in [CampaignIds -> Nat]
  BY <1>2 DEF IInv, TypeOK, StorageTypeOK
<1>8. QED
  BY <1>2, <1>4, <1>5, <1>6, <1>7, OthersCall DEF WithdrawRemaining

-----------------------------------------------------------------------------
(***************************************************************************)
(* The invariant.                                                          *)
(***************************************************************************)
LEMMA InitEstablishes ==
    ASSUME Init  PROVE IInv
<1>1. TypeOK
  <2>1. InitialDeposit \in [CampaignIds -> Nat]
    BY WorkerAssumption
  <2>2. \A c \in CampaignIds :
           [organizer |-> Organizer, authorizedAgent |-> Agent, maxDuration |-> MaxDuration,
            balance |-> InitialDeposit[c], createdAt |-> 0, closed |-> FALSE] \in Campaign
    BY <2>1, WorkerAssumption DEF Campaign, Address
  <2>3. MaxCampaigns \in 0 .. MaxCampaigns
    BY StorageAssumption
  <2>4. StorageTypeOK
    BY <2>1, <2>2, <2>3 DEF Init, StorageTypeOK
  <2>5. QED
    BY <2>4 DEF Init, TypeOK, NoRow, Paying, Paid
<1>2. EscrowInv
  BY WorkerAssumption DEF Init, EscrowInv
<1>3. TxInv /\ JobInv
  BY DEF Init, TxInv, JobInv, Paying, Paid
<1>4. PayoutsMatchTheQueue /\ SettledMeansPaid /\ AuditMatchesPayouts
  BY DEF Init, PayoutsMatchTheQueue, SettledMeansPaid, AuditMatchesPayouts, NoRow
<1>5. TotalsWithinCap
  BY WorkerAssumption DEF Init, TotalsWithinCap, Caps, NoCap
<1>6. QED
  BY <1>1, <1>2, <1>3, <1>4, <1>5 DEF IInv

LEMMA StutterStep ==
    ASSUME IInv, UNCHANGED vars  PROVE IInv'
<1>1. TypeOK'
  BY DEF IInv, TypeOK, StorageTypeOK, vars, storageVars, dbVars
<1>2. JobInv'
  BY DEF IInv, JobInv, MatchesRow, PaidFor, vars, storageVars, dbVars
<1>3. QED
  BY <1>1, <1>2, LocalStep DEF vars, chainVars

LEMMA NextPreserves ==
    ASSUME IInv, [Next]_vars  PROVE IInv'
<1>1. CASE Cycle
  BY <1>1, ListPendingSettlementsStep, ReadNonceStep, EndCycleStep DEF Cycle
<1>2. CASE Decide
  BY <1>2, RejectRowStep, CapRejectedClipStep, AcceptRowStep DEF Decide
<1>3. CASE Release
  BY <1>3, EstimateReleaseStep, EstimateFailsStep, SendReleaseStep, SendRefusedStep,
     SendAnswerLostStep, WaitReleaseStep, WaitReleaseFailsStep DEF Release
<1>4. CASE Settle
  BY <1>4, InsertSettlementStep, MarkSettledStep, SetClipCappedStep, ReadBalanceStep,
     CloseCampaignStep DEF Settle
<1>5. CASE Record
  BY <1>5, SendRecordStep, RecordRefusedStep, RecordAnswerLostStep, WaitRecordStep DEF Record
<1>6. CASE Crash \/ Restart
  BY <1>6, CrashStep, RestartStep
<1>7. CASE Mine
  BY <1>7, MineReleaseStep, MineRecordStep, MineRevertedStep DEF Mine
<1>8. CASE Environment
  BY <1>8, InsertPendingSettlementStep, TopUpStep, WithdrawRemainingStep, NextBlockStep
     DEF Environment
<1>9. CASE UNCHANGED vars
  BY <1>9, StutterStep
<1>10. QED
  BY <1>1, <1>2, <1>3, <1>4, <1>5, <1>6, <1>7, <1>8, <1>9 DEF Next, Worker

(***************************************************************************)
(* IInv holds whatever fails, for any number of campaigns, clips, rows,    *)
(* crashes and transactions under way: the escrow, the mempool, the row in *)
(* hand and the tables agree at every statement of worker.ts:125-353.      *)
(***************************************************************************)
THEOREM InductiveInvariant == Spec => []IInv
<1>1. Init => IInv
  BY InitEstablishes
<1>2. IInv /\ [Next]_vars => IInv'
  BY NextPreserves
<1>3. QED
  BY <1>1, <1>2, PTL DEF Spec

-----------------------------------------------------------------------------
(***************************************************************************)
(* What follows from it.                                                   *)
(***************************************************************************)
\* Database, chain and worker keep their types, and amounts never turn negative:
\* no release takes more than its campaign's balance (CampaignEscrow.sol:121).
THEOREM TypeCorrect == Spec => []TypeOK
<1>1. IInv => TypeOK
  BY DEF IInv
<1>2. QED
  BY <1>1, InductiveInvariant, PTL

\* No settlement id is paid twice, whatever is retried, lost or restarted
\* (CampaignEscrow.sol:27-31).
THEOREM NoDoublePayment == Spec => []PaidAtMostOnce
<1>1. IInv => PaidAtMostOnce
  <2>1. SUFFICES ASSUME IInv, NEW s \in SettlementIds  PROVE Len(payouts[s]) <= 1
    BY DEF PaidAtMostOnce
  <2>2. Len(payouts[s]) = 1 \/ payouts[s] = << >>
    BY <2>1 DEF IInv, EscrowInv
  <2>3. CASE payouts[s] = << >>
    <3>1. Len(payouts[s]) = 0
      BY <2>3
    <3>2. QED
      BY <3>1
  <2>4. CASE Len(payouts[s]) = 1
    BY <2>4
  <2>5. QED
    BY <2>2, <2>3, <2>4
<1>2. QED
  BY <1>1, InductiveInvariant, PTL

\* A payout goes to the wallet and campaign of the clip queued under its id and
\* is never more than the queued amount (worker.ts:208-243).
THEOREM PayoutsAreQueued == Spec => []PayoutsMatchTheQueue
<1>1. IInv => PayoutsMatchTheQueue
  BY DEF IInv
<1>2. QED
  BY <1>1, InductiveInvariant, PTL

\* No row of settlements and no status 'settled' without the payout it stands for
\* (worker.ts:259-273).
THEOREM SettledIsPaid == Spec => []SettledMeansPaid
<1>1. IInv => SettledMeansPaid
  BY DEF IInv
<1>2. QED
  BY <1>1, InductiveInvariant, PTL

\* No entry of the audit log without the payout it stands for (worker.ts:302-321).
THEOREM AuditIsPaid == Spec => []AuditMatchesPayouts
<1>1. IInv => AuditMatchesPayouts
  BY DEF IInv
<1>2. QED
  BY <1>1, InductiveInvariant, PTL

\* The total that pendingSettlement.ts:42-52 clamps against never exceeds the cap.
THEOREM TotalsStayWithinCap == Spec => []TotalsWithinCap
<1>1. IInv => TotalsWithinCap
  BY DEF IInv
<1>2. QED
  BY <1>1, InductiveInvariant, PTL

-----------------------------------------------------------------------------
(***************************************************************************)
(* What a step may do: verdicts are final, and every step is a step of     *)
(* PayoutLedger or leaves the ledger alone.                                *)
(***************************************************************************)

(***************************************************************************)
(* The verdict and the settlement of a row.                                *)
(***************************************************************************)
VerdictStays(s) ==
    /\ pending[s].status \in {"settled", "failed"} => pending'[s] = pending[s]
    /\ settlements[s] # 0 => settlements'[s] = settlements[s]

\* Only a pending row gets a verdict.
LEMMA OnlyPendingRowJudged ==
    ASSUME IInv, NEW s \in SettlementIds, pending[s].status = "pending",
           NEW status \in {"settled", "failed"},
           NEW reason \in RejectReasons \cup {"none", "release"},
           pending' = [pending EXCEPT ![s].status = status, ![s].reason = reason],
           UNCHANGED settlements, NEW t \in SettlementIds
    PROVE  VerdictStays(t)
<1>1. pending[s] \in Row
  BY RowOrNoRow DEF IInv
<1>2. \A u \in SettlementIds \ {s} : pending'[u] = pending[u]
  BY <1>1, VerdictKeepsRows DEF IInv
<1>3. QED
  BY <1>2 DEF VerdictStays

LEMMA MarkFailedJudges ==
    ASSUME IInv, pc \in Paying, MarkFailed, NEW s \in SettlementIds
    PROVE  VerdictStays(s)
<1>1. job.id \in SettlementIds /\ pending[job.id].status = "pending"
  BY DEF IInv, TypeOK, JobInv, Job
<1>2. QED
  BY <1>1, OnlyPendingRowJudged DEF MarkFailed

LEMMA VerdictsStay ==
    ASSUME IInv, [Next]_vars, NEW s \in SettlementIds
    PROVE  VerdictStays(s)
<1>1. CASE UNCHANGED <<pending, settlements>>
  BY <1>1 DEF VerdictStays
<1>2. CASE InsertPendingSettlement
  <2>1. PICK x \in SettlementIds :
           pending[x] = NoRow /\ \E row : pending' = [pending EXCEPT ![x] = row]
    BY <1>2 DEF InsertPendingSettlement
  <2>2. CASE s = x
    BY <1>2, <2>1, <2>2 DEF InsertPendingSettlement, VerdictStays, NoRow
  <2>3. CASE s # x
    BY <1>2, <2>1, <2>3 DEF InsertPendingSettlement, VerdictStays, IInv, TypeOK
  <2>4. QED
    BY <2>2, <2>3
<1>3. CASE RejectRow
  <2>1. PICK x \in batch :
           /\ ReasonToReject(x) \in RejectReasons
           /\ pending' = [pending EXCEPT ![x].status = "failed",
                                         ![x].reason = ReasonToReject(x)]
    BY <1>3 DEF RejectRow
  <2>2. x \in SettlementIds /\ pending[x].status = "pending"
    BY DEF IInv, TypeOK, JobInv
  <2>3. UNCHANGED settlements
    BY <1>3 DEF RejectRow
  <2>4. QED
    BY <2>1, <2>2, <2>3, OnlyPendingRowJudged
<1>4. CASE EstimateFails \/ SendRefused \/ SendAnswerLost \/ WaitReleaseFails
  BY <1>4, MarkFailedJudges
     DEF EstimateFails, SendRefused, SendAnswerLost, WaitReleaseFails, Paying
<1>5. CASE InsertSettlement
  <2>1. job.id \in SettlementIds /\ settlements[job.id] = 0
    BY <1>5 DEF InsertSettlement, IInv, TypeOK, JobInv, Job, Paying, Paid
  <2>2. UNCHANGED pending
    BY <1>5 DEF InsertSettlement
  <2>3. settlements[s] # 0 => settlements'[s] = settlements[s]
    BY <1>5, <2>1 DEF InsertSettlement, IInv, TypeOK
  <2>4. QED
    BY <2>2, <2>3 DEF VerdictStays
<1>6. CASE MarkSettled
  <2>1. job.id \in SettlementIds /\ pending[job.id].status = "pending"
    BY <1>6 DEF MarkSettled, IInv, TypeOK, JobInv, Job, Paying, Paid
  <2>2. QED
    BY <1>6, <2>1, OnlyPendingRowJudged DEF MarkSettled
<1>7. CASE Cycle \/ CapRejectedClip \/ AcceptRow \/ EstimateRelease \/ SendRelease
           \/ WaitRelease \/ SetClipCapped \/ ReadBalance \/ CloseCampaign \/ Record
  BY <1>1, <1>7 DEF Cycle, ListPendingSettlements, ReadNonce, EndCycle, CapRejectedClip,
     AcceptRow, EstimateRelease, SendRelease, WaitRelease, SetClipCapped, ReadBalance, CloseCampaign,
     Record, SendRecord, RecordRefused, RecordAnswerLost, WaitRecord, dbVars
<1>8. CASE Crash \/ Restart \/ Mine
  BY <1>1, <1>8 DEF Crash, Restart, Mine, MineRelease, MineRecord, MineReverted, Included,
     dbVars
<1>9. CASE TopUp \/ WithdrawRemaining \/ NextBlock
  BY <1>1, <1>9 DEF TopUp, WithdrawRemaining, NextBlock, dbVars
<1>10. CASE UNCHANGED vars
  BY <1>1, <1>10 DEF vars, dbVars
<1>11. QED
  BY <1>2, <1>3, <1>4, <1>5, <1>6, <1>7, <1>8, <1>9, <1>10
     DEF Next, Worker, Decide, Release, Settle, Environment

\* A row that was settled or failed keeps its verdict and its reason, and a row of
\* settlements is never changed (db.ts:437-454, schema.sql:153-154).
THEOREM VerdictsStayFinal == Spec => VerdictsAreFinal
<1>1. IInv /\ [Next]_vars =>
         [\A s \in SettlementIds :
             /\ pending[s].status \in {"settled", "failed"} => pending'[s] = pending[s]
             /\ settlements[s] # 0 => settlements'[s] = settlements[s]]_vars
  BY VerdictsStay DEF VerdictStays
<1>2. QED
  BY <1>1, InductiveInvariant, PTL DEF Spec, VerdictsAreFinal

-----------------------------------------------------------------------------
(***************************************************************************)
(* Refinement of PayoutLedger.                                             *)
(***************************************************************************)
LEMMA LedgerInitially ==
    ASSUME Init  PROVE Ledger!LedgerInit
  BY WorkerAssumption DEF Init, Ledger!LedgerInit

\* Nothing of the ledger moves.
LEMMA LedgerUntouched ==
    ASSUME UNCHANGED <<payouts, deposited, released, returned, campaigns>>
    PROVE  UNCHANGED Ledger!ledgerVars
  BY DEF Ledger!ledgerVars

LEMMA ReleaseIsPay ==
    ASSUME IInv, MineRelease  PROVE \E i \in SettlementIds : Ledger!Pay(i)
<1>1. PICK t \in Tx : ReleaseMined(t)
  BY ReleaseFacts
<1> DEFINE p == PayoutOf(t)
           c == CampaignOf[t.clip]
<1>2. /\ c \in CampaignIds /\ t.id \in SettlementIds /\ t.amount \in Nat \ {0}
      /\ p \in Payout /\ p.campaign = c /\ p.amount = t.amount
  BY <1>1 DEF ReleaseMined, PayoutOf
<1>3. /\ payouts[t.id] = << >>
      /\ payouts' = [payouts EXCEPT ![t.id] = <<p>>]
  BY <1>1 DEF ReleaseMined
<1>4. /\ payouts'[t.id] = <<p>>
      /\ payouts'[t.id] # << >>
      /\ payouts'[t.id][1] = p
  BY <1>2, <1>3 DEF IInv, TypeOK, StorageTypeOK
<1>5. ~campaigns[c].closed
  BY <1>1 DEF ReleaseMined
<1>6. released[c] + t.amount <= deposited[c]
  <2>1. campaigns[c].balance >= t.amount
    BY <1>1 DEF ReleaseMined
  <2>2. QED
    BY <1>2, <2>1, CampaignBooks
<1>7. /\ released' = [released EXCEPT ![c] = @ + t.amount]
      /\ UNCHANGED <<deposited, returned>>
  BY <1>1 DEF ReleaseMined
<1>8. {d \in CampaignIds : campaigns'[d].closed} = {d \in CampaignIds : campaigns[d].closed}
  BY <1>1 DEF ReleaseMined
<1>9. Ledger!DepositsGrow
  BY <1>7, CampaignBooks DEF Ledger!DepositsGrow, IInv, TypeOK, StorageTypeOK
<1> HIDE DEF p, c
<1>10. Ledger!Pay(t.id)
  BY <1>2, <1>3, <1>4, <1>5, <1>6, <1>7, <1>8, <1>9 DEF Ledger!Pay
<1>11. QED
  BY <1>2, <1>10

LEMMA TopUpIsDeposit ==
    ASSUME IInv, TopUp  PROVE Ledger!Deposit
<1>1. PICK c \in CampaignIds, value \in TopUps : topUp(c, value)
  BY DEF TopUp
<1>2. value \in Nat /\ ~campaigns[c].closed
  BY <1>1, WorkerAssumption DEF topUp, topUpAllowed
<1>3. /\ deposited' = [deposited EXCEPT ![c] = @ + value]
      /\ UNCHANGED <<payouts, released, returned>>
  BY <1>1 DEF topUp
<1>4. \A d \in CampaignIds : campaigns'[d].closed = campaigns[d].closed
  <2>1. campaigns[c].balance + value \in Nat
    BY <1>2, CampaignBooks
  <2>2. QED
    BY <1>1, <2>1, CampaignUpdate DEF topUp, IInv
<1>5. /\ deposited' \in [CampaignIds -> Nat]
      /\ \A d \in CampaignIds : deposited'[d] >= deposited[d]
      /\ \A d \in CampaignIds \ {c} : deposited'[d] = deposited[d]
  BY <1>2, <1>3 DEF IInv, TypeOK, StorageTypeOK
<1>6. Ledger!DepositsGrow
  BY <1>2, <1>5 DEF Ledger!DepositsGrow
<1>7. QED
  BY <1>3, <1>4, <1>6 DEF Ledger!Deposit

LEMMA WithdrawIsRefund ==
    ASSUME IInv, WithdrawRemaining  PROVE \E c \in CampaignIds : Ledger!Refund(c)
<1>1. PICK c \in CampaignIds : withdrawAllowed(Organizer, c) /\ withdrawEffects(c)
  BY DEF WithdrawRemaining
<1>2. /\ campaigns' = [campaigns EXCEPT ![c].balance = 0, ![c].closed = TRUE]
      /\ returned' = [returned EXCEPT ![c] = @ + campaigns[c].balance]
      /\ UNCHANGED <<payouts, deposited, released>>
      /\ ~campaigns[c].closed
  BY <1>1 DEF withdrawAllowed, withdrawEffects, WithdrawRemaining
<1>3. returned[c] + campaigns[c].balance = deposited[c] - released[c]
  BY <1>2, CampaignBooks
<1>4. {d \in CampaignIds : campaigns'[d].closed}
         = {d \in CampaignIds : campaigns[d].closed} \cup {c}
  BY <1>2, CampaignBooks DEF IInv, TypeOK, StorageTypeOK, Campaign
<1>5. Ledger!DepositsGrow
  BY <1>2, CampaignBooks DEF Ledger!DepositsGrow, IInv, TypeOK, StorageTypeOK
<1>6. Ledger!Refund(c)
  BY <1>2, <1>3, <1>4, <1>5 DEF Ledger!Refund
<1>7. QED
  BY <1>6

LEMMA LedgerStep ==
    ASSUME IInv, [Next]_vars  PROVE [Ledger!LedgerNext]_(Ledger!ledgerVars)
<1>1. CASE UNCHANGED <<payouts, deposited, released, returned, campaigns>>
  BY <1>1, LedgerUntouched
<1>2. CASE MineRelease
  BY <1>2, ReleaseIsPay DEF Ledger!LedgerNext
<1>3. CASE TopUp
  BY <1>3, TopUpIsDeposit DEF Ledger!LedgerNext
<1>4. CASE WithdrawRemaining
  BY <1>4, WithdrawIsRefund DEF Ledger!LedgerNext
<1>5. CASE Cycle \/ Decide \/ Settle
  BY <1>1, <1>5 DEF Cycle, Decide, Settle, ListPendingSettlements, ReadNonce, EndCycle,
     RejectRow, CapRejectedClip, AcceptRow, InsertSettlement, MarkSettled, SetClipCapped, ReadBalance,
     CloseCampaign, chainVars, storageVars
<1>6. CASE Release \/ Record
  BY <1>1, <1>6 DEF Release, Record, EstimateRelease, EstimateFails, SendRelease, SendRefused,
     SendAnswerLost, WaitRelease, WaitReleaseFails, SendRecord, RecordRefused,
     RecordAnswerLost, WaitRecord, chainVars, storageVars
<1>7. CASE Crash \/ Restart \/ MineRecord \/ MineReverted
  BY <1>1, <1>7 DEF Crash, Restart, MineRecord, MineReverted, chainVars, storageVars
<1>8. CASE InsertPendingSettlement \/ NextBlock \/ UNCHANGED vars
  BY <1>1, <1>8 DEF InsertPendingSettlement, NextBlock, vars, chainVars, storageVars
<1>9. QED
  BY <1>2, <1>3, <1>4, <1>5, <1>6, <1>7, <1>8 DEF Next, Worker, Mine, Environment

\* The worker on its chain implements PayoutLedger: with every fault, each step is one
\* payout of an unpaid id, one deposit, one refund of exactly what is left, or nothing.
THEOREM ImplementsPayoutLedger == Spec => ImplementsLedger
<1>1. Init => Ledger!LedgerInit
  BY LedgerInitially
<1>2. IInv /\ [Next]_vars => [Ledger!LedgerNext]_(Ledger!ledgerVars)
  BY LedgerStep
<1>3. QED
  BY <1>1, <1>2, InductiveInvariant, PTL DEF Spec, ImplementsLedger, Ledger!LedgerSpec

-----------------------------------------------------------------------------
(***************************************************************************)
(* The agent's nonces.  NoNonceGap is inductive given the types: a         *)
(* transaction is sent under the tracker's next nonce, and everything      *)
(* below it is waiting already.                                            *)
(***************************************************************************)
LEMMA GaplessSend ==
    ASSUME TypeOK, NoNonceGap, NEW t \in Tx, t.nonce = nextNonce, Broadcast(t),
           chainNonce' = chainNonce, nextNonce' \in {nextNonce, nextNonce + 1, 0}
    PROVE  NoNonceGap'
<1>1. /\ chainNonce \in Nat /\ nextNonce \in Nat /\ mempool \in SUBSET Tx
      /\ mempool' = (mempool \ SameNonce(nextNonce)) \cup {t}
  BY DEF TypeOK, Broadcast
<1>2. ASSUME NEW n, n = nextNonce  PROVE SameNonce(n)' # {}
  <2>1. t \in mempool' /\ t.nonce = n
    BY <1>1, <1>2
  <2>2. QED
    BY <2>1 DEF SameNonce
<1>3. ASSUME NEW n \in Nat, SameNonce(n) # {}
      PROVE  SameNonce(n)' # {}
  <2>1. CASE n = nextNonce
    BY <1>2, <2>1
  <2>2. CASE n # nextNonce
    BY <1>1, <1>3, <2>2 DEF SameNonce
  <2>3. QED
    BY <2>1, <2>2
<1>4. \A n \in chainNonce .. nextNonce : SameNonce(n)' # {}
  <2>1. SUFFICES ASSUME NEW n \in chainNonce .. nextNonce  PROVE SameNonce(n)' # {}
    OBVIOUS
  <2>2. n \in Nat /\ (n = nextNonce \/ n \in chainNonce .. nextNonce - 1)
    BY <1>1
  <2>3. QED
    BY <1>2, <1>3, <2>2 DEF NoNonceGap
<1>5. ASSUME NEW u \in mempool', NEW n \in chainNonce .. u.nonce
      PROVE  SameNonce(n)' # {}
  <2>1. CASE u = t
    BY <1>4, <1>5, <2>1
  <2>2. CASE u \in mempool
    <3>1. n \in Nat
      BY <1>1
    <3>2. SameNonce(n) # {}
      BY <2>2, <1>5 DEF NoNonceGap
    <3>3. QED
      BY <1>3, <3>1, <3>2
  <2>3. QED
    BY <1>1, <2>1, <2>2
<1>6. \A n \in chainNonce .. nextNonce' - 1 : n \in chainNonce .. nextNonce
  <2>1. SUFFICES ASSUME NEW n \in chainNonce .. nextNonce' - 1
                 PROVE  n \in chainNonce .. nextNonce
    OBVIOUS
  <2>2. CASE nextNonce' = nextNonce
    BY <1>1, <2>1, <2>2
  <2>3. CASE nextNonce' = nextNonce + 1
    BY <1>1, <2>1, <2>3
  <2>4. CASE nextNonce' = 0
    BY <1>1, <2>1, <2>4
  <2>5. QED
    BY <2>2, <2>3, <2>4
<1>7. QED
  BY <1>4, <1>5, <1>6 DEF NoNonceGap

\* The chain executes a transaction under the lowest nonce that is missing.
LEMMA GaplessInclusion ==
    ASSUME TypeOK, NoNonceGap, NEW t \in NextTx, NEW ok, Included(t, ok)
    PROVE  NoNonceGap'
<1>1. /\ chainNonce \in Nat /\ nextNonce \in Nat /\ mempool \in SUBSET Tx
      /\ mempool' = mempool \ {t} /\ t.nonce = chainNonce
      /\ chainNonce' = chainNonce + 1 /\ nextNonce' = nextNonce
  BY DEF TypeOK, Included, NextTx
<1>2. ASSUME NEW n \in Nat, n # chainNonce, SameNonce(n) # {}
      PROVE  SameNonce(n)' # {}
  BY <1>1, <1>2 DEF SameNonce
<1>3. \A m \in Int : \A n \in chainNonce' .. m :
         n \in chainNonce .. m /\ n \in Nat /\ n # chainNonce
  BY <1>1
<1>4. \A u \in mempool' : u \in mempool /\ u.nonce \in Int
  BY <1>1 DEF Tx
<1>5. nextNonce' - 1 \in Int /\ nextNonce' - 1 = nextNonce - 1
  BY <1>1
<1>6. \A u \in mempool' : \A n \in chainNonce' .. u.nonce : SameNonce(n)' # {}
  BY <1>2, <1>3, <1>4 DEF NoNonceGap
<1>7. \A n \in chainNonce' .. nextNonce' - 1 : SameNonce(n)' # {}
  BY <1>2, <1>3, <1>5 DEF NoNonceGap
<1>8. QED
  BY <1>6, <1>7 DEF NoNonceGap

\* A step that sends and mines nothing, and starts counting at the chain's nonce,
\* at nothing, or goes on counting where it was.
LEMMA GaplessElsewhere ==
    ASSUME TypeOK, NoNonceGap, UNCHANGED <<mempool, chainNonce>>,
           nextNonce' \in {nextNonce, chainNonce, 0}
    PROVE  NoNonceGap'
<1>1. \A n : SameNonce(n)' = SameNonce(n)
  BY DEF SameNonce
<1>2. \A n \in chainNonce .. nextNonce' - 1 : n \in chainNonce .. nextNonce - 1
  <2>1. chainNonce \in Nat /\ nextNonce \in Nat
    BY DEF TypeOK
  <2>2. SUFFICES ASSUME NEW n \in chainNonce .. nextNonce' - 1
                 PROVE  n \in chainNonce .. nextNonce - 1
    OBVIOUS
  <2>3. CASE nextNonce' = nextNonce
    BY <2>2, <2>3
  <2>4. CASE nextNonce' = chainNonce
    BY <2>1, <2>2, <2>4
  <2>5. CASE nextNonce' = 0
    BY <2>1, <2>2, <2>5
  <2>6. QED
    BY <2>3, <2>4, <2>5
<1>3. QED
  BY <1>1, <1>2 DEF NoNonceGap

LEMMA GaplessStep ==
    ASSUME IInv, NoNonceGap, [Next]_vars  PROVE NoNonceGap'
<1> USE DEF IInv
<1> DEFINE Quiet == UNCHANGED <<mempool, chainNonce>>
                    /\ nextNonce' \in {nextNonce, chainNonce, 0}
<1>1. CASE Quiet
  BY <1>1, GaplessElsewhere
<1>2. CASE Cycle
  <2>1. Quiet
    BY <1>2 DEF Cycle, ListPendingSettlements, ReadNonce, EndCycle, chainVars
  <2>2. QED
    BY <1>1, <2>1
<1>3. CASE Decide
  <2>1. Quiet
    BY <1>3 DEF Decide, RejectRow, CapRejectedClip, AcceptRow, chainVars
  <2>2. QED
    BY <1>1, <2>1
<1>4. CASE Release
  <2>1. nextNonce \in Nat
    BY DEF TypeOK
  <2>2. CASE SendRelease \/ SendAnswerLost
    <3>1. ReleaseTx(nextNonce) \in Tx /\ ReleaseTx(nextNonce).nonce = nextNonce
      BY <2>1, <2>2, TransactionsOfTheJob
         DEF SendRelease, SendAnswerLost, Paying, ReleaseTx
    <3>2. QED
      BY <2>2, <3>1, GaplessSend DEF SendRelease, SendAnswerLost
  <2>3. CASE EstimateRelease \/ EstimateFails \/ SendRefused \/ WaitRelease \/ WaitReleaseFails
    <3>1. Quiet
      BY <2>3 DEF EstimateRelease, EstimateFails, SendRefused, WaitRelease,
                  WaitReleaseFails, chainVars
    <3>2. QED
      BY <1>1, <3>1
  <2>4. QED
    BY <1>4, <2>2, <2>3 DEF Release
<1>5. CASE Settle
  <2>1. Quiet
    BY <1>5 DEF Settle, InsertSettlement, MarkSettled, SetClipCapped, ReadBalance,
                CloseCampaign, chainVars
  <2>2. QED
    BY <1>1, <2>1
<1>6. CASE Record
  <2>1. nextNonce \in Nat
    BY DEF TypeOK
  <2>2. CASE SendRecord \/ RecordAnswerLost
    <3>1. RecordTx(nextNonce) \in Tx /\ RecordTx(nextNonce).nonce = nextNonce
      BY <2>1, <2>2, TransactionsOfTheJob
         DEF SendRecord, RecordAnswerLost, Paid, RecordTx
    <3>2. QED
      BY <2>2, <3>1, GaplessSend DEF SendRecord, RecordAnswerLost
  <2>3. CASE RecordRefused \/ WaitRecord
    <3>1. Quiet
      BY <2>3 DEF RecordRefused, WaitRecord, chainVars
    <3>2. QED
      BY <1>1, <3>1
  <2>4. QED
    BY <1>6, <2>2, <2>3 DEF Record
<1>7. CASE Crash \/ Restart
  <2>1. Quiet
    BY <1>7 DEF Crash, Restart, chainVars
  <2>2. QED
    BY <1>1, <2>1
<1>8. CASE Mine
  BY <1>8, GaplessInclusion DEF Mine, MineRelease, MineRecord, MineReverted
<1>9. CASE Environment
  <2>1. Quiet
    BY <1>9 DEF Environment, InsertPendingSettlement, TopUp, WithdrawRemaining,
                NextBlock, chainVars
  <2>2. QED
    BY <1>1, <2>1
<1>10. CASE UNCHANGED vars
  BY <1>1, <1>10 DEF vars
<1>11. QED
  BY <1>2, <1>3, <1>4, <1>5, <1>6, <1>7, <1>8, <1>9, <1>10 DEF Next, Worker

(***************************************************************************)
(* Whatever fails and however often the worker dies, what waits in the     *)
(* mempool can be mined: no nonce below it was skipped, and the tracker    *)
(* hands out none above a gap (worker.ts:88-100, 236-243).                 *)
(***************************************************************************)
THEOREM NoncesHaveNoGap == Spec => []NoNonceGap
<1>1. Init => NoNonceGap
  <2>1. SUFFICES ASSUME Init  PROVE NoNonceGap
    OBVIOUS
  <2>2. mempool = {} /\ chainNonce = 0 /\ nextNonce = 0
    BY <2>1 DEF Init
  <2>3. QED
    BY <2>2 DEF NoNonceGap
<1>2. IInv /\ NoNonceGap /\ [Next]_vars => NoNonceGap'
  BY GaplessStep
<1>3. QED
  BY <1>1, <1>2, InductiveInvariant, PTL DEF Spec

-----------------------------------------------------------------------------
(***************************************************************************)
(* The settlements table and the running total of each clip.               *)
(***************************************************************************)
TotalsAreSums == \A k \in Clips : SumFunctionOnSet(settlements, RowsOf(k)) = settledTotal[k]

LEMMA RowsOfAreFinite ==
    ASSUME TypeOK, NEW k
    PROVE  /\ IsFiniteSet(RowsOf(k)) /\ RowsOf(k) \subseteq SettlementIds
           /\ \A s \in RowsOf(k) : settlements[s] \in Nat /\ settlements[s] \in Int
  BY WorkerAssumption, FS_Subset DEF RowsOf, TypeOK

\* Only what was queued was settled.
LEMMA UnqueuedIsUnsettled ==
    ASSUME IInv, NEW s \in SettlementIds, pending[s] = NoRow
    PROVE  settlements[s] = 0
<1>1. payouts[s] = << >>
  BY DEF IInv, PayoutsMatchTheQueue
<1>2. QED
  BY <1>1, UnpaidIsUnsettled DEF IInv

\* A clip's rows stay its rows, whatever verdict they get.
SameRows == \A k \in Clips : RowsOf(k)' = RowsOf(k)

LEMMA VerdictKeepsRowsOf ==
    ASSUME IInv, NEW s \in SettlementIds, pending[s].status = "pending",
           NEW status \in {"settled", "failed"},
           NEW reason \in RejectReasons \cup {"none", "release"},
           pending' = [pending EXCEPT ![s].status = status, ![s].reason = reason]
    PROVE  SameRows
<1>1. TypeOK /\ pending[s] \in Row
  BY RowOrNoRow DEF IInv
<1>2. /\ KeepsRows
      /\ \A t \in SettlementIds \ {s} : pending'[t] = pending[t]
  BY <1>1, VerdictKeepsRows
<1>3. \A t \in SettlementIds : /\ pending'[t] # NoRow <=> pending[t] # NoRow
                               /\ pending[t] # NoRow => pending'[t].clip = pending[t].clip
  <2>1. pending'[s] \in Row /\ pending'[s].clip = pending[s].clip
    BY <1>1, <1>2 DEF KeepsRows
  <2>2. QED
    BY <1>1, <1>2, <2>1, RowIsNotNoRow
<1>4. QED
  BY <1>3 DEF SameRows, RowsOf

\* The rows of a clip and what is settled for them, step by step.
RowsKept == SameRows /\ UNCHANGED <<settlements, settledTotal>>

LEMMA InsertPendingKeepsSums ==
    ASSUME IInv, TotalsAreSums, InsertPendingSettlement  PROVE TotalsAreSums'
<1>1. PICK s \in SettlementIds, k \in Clips, delta \in ViewDeltas, cpm \in CpmRates :
         /\ pending[s] = NoRow
         /\ pending' = [pending EXCEPT ![s] =
                [status |-> "pending", clip |-> k, viewDelta |-> delta,
                 amount |-> computeSettlementAmount(delta, perViewRate(cpm)),
                 createdAt |-> Cardinality({t \in SettlementIds : pending[t] # NoRow}),
                 reason |-> "none"]]
  BY DEF InsertPendingSettlement
<1>2. /\ pending'[s] # NoRow /\ pending'[s].clip = k
      /\ \A t \in SettlementIds \ {s} : pending'[t] = pending[t]
      /\ UNCHANGED <<settlements, settledTotal>>
  BY <1>1, WorkerAssumption DEF InsertPendingSettlement, IInv, TypeOK, NoRow
<1>3. settlements[s] = 0
  BY <1>1, UnqueuedIsUnsettled
<1>4. SUFFICES ASSUME NEW j \in Clips
               PROVE  SumFunctionOnSet(settlements, RowsOf(j)') = settledTotal[j]
  BY <1>2 DEF TotalsAreSums
<1>5. /\ IsFiniteSet(RowsOf(j)) /\ s \notin RowsOf(j)
      /\ \A t \in RowsOf(j) \cup {s} : settlements[t] \in Int
  <2>1. /\ IsFiniteSet(RowsOf(j))
        /\ \A t \in RowsOf(j) : settlements[t] \in Int
    BY RowsOfAreFinite DEF IInv
  <2>2. s \notin RowsOf(j)
    BY <1>1 DEF RowsOf
  <2>3. QED
    BY <1>3, <2>1, <2>2
<1>6. CASE j # k
  <2>1. RowsOf(j)' = RowsOf(j)
    BY <1>1, <1>2, <1>6 DEF RowsOf
  <2>2. QED
    BY <2>1 DEF TotalsAreSums
<1>7. CASE j = k
  <2>1. RowsOf(j)' = RowsOf(j) \cup {s}
    BY <1>1, <1>2, <1>7 DEF RowsOf
  <2>2. SumFunctionOnSet(settlements, RowsOf(j) \cup {s})
           = settlements[s] + SumFunctionOnSet(settlements, RowsOf(j))
    BY <1>5, SumAdd
  <2>3. settledTotal[j] \in Nat
    BY DEF IInv, TypeOK
  <2>4. QED
    BY <1>3, <2>1, <2>2, <2>3 DEF TotalsAreSums
<1>8. QED
  BY <1>6, <1>7

LEMMA InsertSettlementKeepsSums ==
    ASSUME IInv, TotalsAreSums, InsertSettlement  PROVE TotalsAreSums'
<1>1. /\ pc = "insertSettlement"
      /\ settlements' = [settlements EXCEPT ![job.id] = job.amount]
      /\ settledTotal' = [settledTotal EXCEPT ![job.clip] = @ + job.amount]
      /\ pending' = pending
  BY DEF InsertSettlement
<1>2. /\ job \in Job /\ MatchesRow(job) /\ settlements[job.id] = 0
  BY <1>1 DEF IInv, TypeOK, JobInv, Paying, Paid
<1>3. /\ job.id \in SettlementIds /\ job.clip \in Clips /\ job.amount \in Nat
      /\ pending[job.id] # NoRow /\ pending[job.id].clip = job.clip
  BY <1>2, RowIsNotNoRow DEF Job, MatchesRow
<1>4. TypeOK /\ settlements \in [SettlementIds -> Nat] /\ settledTotal \in [Clips -> Nat]
  BY DEF IInv, TypeOK
<1>5. SUFFICES ASSUME NEW k \in Clips
               PROVE  SumFunctionOnSet(settlements', RowsOf(k)) = settledTotal'[k]
  BY <1>1 DEF TotalsAreSums, RowsOf
<1>6. /\ IsFiniteSet(RowsOf(k))
      /\ \A s \in RowsOf(k) : s \in SettlementIds /\ settlements[s] \in Int
  BY <1>4, RowsOfAreFinite
<1>7. SumFunctionOnSet(settlements, RowsOf(k)) = settledTotal[k]
  BY DEF TotalsAreSums
<1>8. CASE k # job.clip
  <2>1. \A s \in RowsOf(k) : settlements'[s] = settlements[s]
    BY <1>1, <1>3, <1>4, <1>6, <1>8 DEF RowsOf
  <2>2. SumFunctionOnSet(settlements', RowsOf(k)) = SumFunctionOnSet(settlements, RowsOf(k))
    BY <1>6, <2>1, SumCongruence
  <2>3. QED
    BY <1>1, <1>3, <1>4, <1>7, <1>8, <2>2
<1>9. CASE k = job.clip
  <2>1. job.id \in RowsOf(k)
    BY <1>3, <1>9 DEF RowsOf
  <2>2. /\ settlements'[job.id] = job.amount /\ job.amount \in Int
        /\ \A s \in RowsOf(k) \ {job.id} : settlements'[s] = settlements[s]
    BY <1>1, <1>3, <1>4, <1>6
  <2>3. SumFunctionOnSet(settlements', RowsOf(k))
           = SumFunctionOnSet(settlements, RowsOf(k)) - settlements[job.id]
                + settlements'[job.id]
    BY <1>6, <2>1, <2>2, SumUpdate
  <2>4. settledTotal[k] \in Nat
    BY <1>4
  <2>5. settledTotal'[k] = settledTotal[k] + job.amount
    BY <1>1, <1>4, <1>9
  <2>6. QED
    BY <1>2, <1>3, <1>7, <2>2, <2>3, <2>4, <2>5
<1>10. QED
  BY <1>8, <1>9

LEMMA RowsKeptKeepsSums ==
    ASSUME TotalsAreSums, RowsKept  PROVE TotalsAreSums'
  BY DEF TotalsAreSums, RowsKept, SameRows

\* No other step touches the settlements or a clip's rows.
LEMMA OtherStepsKeepRows ==
    ASSUME IInv, [Next]_vars, ~InsertPendingSettlement, ~InsertSettlement
    PROVE  RowsKept
<1>1. CASE UNCHANGED <<pending, settlements, settledTotal>>
  BY <1>1 DEF RowsKept, SameRows, RowsOf
<1>2. CASE MarkFailed /\ pc \in Paying
  <2>1. job.id \in SettlementIds /\ pending[job.id].status = "pending"
    BY <1>2 DEF IInv, TypeOK, JobInv, Job
  <2>2. SameRows
    BY <1>2, <2>1, VerdictKeepsRowsOf DEF MarkFailed
  <2>3. QED
    BY <1>2, <2>2 DEF RowsKept, MarkFailed
<1>3. CASE MarkSettled
  <2>1. job.id \in SettlementIds /\ pending[job.id].status = "pending"
    BY <1>3 DEF MarkSettled, IInv, TypeOK, JobInv, Job, Paying, Paid
  <2>2. SameRows
    BY <1>3, <2>1, VerdictKeepsRowsOf DEF MarkSettled
  <2>3. QED
    BY <1>3, <2>2 DEF RowsKept, MarkSettled
<1>4. CASE RejectRow
  <2>1. PICK s \in batch :
           /\ ReasonToReject(s) \in RejectReasons
           /\ pending' = [pending EXCEPT ![s].status = "failed",
                                         ![s].reason = ReasonToReject(s)]
    BY <1>4 DEF RejectRow
  <2>2. s \in SettlementIds /\ pending[s].status = "pending"
    BY DEF IInv, TypeOK, JobInv
  <2>3. SameRows
    BY <2>1, <2>2, VerdictKeepsRowsOf
  <2>4. QED
    BY <1>4, <2>3 DEF RowsKept, RejectRow
<1>5. CASE Cycle
  BY <1>1, <1>5 DEF Cycle, ListPendingSettlements, ReadNonce, EndCycle, dbVars
<1>6. CASE Decide
  BY <1>1, <1>4, <1>6 DEF Decide, CapRejectedClip, AcceptRow, dbVars
<1>7. CASE Release
  BY <1>1, <1>2, <1>7 DEF Release, EstimateRelease, EstimateFails, SendRelease, SendRefused,
     SendAnswerLost, WaitRelease, WaitReleaseFails, Paying, dbVars
<1>8. CASE Settle
  BY <1>1, <1>3, <1>8 DEF Settle, SetClipCapped, ReadBalance, CloseCampaign, dbVars
<1>9. CASE Record
  BY <1>1, <1>9 DEF Record, SendRecord, RecordRefused, RecordAnswerLost, WaitRecord, dbVars
<1>10. CASE Crash \/ Restart
  BY <1>1, <1>10 DEF Crash, Restart, dbVars
<1>11. CASE Mine
  BY <1>1, <1>11 DEF Mine, MineRelease, MineRecord, MineReverted, Included, dbVars
<1>12. CASE Environment
  BY <1>1, <1>12 DEF Environment, TopUp, WithdrawRemaining, NextBlock, dbVars
<1>13. CASE UNCHANGED vars
  BY <1>1, <1>13 DEF vars, dbVars
<1>14. QED
  BY <1>5, <1>6, <1>7, <1>8, <1>9, <1>10, <1>11, <1>12, <1>13 DEF Next, Worker

LEMMA TotalsStep ==
    ASSUME IInv, TotalsAreSums, [Next]_vars  PROVE TotalsAreSums'
<1>1. CASE InsertPendingSettlement
  BY <1>1, InsertPendingKeepsSums
<1>2. CASE InsertSettlement
  BY <1>2, InsertSettlementKeepsSums
<1>3. CASE ~InsertPendingSettlement /\ ~InsertSettlement
  BY <1>3, OtherStepsKeepRows, RowsKeptKeepsSums
<1>4. QED
  BY <1>1, <1>2, <1>3

(***************************************************************************)
(* getTotalSettledAmountForClip (db.ts), which every clamp starts from, is *)
(* at every statement the sum of the rows of settlements of that clip.     *)
(***************************************************************************)
THEOREM TotalsAreSumsOfRows == Spec => []TotalsAreSums
<1>1. ASSUME Init  PROVE TotalsAreSums
  <2>1. /\ settlements = [s \in SettlementIds |-> 0]
        /\ settledTotal = [k \in Clips |-> 0]
    BY <1>1 DEF Init
  <2>2. SUFFICES ASSUME NEW k \in Clips
                 PROVE  SumFunctionOnSet(settlements, RowsOf(k)) = settledTotal[k]
    BY DEF TotalsAreSums
  <2>3. IsFiniteSet(RowsOf(k)) /\ \A s \in RowsOf(k) : settlements[s] = 0
    BY <2>1, WorkerAssumption, FS_Subset DEF RowsOf
  <2>4. SumFunctionOnSet(settlements, RowsOf(k)) = 0
    BY <2>3, SumZero
  <2>5. QED
    BY <2>1, <2>4
<1>2. IInv /\ TotalsAreSums /\ [Next]_vars => TotalsAreSums'
  BY TotalsStep
<1>3. QED
  BY <1>1, <1>2, InductiveInvariant, PTL DEF Spec

\* The rows of settlements of a clip never add up to more than its cap, whatever
\* fails (pendingSettlement.ts:42-73).
THEOREM RowsStayWithinCap == Spec => []RowsWithinCap
<1>1. IInv /\ TotalsAreSums => RowsWithinCap
  BY DEF IInv, TotalsAreSums, TotalsWithinCap, RowsWithinCap
<1>2. QED
  BY <1>1, InductiveInvariant, TotalsAreSumsOfRows, PTL

-----------------------------------------------------------------------------
(***************************************************************************)
(* Without deaths, lost answers and abandoned waits.  Requests may still   *)
(* fail before they had an effect, and the clipper's address may refuse    *)
(* the transfer: what the worker concludes is then true.  ReliableInv says *)
(* that what is paid and not yet booked is the one row it holds.           *)
(***************************************************************************)
Reliable == {"crash", "lost", "wait"} \cap Faults = {}

\* The transaction the worker waits for is the only one under way.
OwnTx(t) == \/ pc = "wait" /\ t = ReleaseTx(job.nonce)
            \/ pc = "waitRecord" /\ t = RecordTx(job.nonce)

MempoolInv ==
    /\ \A t \in mempool : OwnTx(t) /\ t.nonce >= chainNonce
    /\ \A m \in mined : m.tx.nonce < chainNonce

\* The release in hand was mined, and its row of settlements is not written yet.
InFlight ==
    \/ pc = "wait" /\ payouts[job.id] # << >>
    \/ pc = "insertSettlement"

PaidInv ==
    /\ \A s \in SettlementIds :
          payouts[s] # << >> => settlements[s] # 0 \/ (InFlight /\ s = job.id)
    /\ pc = "wait" /\ payouts[job.id] # << >> => Confirmed(ReleaseTx(job.nonce))

\* A booked row carries the verdict 'settled', or is about to get it.
BookedInv ==
    \A s \in SettlementIds : settlements[s] # 0 =>
       pending[s].status = "settled" \/ (pc = "markSettled" /\ s = job.id)

unbooked(c) == IF InFlight /\ CampaignOf[job.clip] = c THEN job.amount ELSE 0

\* What the escrow released for a campaign is settled for its clips, or in flight.
ReleasedInv ==
    \A c \in CampaignIds :
       released[c] = SumFunctionOnSet(settledTotal, ClipsOf(c)) + unbooked(c)

ReliableInv == MempoolInv /\ PaidInv /\ BookedInv /\ ReleasedInv

LEMMA NothingUnderWay ==
    ASSUME IInv, MempoolInv,
           \/ pc \notin {"wait", "waitRecord"}
           \/ chainNonce > job.nonce
           \/ Confirmed(ReleaseTx(job.nonce))
    PROVE  mempool = {}
<1>1. SUFFICES ASSUME NEW t \in mempool  PROVE FALSE
  OBVIOUS
<1>2. OwnTx(t) /\ t.nonce >= chainNonce
  BY DEF MempoolInv
<1>3. job \in Job /\ t.nonce = job.nonce /\ job.nonce \in Nat /\ chainNonce \in Nat
  BY <1>2 DEF OwnTx, ReleaseTx, RecordTx, IInv, TypeOK, Paying, Paid, Job
<1>4. pc \in {"wait", "waitRecord"} /\ ~ (chainNonce > job.nonce)
  BY <1>2, <1>3 DEF OwnTx
<1>5. ReleaseTx(job.nonce).nonce < chainNonce
  <2>1. [tx |-> ReleaseTx(job.nonce), ok |-> TRUE] \in mined
    BY <1>4 DEF Confirmed
  <2>2. QED
    BY <2>1 DEF MempoolInv
<1>6. QED
  BY <1>3, <1>4, <1>5 DEF ReleaseTx

\* Rows with a settlement keep their verdict.
LEMMA BookedKept ==
    ASSUME BookedInv, UNCHANGED settlements, pc # "markSettled",
           \A s \in SettlementIds : settlements[s] # 0 => pending'[s] = pending[s]
    PROVE  BookedInv'
  BY DEF BookedInv

\* No row is rejected or given up after it was booked.
LEMMA PendingIsUnbooked ==
    ASSUME BookedInv, NEW s \in SettlementIds, pending[s].status = "pending",
           pc # "markSettled"
    PROVE  settlements[s] = 0
  BY DEF BookedInv

LEMMA FailedJobKeepsBooked ==
    ASSUME IInv, BookedInv, pc \in Paying, MarkFailed  PROVE BookedInv'
<1>1. job.id \in SettlementIds /\ pending[job.id].status = "pending" /\ pc # "markSettled"
  BY DEF IInv, TypeOK, JobInv, Job, Paying, Paid
<1>2. \A s \in SettlementIds \ {job.id} : pending'[s] = pending[s]
  BY DEF MarkFailed, IInv, TypeOK
<1>3. settlements[job.id] = 0
  BY <1>1, PendingIsUnbooked
<1>4. QED
  BY <1>1, <1>2, <1>3, BookedKept DEF MarkFailed

Ledgers == <<mempool, mined, chainNonce, payouts, released, settlements, settledTotal>>

\* A step of the worker before the release is sent or after it is booked.
LEMMA QuietStep ==
    ASSUME IInv, ReliableInv, UNCHANGED Ledgers, BookedInv',
           pc \notin {"wait", "waitRecord", "insertSettlement"},
           pc' \notin {"wait", "waitRecord", "insertSettlement"}
    PROVE  ReliableInv'
<1> USE DEF ReliableInv, Ledgers
<1>1. MempoolInv'
  BY NothingUnderWay DEF MempoolInv
<1>2. ~InFlight /\ ~InFlight'
  BY DEF InFlight
<1>3. PaidInv'
  BY <1>2 DEF PaidInv
<1>4. ReleasedInv'
  BY <1>2 DEF ReleasedInv, unbooked
<1>5. QED
  BY <1>1, <1>3, <1>4

\* A step of somebody else, the chain apart.
LEMMA StillStep ==
    ASSUME IInv, ReliableInv, UNCHANGED Ledgers, UNCHANGED <<pc, job>>, BookedInv'
    PROVE  ReliableInv'
<1> USE DEF ReliableInv, Ledgers
<1>1. MempoolInv'
  BY DEF MempoolInv, OwnTx, ReleaseTx, RecordTx
<1>2. InFlight' <=> InFlight
  BY DEF InFlight
<1>3. PaidInv'
  BY <1>2 DEF PaidInv, Confirmed, ReleaseTx
<1>4. ReleasedInv'
  BY <1>2 DEF ReleasedInv, unbooked
<1>5. QED
  BY <1>1, <1>3, <1>4

LEMMA InFlightIsPaid ==
    ASSUME IInv, pc \in Paid \/ (pc = "wait" /\ Confirmed(ReleaseTx(job.nonce)))
    PROVE  payouts[job.id] # << >>
<1>1. CASE pc \in Paid
  <2>1. payouts[job.id] = <<PayoutOf(job)>>
    BY <1>1 DEF IInv, JobInv, PaidFor
  <2>2. QED
    BY <2>1
<1>2. CASE pc = "wait" /\ Confirmed(ReleaseTx(job.nonce))
  BY <1>2 DEF IInv, TxInv, PaidFor, Confirmed, ReleaseTx
<1>3. QED
  BY <1>1, <1>2

LEMMA ReliableSendRelease ==
    ASSUME IInv, ReliableInv, SendRelease  PROVE ReliableInv'
<1> USE DEF ReliableInv
<1>1. /\ pc = "send" /\ pc' = "wait" /\ job \in Job /\ nextNonce \in Nat
      /\ settlements[job.id] = 0
      /\ job' = [job EXCEPT !.nonce = nextNonce]
      /\ UNCHANGED <<payouts, released, settlements, settledTotal, pending, mined, chainNonce>>
  BY DEF SendRelease, IInv, TypeOK, JobInv, Paying, Paid, storageVars, dbVars
<1>2. /\ job'.id = job.id /\ job'.clip = job.clip /\ job'.amount = job.amount
      /\ job'.nonce = nextNonce
  BY <1>1 DEF Job
<1>3. payouts[job.id] = << >>
  BY <1>1 DEF PaidInv, InFlight, Job
<1>4. MempoolInv'
  <2>1. mempool = {}
    BY <1>1, NothingUnderWay
  <2>2. mempool' = {ReleaseTx(nextNonce)} /\ ReleaseTx(nextNonce).nonce >= chainNonce
    BY <2>1 DEF SendRelease, Broadcast, SameNonce
  <2>3. ReleaseTx(job.nonce)' = ReleaseTx(nextNonce)
    BY <1>2 DEF ReleaseTx
  <2>4. QED
    BY <1>1, <2>2, <2>3 DEF MempoolInv, OwnTx
<1>5. ~InFlight /\ ~InFlight'
  BY <1>1, <1>2, <1>3 DEF InFlight
<1>6. PaidInv'
  BY <1>1, <1>2, <1>3, <1>5 DEF PaidInv
<1>7. ReleasedInv'
  BY <1>1, <1>5 DEF ReleasedInv, unbooked
<1>8. BookedInv'
  BY <1>1, BookedKept
<1>9. QED
  BY <1>4, <1>6, <1>7, <1>8

LEMMA ReliableWaitRelease ==
    ASSUME IInv, ReliableInv, WaitRelease  PROVE ReliableInv'
<1> USE DEF ReliableInv
<1>1. /\ pc = "wait" /\ pc' = "insertSettlement" /\ Confirmed(ReleaseTx(job.nonce))
      /\ UNCHANGED Ledgers /\ UNCHANGED <<pending, job>>
  BY DEF WaitRelease, Ledgers, chainVars, storageVars, dbVars
<1>2. mempool = {}
  BY <1>1, NothingUnderWay
<1>3. MempoolInv'
  BY <1>1, <1>2 DEF MempoolInv, Ledgers
<1>4. InFlight /\ InFlight'
  BY <1>1, InFlightIsPaid DEF InFlight
<1>5. PaidInv'
  BY <1>1, <1>4 DEF PaidInv, Ledgers
<1>6. ReleasedInv'
  BY <1>1, <1>4 DEF ReleasedInv, unbooked, Ledgers
<1>7. BookedInv'
  BY <1>1, BookedKept DEF Ledgers
<1>8. QED
  BY <1>3, <1>5, <1>6, <1>7

LEMMA ReliableWaitReleaseFails ==
    ASSUME Reliable, IInv, ReliableInv, WaitReleaseFails  PROVE ReliableInv'
<1> USE DEF ReliableInv
<1>1. /\ pc = "wait" /\ pc' = "next" /\ MarkFailed
      /\ chainNonce > job.nonce /\ ~Confirmed(ReleaseTx(job.nonce))
      /\ UNCHANGED Ledgers
  BY DEF WaitReleaseFails, MarkFailed, Ledgers, chainVars, storageVars, Reliable, Fault
<1>2. mempool = {}
  BY <1>1, NothingUnderWay
<1>3. MempoolInv'
  BY <1>1, <1>2 DEF MempoolInv, Ledgers
<1>4. ~InFlight /\ ~InFlight'
  BY <1>1 DEF InFlight, PaidInv
<1>5. PaidInv'
  BY <1>1, <1>4 DEF PaidInv, Ledgers
<1>6. ReleasedInv'
  BY <1>1, <1>4 DEF ReleasedInv, unbooked, Ledgers
<1>7. BookedInv'
  BY <1>1, FailedJobKeepsBooked DEF Paying
<1>8. QED
  BY <1>3, <1>5, <1>6, <1>7

LEMMA ClipsOfAreFinite ==
    ASSUME NEW c
    PROVE  IsFiniteSet(ClipsOf(c)) /\ ClipsOf(c) \subseteq Clips
  BY WorkerAssumption, FS_Subset DEF ClipsOf

\* The row of settlements is written: what was in flight is booked.
LEMMA ReliableInsertSettlement ==
    ASSUME IInv, ReliableInv, InsertSettlement  PROVE ReliableInv'
<1> USE DEF ReliableInv
<1>1. /\ pc = "insertSettlement" /\ pc' = "markSettled"
      /\ settlements' = [settlements EXCEPT ![job.id] = job.amount]
      /\ settledTotal' = [settledTotal EXCEPT ![job.clip] = @ + job.amount]
      /\ UNCHANGED <<pending, job, payouts, released, mempool, mined, chainNonce>>
  BY DEF InsertSettlement, chainVars, storageVars
<1>2. /\ job.id \in SettlementIds /\ job.clip \in Clips /\ job.amount \in Nat \ {0}
      /\ settlements \in [SettlementIds -> Nat] /\ settledTotal \in [Clips -> Nat]
  BY <1>1 DEF IInv, TypeOK, Paying, Paid, Job
<1>3. /\ settlements'[job.id] = job.amount
      /\ \A s \in SettlementIds \ {job.id} : settlements'[s] = settlements[s]
  BY <1>1, <1>2
<1>4. MempoolInv'
  BY <1>1, NothingUnderWay DEF MempoolInv
<1>5. InFlight /\ ~InFlight'
  BY <1>1 DEF InFlight
<1>6. PaidInv'
  BY <1>1, <1>2, <1>3 DEF PaidInv
<1>7. BookedInv'
  BY <1>1, <1>3 DEF BookedInv
<1>8. ReleasedInv'
  <2>1. SUFFICES ASSUME NEW c \in CampaignIds
                 PROVE  released[c] = SumFunctionOnSet(settledTotal', ClipsOf(c)) + 0
    BY <1>1, <1>5 DEF ReleasedInv, unbooked, ClipsOf
  <2>2. /\ IsFiniteSet(ClipsOf(c))
        /\ \A k \in ClipsOf(c) : k \in Clips /\ settledTotal[k] \in Int
    BY <1>2, ClipsOfAreFinite
  <2>3. released[c] = SumFunctionOnSet(settledTotal, ClipsOf(c)) + unbooked(c)
    BY DEF ReleasedInv
  <2>4. CASE CampaignOf[job.clip] = c
    <3>1. job.clip \in ClipsOf(c) /\ unbooked(c) = job.amount
      BY <1>2, <1>5, <2>4 DEF ClipsOf, unbooked
    <3>2. /\ settledTotal'[job.clip] = settledTotal[job.clip] + job.amount
          /\ settledTotal'[job.clip] \in Int /\ settledTotal[job.clip] \in Int
          /\ \A k \in ClipsOf(c) \ {job.clip} : settledTotal'[k] = settledTotal[k]
      BY <1>1, <1>2, <2>2
    <3>3. SumFunctionOnSet(settledTotal', ClipsOf(c))
             = SumFunctionOnSet(settledTotal, ClipsOf(c)) - settledTotal[job.clip]
                  + settledTotal'[job.clip]
      BY <2>2, <3>1, <3>2, SumUpdate
    <3>4. SumFunctionOnSet(settledTotal, ClipsOf(c)) \in Int
      BY <2>2, SumInt
    <3>5. QED
      BY <1>2, <2>3, <3>1, <3>2, <3>3, <3>4
  <2>5. CASE CampaignOf[job.clip] # c
    <3>1. unbooked(c) = 0
      BY <2>5 DEF unbooked
    <3>2. \A k \in ClipsOf(c) : settledTotal'[k] = settledTotal[k]
      BY <1>1, <1>2, <2>2, <2>5 DEF ClipsOf
    <3>3. SumFunctionOnSet(settledTotal', ClipsOf(c))
             = SumFunctionOnSet(settledTotal, ClipsOf(c))
      BY <2>2, <3>2, SumCongruence
    <3>4. SumFunctionOnSet(settledTotal, ClipsOf(c)) \in Int
      BY <2>2, SumInt
    <3>5. QED
      BY <2>3, <3>1, <3>3, <3>4
  <2>6. QED
    BY <2>4, <2>5
<1>9. QED
  BY <1>4, <1>6, <1>7, <1>8

LEMMA ReliableSendRecord ==
    ASSUME IInv, ReliableInv, SendRecord  PROVE ReliableInv'
<1> USE DEF ReliableInv
<1>1. /\ pc = "record" /\ pc' = "waitRecord" /\ job \in Job /\ nextNonce \in Nat
      /\ job' = [job EXCEPT !.nonce = nextNonce]
      /\ UNCHANGED <<payouts, released, settlements, settledTotal, pending, mined, chainNonce>>
  BY DEF SendRecord, IInv, TypeOK, Paying, Paid, storageVars, dbVars
<1>2. /\ job'.id = job.id /\ job'.clip = job.clip /\ job'.amount = job.amount
      /\ job'.nonce = nextNonce
  BY <1>1 DEF Job
<1>3. MempoolInv'
  <2>1. mempool = {}
    BY <1>1, NothingUnderWay
  <2>2. mempool' = {RecordTx(nextNonce)} /\ RecordTx(nextNonce).nonce >= chainNonce
    BY <2>1 DEF SendRecord, Broadcast, SameNonce
  <2>3. RecordTx(job.nonce)' = RecordTx(nextNonce)
    BY <1>2 DEF RecordTx
  <2>4. QED
    BY <1>1, <2>2, <2>3 DEF MempoolInv, OwnTx
<1>4. ~InFlight /\ ~InFlight'
  BY <1>1 DEF InFlight
<1>5. PaidInv'
  BY <1>1, <1>4 DEF PaidInv
<1>6. ReleasedInv'
  BY <1>1, <1>4 DEF ReleasedInv, unbooked
<1>7. BookedInv'
  BY <1>1, BookedKept
<1>8. QED
  BY <1>3, <1>5, <1>6, <1>7

LEMMA ReliableWaitRecord ==
    ASSUME Reliable, IInv, ReliableInv, WaitRecord  PROVE ReliableInv'
<1> USE DEF ReliableInv
<1>1. /\ pc = "waitRecord" /\ pc' = "next" /\ chainNonce > job.nonce
      /\ UNCHANGED Ledgers /\ UNCHANGED pending
  BY DEF WaitRecord, EndJob, Ledgers, chainVars, storageVars, dbVars, Reliable, Fault
<1>2. mempool = {}
  BY <1>1, NothingUnderWay
<1>3. MempoolInv'
  BY <1>1, <1>2 DEF MempoolInv, Ledgers
<1>4. ~InFlight /\ ~InFlight'
  BY <1>1 DEF InFlight
<1>5. PaidInv'
  BY <1>1, <1>4 DEF PaidInv, Ledgers
<1>6. ReleasedInv'
  BY <1>1, <1>4 DEF ReleasedInv, unbooked, Ledgers
<1>7. BookedInv'
  BY <1>1, BookedKept DEF Ledgers
<1>8. QED
  BY <1>3, <1>5, <1>6, <1>7

-----------------------------------------------------------------------------
(***************************************************************************)
(* The chain executes the one transaction under way.                       *)
(***************************************************************************)
LEMMA IncludedOwn ==
    ASSUME IInv, ReliableInv, NEW t \in NextTx, NEW ok, Included(t, ok)
    PROVE  /\ OwnTx(t) /\ MempoolInv'
           /\ UNCHANGED <<pending, settlements, settledTotal, pc, job>>
           /\ mined \subseteq mined' /\ [tx |-> t, ok |-> ok] \in mined'
<1>1. /\ t \in mempool /\ t.nonce = chainNonce /\ chainNonce \in Nat
      /\ mempool' = mempool \ {t}
      /\ mined' = mined \cup {[tx |-> t, ok |-> ok]}
      /\ chainNonce' = chainNonce + 1
      /\ UNCHANGED <<pending, settlements, settledTotal, pc, job>>
  BY DEF NextTx, Included, IInv, TypeOK, dbVars
<1>2. OwnTx(t) /\ \A u \in mempool : OwnTx(u)
  BY <1>1 DEF ReliableInv, MempoolInv
<1>3. \A u \in mempool : u = t
  BY <1>2 DEF OwnTx
<1>4. \A m \in mined : m.tx.nonce \in Nat /\ m.tx.nonce < chainNonce
  BY DEF ReliableInv, MempoolInv, IInv, TypeOK, Tx
<1>5. MempoolInv'
  BY <1>1, <1>3, <1>4 DEF MempoolInv
<1>6. QED
  BY <1>1, <1>2, <1>5

\* Anything but a release leaves the payouts alone.
LEMMA ReliableOtherInclusion ==
    ASSUME IInv, ReliableInv, MineRecord \/ MineReverted  PROVE ReliableInv'
<1> USE DEF ReliableInv
<1>1. /\ MempoolInv' /\ mined \subseteq mined'
      /\ UNCHANGED <<pending, settlements, settledTotal, pc, job, payouts, released>>
  BY IncludedOwn DEF MineRecord, MineReverted, storageVars
<1>2. InFlight' <=> InFlight
  BY <1>1 DEF InFlight
<1>3. PaidInv'
  BY <1>1, <1>2 DEF PaidInv, Confirmed, ReleaseTx
<1>4. ReleasedInv'
  BY <1>1, <1>2 DEF ReleasedInv, unbooked
<1>5. BookedInv'
  BY <1>1 DEF BookedInv
<1>6. QED
  BY <1>1, <1>3, <1>4, <1>5

\* A release that succeeds is the one in the worker's hands.
LEMMA ReliableMineRelease ==
    ASSUME IInv, ReliableInv, MineRelease  PROVE ReliableInv'
<1> USE DEF ReliableInv
<1>1. PICK t \in NextTx :
         /\ t.function = "release"
         /\ releaseSucceeds(t.clip, t.amount, t.id)
         /\ releaseEffects(CampaignOf[t.clip], t.amount, t.id)
         /\ emitPayoutReleased(CampaignOf[t.clip], WalletOf[t.clip], t.amount, t.id)
         /\ Included(t, TRUE)
  BY DEF MineRelease
<1>2. /\ OwnTx(t) /\ MempoolInv'
      /\ UNCHANGED <<pending, settlements, settledTotal, pc, job>>
      /\ [tx |-> t, ok |-> TRUE] \in mined'
  BY <1>1, IncludedOwn
<1>3. /\ pc = "wait" /\ t = ReleaseTx(job.nonce)
      /\ t.id = job.id /\ t.clip = job.clip /\ t.amount = job.amount
  BY <1>1, <1>2 DEF OwnTx, ReleaseTx, RecordTx
<1>4. /\ job.id \in SettlementIds /\ job.clip \in Clips /\ job.amount \in Nat
      /\ CampaignOf[job.clip] \in CampaignIds
  BY <1>3, WorkerAssumption DEF IInv, TypeOK, Paying, Paid, Job
<1>5. payouts[job.id] = << >>
  BY <1>1, <1>3, <1>4 DEF releaseSucceeds, releaseAllowed, IInv, EscrowInv
<1>6. /\ payouts'[job.id] # << >>
      /\ \A s \in SettlementIds \ {job.id} : payouts'[s] = payouts[s]
  <2>1. PICK p : payouts' = [payouts EXCEPT ![job.id] = Append(@, p)]
    BY <1>1, <1>3 DEF emitPayoutReleased
  <2>2. payouts'[job.id] = Append(<< >>, p)
    BY <1>4, <1>5, <2>1 DEF IInv, TypeOK, StorageTypeOK
  <2>3. Append(<< >>, p) = <<p>>
    OBVIOUS
  <2>4. \A s \in SettlementIds \ {job.id} : payouts'[s] = payouts[s]
    BY <2>1 DEF IInv, TypeOK, StorageTypeOK
  <2>5. QED
    BY <2>2, <2>3, <2>4
<1>7. ~InFlight /\ InFlight'
  BY <1>2, <1>3, <1>5, <1>6 DEF InFlight
<1>8. PaidInv'
  <2>1. Confirmed(ReleaseTx(job.nonce))'
    BY <1>2, <1>3 DEF Confirmed, ReleaseTx
  <2>2. QED
    BY <1>2, <1>6, <1>7, <2>1 DEF PaidInv
<1>9. ReleasedInv'
  <2>1. /\ released' = [released EXCEPT ![CampaignOf[job.clip]] = @ + job.amount]
        /\ released \in [CampaignIds -> Nat]
    BY <1>1, <1>3 DEF releaseEffects, IInv, TypeOK, StorageTypeOK
  <2>2. SUFFICES ASSUME NEW c \in CampaignIds
                 PROVE  released'[c] = SumFunctionOnSet(settledTotal, ClipsOf(c))
                                          + unbooked(c)'
    BY <1>2 DEF ReleasedInv, ClipsOf
  <2>3. /\ SumFunctionOnSet(settledTotal, ClipsOf(c)) \in Int
        /\ released[c] = SumFunctionOnSet(settledTotal, ClipsOf(c))
    <3>1. SumFunctionOnSet(settledTotal, ClipsOf(c)) \in Int
      <4>1. \A k \in ClipsOf(c) : settledTotal[k] \in Int
        BY ClipsOfAreFinite DEF IInv, TypeOK
      <4>2. QED
        BY <4>1, SumInt, ClipsOfAreFinite
    <3>2. unbooked(c) = 0
      BY <1>7 DEF unbooked
    <3>3. QED
      BY <3>1, <3>2 DEF ReleasedInv
  <2>4. CASE c = CampaignOf[job.clip]
    BY <1>2, <1>4, <1>7, <2>1, <2>3, <2>4 DEF unbooked
  <2>5. CASE c # CampaignOf[job.clip]
    BY <1>2, <1>4, <1>7, <2>1, <2>3, <2>5 DEF unbooked
  <2>6. QED
    BY <2>4, <2>5
<1>10. BookedInv'
  BY <1>2, <1>3 DEF BookedInv
<1>11. QED
  BY <1>2, <1>8, <1>9, <1>10

-----------------------------------------------------------------------------
\* One step of the worker, the chain or the others.
LEMMA BookedInsertPending ==
    ASSUME IInv, BookedInv, InsertPendingSettlement  PROVE BookedInv'
<1>1. PICK s \in SettlementIds :
         /\ pending[s] = NoRow
         /\ \A t \in SettlementIds \ {s} : pending'[t] = pending[t]
         /\ UNCHANGED <<settlements, pc, job>>
  BY DEF InsertPendingSettlement, IInv, TypeOK
<1>2. settlements[s] = 0
  BY <1>1, UnqueuedIsUnsettled
<1>3. QED
  BY <1>1, <1>2 DEF BookedInv

LEMMA BookedRejectRow ==
    ASSUME IInv, BookedInv, RejectRow  PROVE BookedInv'
<1>1. PICK s \in batch :
         /\ pc = "next" /\ settlements' = settlements
         /\ \A t \in SettlementIds \ {s} : pending'[t] = pending[t]
  BY DEF RejectRow, IInv, TypeOK
<1>2. s \in SettlementIds /\ pending[s].status = "pending"
  BY DEF IInv, TypeOK, JobInv
<1>3. settlements[s] = 0
  BY <1>1, <1>2, PendingIsUnbooked
<1>4. QED
  BY <1>1, <1>3, BookedKept

LEMMA BookedMarkSettled ==
    ASSUME IInv, BookedInv, MarkSettled  PROVE BookedInv'
<1>1. /\ pc = "markSettled" /\ settlements' = settlements
      /\ pending' = [pending EXCEPT ![job.id].status = "settled", ![job.id].reason = "none"]
  BY DEF MarkSettled
<1>2. job.id \in SettlementIds /\ pending[job.id].status = "pending"
  BY <1>1 DEF IInv, TypeOK, JobInv, Job, Paying, Paid
<1>3. pending[job.id] \in Row
  BY <1>2, RowOrNoRow DEF IInv
<1>4. /\ pending'[job.id].status = "settled"
      /\ \A t \in SettlementIds \ {job.id} : pending'[t] = pending[t]
  BY <1>1, <1>2, <1>3, VerdictKeepsRows DEF IInv
<1>5. QED
  BY <1>1, <1>4 DEF BookedInv

LEMMA ReliableStep ==
    ASSUME Reliable, IInv, ReliableInv, [Next]_vars  PROVE ReliableInv'
<1> DEFINE Away == {"down", "idle", "readNonce", "next", "rejected", "estimate", "send",
                    "markSettled", "setCapped", "readBalance", "closeCampaign", "record"}
           Calm == UNCHANGED Ledgers /\ pc \in Away /\ pc' \in Away
<1>1. BookedInv
  BY DEF ReliableInv
<1>2. ASSUME Calm, BookedInv'  PROVE ReliableInv'
  BY <1>2, QuietStep
<1>3. CASE Cycle
  <2>1. Calm
    BY <1>3 DEF Cycle, ListPendingSettlements, ReadNonce, EndCycle, Ledgers, chainVars,
                storageVars, dbVars
  <2>2. BookedInv'
    BY <1>1, <1>3, BookedKept
       DEF Cycle, ListPendingSettlements, ReadNonce, EndCycle, dbVars
  <2>3. QED
    BY <1>2, <2>1, <2>2
<1>4. CASE RejectRow
  <2>1. Calm
    BY <1>4 DEF RejectRow, Ledgers, chainVars, storageVars
  <2>2. QED
    BY <1>1, <1>2, <1>4, <2>1, BookedRejectRow
<1>5. CASE CapRejectedClip \/ AcceptRow
  <2>1. Calm
    BY <1>5 DEF CapRejectedClip, AcceptRow, Ledgers, chainVars, storageVars, dbVars
  <2>2. BookedInv'
    BY <1>1, <1>5, BookedKept DEF CapRejectedClip, AcceptRow, dbVars
  <2>3. QED
    BY <1>2, <2>1, <2>2
<1>6. CASE EstimateRelease
  <2>1. Calm
    BY <1>6 DEF EstimateRelease, Ledgers, chainVars, storageVars, dbVars
  <2>2. BookedInv'
    BY <1>1, <1>6, BookedKept DEF EstimateRelease, dbVars
  <2>3. QED
    BY <1>2, <2>1, <2>2
<1>7. CASE EstimateFails \/ SendRefused
  <2>1. Calm
    BY <1>7 DEF EstimateFails, SendRefused, MarkFailed, Ledgers, chainVars, storageVars
  <2>2. BookedInv'
    BY <1>1, <1>7, FailedJobKeepsBooked DEF EstimateFails, SendRefused, Paying
  <2>3. QED
    BY <1>2, <2>1, <2>2
<1>8. CASE Release
  <2>1. ~SendAnswerLost
    BY DEF SendAnswerLost, Reliable, Fault
  <2>2. QED
    BY <1>6, <1>7, <1>8, <2>1, ReliableSendRelease, ReliableWaitRelease,
       ReliableWaitReleaseFails DEF Release
<1>9. CASE MarkSettled
  <2>1. Calm
    BY <1>9 DEF MarkSettled, Ledgers, chainVars, storageVars
  <2>2. QED
    BY <1>1, <1>2, <1>9, <2>1, BookedMarkSettled
<1>10. CASE SetClipCapped \/ ReadBalance \/ CloseCampaign
  <2>1. Calm
    BY <1>10 DEF SetClipCapped, ReadBalance, CloseCampaign, Ledgers, chainVars, storageVars,
                 dbVars
  <2>2. BookedInv'
    BY <1>1, <1>10, BookedKept DEF SetClipCapped, ReadBalance, CloseCampaign, dbVars
  <2>3. QED
    BY <1>2, <2>1, <2>2
<1>11. CASE Settle
  BY <1>9, <1>10, <1>11, ReliableInsertSettlement DEF Settle
<1>12. CASE RecordRefused
  <2>1. Calm
    BY <1>12 DEF RecordRefused, EndJob, Ledgers, chainVars, storageVars, dbVars
  <2>2. BookedInv'
    BY <1>1, <1>12, BookedKept DEF RecordRefused, dbVars
  <2>3. QED
    BY <1>2, <2>1, <2>2
<1>13. CASE Record
  <2>1. ~RecordAnswerLost
    BY DEF RecordAnswerLost, Reliable, Fault
  <2>2. QED
    BY <1>12, <1>13, <2>1, ReliableSendRecord, ReliableWaitRecord DEF Record
<1>14. CASE Crash \/ Restart
  <2>1. ~Crash
    BY DEF Crash, Reliable, Fault
  <2>2. Calm
    BY <1>14, <2>1 DEF Restart, Ledgers, chainVars, storageVars, dbVars
  <2>3. BookedInv'
    BY <1>1, <1>14, <2>1, BookedKept DEF Restart, dbVars
  <2>4. QED
    BY <1>2, <2>2, <2>3
<1>15. CASE Mine
  BY <1>15, ReliableMineRelease, ReliableOtherInclusion DEF Mine
<1>16. CASE Environment
  <2>1. UNCHANGED Ledgers /\ UNCHANGED <<pc, job>>
    BY <1>16 DEF Environment, InsertPendingSettlement, TopUp, topUp, WithdrawRemaining,
                 withdrawEffects, NextBlock, Ledgers, chainVars, storageVars, dbVars
  <2>2. BookedInv'
    <3>1. CASE InsertPendingSettlement
      BY <1>1, <3>1, BookedInsertPending
    <3>2. CASE TopUp \/ WithdrawRemaining \/ NextBlock
      BY <1>1, <2>1, <3>2 DEF TopUp, WithdrawRemaining, NextBlock, dbVars, BookedInv
    <3>3. QED
      BY <1>16, <3>1, <3>2 DEF Environment
  <2>3. QED
    BY <2>1, <2>2, StillStep
<1>17. CASE UNCHANGED vars
  <2>1. UNCHANGED Ledgers /\ UNCHANGED <<pc, job>> /\ BookedInv'
    BY <1>1, <1>17 DEF vars, storageVars, dbVars, Ledgers, BookedInv
  <2>2. QED
    BY <2>1, StillStep
<1>18. QED
  BY <1>3, <1>4, <1>5, <1>8, <1>11, <1>13, <1>14, <1>15, <1>16, <1>17
     DEF Next, Worker, Decide

(***************************************************************************)
(* Without deaths, lost answers and abandoned waits, one transaction at    *)
(* most is under way, and every payment is booked but the one in hand.     *)
(***************************************************************************)
THEOREM ReliableInvariant ==
    ASSUME Reliable  PROVE Spec => []ReliableInv
<1>1. ASSUME Init  PROVE ReliableInv
  <2>1. MempoolInv /\ PaidInv /\ BookedInv
    BY <1>1 DEF Init, MempoolInv, PaidInv, BookedInv
  <2>2. ASSUME NEW c \in CampaignIds
        PROVE  released[c] = SumFunctionOnSet(settledTotal, ClipsOf(c)) + unbooked(c)
    <3>1. \A k \in ClipsOf(c) : settledTotal[k] = 0
      BY <1>1, ClipsOfAreFinite DEF Init
    <3>2. SumFunctionOnSet(settledTotal, ClipsOf(c)) = 0
      BY <3>1, SumZero, ClipsOfAreFinite
    <3>3. released[c] = 0 /\ unbooked(c) = 0
      BY <1>1 DEF Init, unbooked, InFlight
    <3>4. QED
      BY <3>2, <3>3
  <2>3. QED
    BY <2>1, <2>2 DEF ReliableInv, ReleasedInv
<1>2. IInv /\ ReliableInv /\ [Next]_vars => ReliableInv'
  BY ReliableStep
<1>3. QED
  BY <1>1, <1>2, InductiveInvariant, PTL DEF Spec

(***************************************************************************)
(* worker.ts:230-231 holds as long as answers arrive and the process       *)
(* lives: nothing was paid for a failed row, and nothing under way can pay *)
(* it.                                                                     *)
(***************************************************************************)
THEOREM FailedIsUnpaid ==
    ASSUME Reliable  PROVE Spec => []FailedMeansUnpaid
<1>1. ASSUME IInv, ReliableInv  PROVE FailedMeansUnpaid
  <2>1. SUFFICES ASSUME NEW s \in SettlementIds, pending[s].status = "failed"
                 PROVE  /\ payouts[s] = << >>
                        /\ \A t \in mempool : t.id = s => t.function # "release"
    BY DEF FailedMeansUnpaid, Rows
  <2>2. pc \in Paying \cup {"insertSettlement", "markSettled"} => s # job.id
    BY <1>1, <2>1 DEF IInv, JobInv, Paying, Paid
  <2>3. payouts[s] = << >>
    BY <1>1, <2>1, <2>2 DEF ReliableInv, PaidInv, BookedInv, InFlight, Paying
  <2>4. \A t \in mempool : t.id = s => t.function # "release"
    BY <1>1, <2>2 DEF ReliableInv, MempoolInv, OwnTx, ReleaseTx, RecordTx, Paying
  <2>5. QED
    BY <2>3, <2>4
<1>2. QED
  BY <1>1, InductiveInvariant, ReliableInvariant, PTL

(***************************************************************************)
(* As long as answers arrive and the process lives, a clip never earns     *)
(* more than its cap on the chain either.                                  *)
(***************************************************************************)
THEOREM EarningsStayWithinCap ==
    ASSUME Reliable  PROVE Spec => []EarnedWithinCap
<1>1. ASSUME IInv, TotalsAreSums, ReliableInv  PROVE EarnedWithinCap
  <2>1. SUFFICES ASSUME NEW k \in Clips, CapOf[k] # NoCap
                 PROVE  SumFunctionOnSet(paidAmount, RowsOf(k)) <= CapOf[k]
    BY DEF EarnedWithinCap
  <2>2. /\ IsFiniteSet(RowsOf(k))
        /\ \A s \in RowsOf(k) : s \in SettlementIds /\ settlements[s] \in Int
    BY <1>1, RowsOfAreFinite DEF IInv
  <2>3. /\ SumFunctionOnSet(settlements, RowsOf(k)) = settledTotal[k]
        /\ settledTotal[k] \in Nat /\ settledTotal[k] <= CapOf[k]
    BY <1>1, <2>1 DEF TotalsAreSums, IInv, TypeOK, TotalsWithinCap
  <2>4. ASSUME NEW s \in SettlementIds, settlements[s] # 0 \/ payouts[s] = << >>
        PROVE  paidAmount[s] = settlements[s]
    <3>1. CASE payouts[s] = << >>
      <4>1. settlements[s] = 0
        BY <1>1, <3>1, UnpaidIsUnsettled DEF IInv
      <4>2. QED
        BY <3>1, <4>1 DEF paidAmount
    <3>2. CASE settlements[s] # 0
      <4>1. payouts[s] = <<PayoutOf([clip |-> pending[s].clip, amount |-> settlements[s]])>>
        BY <1>1, <3>2 DEF IInv, SettledMeansPaid
      <4>2. payouts[s][1].amount = settlements[s] /\ payouts[s] # << >>
        BY <4>1 DEF PayoutOf
      <4>3. QED
        BY <4>2 DEF paidAmount
    <3>3. QED
      BY <2>4, <3>1, <3>2
  <2>5. CASE InFlight /\ job.id \in RowsOf(k)
    <3>1. /\ job \in Job /\ MatchesRow(job) /\ settlements[job.id] = 0
          /\ CapOf[job.clip] # NoCap =>
                settledTotal[job.clip] + job.amount <= CapOf[job.clip]
          /\ pc \in Paying \cup Paid
      BY <1>1, <2>5 DEF InFlight, IInv, TypeOK, JobInv, Paying, Paid
    <3>2. k = job.clip /\ job.amount \in Nat
      BY <2>5, <3>1 DEF RowsOf, MatchesRow, Job
    <3>3. payouts[job.id] = <<PayoutOf(job)>>
      <4>1. CASE pc = "insertSettlement"
        BY <1>1, <4>1 DEF IInv, JobInv, PaidFor, Paid
      <4>2. CASE pc = "wait" /\ payouts[job.id] # << >>
        <5>1. PaidFor(ReleaseTx(job.nonce))
          BY <1>1, <4>2 DEF ReliableInv, PaidInv, Confirmed, IInv, TxInv, ReleaseTx
        <5>2. QED
          BY <5>1 DEF PaidFor, ReleaseTx, PayoutOf
      <4>3. QED
        BY <2>5, <4>1, <4>2 DEF InFlight
    <3>4. paidAmount[job.id] = job.amount
      <4>1. payouts[job.id][1].amount = job.amount /\ payouts[job.id] # << >>
        BY <3>3 DEF PayoutOf
      <4>2. QED
        BY <2>2, <2>5, <4>1 DEF paidAmount
    <3>5. \A s \in RowsOf(k) \ {job.id} : paidAmount[s] = settlements[s]
      BY <1>1, <2>2, <2>4 DEF ReliableInv, PaidInv
    <3>6. SumFunctionOnSet(paidAmount, RowsOf(k))
             = SumFunctionOnSet(settlements, RowsOf(k)) - settlements[job.id]
                  + paidAmount[job.id]
      <4>1. paidAmount[job.id] \in Int
        BY <3>2, <3>4
      <4>2. QED
        BY <2>2, <2>5, <3>5, <4>1, SumUpdate
    <3>7. settledTotal[k] + job.amount <= CapOf[k]
      BY <2>1, <3>1, <3>2
    <3>8. SumFunctionOnSet(paidAmount, RowsOf(k)) = settledTotal[k] + job.amount
      BY <2>3, <3>1, <3>2, <3>4, <3>6
    <3>9. QED
      BY <3>7, <3>8
  <2>6. CASE ~ (InFlight /\ job.id \in RowsOf(k))
    <3>1. \A s \in RowsOf(k) : paidAmount[s] = settlements[s]
      BY <1>1, <2>2, <2>4, <2>6 DEF ReliableInv, PaidInv
    <3>2. SumFunctionOnSet(paidAmount, RowsOf(k)) = SumFunctionOnSet(settlements, RowsOf(k))
      BY <2>2, <3>1, SumCongruence
    <3>3. QED
      BY <2>3, <3>2
  <2>7. QED
    BY <2>5, <2>6
<1>2. QED
  BY <1>1, InductiveInvariant, TotalsAreSumsOfRows, ReliableInvariant, PTL

(***************************************************************************)
(* As long as answers arrive and the process lives, the database's idea of *)
(* an open campaign's budget is the chain's between two rows               *)
(* (db.ts:554-560).                                                        *)
(***************************************************************************)
THEOREM BooksStayBalanced ==
    ASSUME Reliable  PROVE Spec => []BooksBalance
<1>1. ASSUME IInv, ReliableInv  PROVE BooksBalance
  <2>1. SUFFICES ASSUME pc \in {"idle", "readNonce", "next"},
                        NEW c \in CampaignIds, ~campaigns[c].closed
                 PROVE  deposited[c] = campaigns[c].balance
                                          + SumFunctionOnSet(settledTotal, ClipsOf(c))
    BY DEF BooksBalance
  <2>2. deposited[c] = campaigns[c].balance + released[c] + returned[c] /\ returned[c] = 0
    BY <1>1, <2>1 DEF IInv, EscrowInv
  <2>3. released[c] = SumFunctionOnSet(settledTotal, ClipsOf(c)) + 0
    BY <1>1, <2>1 DEF ReliableInv, ReleasedInv, unbooked, InFlight
  <2>4. SumFunctionOnSet(settledTotal, ClipsOf(c)) \in Int
    <3>1. \A k \in ClipsOf(c) : settledTotal[k] \in Int
      BY <1>1, ClipsOfAreFinite DEF IInv, TypeOK
    <3>2. QED
      BY <3>1, SumInt, ClipsOfAreFinite
  <2>5. campaigns[c].balance \in Nat
    BY <1>1 DEF IInv, TypeOK, StorageTypeOK, Campaign
  <2>6. QED
    BY <2>2, <2>3, <2>4, <2>5
<1>2. QED
  BY <1>1, InductiveInvariant, ReliableInvariant, PTL
=============================================================================
