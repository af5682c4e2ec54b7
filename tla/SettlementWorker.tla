--------------------------- MODULE SettlementWorker ---------------------------
(***************************************************************************)
(* The Settlement Worker (settlement/worker.ts) between the two stores it  *)
(* has to keep in agreement: the SQLite database, where it finds pending   *)
(* settlements and records what became of them, and the chain, where       *)
(* CampaignEscrow.release pays and PayoutRegistry.recordPayout logs.       *)
(* Nothing spans both: the worker is cut at every await and, since its     *)
(* process may die and is restarted, between any two database writes.      *)
(*                                                                         *)
(* The worker's transactions wait in the mempool under the agent's nonces  *)
(* and are executed in nonce order.  What the RPC node answers is not      *)
(* always what happened: Faults names the failures that may occur.         *)
(*   "crash"   the process dies (an uncaught error, SQLITE_BUSY, a         *)
(*             redeploy) and `concurrently` starts it again                *)
(*   "rpc"     a request fails before it had any effect                    *)
(*   "lost"    the node accepted a transaction, the answer never came      *)
(*   "wait"    wait() rejects although the transaction may still be mined  *)
(*   "refuse"  the clipper's address rejects the transfer                  *)
(*                                                                         *)
(* A clip's campaign, wallet and cap never change after it is submitted,   *)
(* so the copies the queue and the calldata hold are read from the clip.   *)
(***************************************************************************)
EXTENDS EscrowStorage, PayoutMath, FiniteSets, Functions

CONSTANTS
    Clips,           \* clips.id
    CampaignOf,      \* clips.campaign_id, the campaign's on-chain id
    WalletOf,        \* clips.clipper_wallet
    CapOf,           \* clips.per_clip_cap
    MaxCpm,          \* campaigns.max_cpm
    CpmRates,        \* the rates the poller may find in effect
    ViewDeltas,      \* bound: the view deltas the poller may approve
    Organizer, Agent,
    InitialDeposit,  \* the value each campaign was created with
    MaxDuration,     \* of each campaign
    TopUps,          \* bound: the values sent to topUp
    MaxDeposit,      \* bound: the value one campaign may receive
    MaxTime,         \* bound: the last block timestamp
    Faults,          \* the failures that may occur
    MaxCrashes       \* bound: deaths of the process

ASSUME WorkerAssumption ==
    /\ CampaignOf \in [Clips -> CampaignIds]
    /\ WalletOf \in [Clips -> Accounts]
    /\ CapOf \in [Clips -> Caps]
    /\ MaxCpm \in [CampaignIds -> Nat]
    /\ CpmRates \subseteq Nat
    /\ ViewDeltas \subseteq Nat
    /\ Organizer \in Accounts /\ Agent \in Accounts
    /\ InitialDeposit \in [CampaignIds -> Nat \ {0}]
    /\ MaxDuration \in 0 .. UintMax
    /\ IsFiniteSet(SettlementIds) /\ IsFiniteSet(Clips)
    /\ TopUps \subseteq Nat
    /\ MaxCrashes \in Nat

VARIABLES
    \* the database
    pending,        \* pending_settlements, by settlement_id
    settlements,    \* settlements: the amount by settlement_id, 0 for no row
    settledTotal,   \* sum of settlements.amount, by clip
    isCapped,       \* clips.is_capped
    closedInDb,     \* campaigns.status = 'closed'
    \* the chain, besides the escrow's storage
    recorded,       \* PayoutRegistry: the PayoutRecorded events of each id
    mempool,        \* transactions sent and not yet mined
    mined,          \* transactions mined, with their outcome
    chainNonce,     \* the agent's transaction count, "latest"
    \* the worker's memory
    pc,             \* the await or statement it has reached
    batch,          \* rows listed this cycle and not yet processed
    nextNonce,      \* SequentialNonceTracker.next
    job,            \* the row being processed
    crashes         \* deaths so far

dbVars == <<pending, settlements, settledTotal, isCapped, closedInDb>>
chainVars == <<storageVars, recorded, mempool, mined, chainNonce>>
vars == <<storageVars, blockTimestamp, dbVars, recorded, mempool, mined,
          chainNonce, pc, batch, nextNonce, job, crashes>>

-----------------------------------------------------------------------------
NoRow == [status |-> "none"]

Row == [status : {"pending", "settled", "failed"}, clip : Clips,
        viewDelta : Nat, amount : Nat, createdAt : Nat,
        reason : RejectReasons \cup {"none", "release"}]

Rows(status) == {s \in SettlementIds : pending[s].status = status}

Tx == [nonce : Nat, function : {"release", "recordPayout"}, id : SettlementIds,
       clip : Clips, amount : Nat \ {0}]

\* The event a transaction with these arguments leaves.
PayoutOf(t) == [campaign |-> CampaignOf[t.clip], clipper |-> WalletOf[t.clip],
                amount |-> t.amount]

NoJob == [id |-> "none"]

Job == [id : SettlementIds, clip : Clips, amount : Nat \ {0}, isCapped : BOOLEAN,
        campaignClosed : BOOLEAN, nonce : Nat]

\* Where processPendingSettlement stands: before the receipt of the release,
\* and after it.
Paying == {"estimate", "send", "wait"}
Paid == {"insertSettlement", "markSettled", "setCapped", "readBalance",
         "closeCampaign", "record", "waitRecord"}

Fault(f) == f \in Faults

-----------------------------------------------------------------------------
(***************************************************************************)
(* Every campaign is open, funded, indexed as active and authorizes the    *)
(* agent (server/campaigns.ts refuses to index one that does not).         *)
(***************************************************************************)
Init ==
    /\ campaignCount = MaxCampaigns
    /\ campaigns = [c \in CampaignIds |->
                       [organizer |-> Organizer, authorizedAgent |-> Agent,
                        maxDuration |-> MaxDuration, balance |-> InitialDeposit[c],
                        createdAt |-> 0, closed |-> FALSE]]
    /\ usedSettlementIds = {}
    /\ blockTimestamp = 0
    /\ payouts = [s \in SettlementIds |-> << >>]
    /\ deposited = InitialDeposit
    /\ released = [c \in CampaignIds |-> 0]
    /\ returned = [c \in CampaignIds |-> 0]
    /\ pending = [s \in SettlementIds |-> NoRow]
    /\ settlements = [s \in SettlementIds |-> 0]
    /\ settledTotal = [k \in Clips |-> 0]
    /\ isCapped = [k \in Clips |-> FALSE]
    /\ closedInDb = [c \in CampaignIds |-> FALSE]
    /\ recorded = [s \in SettlementIds |-> << >>]
    /\ mempool = {}
    /\ mined = {}
    /\ chainNonce = 0
    /\ pc = "idle"
    /\ batch = {}
    /\ nextNonce = 0
    /\ job = NoJob
    /\ crashes = 0

-----------------------------------------------------------------------------
(***************************************************************************)
(* The poller queues an approved delta; settlement_id is UNIQUE.           *)
(***************************************************************************)
InsertPendingSettlement ==
    /\ \E s \in SettlementIds, k \in Clips, delta \in ViewDeltas, cpm \in CpmRates :
          /\ pending[s] = NoRow
          /\ cpm <= MaxCpm[CampaignOf[k]]
          /\ pending' = [pending EXCEPT ![s] =
                [status |-> "pending", clip |-> k, viewDelta |-> delta,
                 amount |-> computeSettlementAmount(delta, perViewRate(cpm)),
                 createdAt |-> Cardinality({t \in SettlementIds : pending[t] # NoRow}),
                 reason |-> "none"]]
    /\ UNCHANGED <<chainVars, blockTimestamp, settlements, settledTotal, isCapped,
                   closedInDb, pc, batch, nextNonce, job, crashes>>

(***************************************************************************)
(* runSettlementCycle: the rows are listed once, then the nonce is read.   *)
(***************************************************************************)
\* Failed rows are listed too, for another attempt.
ListUnsettledRows ==
    /\ pc = "idle"
    /\ Rows("pending") \cup Rows("failed") # {}
    /\ batch' = Rows("pending") \cup Rows("failed")
    /\ pc' = "readNonce"
    /\ UNCHANGED <<chainVars, blockTimestamp, dbVars, nextNonce, job, crashes>>

ListPendingSettlements ==
    /\ pc = "idle"
    /\ Rows("pending") # {}
    /\ batch' = Rows("pending")
    /\ pc' = "readNonce"
    /\ UNCHANGED <<chainVars, blockTimestamp, dbVars, nextNonce, job, crashes>>

\* If the node does not answer, the rejection is nobody's and ends the process:
\* that is Crash, at this await.
ReadNonce ==
    /\ pc = "readNonce"
    /\ nextNonce' = chainNonce
    /\ pc' = "next"
    /\ UNCHANGED <<chainVars, blockTimestamp, dbVars, batch, job, crashes>>

\* isRunning is not cleared: every later tick finds a cycle running.
EndCycleStillRunning ==
    /\ pc = "next"
    /\ batch = {}
    /\ pc' = "running"
    /\ nextNonce' = 0
    /\ UNCHANGED <<chainVars, blockTimestamp, dbVars, batch, job, crashes>>

EndCycle ==
    /\ pc = "next"
    /\ batch = {}
    /\ pc' = "idle"
    /\ nextNonce' = 0
    /\ UNCHANGED <<chainVars, blockTimestamp, dbVars, batch, job, crashes>>

IsOldest(s, S) == s \in S /\ \A t \in S : pending[s].createdAt <= pending[t].createdAt

\* getTotalSettledAmountForClip: what the settlements table says was paid.
alreadyPaid(k) == settledTotal[k]

ReasonToReject(s) ==
    LET k == pending[s].clip
    IN  rejectReason(pending[s].amount, pending[s].viewDelta, MaxCpm[CampaignOf[k]],
                     alreadyPaid(k), CapOf[k])

(***************************************************************************)
(* Up to the release: the row is refused, or its amount is clamped to what *)
(* is left of the clip's cap.  The campaign row is read here, once.        *)
(***************************************************************************)
RejectRow ==
    \E s \in batch :
       /\ pc = "next"
       /\ IsOldest(s, batch)
       /\ ReasonToReject(s) \in RejectReasons
       /\ pending' = [pending EXCEPT ![s].status = "failed", ![s].reason = ReasonToReject(s)]
       /\ batch' = batch \ {s}
       /\ \/ ReasonToReject(s) # "capReached" /\ UNCHANGED <<job, pc>>
          \/ /\ ReasonToReject(s) = "capReached"
             /\ job' = [clip |-> pending[s].clip]
             /\ pc' = "rejected"
       /\ UNCHANGED <<chainVars, blockTimestamp, settlements, settledTotal, isCapped,
                      closedInDb, nextNonce, crashes>>

\* The second write of a row that is refused for its clip's cap.
CapRejectedClip ==
    /\ pc = "rejected"
    /\ isCapped' = [isCapped EXCEPT ![job.clip] = TRUE]
    /\ job' = NoJob
    /\ pc' = "next"
    /\ UNCHANGED <<chainVars, blockTimestamp, pending, settlements, settledTotal,
                   closedInDb, batch, nextNonce, crashes>>

AcceptRow ==
    \E s \in batch :
       /\ pc = "next"
       /\ IsOldest(s, batch)
       /\ ReasonToReject(s) = "none"
       /\ LET k == pending[s].clip
              clamped == clampToRemainingCap(pending[s].amount, alreadyPaid(k), CapOf[k])
          IN  job' = [id |-> s, clip |-> k, amount |-> clamped.payable,
                      isCapped |-> clamped.isCapped,
                      campaignClosed |-> closedInDb[CampaignOf[k]],
                      nonce |-> nextNonce]
       /\ batch' = batch \ {s}
       /\ pc' = "estimate"
       /\ UNCHANGED <<chainVars, blockTimestamp, dbVars, nextNonce, crashes>>

(***************************************************************************)
(* The release.  Anything thrown between the gas estimation and the        *)
(* receipt ends in the same catch, which marks the row failed.             *)
(***************************************************************************)
MarkFailed ==
    /\ pending' = [pending EXCEPT ![job.id].status = "failed", ![job.id].reason = "release"]
    /\ job' = NoJob
    /\ pc' = "next"
    /\ UNCHANGED <<settlements, settledTotal, isCapped, closedInDb, batch, crashes>>

releaseSucceeds(k, amount, id) ==
    releaseAllowed(Agent, CampaignOf[k], WalletOf[k], amount, id)

EstimateRelease ==
    /\ pc = "estimate"
    /\ releaseSucceeds(job.clip, job.amount, job.id)
    /\ pc' = "send"
    /\ UNCHANGED <<chainVars, blockTimestamp, dbVars, batch, nextNonce, job, crashes>>

\* The nonce is taken before the send: a failed estimation consumes it.
EstimateFailsTakingNonce ==
    /\ pc = "estimate"
    /\ ~releaseSucceeds(job.clip, job.amount, job.id)
    /\ MarkFailed
    /\ nextNonce' = nextNonce + 1
    /\ UNCHANGED <<chainVars, blockTimestamp>>

EstimateFails ==
    /\ pc = "estimate"
    /\ ~releaseSucceeds(job.clip, job.amount, job.id) \/ Fault("rpc") \/ Fault("refuse")
    /\ MarkFailed
    /\ UNCHANGED <<chainVars, blockTimestamp, nextNonce>>

\* The row's transactions, the amount being the one actually paid.
ReleaseTx(nonce) ==
    [nonce |-> nonce, function |-> "release", id |-> job.id,
     clip |-> job.clip, amount |-> job.amount]

\* The audit entry holds the amount that was queued.
QueuedAmountTx(nonce) ==
    [nonce |-> nonce, function |-> "recordPayout", id |-> job.id,
     clip |-> job.clip, amount |-> pending[job.id].amount]

RecordTx(nonce) ==
    [nonce |-> nonce, function |-> "recordPayout", id |-> job.id,
     clip |-> job.clip, amount |-> job.amount]

SameNonce(n) == {t \in mempool : t.nonce = n}

\* The node takes a transaction whose nonce was not mined; if one is waiting
\* under that nonce it refuses, or replaces it when the new fee is higher.
Broadcast(t) ==
    /\ t.nonce >= chainNonce
    /\ mempool' = (mempool \ SameNonce(t.nonce)) \cup {t}

Refused(t) == t.nonce < chainNonce \/ SameNonce(t.nonce) # {} \/ Fault("rpc")

SendRelease ==
    /\ pc = "send"
    /\ Broadcast(ReleaseTx(nextNonce))
    /\ job' = [job EXCEPT !.nonce = nextNonce]
    /\ nextNonce' = nextNonce + 1
    /\ pc' = "wait"
    /\ UNCHANGED <<storageVars, recorded, mined, chainNonce, blockTimestamp, dbVars,
                   batch, crashes>>

SendRefused ==
    /\ pc = "send"
    /\ Refused(ReleaseTx(nextNonce))
    /\ MarkFailed
    /\ UNCHANGED <<chainVars, blockTimestamp, nextNonce>>

SendAnswerLost ==
    /\ pc = "send"
    /\ Fault("lost")
    /\ Broadcast(ReleaseTx(nextNonce))
    /\ MarkFailed
    /\ UNCHANGED <<storageVars, recorded, mined, chainNonce, blockTimestamp, nextNonce>>

Confirmed(t) == [tx |-> t, ok |-> TRUE] \in mined

\* The receipt's status is not looked at.
WaitReleaseAnyReceipt ==
    /\ pc = "wait"
    /\ chainNonce > job.nonce
    /\ pc' = "insertSettlement"
    /\ UNCHANGED <<chainVars, blockTimestamp, dbVars, batch, nextNonce, job, crashes>>

WaitRelease ==
    /\ pc = "wait"
    /\ Confirmed(ReleaseTx(job.nonce))
    /\ pc' = "insertSettlement"
    /\ UNCHANGED <<chainVars, blockTimestamp, dbVars, batch, nextNonce, job, crashes>>

\* The wait gives up after a while.
WaitReleaseTimesOut ==
    /\ pc = "wait"
    /\ ~Confirmed(ReleaseTx(job.nonce))
    /\ MarkFailed
    /\ UNCHANGED <<chainVars, blockTimestamp, nextNonce>>

\* It was mined and reverted, another one took its nonce, or the wait failed.
WaitReleaseFails ==
    /\ pc = "wait"
    /\ \/ chainNonce > job.nonce /\ ~Confirmed(ReleaseTx(job.nonce))
       \/ Fault("wait")
    /\ MarkFailed
    /\ UNCHANGED <<chainVars, blockTimestamp, nextNonce>>

(***************************************************************************)
(* The payment is final: its row, the status of its pending row and the    *)
(* cap hint are written one after the other.                               *)
(***************************************************************************)
InsertSettlement ==
    /\ pc = "insertSettlement"
    /\ settlements' = [settlements EXCEPT ![job.id] = job.amount]
    /\ settledTotal' = [settledTotal EXCEPT ![job.clip] = @ + job.amount]
    /\ pc' = "markSettled"
    /\ UNCHANGED <<chainVars, blockTimestamp, pending, isCapped, closedInDb, batch,
                   nextNonce, job, crashes>>

MarkSettled ==
    /\ pc = "markSettled"
    /\ pending' = [pending EXCEPT ![job.id].status = "settled", ![job.id].reason = "none"]
    /\ pc' = IF job.isCapped THEN "setCapped" ELSE "readBalance"
    /\ UNCHANGED <<chainVars, blockTimestamp, settlements, settledTotal, isCapped,
                   closedInDb, batch, nextNonce, job, crashes>>

\* A capped clip's row goes straight to the audit log.
SetClipCappedAndRecord ==
    /\ pc = "setCapped"
    /\ isCapped' = [isCapped EXCEPT ![job.clip] = TRUE]
    /\ pc' = "record"
    /\ UNCHANGED <<chainVars, blockTimestamp, pending, settlements, settledTotal,
                   closedInDb, batch, nextNonce, job, crashes>>

SetClipCapped ==
    /\ pc = "setCapped"
    /\ isCapped' = [isCapped EXCEPT ![job.clip] = TRUE]
    /\ pc' = "readBalance"
    /\ UNCHANGED <<chainVars, blockTimestamp, pending, settlements, settledTotal,
                   closedInDb, batch, nextNonce, job, crashes>>

(***************************************************************************)
(* The balance is read on the chain, then the campaign is closed in the    *)
(* database; an error in between is only logged.                           *)
(***************************************************************************)
ReadBalance ==
    /\ pc = "readBalance"
    /\ \/ /\ campaigns[CampaignOf[job.clip]].balance = 0
          /\ ~job.campaignClosed
          /\ pc' = "closeCampaign"
       \/ /\ \/ campaigns[CampaignOf[job.clip]].balance # 0
             \/ job.campaignClosed
             \/ Fault("rpc")
          /\ pc' = "record"
    /\ UNCHANGED <<chainVars, blockTimestamp, dbVars, batch, nextNonce, job, crashes>>

\* Closing the campaign ends the row: its payout is not recorded.
CloseCampaignAndReturn ==
    /\ pc = "closeCampaign"
    /\ closedInDb' = [closedInDb EXCEPT ![CampaignOf[job.clip]] = TRUE]
    /\ job' = NoJob
    /\ pc' = "next"
    /\ UNCHANGED <<chainVars, blockTimestamp, pending, settlements, settledTotal,
                   isCapped, batch, nextNonce, crashes>>

CloseCampaign ==
    /\ pc = "closeCampaign"
    /\ closedInDb' = [closedInDb EXCEPT ![CampaignOf[job.clip]] = TRUE]
    /\ pc' = "record"
    /\ UNCHANGED <<chainVars, blockTimestamp, pending, settlements, settledTotal,
                   isCapped, batch, nextNonce, job, crashes>>

(***************************************************************************)
(* The audit log.  Nothing that fails here is retried.                     *)
(***************************************************************************)
EndJob == job' = NoJob /\ pc' = "next"

recordSucceeds(id) == recorded[id] = << >>

SendRecord ==
    /\ pc = "record"
    /\ recordSucceeds(job.id)
    /\ Broadcast(RecordTx(nextNonce))
    /\ nextNonce' = nextNonce + 1
    /\ job' = [job EXCEPT !.nonce = nextNonce]
    /\ pc' = "waitRecord"
    /\ UNCHANGED <<storageVars, recorded, mined, chainNonce, blockTimestamp, dbVars,
                   batch, crashes>>

RecordRefused ==
    /\ pc = "record"
    /\ ~recordSucceeds(job.id) \/ Refused(RecordTx(nextNonce))
    /\ EndJob
    /\ UNCHANGED <<chainVars, blockTimestamp, dbVars, batch, nextNonce, crashes>>

RecordAnswerLost ==
    /\ pc = "record"
    /\ Fault("lost")
    /\ recordSucceeds(job.id)
    /\ Broadcast(RecordTx(nextNonce))
    /\ EndJob
    /\ UNCHANGED <<storageVars, recorded, mined, chainNonce, blockTimestamp, dbVars,
                   batch, nextNonce, crashes>>

\* wait() returns or throws; both go on with the next row.
WaitRecord ==
    /\ pc = "waitRecord"
    /\ chainNonce > job.nonce \/ Fault("wait")
    /\ EndJob
    /\ UNCHANGED <<chainVars, blockTimestamp, dbVars, batch, nextNonce, crashes>>

-----------------------------------------------------------------------------
(***************************************************************************)
(* The process dies and is started again; what it sent stays sent.         *)
(***************************************************************************)
Crash ==
    /\ Fault("crash")
    /\ pc # "down"
    /\ crashes < MaxCrashes
    /\ crashes' = crashes + 1
    /\ pc' = "down"
    /\ batch' = {}
    /\ nextNonce' = 0
    /\ job' = NoJob
    /\ UNCHANGED <<chainVars, blockTimestamp, dbVars>>

Restart ==
    /\ pc = "down"
    /\ pc' = "idle"
    /\ UNCHANGED <<chainVars, blockTimestamp, dbVars, batch, nextNonce, job, crashes>>

(***************************************************************************)
(* The chain executes the agent's next transaction.                        *)
(***************************************************************************)
NextTx == {t \in mempool : t.nonce = chainNonce}

Included(t, ok) ==
    /\ mempool' = mempool \ {t}
    /\ mined' = mined \cup {[tx |-> t, ok |-> ok]}
    /\ chainNonce' = chainNonce + 1
    /\ UNCHANGED <<blockTimestamp, dbVars, pc, batch, nextNonce, job, crashes>>

MineRelease ==
    \E t \in NextTx :
       /\ t.function = "release"
       /\ releaseSucceeds(t.clip, t.amount, t.id)
       /\ releaseEffects(CampaignOf[t.clip], t.amount, t.id)
       /\ emitPayoutReleased(CampaignOf[t.clip], WalletOf[t.clip], t.amount, t.id)
       /\ Included(t, TRUE)
       /\ UNCHANGED recorded

MineRecord ==
    \E t \in NextTx :
       /\ t.function = "recordPayout"
       /\ recordSucceeds(t.id)
       /\ recorded' = [recorded EXCEPT ![t.id] = Append(@, PayoutOf(t))]
       /\ Included(t, TRUE)
       /\ UNCHANGED storageVars

MineReverted ==
    \E t \in NextTx :
       /\ IF t.function = "release"
            THEN ~releaseSucceeds(t.clip, t.amount, t.id) \/ Fault("refuse")
            ELSE ~recordSucceeds(t.id)
       /\ Included(t, FALSE)
       /\ UNCHANGED <<storageVars, recorded>>

(***************************************************************************)
(* Others use the contract: anyone tops up, the organizer withdraws once   *)
(* the campaign's time is over.                                            *)
(***************************************************************************)
TopUp ==
    /\ \E c \in CampaignIds, value \in TopUps :
          /\ deposited[c] + value <= MaxDeposit
          /\ topUp(c, value)
    /\ UNCHANGED <<blockTimestamp, dbVars, recorded, mempool, mined, chainNonce, pc,
                   batch, nextNonce, job, crashes>>

WithdrawRemaining ==
    /\ \E c \in CampaignIds : withdrawAllowed(Organizer, c) /\ withdrawEffects(c)
    /\ UNCHANGED <<payouts, blockTimestamp, dbVars, recorded, mempool, mined,
                   chainNonce, pc, batch, nextNonce, job, crashes>>

NextBlock ==
    /\ blockTimestamp < MaxTime
    /\ blockTimestamp' = blockTimestamp + 1
    /\ UNCHANGED <<chainVars, dbVars, pc, batch, nextNonce, job, crashes>>

-----------------------------------------------------------------------------
Cycle == ListPendingSettlements \/ ReadNonce \/ EndCycle
Decide == RejectRow \/ CapRejectedClip \/ AcceptRow
Release == EstimateRelease \/ EstimateFails \/ SendRelease \/ SendRefused
           \/ SendAnswerLost \/ WaitRelease \/ WaitReleaseFails
Settle == InsertSettlement \/ MarkSettled \/ SetClipCapped \/ ReadBalance \/ CloseCampaign
Record == SendRecord \/ RecordRefused \/ RecordAnswerLost \/ WaitRecord

Worker == Cycle \/ Decide \/ Release \/ Settle \/ Record
Mine == MineRelease \/ MineRecord \/ MineReverted
Environment == InsertPendingSettlement \/ TopUp \/ WithdrawRemaining \/ NextBlock

Next == Worker \/ Crash \/ Restart \/ Mine \/ Environment

Spec == Init /\ [][Next]_vars

(***************************************************************************)
(* setInterval starts a cycle every minute and an await that was answered  *)
(* goes on, the chain includes what waits under the next nonce, and        *)
(* `concurrently --restart-tries -1` starts a dead process again.  Nothing *)
(* is assumed of the poller, the organizer or the faults.                  *)
(***************************************************************************)
Fairness == WF_vars(Worker) /\ WF_vars(Mine) /\ WF_vars(Restart)

FairSpec == Spec /\ Fairness

-----------------------------------------------------------------------------
(***************************************************************************)
(* Type invariant.                                                         *)
(***************************************************************************)
\* What the database, the chain and the worker hold has the declared types,
\* and a row is being processed exactly while the worker is at one of its awaits.
TypeOK ==
    /\ StorageTypeOK
    /\ pending \in [SettlementIds -> Row \cup {NoRow}]
    /\ settlements \in [SettlementIds -> Nat]
    /\ settledTotal \in [Clips -> Nat]
    /\ isCapped \in [Clips -> BOOLEAN]
    /\ closedInDb \in [CampaignIds -> BOOLEAN]
    /\ recorded \in [SettlementIds -> Seq(Payout)]
    /\ mempool \in SUBSET Tx
    /\ mined \in SUBSET [tx : Tx, ok : BOOLEAN]
    /\ chainNonce \in Nat
    /\ pc \in {"down", "idle", "readNonce", "next", "rejected"} \cup Paying \cup Paid
    /\ batch \in SUBSET SettlementIds
    /\ nextNonce \in Nat
    /\ pc \in Paying \cup Paid => job \in Job
    /\ pc = "rejected" => job \in [clip : Clips]
    /\ pc \notin {"rejected"} \cup Paying \cup Paid => job = NoJob
    /\ crashes \in Nat

(***************************************************************************)
(* Safety, under every fault.                                              *)
(***************************************************************************)
\* However often the worker dies, resends or misreads an answer, no settlement
\* id is paid twice (CampaignEscrow.sol:27-31, pendingSettlement.ts:20-27).
PaidAtMostOnce == \A s \in SettlementIds : Len(payouts[s]) <= 1

\* What was paid under an id is what the poller queued under it: the same
\* campaign and wallet, and never more than the computed amount.
PayoutsMatchTheQueue ==
    \A s \in SettlementIds : payouts[s] # << >> =>
       /\ pending[s] # NoRow
       /\ payouts[s][1].campaign = CampaignOf[pending[s].clip]
       /\ payouts[s][1].clipper = WalletOf[pending[s].clip]
       /\ payouts[s][1].amount <= pending[s].amount

\* A row of settlements is backed by a payout of exactly that amount, and a
\* row becomes 'settled' only after its row of settlements exists, which is
\* what earnings pages and caps are computed from (worker.ts:259-273).
SettledMeansPaid ==
    \A s \in SettlementIds :
       /\ settlements[s] # 0 =>
             payouts[s] = <<PayoutOf([clip |-> pending[s].clip, amount |-> settlements[s]])>>
       /\ pending[s].status = "settled" => settlements[s] # 0

\* The audit log never claims a payment that was not made, or another amount
\* than the one paid (worker.ts:302-310, PayoutRegistry.sol:42-46).
AuditMatchesPayouts ==
    \A s \in SettlementIds : recorded[s] # << >> => recorded[s] = payouts[s]

\* The rows queued for a clip, the clips of a campaign, and what was paid under
\* each id.
RowsOf(k) == {s \in SettlementIds : pending[s] # NoRow /\ pending[s].clip = k}

ClipsOf(c) == {k \in Clips : CampaignOf[k] = c}

paidAmount == [s \in SettlementIds |->
                  IF payouts[s] = << >> THEN 0 ELSE payouts[s][1].amount]

\* The rows of settlements never add up to more than a clip's cap: the total
\* is recomputed for every row, after the previous one was inserted.
RowsWithinCap ==
    \A k \in Clips :
       LET total == SumFunctionOnSet(settlements, RowsOf(k))
       IN  total = settledTotal[k] /\ (CapOf[k] # NoCap => total <= CapOf[k])

\* The agent's nonces have no gap, so that what waits in the mempool can be
\* mined: the next nonce the tracker hands out never skips one that nothing
\* was sent under (the stall described in worker.ts:88-100).
NoNonceGap ==
    /\ \A t \in mempool : \A n \in chainNonce .. t.nonce : SameNonce(n) # {}
    /\ \A n \in chainNonce .. nextNonce - 1 : SameNonce(n) # {}

\* A row that was settled or failed keeps its verdict and its reason, and the
\* settlements table is append-only (db.ts:448-454, schema.sql:153-154).
VerdictsAreFinal ==
    [][\A s \in SettlementIds :
          /\ pending[s].status \in {"settled", "failed"} => pending'[s] = pending[s]
          /\ settlements[s] # 0 => settlements'[s] = settlements[s]]_vars

(***************************************************************************)
(* Safety that needs every answer to be reliable and no death.             *)
(***************************************************************************)
\* "if this fails, nothing happened on-chain, so it's safe to mark the row
\* failed outright" (worker.ts:230-231): nothing was paid for a failed row,
\* and nothing still waiting can pay it.
FailedMeansUnpaid ==
    \A s \in Rows("failed") :
       /\ payouts[s] = << >>
       /\ \A t \in mempool : t.id = s => t.function # "release"

\* per_clip_cap "is the max USDC base units this clip can ever earn in total"
\* (FRONTEND_DATA_CONTRACT.md:68): the payouts made for it stay under it.
EarnedWithinCap ==
    \A k \in Clips : CapOf[k] # NoCap =>
       SumFunctionOnSet(paidAmount, RowsOf(k)) <= CapOf[k]

\* Between two rows the database knows everything the escrow released, so that
\* a still-open campaign's budget is its balance plus its settlements
\* (db.ts:554-560).
BooksBalance ==
    pc \in {"idle", "readNonce", "next"} =>
       \A c \in CampaignIds : ~campaigns[c].closed =>
          deposited[c] = campaigns[c].balance
             + SumFunctionOnSet(settledTotal, ClipsOf(c))

\* "if it's genuinely 0, close the campaign" (worker.ts:284-286): at the moment
\* a campaign is marked closed its balance is zero.
ClosedWhenEmpty ==
    [][\A c \in CampaignIds :
          ~closedInDb[c] /\ closedInDb'[c] => campaigns[c].balance = 0]_vars

\* The reason "no new views this cycle" is given only for a delta of zero
\* (worker.ts:156-157, 165).
ZeroReasonMeansNoViews ==
    \A s \in Rows("failed") : pending[s].reason = "zero" => pending[s].viewDelta = 0

(***************************************************************************)
(* Liveness, under FairSpec.                                               *)
(***************************************************************************)
\* Every queued row is eventually settled or failed, whatever failed or died
\* on the way: no row is forgotten, no cycle hangs.
RowsAreDecided ==
    \A s \in SettlementIds :
       (pending[s].status = "pending") ~> (pending[s].status \in {"settled", "failed"})

\* Without faults every payment ends up booked as settled and in the audit log.
PaymentsAreBooked ==
    \A s \in SettlementIds :
       (payouts[s] # << >>) ~> (pending[s].status = "settled" /\ recorded[s] # << >>)

\* Without faults a campaign whose budget the payouts used up is closed in the
\* database, unless money comes in first (FRONTEND_DATA_CONTRACT.md:29).
DepletedCampaignsClose ==
    \A c \in CampaignIds :
       (campaigns[c].balance = 0 /\ ~campaigns[c].closed)
          ~> (closedInDb[c] \/ campaigns[c].balance # 0 \/ campaigns[c].closed)

-----------------------------------------------------------------------------
Ledger == INSTANCE PayoutLedger WITH
    Campaigns <- CampaignIds,
    Ids       <- SettlementIds,
    Payouts   <- Payout,
    paid      <- payouts,
    deposits  <- deposited,
    spent     <- released,
    refunds   <- returned,
    finished  <- {c \in CampaignIds : campaigns[c].closed}

\* The worker on its chain, with every fault, implements the same promise the
\* contract does: PayoutLedger.
ImplementsLedger == Ledger!LedgerSpec

-----------------------------------------------------------------------------
(***************************************************************************)
(* The inductive invariant behind the safety properties: what the escrow   *)
(* knows of each id, what every transaction carries, and what has happened *)
(* on the chain and in the database by the time the worker reaches each of *)
(* its statements.                                                         *)
(***************************************************************************)
PaidFor(t) == payouts[t.id] = <<PayoutOf(t)>>

EscrowInv ==
    /\ \A s \in SettlementIds :
          IF s \in usedSettlementIds THEN Len(payouts[s]) = 1 ELSE payouts[s] = << >>
    /\ \A c \in CampaignIds :
          /\ deposited[c] = campaigns[c].balance + released[c] + returned[c]
          /\ ~campaigns[c].closed => returned[c] = 0

\* A transaction, or the row in the worker's hands, asks for no more than its
\* pending row does and for the same clip.
MatchesRow(t) ==
    /\ pending[t.id] \in Row
    /\ pending[t.id].clip = t.clip
    /\ t.amount <= pending[t.id].amount

TxInv ==
    /\ \A t \in mempool :
          MatchesRow(t) /\ (t.function = "recordPayout" => PaidFor(t))
    /\ \A m \in mined :
          m.ok /\ m.tx.function = "release" => PaidFor(m.tx)

JobInv ==
    /\ \A s \in batch : pending[s].status = "pending"
    /\ pc \in Paying \cup Paid =>
          /\ job.id \notin batch
          /\ MatchesRow(job)
          /\ pc \in Paying \cup {"insertSettlement", "markSettled"}
                => pending[job.id].status = "pending"
          /\ pc \in {"send", "wait", "insertSettlement"} => settlements[job.id] = 0
          /\ pc \in Paying \cup {"insertSettlement"} /\ CapOf[job.clip] # NoCap
                => settledTotal[job.clip] + job.amount <= CapOf[job.clip]
          /\ pc \in Paid => PaidFor(job)
          /\ pc \in Paid \ {"insertSettlement"} => settlements[job.id] = job.amount

TotalsWithinCap == \A k \in Clips : CapOf[k] # NoCap => settledTotal[k] <= CapOf[k]

\* Inductive invariant: what holds at every statement of the worker about the
\* escrow, the transactions under way, the row in hand and the tables.
IInv ==
    /\ TypeOK
    /\ EscrowInv
    /\ TxInv
    /\ JobInv
    /\ PayoutsMatchTheQueue
    /\ SettledMeansPaid
    /\ AuditMatchesPayouts
    /\ TotalsWithinCap
=============================================================================
