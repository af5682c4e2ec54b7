------------------------------ MODULE ViewPoller ------------------------------
(***************************************************************************)
(* The View Poller (poller/viewPoller.ts) with the Validation Engine       *)
(* (validation/engine.ts) it asks.  One cycle lists the clips of active    *)
(* campaigns, and for each of them in turn reads the latest snapshot, asks *)
(* X for the impression count, stores a new snapshot and, if the delta is  *)
(* approved, queues a pending settlement.                                  *)
(*                                                                         *)
(* The poller is cut at the await of the X request and between its two     *)
(* database writes: other processes write the clips and campaigns it       *)
(* listed, and its own may die.  Faults names what may go wrong:           *)
(*   "crash"   the process dies and is started again                       *)
(*   "x"       the X request fails (a rate limit, an error, a timeout)     *)
(*   "dip"     X answers with a count below the true one                   *)
(*   "clock"   the machine's clock is set back, between two polls or while *)
(*             a request is under way                                      *)
(*   "stamp"   or between the two statements that take one poll's time     *)
(* `met` remembers which of the last three a behaviour met, for the        *)
(* properties that hold without one of them.                               *)
(***************************************************************************)
EXTENDS PayoutMath, Sequences, FiniteSetsExt

CONSTANTS
    Clips,             \* clips.id, in the order they are polled
    Campaigns,         \* campaigns.id
    CampaignOf,        \* clips.campaign_id
    CpmRate,           \* campaigns.cpm_rate
    MaxCpm,            \* campaigns.max_cpm
    EffectiveRates,    \* bound: rates the Pacing Agent may write
    MaxViewsPerTick,   \* MAX_PLAUSIBLE_VIEWS_PER_SECOND, per tick of the clock
    MaxViews,          \* bound: the views a tweet may get
    MaxClock,          \* bound: the last moment
    MaxSnapshots,      \* bound: snapshots of one clip
    MaxCrashes,        \* bound: deaths of the process
    Faults             \* the failures that may occur

ASSUME PollerAssumption ==
    /\ Clips \subseteq Nat
    /\ CampaignOf \in [Clips -> Campaigns]
    /\ CpmRate \in [Campaigns -> Nat]
    /\ MaxCpm \in [Campaigns -> Nat]
    /\ \A c \in Campaigns : CpmRate[c] <= MaxCpm[c]
    /\ EffectiveRates \subseteq Nat
    /\ MaxViewsPerTick \in Nat

VARIABLES
    impressions,    \* X: the impression count of each clip's tweet
    clock,          \* the machine's clock
    \* the database
    snapshots,      \* view_snapshots, by clip, in the order of their ids
    pendingRows,    \* pending_settlements
    isCapped,       \* clips.is_capped, written by the Settlement Worker
    effectiveRate,  \* clips.effective_cpm_rate, written by the Pacing Agent
    active,         \* campaigns.status = 'active', written by the Settlement Worker
    \* the poller's memory
    pc,             \* the await or statement it has reached
    listed,         \* the rows of clips this cycle has still to poll
    poll,           \* the poll of one clip: its row, previous, count, polledAt
    approved,       \* history: every delta that was approved for an uncapped clip
    met,            \* history: which of the faults "dip", "clock", "stamp" were met
    crashes         \* deaths so far

dbVars == <<snapshots, pendingRows, isCapped, effectiveRate, active>>
othersVars == <<impressions, clock, isCapped, effectiveRate, active>>
vars == <<impressions, clock, snapshots, pendingRows, isCapped, effectiveRate, active,
          pc, listed, poll, approved, met, crashes>>

-----------------------------------------------------------------------------
\* effective_cpm_rate: null, the campaign's cpm_rate applies.
Unpaced == -1

NoSnapshot == [count |-> -1, polledAt |-> -1]
Snapshot == [count : Nat, polledAt : Nat]

ClipRow == [id : Clips, isCapped : BOOLEAN, effectiveRate : EffectiveRates \cup {Unpaced}]

\* `from` and `to` are the counts viewDelta was computed from, and `stale` is
\* whether the clip was capped or its campaign closed when the row was written.
PendingRow == [clip : Clips, polledAt : Nat, from : Nat, to : Nat, viewDelta : Int,
               amount : Int, stale : BOOLEAN]

NoPoll == [clip |-> "none"]

Fault(f) == f \in Faults

Init ==
    /\ impressions \in [Clips -> 0 .. 1]
    /\ clock = 0
    /\ snapshots = [k \in Clips |-> << >>]
    /\ pendingRows = {}
    /\ isCapped = [k \in Clips |-> FALSE]
    /\ effectiveRate = [k \in Clips |-> Unpaced]
    /\ active = [c \in Campaigns |-> TRUE]
    /\ pc = "idle"
    /\ listed = {}
    /\ poll = NoPoll
    /\ approved = {}
    /\ met = {}
    /\ crashes = 0

-----------------------------------------------------------------------------
(***************************************************************************)
(* validateViewDelta, in the order of its checks.                          *)
(***************************************************************************)
isDrop(previous, count) == count < previous.count

nonPositiveInterval(previous, polledAt) == polledAt - previous.polledAt <= 0

implausibleJump(previous, count, polledAt) ==
    count - previous.count > MaxViewsPerTick * (polledAt - previous.polledAt)

validateViewDelta(previous, count, polledAt) ==
    /\ ~isDrop(previous, count)
    /\ ~nonPositiveInterval(previous, polledAt)
    /\ ~implausibleJump(previous, count, polledAt)

\* ORDER BY polled_at ASC LIMIT 1: the first snapshot instead of the last.
earliestViewSnapshot(k) ==
    IF snapshots[k] = << >> THEN NoSnapshot
    ELSE CHOOSE s \in {snapshots[k][i] : i \in DOMAIN snapshots[k]} :
            \A i \in DOMAIN snapshots[k] : s.polledAt <= snapshots[k][i].polledAt

(***************************************************************************)
(* getLatestViewSnapshotForClip: the last one among those with the latest  *)
(* polled_at, or none.                                                     *)
(***************************************************************************)
latestViewSnapshot(k) ==
    IF snapshots[k] = << >> THEN NoSnapshot
    ELSE LET D == DOMAIN snapshots[k]
             n == CHOOSE i \in D : \A j \in D :
                     \/ snapshots[k][j].polledAt < snapshots[k][i].polledAt
                     \/ snapshots[k][j].polledAt = snapshots[k][i].polledAt /\ j <= i
         IN  snapshots[k][n]

-----------------------------------------------------------------------------
(***************************************************************************)
(* pollOnce.  The rows of clips are read once per cycle: what other        *)
(* processes write to them later in the cycle is not seen.                 *)
(***************************************************************************)
clipRow(k) == [id |-> k, isCapped |-> isCapped[k], effectiveRate |-> effectiveRate[k]]

ListActiveClips ==
    /\ pc = "idle"
    /\ \A k \in Clips : Len(snapshots[k]) < MaxSnapshots
    /\ listed' = {clipRow(k) : k \in {j \in Clips : active[CampaignOf[j]]}}
    /\ listed' # {}
    /\ pc' = "next"
    /\ UNCHANGED <<othersVars, snapshots, pendingRows, poll, approved, met, crashes>>

\* The cycle starts over with the rows it listed first.
EndCycleKeepingRows ==
    /\ pc = "next"
    /\ listed = {}
    /\ \A k \in Clips : Len(snapshots[k]) < MaxSnapshots
    /\ listed' = {[id |-> k, isCapped |-> FALSE, effectiveRate |-> Unpaced] : k \in Clips}
    /\ UNCHANGED <<othersVars, snapshots, pendingRows, pc, poll, approved, met, crashes>>

EndCycle ==
    /\ pc = "next"
    /\ listed = {}
    /\ pc' = "idle"
    /\ UNCHANGED <<othersVars, snapshots, pendingRows, listed, poll, approved, met, crashes>>

(***************************************************************************)
(* pollClip up to the request: the previous snapshot is read first.        *)
(***************************************************************************)
ReadPrevious ==
    \E row \in listed :
       /\ pc = "next"
       /\ \A other \in listed : row.id <= other.id
       /\ poll' = [clip |-> row.id, isCapped |-> row.isCapped,
                   effectiveRate |-> row.effectiveRate,
                   previous |-> latestViewSnapshot(row.id), count |-> 0, polledAt |-> 0]
       /\ listed' = listed \ {row}
       /\ pc' = "fetch"
       /\ UNCHANGED <<othersVars, snapshots, pendingRows, approved, met, crashes>>

NextClip == poll' = NoPoll /\ pc' = "next"

\* The clip is tried again at once, before the others.
FetchFailsRetrying ==
    /\ pc = "fetch"
    /\ Fault("x")
    /\ listed' = listed \cup {[id |-> poll.clip, isCapped |-> poll.isCapped,
                               effectiveRate |-> poll.effectiveRate]}
    /\ NextClip
    /\ UNCHANGED <<othersVars, snapshots, pendingRows, approved, met, crashes>>

FetchFails ==
    /\ pc = "fetch"
    /\ Fault("x")
    /\ NextClip
    /\ UNCHANGED <<othersVars, snapshots, pendingRows, listed, approved, met, crashes>>

\* X answers; the time is taken when the answer is there.
FetchAnswers ==
    /\ pc = "fetch"
    /\ \E count \in 0 .. impressions[poll.clip] :
          /\ count = impressions[poll.clip] \/ Fault("dip")
          /\ met' = IF count = impressions[poll.clip] THEN met ELSE met \cup {"dip"}
          /\ poll' = [poll EXCEPT !.count = count, !.polledAt = clock]
    /\ pc' = "snapshot"
    /\ UNCHANGED <<othersVars, snapshots, pendingRows, listed, approved, crashes>>

(***************************************************************************)
(* The snapshot is stored, stamped by the database; then the verdict, and  *)
(* whether the clip's row, as listed, was capped already.                  *)
(***************************************************************************)
InsertViewSnapshot ==
    /\ pc = "snapshot"
    /\ snapshots' = [snapshots EXCEPT ![poll.clip] =
                        Append(@, [count |-> poll.count, polledAt |-> clock])]
    /\ IF /\ poll.previous # NoSnapshot
          /\ validateViewDelta(poll.previous, poll.count, poll.polledAt)
          /\ ~poll.isCapped
         THEN /\ pc' = "queue"
              /\ approved' = approved \cup
                    {[clip |-> poll.clip, from |-> poll.previous.count, to |-> poll.count,
                      polledAt |-> poll.polledAt]}
              /\ UNCHANGED poll
         ELSE NextClip /\ UNCHANGED approved
    /\ UNCHANGED <<othersVars, pendingRows, listed, met, crashes>>

(***************************************************************************)
(* The settlement id is the hash of the clip and polledAt.                 *)
(***************************************************************************)
idTaken == \E r \in pendingRows : r.clip = poll.clip /\ r.polledAt = poll.polledAt

rateSource ==
    IF poll.effectiveRate # Unpaced THEN poll.effectiveRate ELSE CpmRate[CampaignOf[poll.clip]]

\* A delta whose amount is zero is not worth a row.
QueuePendingUnlessZero ==
    /\ pc = "queue"
    /\ ~idTaken
    /\ LET delta == poll.count - poll.previous.count
           row == [clip |-> poll.clip, polledAt |-> poll.polledAt,
                   from |-> poll.previous.count, to |-> poll.count, viewDelta |-> delta,
                   amount |-> computeSettlementAmount(delta, perViewRate(rateSource)),
                   stale |-> isCapped[poll.clip] \/ ~active[CampaignOf[poll.clip]]]
       IN  pendingRows' = IF row.amount = 0 THEN pendingRows ELSE pendingRows \cup {row}
    /\ NextClip
    /\ UNCHANGED <<othersVars, snapshots, listed, approved, met, crashes>>

QueuePending ==
    /\ pc = "queue"
    /\ ~idTaken
    /\ LET delta == poll.count - poll.previous.count
       IN  pendingRows' = pendingRows \cup
              {[clip |-> poll.clip, polledAt |-> poll.polledAt,
                from |-> poll.previous.count, to |-> poll.count, viewDelta |-> delta,
                amount |-> computeSettlementAmount(delta, perViewRate(rateSource)),
                stale |-> isCapped[poll.clip] \/ ~active[CampaignOf[poll.clip]]]}
    /\ NextClip
    /\ UNCHANGED <<othersVars, snapshots, listed, approved, met, crashes>>

\* UNIQUE(settlement_id) fails: nothing catches what insertPendingSettlement
\* throws, and the unhandled rejection ends the process.
QueueRejected ==
    /\ pc = "queue"
    /\ idTaken
    /\ pc' = "down"
    /\ listed' = {}
    /\ poll' = NoPoll
    /\ UNCHANGED <<othersVars, snapshots, pendingRows, approved, met, crashes>>

-----------------------------------------------------------------------------
Crash ==
    /\ Fault("crash")
    /\ pc # "down"
    /\ crashes < MaxCrashes
    /\ crashes' = crashes + 1
    /\ pc' = "down"
    /\ listed' = {}
    /\ poll' = NoPoll
    /\ UNCHANGED <<othersVars, snapshots, pendingRows, approved, met>>

Restart ==
    /\ pc = "down"
    /\ pc' = "idle"
    /\ UNCHANGED <<othersVars, snapshots, pendingRows, listed, poll, approved, met, crashes>>

(***************************************************************************)
(* The rest of the world: viewers, time, the Settlement Worker and the     *)
(* Pacing Agent.                                                           *)
(***************************************************************************)
ownVars == <<snapshots, pendingRows, pc, listed, poll, approved, crashes>>

ViewersWatch ==
    /\ \E k \in Clips, n \in 1 .. MaxViews :
          /\ impressions[k] + n <= MaxViews
          /\ impressions' = [impressions EXCEPT ![k] = @ + n]
    /\ UNCHANGED <<ownVars, met, clock, isCapped, effectiveRate, active>>

Tick ==
    /\ clock < MaxClock
    /\ clock' = clock + 1
    /\ UNCHANGED <<ownVars, met, impressions, isCapped, effectiveRate, active>>

ClockSetBack ==
    /\ LET fault == IF pc = "snapshot" THEN "stamp" ELSE "clock"
       IN  Fault(fault) /\ met' = met \cup {fault}
    /\ \E t \in 0 .. clock - 1 : clock' = t
    /\ UNCHANGED <<ownVars, impressions, isCapped, effectiveRate, active>>

SetClipCapped ==
    /\ \E k \in Clips : isCapped' = [isCapped EXCEPT ![k] = TRUE]
    /\ UNCHANGED <<ownVars, met, impressions, clock, effectiveRate, active>>

CloseCampaign ==
    /\ \E c \in Campaigns : active' = [active EXCEPT ![c] = FALSE]
    /\ UNCHANGED <<ownVars, met, impressions, clock, isCapped, effectiveRate>>

\* applyPacingDecision writes rates clamped to max_cpm, or null.
SetEffectiveRate ==
    /\ \E k \in Clips, rate \in EffectiveRates \cup {Unpaced} :
          /\ rate <= MaxCpm[CampaignOf[k]]
          /\ effectiveRate' = [effectiveRate EXCEPT ![k] = rate]
    /\ UNCHANGED <<ownVars, met, impressions, clock, isCapped, active>>

-----------------------------------------------------------------------------
Poller ==
    \/ ListActiveClips \/ EndCycle
    \/ ReadPrevious \/ FetchFails \/ FetchAnswers
    \/ InsertViewSnapshot \/ QueuePending \/ QueueRejected

Others == ViewersWatch \/ Tick \/ ClockSetBack \/ SetClipCapped \/ CloseCampaign
          \/ SetEffectiveRate

Next == Poller \/ Crash \/ Restart \/ Others

Spec == Init /\ [][Next]_vars

(***************************************************************************)
(* setInterval starts a cycle, an X request is answered or fails (fetch    *)
(* gives up after five minutes), a dead process is started again.          *)
(***************************************************************************)
FairSpec == Spec /\ WF_vars(Poller) /\ WF_vars(Restart)

-----------------------------------------------------------------------------
\* Type invariant; in particular the amounts and deltas that reach the queue are
\* never negative and every snapshot of a row in progress was real.
TypeOK ==
    /\ impressions \in [Clips -> Nat]
    /\ clock \in Nat
    /\ snapshots \in [Clips -> Seq(Snapshot)]
    /\ pendingRows \in SUBSET PendingRow
    /\ \A r \in pendingRows : r.viewDelta >= 0 /\ r.amount >= 0
    /\ isCapped \in [Clips -> BOOLEAN]
    /\ effectiveRate \in [Clips -> EffectiveRates \cup {Unpaced}]
    /\ active \in [Campaigns -> BOOLEAN]
    /\ pc \in {"down", "idle", "next", "fetch", "snapshot", "queue"}
    /\ listed \in SUBSET ClipRow
    /\ met \in SUBSET {"dip", "clock", "stamp"}
    /\ poll # NoPoll <=> pc \in {"fetch", "snapshot", "queue"}
    /\ crashes \in Nat

rowsOf(k) == {r \in pendingRows : r.clip = k}

\* "Impression counts are monotonically non-decreasing on X" (engine.ts:49): as long
\* as they are, no view is queued for payment twice.  The spans of counts of two rows of
\* a clip do not overlap, through crashes, restarts and a clock set back between polls.
ViewsQueuedOnce ==
    met \subseteq {"clock"} =>
       \A k \in Clips : \A r, s \in rowsOf(k) : r # s => r.to <= s.from \/ s.to <= r.from

\* A settlement id that is computed is never one that is taken, so that UNIQUE never
\* stops a poll (pendingSettlement.ts:20-27): the poll after an approved one carries a
\* later time, even if the process restarted within the same millisecond or the clock
\* was set back between polls.
IdsAreFresh == "stamp" \notin met /\ pc = "queue" => ~idTaken

\* All that was queued for a clip together stays under the ceiling on views per second
\* (engine.ts:37-44), whatever counts X answered: while the clock goes forward, the
\* intervals that the deltas were validated against do not overlap.
QueuedWithinPlausibleRate ==
    met \subseteq {"dip"} =>
       \A k \in Clips :
          SumFunctionOnSet([r \in rowsOf(k) |-> r.viewDelta], rowsOf(k))
             <= MaxViewsPerTick * clock

\* The worker's rate ceiling (worker.ts:183-194) never refuses what the poller queued,
\* whatever rates the Pacing Agent wrote in the meantime.
RowsPassTheCeiling ==
    \A r \in pendingRows : ~exceedsRateCeiling(r.amount, r.viewDelta, MaxCpm[CampaignOf[r.clip]])

\* is_capped and the campaign's status may be stale for the cycle under way, not longer:
\* a clip gets at most one row after it was capped or its campaign closed, whatever the
\* clock does.
AtMostOneStaleRow == \A k \in Clips : Cardinality({r \in rowsOf(k) : r.stale}) <= 1

\* "The poller inserts a 'pending' row whenever validateViewDelta APPROVES a delta"
\* (schema.sql:120-121), clips already listed as capped aside.
ApprovedDeltasAreQueued ==
    \A a \in approved :
       \/ \E r \in pendingRows : /\ r.clip = a.clip /\ r.polledAt = a.polledAt
                                 /\ r.from = a.from /\ r.to = a.to
       \/ pc = "queue" /\ poll.clip = a.clip /\ poll.polledAt = a.polledAt

\* A clip that was listed is polled in this cycle, whatever happens to the polls before
\* it, or the process dies.
EveryListedClipIsPolled ==
    \A k \in Clips : (\E row \in listed : row.id = k) ~> ~(\E row \in listed : row.id = k)
=============================================================================
