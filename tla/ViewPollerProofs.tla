--------------------------- MODULE ViewPollerProofs ---------------------------
(***************************************************************************)
(* The View Poller for every number of clips, campaigns, views and polls,  *)
(* and whatever the faults are: what it queues is queued once, within the  *)
(* rate ceiling of the worker and the plausible rate of the engine, and at *)
(* most once on a stale listing.                                           *)
(*                                                                         *)
(* The argument is about the newest snapshot of a clip: a poll compares    *)
(* itself with it (PollInv), and no row that was queued reaches beyond it, *)
(* in time (TimesInv) or in views (ViewsInv), as long as the clock or X    *)
(* does not misbehave in the one way that breaks this.                     *)
(***************************************************************************)
EXTENDS ViewPoller, SumProofs, SequenceTheorems, TLAPS

Polling == {"fetch", "snapshot", "queue"}

PollRecord == [clip : Clips, isCapped : BOOLEAN,
               effectiveRate : EffectiveRates \cup {Unpaced},
               previous : Snapshot \cup {NoSnapshot}, count : Nat, polledAt : Nat]

TypeInv ==
    /\ TypeOK
    /\ pc \in Polling => poll \in PollRecord
    /\ \A k \in Clips : effectiveRate[k] <= MaxCpm[CampaignOf[k]]
    /\ \A row \in listed : row.effectiveRate <= MaxCpm[CampaignOf[row.id]]
    /\ pc \in Polling => poll.effectiveRate <= MaxCpm[CampaignOf[poll.clip]]

\* The previous snapshot of a poll is the newest until its own is stored; a delta that
\* goes to the queue was validated against it.
PollInv ==
    /\ pc \in {"fetch", "snapshot"} => poll.previous = latestViewSnapshot(poll.clip)
    /\ pc = "queue" =>
          /\ ~poll.isCapped
          /\ poll.previous \in Snapshot
          /\ validateViewDelta(poll.previous, poll.count, poll.polledAt)

RowsInv ==
    \A r \in pendingRows :
       /\ r.viewDelta \in Nat /\ r.amount \in Nat
       /\ ~exceedsRateCeiling(r.amount, r.viewDelta, MaxCpm[CampaignOf[r.clip]])

\* Each clip is listed once, and once polled not until the next cycle; what is listed
\* of a clip with a stale row was capped when it was listed.
staleNow(k) == isCapped[k] \/ ~active[CampaignOf[k]]

ListInv ==
    /\ \A row, other \in listed : row.id = other.id => row = other
    /\ pc \in Polling => \A row \in listed : row.id # poll.clip
    /\ pc \in {"idle", "down"} => listed = {}

StaleInv ==
    \A r \in pendingRows : r.stale =>
       /\ staleNow(r.clip)
       /\ \A row \in listed : row.id = r.clip => row.isCapped
       /\ pc \in Polling /\ poll.clip = r.clip => poll.isCapped
       /\ \A s \in pendingRows : s.stale /\ s.clip = r.clip => s = r

\* Unless the clock was set back between the two statements that take a poll's time,
\* the rows of a clip are not newer than its newest snapshot, and older than the delta
\* on its way to the queue.
TimesInv ==
    "stamp" \notin met =>
       /\ pc = "snapshot" => poll.polledAt <= clock
       /\ pc = "queue" => poll.polledAt <= latestViewSnapshot(poll.clip).polledAt
       /\ \A r \in pendingRows :
             /\ r.polledAt <= latestViewSnapshot(r.clip).polledAt
             /\ pc = "queue" /\ r.clip = poll.clip => r.polledAt <= poll.previous.polledAt

\* As long as X never goes back, either, the same holds of the views they counted.
ViewsInv ==
    met \subseteq {"clock"} =>
       /\ \A k \in Clips : \A i \in DOMAIN snapshots[k] : snapshots[k][i].count <= impressions[k]
       /\ pc = "snapshot" =>
             /\ poll.count <= impressions[poll.clip]
             /\ \A i \in DOMAIN snapshots[poll.clip] :
                   snapshots[poll.clip][i].count <= poll.count
       /\ pc = "queue" => poll.count <= latestViewSnapshot(poll.clip).count
       /\ \A r \in pendingRows :
             /\ r.from <= r.to
             /\ r.to <= latestViewSnapshot(r.clip).count
             /\ pc = "queue" /\ r.clip = poll.clip => r.to <= poll.previous.count
       /\ \A r, s \in pendingRows : r.clip = s.clip /\ r # s => r.to <= s.from \/ s.to <= r.from

queued(k) == SumFunctionOnSet([r \in rowsOf(k) |-> r.viewDelta], rowsOf(k))

\* While the clock goes forward: what was queued of a clip is covered by the time up to
\* its newest snapshot, or to the one that a delta on its way is compared with.
RateInv ==
    /\ IsFiniteSet(pendingRows)
    /\ met \subseteq {"dip"} =>
         /\ \A k \in Clips : \A i \in DOMAIN snapshots[k] : snapshots[k][i].polledAt <= clock
         /\ \A k \in Clips :
              rowsOf(k) # {} => queued(k) <= MaxViewsPerTick * latestViewSnapshot(k).polledAt
         /\ pc = "queue" /\ rowsOf(poll.clip) # {} =>
              queued(poll.clip) <= MaxViewsPerTick * poll.previous.polledAt

\* Without a crash or that fault of the clock, an approved delta is queued or is next.
QueueInv ==
    {"crash", "stamp"} \cap Faults = {} =>
       /\ "stamp" \notin met
       /\ \A a \in approved :
            \/ \E r \in pendingRows : /\ r.clip = a.clip /\ r.polledAt = a.polledAt
                                      /\ r.from = a.from /\ r.to = a.to
            \/ /\ pc = "queue" /\ poll.clip = a.clip /\ poll.polledAt = a.polledAt
               /\ poll.previous.count = a.from /\ poll.count = a.to

IInv == /\ TypeInv /\ PollInv /\ RowsInv /\ ListInv /\ StaleInv
        /\ TimesInv /\ ViewsInv /\ RateInv /\ QueueInv

-----------------------------------------------------------------------------
(***************************************************************************)
(* The rate ceiling of the worker (worker.ts:171-194) never refuses a row  *)
(* the poller computed under a rate of at most max_cpm: the two floors     *)
(* agree.                                                                  *)
(***************************************************************************)
THEOREM CeilingAdmitsRatesUpToMax ==
    ASSUME NEW viewDelta \in Nat, NEW cpm \in Nat, NEW maxCpm \in Nat, cpm <= maxCpm
    PROVE  ~exceedsRateCeiling(computeSettlementAmount(viewDelta, perViewRate(cpm)),
                               viewDelta, maxCpm)
<1>1. CASE viewDelta = 0
  BY <1>1 DEF exceedsRateCeiling
<1>2. CASE viewDelta # 0
  <2>1. perViewRate(cpm) \in Nat /\ perViewRate(cpm) <= maxCpm \div 1000
    BY DivMonotone DEF perViewRate
  <2>2. computeSettlementAmount(viewDelta, perViewRate(cpm)) \div viewDelta
           = perViewRate(cpm)
    BY <1>2, <2>1, DivOfProduct DEF computeSettlementAmount
  <2>3. maxCpm \div 1000 \in Nat
    BY DivMonotone
  <2>4. QED
    BY <2>1, <2>2, <2>3 DEF exceedsRateCeiling
<1>3. QED
  BY <1>1, <1>2

-----------------------------------------------------------------------------
(* The newest snapshot.                                                    *)

\* Position i holds the newest of the snapshots q.
isNewest(q, i) ==
    \A j \in DOMAIN q : \/ q[j].polledAt < q[i].polledAt
                        \/ q[j].polledAt = q[i].polledAt /\ j <= i

\* Times have a latest among finitely many, and it has a last position.
LEMMA NewestExists ==
    ASSUME NEW q \in Seq(Snapshot), q # << >>
    PROVE  \E i \in DOMAIN q : isNewest(q, i)
<1> DEFINE D == DOMAIN q
           t == [i \in D |-> q[i].polledAt]
           B == {b \in Nat : \A i \in D : t[i] <= b}
<1>1. D = 1 .. Len(q) /\ Len(q) \in Nat /\ IsFiniteSet(D) /\ 1 \in D
  <2>1. D = 1 .. Len(q) /\ Len(q) \in Nat
    BY LenProperties
  <2>2. Len(q) # 0
    BY EmptySeq
  <2>3. QED
    BY <2>1, <2>2, FS_Interval
<1>2. \A i \in D : t[i] \in Nat /\ t[i] = q[i].polledAt
  <2>1. TAKE i \in D
  <2>2. q[i] \in Snapshot
    BY <1>1, ElementOfSeq
  <2>3. QED
    BY <2>2 DEF Snapshot
<1> HIDE DEF D, t
<1>3. SumFunctionOnSet(t, D) \in B
  BY <1>1, <1>2, SumNat, SumOfPart
<1>4. PICK b \in B : \A c \in B : b <= c
  <2>1. B \in SUBSET Nat /\ B # {}
    BY <1>3
  <2> HIDE DEF B
  <2>2. QED
    BY <2>1, Smallest
<1>5. PICK m \in D : t[m] = b
  <2>1. SUFFICES ASSUME \A i \in D : t[i] # b  PROVE FALSE
    OBVIOUS
  <2>2. b \in Nat /\ \A i \in D : t[i] \in Nat /\ t[i] < b
    BY <1>2, <2>1
  <2>3. b - 1 \in B
    BY <1>1, <2>2
  <2>4. QED
    BY <1>4, <2>2, <2>3
<1> DEFINE F == {n \in Nat : \E i \in D : t[i] = b /\ n = Len(q) - i}
<1>6. PICK n \in F : \A o \in F : n <= o
  <2>1. Len(q) - m \in F
    BY <1>1, <1>5
  <2>2. F \in SUBSET Nat /\ F # {}
    BY <2>1
  <2> HIDE DEF F
  <2>3. QED
    BY <2>2, Smallest
<1>7. PICK i \in D : t[i] = b /\ n = Len(q) - i
  OBVIOUS
<1>8. ASSUME NEW j \in D
      PROVE  t[j] < t[i] \/ (t[j] = t[i] /\ j <= i)
  <2>1. t[j] <= b /\ t[j] \in Nat /\ b \in Nat /\ t[i] = b
    BY <1>2, <1>7
  <2>2. CASE t[j] = b
    <3>1. Len(q) - j \in F
      BY <1>1, <2>2
    <3>2. n <= Len(q) - j
      BY <1>6, <3>1
    <3>3. i \in Nat /\ j \in Nat /\ Len(q) \in Nat
      BY <1>1
    <3> HIDE DEF F
    <3>4. j <= i
      BY <1>7, <3>2, <3>3
    <3>5. QED
      BY <2>1, <2>2, <3>4
  <2>3. CASE t[j] # b
    BY <2>1, <2>3
  <2>4. QED
    BY <2>2, <2>3
<1>9. QED
  BY <1>2, <1>8 DEF isNewest, D

LEMMA NewestIsUnique ==
    ASSUME NEW q \in Seq(Snapshot), NEW i \in DOMAIN q, NEW j \in DOMAIN q,
           isNewest(q, i), isNewest(q, j)
    PROVE  i = j
<1>1. i \in 1 .. Len(q) /\ j \in 1 .. Len(q) /\ Len(q) \in Nat
  BY LenProperties
<1>2. q[i] \in Snapshot /\ q[j] \in Snapshot
  BY <1>1, ElementOfSeq
<1>3. q[i].polledAt \in Nat /\ q[j].polledAt \in Nat
  BY <1>2 DEF Snapshot
<1>4. QED
  BY <1>1, <1>3 DEF isNewest

\* getLatestViewSnapshotForClip, of the snapshots of one clip.
newest(q) == IF q = << >> THEN NoSnapshot
             ELSE q[CHOOSE i \in DOMAIN q : isNewest(q, i)]

LEMMA LatestIsNewest ==
    ASSUME NEW k  PROVE latestViewSnapshot(k) = newest(snapshots[k])
BY DEF latestViewSnapshot, newest, isNewest

LEMMA NewestOf ==
    ASSUME NEW q \in Seq(Snapshot), NEW i \in DOMAIN q, isNewest(q, i)
    PROVE  newest(q) = q[i]
<1>1. i \in DOMAIN q
  OBVIOUS
<1>2. q # << >>
  BY <1>1
<1> DEFINE n == CHOOSE j \in DOMAIN q : isNewest(q, j)
<1>3. n \in DOMAIN q /\ isNewest(q, n)
  BY <1>1
<1> HIDE DEF n
<1>4. n = i
  BY <1>3, NewestIsUnique
<1>5. QED
  BY <1>2, <1>4 DEF newest, n

LEMMA NewestType ==
    ASSUME NEW q \in Seq(Snapshot)
    PROVE  /\ newest(q) \in Snapshot \cup {NoSnapshot}
           /\ newest(q).count \in Int /\ newest(q).polledAt \in Int
           /\ \A i \in DOMAIN q : q[i] \in Snapshot /\ q[i].polledAt <= newest(q).polledAt
           /\ q # << >> => /\ newest(q) \in Snapshot
                           /\ \E i \in DOMAIN q : newest(q) = q[i]
<1>1. CASE q = << >>
  BY <1>1 DEF newest, NoSnapshot
<1>2. CASE q # << >>
  <2>1. PICK i \in DOMAIN q : isNewest(q, i)
    BY <1>2, NewestExists
  <2>2. \A j \in DOMAIN q : q[j] \in Snapshot
    BY ElementOfSeq, LenProperties
  <2>3. newest(q) = q[i]
    BY <2>1, NewestOf
  <2>4. \A j \in DOMAIN q : q[j].polledAt <= q[i].polledAt
    BY <2>1, <2>2 DEF isNewest, Snapshot
  <2>5. QED
    BY <1>2, <2>2, <2>3, <2>4 DEF Snapshot
<1>3. QED
  BY <1>1, <1>2

\* A snapshot is stored: it is the newest, unless it is stamped before the one that was.
LEMMA NewestOfAppend ==
    ASSUME NEW q \in Seq(Snapshot), NEW s \in Snapshot
    PROVE  /\ Append(q, s) \in Seq(Snapshot) /\ Append(q, s) # << >>
           /\ newest(q).polledAt <= s.polledAt => newest(Append(q, s)) = s
           /\ s.polledAt < newest(q).polledAt => newest(Append(q, s)) = newest(q)
           /\ newest(q).polledAt <= newest(Append(q, s)).polledAt
<1> DEFINE p == Append(q, s)
           n == Len(q) + 1
<1>1. /\ p \in Seq(Snapshot) /\ p # << >>
      /\ Len(q) \in Nat /\ DOMAIN q = 1 .. Len(q)
      /\ DOMAIN p = 1 .. n /\ p[n] = s
      /\ \A i \in DOMAIN q : p[i] = q[i]
  BY AppendProperties, LenProperties
<1> HIDE DEF p
<1>2. /\ \A i \in DOMAIN q : q[i].polledAt \in Nat /\ q[i].polledAt <= newest(q).polledAt
      /\ newest(q).polledAt \in Int /\ s.polledAt \in Nat
  BY NewestType DEF Snapshot
<1>3. CASE newest(q).polledAt <= s.polledAt
  <2>1. isNewest(p, n)
    BY <1>1, <1>2, <1>3 DEF isNewest
  <2>2. newest(p) = s
    BY <1>1, <2>1, NewestOf
  <2>3. QED
    BY <1>1, <1>2, <1>3, <2>2 DEF p
<1>4. CASE s.polledAt < newest(q).polledAt
  <2>1. q # << >>
    BY <1>2, <1>4 DEF newest, NoSnapshot
  <2>2. PICK i \in DOMAIN q : isNewest(q, i)
    BY <2>1, NewestExists
  <2>3. newest(q) = q[i]
    BY <2>2, NewestOf
  <2>4. isNewest(p, i)
    BY <1>1, <1>2, <1>4, <2>2, <2>3 DEF isNewest
  <2>5. newest(p) = newest(q)
    BY <1>1, <2>3, <2>4, NewestOf
  <2>6. QED
    BY <1>1, <1>2, <1>4, <2>5 DEF p
<1>5. QED
  BY <1>2, <1>3, <1>4

-----------------------------------------------------------------------------
(* Types, rates within max_cpm, and what a poll knows of its clip.         *)

LEMMA PollsAreNotNoPoll ==
    ASSUME NEW r \in PollRecord  PROVE r # NoPoll
<1>1. DOMAIN r # DOMAIN NoPoll
  BY DEF PollRecord, NoPoll
<1>2. QED
  BY <1>1

LEMMA PollFields ==
    ASSUME TypeInv, pc \in Polling
    PROVE  /\ poll \in PollRecord
           /\ poll.clip \in Clips /\ CampaignOf[poll.clip] \in Campaigns
           /\ poll.isCapped \in BOOLEAN
           /\ poll.effectiveRate \in EffectiveRates \cup {Unpaced}
           /\ poll.effectiveRate \in Int
           /\ poll.previous \in Snapshot \cup {NoSnapshot}
           /\ poll.previous.count \in Int /\ poll.previous.polledAt \in Int
           /\ poll.count \in Nat /\ poll.polledAt \in Nat
           /\ snapshots[poll.clip] \in Seq(Snapshot)
<1>1. poll \in PollRecord
  BY DEF TypeInv
<1>2. /\ poll.clip \in Clips /\ poll.isCapped \in BOOLEAN
      /\ poll.effectiveRate \in EffectiveRates \cup {Unpaced}
      /\ poll.previous \in Snapshot \cup {NoSnapshot}
      /\ poll.count \in Nat /\ poll.polledAt \in Nat
  BY <1>1 DEF PollRecord
<1>3. poll.effectiveRate \in Int /\ CampaignOf[poll.clip] \in Campaigns
  <2>1. EffectiveRates \subseteq Nat /\ CampaignOf \in [Clips -> Campaigns]
    BY PollerAssumption
  <2>2. poll.effectiveRate \in Nat \/ poll.effectiveRate = -1
    BY <1>2, <2>1 DEF Unpaced
  <2>3. QED
    BY <1>2, <2>1, <2>2
<1>4. poll.previous.count \in Int /\ poll.previous.polledAt \in Int
  BY <1>2 DEF Snapshot, NoSnapshot
<1>5. snapshots[poll.clip] \in Seq(Snapshot)
  BY <1>2 DEF TypeInv, TypeOK
<1>6. QED
  BY <1>1, <1>2, <1>3, <1>4, <1>5

LEMMA InitTypes ==
    ASSUME Init  PROVE TypeInv /\ PollInv
<1>1. [k \in Clips |-> << >>] \in [Clips -> Seq(Snapshot)]
  BY EmptySeq
<1>2. \A k \in Clips : Unpaced <= MaxCpm[CampaignOf[k]]
  BY PollerAssumption DEF Unpaced
<1>3. QED
  BY <1>1, <1>2 DEF Init, TypeInv, TypeOK, PollInv, Polling

\* Steps that touch neither the queue nor the snapshots keep most of TypeInv.
LEMMA PollTypes ==
    ASSUME TypeInv,
           pc' \in {"down", "idle", "next", "fetch", "snapshot", "queue"},
           listed' \in SUBSET ClipRow,
           \A row \in listed' : row.effectiveRate <= MaxCpm[CampaignOf[row.id]],
           IF pc' \in Polling
             THEN poll' \in PollRecord /\ poll'.effectiveRate <= MaxCpm[CampaignOf[poll'.clip]]
             ELSE poll' = NoPoll,
           UNCHANGED <<impressions, clock, isCapped, effectiveRate, active>>,
           snapshots' \in [Clips -> Seq(Snapshot)],
           pendingRows' \in SUBSET PendingRow,
           \A r \in pendingRows' : r.viewDelta >= 0 /\ r.amount >= 0,
           met' \in SUBSET {"dip", "clock", "stamp"}, crashes' \in Nat
    PROVE  TypeInv'
<1>1. poll' # NoPoll <=> pc' \in Polling
  BY PollsAreNotNoPoll
<1>2. QED
  BY <1>1 DEF TypeInv, TypeOK, Polling

\* What the poller queues is an amount and a delta that are not negative.
LEMMA QueuedRow ==
    ASSUME TypeInv, PollInv, QueuePending
    PROVE  \E row \in PendingRow :
              /\ pendingRows' = pendingRows \cup {row}
              /\ row.clip = poll.clip /\ row.polledAt = poll.polledAt
              /\ row.from = poll.previous.count /\ row.to = poll.count
              /\ row.viewDelta = poll.count - poll.previous.count
              /\ row.viewDelta \in Nat /\ row.amount \in Nat
              /\ ~exceedsRateCeiling(row.amount, row.viewDelta, MaxCpm[CampaignOf[row.clip]])
              /\ row.stale = (isCapped[poll.clip] \/ ~active[CampaignOf[poll.clip]])
              /\ row.stale \in BOOLEAN
<1>1. pc = "queue" /\ pc \in Polling
  BY DEF QueuePending, Polling
<1> DEFINE delta == poll.count - poll.previous.count
           row == [clip |-> poll.clip, polledAt |-> poll.polledAt,
                   from |-> poll.previous.count, to |-> poll.count, viewDelta |-> delta,
                   amount |-> computeSettlementAmount(delta, perViewRate(rateSource)),
                   stale |-> isCapped[poll.clip] \/ ~active[CampaignOf[poll.clip]]]
<1>2. pendingRows' = pendingRows \cup {row}
  BY DEF QueuePending
<1>3. poll.previous.count \in Nat /\ poll.previous.count <= poll.count /\ poll.count \in Nat
  BY <1>1, PollFields DEF PollInv, Snapshot, validateViewDelta, isDrop
<1>4. delta \in Nat
  BY <1>3
<1>5. rateSource \in Nat /\ rateSource <= MaxCpm[CampaignOf[poll.clip]]
  BY <1>1, PollFields, PollerAssumption DEF TypeInv, rateSource, Unpaced
<1>6. MaxCpm[CampaignOf[poll.clip]] \in Nat
  BY <1>1, PollFields, PollerAssumption
<1>7. perViewRate(rateSource) \in Nat
  BY <1>5, DivMonotone DEF perViewRate
<1> DEFINE amount == computeSettlementAmount(delta, perViewRate(rateSource))
<1>8. amount \in Nat
  BY <1>4, <1>7 DEF computeSettlementAmount
<1>9. ~exceedsRateCeiling(amount, delta, MaxCpm[CampaignOf[poll.clip]])
  <2> HIDE DEF delta
  <2>1. QED
    BY <1>4, <1>5, <1>6, CeilingAdmitsRatesUpToMax
<1> DEFINE stale == isCapped[poll.clip] \/ ~active[CampaignOf[poll.clip]]
<1>10. stale \in BOOLEAN
  OBVIOUS
<1>11. /\ row.clip = poll.clip /\ row.polledAt = poll.polledAt
       /\ row.from = poll.previous.count /\ row.to = poll.count
       /\ row.viewDelta = delta /\ row.amount = amount /\ row.stale = stale
  OBVIOUS
<1>12. row \in PendingRow
  <2> HIDE DEF delta, amount, stale
  <2>1. row = [clip |-> poll.clip, polledAt |-> poll.polledAt,
               from |-> poll.previous.count, to |-> poll.count, viewDelta |-> delta,
               amount |-> amount, stale |-> stale]
    BY DEF amount, stale
  <2>2. QED
    BY <1>1, <1>3, <1>4, <1>8, <1>10, <2>1, PollFields DEF PendingRow
<1> HIDE DEF row
<1>13. QED
  BY <1>2, <1>4, <1>8, <1>9, <1>10, <1>11, <1>12

LEMMA TypeStep ==
    ASSUME TypeInv, PollInv, [Next]_vars
    PROVE  TypeInv'
<1>0. /\ impressions \in [Clips -> Nat] /\ clock \in Nat
      /\ snapshots \in [Clips -> Seq(Snapshot)]
      /\ pendingRows \in SUBSET PendingRow
      /\ \A r \in pendingRows : r.viewDelta >= 0 /\ r.amount >= 0
      /\ isCapped \in [Clips -> BOOLEAN]
      /\ effectiveRate \in [Clips -> EffectiveRates \cup {Unpaced}]
      /\ active \in [Campaigns -> BOOLEAN]
      /\ listed \in SUBSET ClipRow
      /\ met \in SUBSET {"dip", "clock", "stamp"} /\ crashes \in Nat
      /\ \A k \in Clips : effectiveRate[k] <= MaxCpm[CampaignOf[k]]
      /\ \A row \in listed : row.effectiveRate <= MaxCpm[CampaignOf[row.id]]
      /\ pc \notin Polling => poll = NoPoll
  BY DEF TypeInv, TypeOK, Polling
<1>1. CASE ListActiveClips
  <2>1. listed' = {clipRow(k) : k \in {j \in Clips : active[CampaignOf[j]]}}
    BY <1>1 DEF ListActiveClips
  <2>2. \A k \in Clips : /\ clipRow(k) \in ClipRow
                         /\ clipRow(k).effectiveRate <= MaxCpm[CampaignOf[clipRow(k).id]]
    BY <1>0 DEF clipRow, ClipRow
  <2>3. /\ listed' \in SUBSET ClipRow
        /\ \A row \in listed' : row.effectiveRate <= MaxCpm[CampaignOf[row.id]]
    BY <2>1, <2>2
  <2>4. QED
    BY <1>0, <1>1, <2>3, PollTypes DEF ListActiveClips, othersVars, Polling
<1>2. CASE EndCycle \/ Restart
  BY <1>0, <1>2, PollTypes DEF EndCycle, Restart, othersVars, Polling
<1>3. CASE ReadPrevious
  <2>1. PICK row \in listed :
           /\ pc = "next"
           /\ poll' = [clip |-> row.id, isCapped |-> row.isCapped,
                   effectiveRate |-> row.effectiveRate,
                   previous |-> latestViewSnapshot(row.id), count |-> 0, polledAt |-> 0]
           /\ listed' = listed \ {row}
           /\ pc' = "fetch"
           /\ UNCHANGED <<othersVars, snapshots, pendingRows, approved, met, crashes>>
    BY <1>3 DEF ReadPrevious
  <2>2. /\ row.id \in Clips /\ row.isCapped \in BOOLEAN
        /\ row.effectiveRate \in EffectiveRates \cup {Unpaced}
        /\ row.effectiveRate <= MaxCpm[CampaignOf[row.id]]
    BY <1>0 DEF ClipRow
  <2>3. latestViewSnapshot(row.id) \in Snapshot \cup {NoSnapshot}
    BY <1>0, <2>2, LatestIsNewest, NewestType
  <2>4. /\ poll' \in PollRecord
        /\ poll'.effectiveRate <= MaxCpm[CampaignOf[poll'.clip]]
    BY <2>1, <2>2, <2>3 DEF PollRecord
  <2>5. /\ listed' \in SUBSET ClipRow
        /\ \A other \in listed' : other.effectiveRate <= MaxCpm[CampaignOf[other.id]]
    BY <1>0, <2>1
  <2>6. QED
    BY <1>0, <2>1, <2>4, <2>5, PollTypes DEF othersVars, Polling
<1>4. CASE FetchFails
  BY <1>0, <1>4, PollTypes DEF FetchFails, NextClip, othersVars, Polling
<1>5. CASE FetchAnswers
  <2>1. pc = "fetch" /\ pc \in Polling
    BY <1>5 DEF FetchAnswers, Polling
  <2>2. PICK count \in 0 .. impressions[poll.clip] :
           /\ met' = IF count = impressions[poll.clip] THEN met ELSE met \cup {"dip"}
           /\ poll' = [poll EXCEPT !.count = count, !.polledAt = clock]
    BY <1>5 DEF FetchAnswers
  <2>3. count \in Nat
    BY <1>0, <2>1, PollFields
  <2>4. /\ poll' \in PollRecord /\ poll'.clip = poll.clip
        /\ poll'.effectiveRate = poll.effectiveRate
    BY <1>0, <2>1, <2>2, <2>3, PollFields DEF PollRecord
  <2>5. poll'.effectiveRate <= MaxCpm[CampaignOf[poll'.clip]]
    BY <2>1, <2>4 DEF TypeInv
  <2>6. met' \in SUBSET {"dip", "clock", "stamp"}
    BY <1>0, <2>2
  <2>7. pc' = "snapshot" /\ UNCHANGED <<othersVars, snapshots, pendingRows, listed, crashes>>
    BY <1>5 DEF FetchAnswers
  <2>8. QED
    BY <1>0, <2>4, <2>5, <2>6, <2>7, PollTypes DEF othersVars, Polling
<1>6. CASE InsertViewSnapshot
  <2>1. pc = "snapshot" /\ pc \in Polling
    BY <1>6 DEF InsertViewSnapshot, Polling
  <2>2. [count |-> poll.count, polledAt |-> clock] \in Snapshot
    BY <1>0, <2>1, PollFields DEF Snapshot
  <2>3. snapshots' \in [Clips -> Seq(Snapshot)]
    BY <1>0, <1>6, <2>1, <2>2, PollFields, NewestOfAppend DEF InsertViewSnapshot
  <2>4. /\ UNCHANGED <<othersVars, pendingRows, listed, met, crashes>>
        /\ \/ pc' = "queue" /\ UNCHANGED poll
           \/ pc' = "next" /\ poll' = NoPoll
    BY <1>6 DEF InsertViewSnapshot, NextClip
  <2>5. poll \in PollRecord /\ poll.effectiveRate <= MaxCpm[CampaignOf[poll.clip]]
    BY <2>1 DEF TypeInv
  <2>6. QED
    BY <1>0, <2>3, <2>4, <2>5, PollTypes DEF othersVars, Polling
<1>7. CASE QueuePending
  <2>1. PICK row \in PendingRow : /\ pendingRows' = pendingRows \cup {row}
                                  /\ row.viewDelta \in Nat /\ row.amount \in Nat
    BY <1>7, QueuedRow
  <2>2. /\ pendingRows' \in SUBSET PendingRow
        /\ \A r \in pendingRows' : r.viewDelta >= 0 /\ r.amount >= 0
    BY <1>0, <2>1
  <2>3. QED
    BY <1>0, <1>7, <2>2, PollTypes DEF QueuePending, NextClip, othersVars, Polling
<1>8. CASE QueueRejected \/ Crash
  BY <1>0, <1>8, PollTypes DEF QueueRejected, Crash, othersVars, Polling
<1>9. CASE Others
  <2>1. UNCHANGED <<snapshots, pendingRows, pc, listed, poll, crashes>>
    BY <1>9 DEF Others, ViewersWatch, Tick, ClockSetBack, SetClipCapped, CloseCampaign,
                SetEffectiveRate, ownVars
  <2>2. impressions' \in [Clips -> Nat]
    BY <1>0, <1>9 DEF Others, ViewersWatch, Tick, ClockSetBack, SetClipCapped, CloseCampaign,
                SetEffectiveRate
  <2>3. clock' \in Nat
    BY <1>0, <1>9 DEF Others, ViewersWatch, Tick, ClockSetBack, SetClipCapped, CloseCampaign,
                SetEffectiveRate
  <2>4. isCapped' \in [Clips -> BOOLEAN] /\ active' \in [Campaigns -> BOOLEAN]
    BY <1>0, <1>9 DEF Others, ViewersWatch, Tick, ClockSetBack, SetClipCapped, CloseCampaign,
                SetEffectiveRate
  <2>5. /\ effectiveRate' \in [Clips -> EffectiveRates \cup {Unpaced}]
        /\ \A k \in Clips : effectiveRate'[k] <= MaxCpm[CampaignOf[k]]
    BY <1>0, <1>9 DEF Others, ViewersWatch, Tick, ClockSetBack, SetClipCapped, CloseCampaign,
                SetEffectiveRate
  <2>6. met' \in SUBSET {"dip", "clock", "stamp"}
    BY <1>0, <1>9 DEF Others, ViewersWatch, Tick, ClockSetBack, SetClipCapped, CloseCampaign,
                SetEffectiveRate
  <2>7. QED
    BY <2>1, <2>2, <2>3, <2>4, <2>5, <2>6 DEF TypeInv, TypeOK
<1>10. CASE UNCHANGED vars
  BY <1>10 DEF vars, TypeInv, TypeOK
<1>11. QED
  BY <1>1, <1>2, <1>3, <1>4, <1>5, <1>6, <1>7, <1>8, <1>9, <1>10 DEF Next, Poller

-----------------------------------------------------------------------------
(* What the poller's steps change, for the invariants below.               *)

\* A poll's snapshot is stored; the clip's newest is this one, unless the clock is
\* behind the one that was newest.
StoresSnapshot(k, s) ==
    /\ k \in Clips /\ s \in Snapshot
    /\ snapshots' = [snapshots EXCEPT ![k] = Append(@, s)]

LEMMA SnapshotStored ==
    ASSUME TypeInv, NEW k, NEW s, StoresSnapshot(k, s)
    PROVE  /\ \A j \in Clips : j # k => snapshots'[j] = snapshots[j]
           /\ snapshots'[k] = Append(snapshots[k], s)
           /\ \A j \in Clips :
                /\ latestViewSnapshot(j).polledAt <= latestViewSnapshot(j)'.polledAt
                /\ latestViewSnapshot(j).polledAt \in Int
                /\ latestViewSnapshot(j)'.polledAt \in Int
           /\ \A j \in Clips : j # k => latestViewSnapshot(j)' = latestViewSnapshot(j)
           /\ latestViewSnapshot(k).polledAt <= s.polledAt => latestViewSnapshot(k)' = s
           /\ s.polledAt < latestViewSnapshot(k).polledAt =>
                 latestViewSnapshot(k)' = latestViewSnapshot(k)
<1>1. snapshots \in [Clips -> Seq(Snapshot)]
  BY DEF TypeInv, TypeOK
<1>2. /\ \A j \in Clips : j # k => snapshots'[j] = snapshots[j]
      /\ snapshots'[k] = Append(snapshots[k], s)
  BY <1>1 DEF StoresSnapshot
<1>3. k \in Clips /\ s \in Snapshot /\ snapshots[k] \in Seq(Snapshot)
  BY <1>1 DEF StoresSnapshot
<1>4. /\ newest(snapshots[k]).polledAt <= s.polledAt => newest(snapshots'[k]) = s
      /\ s.polledAt < newest(snapshots[k]).polledAt
            => newest(snapshots'[k]) = newest(snapshots[k])
      /\ newest(snapshots[k]).polledAt <= newest(snapshots'[k]).polledAt
  BY <1>2, <1>3, NewestOfAppend
<1>5. \A j : latestViewSnapshot(j) = newest(snapshots[j])
  BY LatestIsNewest
<1>6. \A j : latestViewSnapshot(j)' = newest(snapshots'[j])
  BY DEF latestViewSnapshot, newest, isNewest
<1>7. \A j \in Clips : /\ newest(snapshots[j]).polledAt \in Int
                        /\ newest(snapshots'[j]).polledAt \in Int
  <2>1. snapshots'[k] \in Seq(Snapshot)
    BY <1>2, <1>3, NewestOfAppend
  <2>3. \A j \in Clips : snapshots'[j] \in Seq(Snapshot)
    BY <1>1, <1>2, <2>1
  <2>4. QED
    BY <1>1, <2>3, NewestType
<1>8. \A j \in Clips :
         newest(snapshots[j]).polledAt <= newest(snapshots'[j]).polledAt
  <2>1. TAKE j \in Clips
  <2>2. CASE j = k
    BY <1>4, <2>2
  <2>3. CASE j # k
    <3>1. newest(snapshots'[j]) = newest(snapshots[j])
      BY <1>2, <2>3
    <3>2. newest(snapshots[j]).polledAt \in Int
      BY <1>7
    <3>3. QED
      BY <3>1, <3>2
  <2>4. QED
    BY <2>2, <2>3
<1>9. QED
  BY <1>2, <1>3, <1>4, <1>5, <1>6, <1>7, <1>8

\* What InsertViewSnapshot does.
LEMMA InsertFacts ==
    ASSUME TypeInv, InsertViewSnapshot
    PROVE  /\ pc = "snapshot" /\ pc \in Polling
           /\ StoresSnapshot(poll.clip, [count |-> poll.count, polledAt |-> clock])
           /\ UNCHANGED <<impressions, clock, isCapped, effectiveRate, active>>
           /\ UNCHANGED <<pendingRows, listed, met>>
           /\ \/ /\ pc' = "queue" /\ UNCHANGED poll
                 /\ ~poll.isCapped
                 /\ poll.previous # NoSnapshot
                 /\ validateViewDelta(poll.previous, poll.count, poll.polledAt)
                 /\ approved' = approved \cup
                       {[clip |-> poll.clip, from |-> poll.previous.count,
                         to |-> poll.count, polledAt |-> poll.polledAt]}
              \/ pc' = "next" /\ poll' = NoPoll /\ UNCHANGED approved
<1>1. pc = "snapshot" /\ pc \in Polling
  BY DEF InsertViewSnapshot, Polling
<1>2. [count |-> poll.count, polledAt |-> clock] \in Snapshot
  BY <1>1, PollFields DEF TypeInv, TypeOK, Snapshot
<1>3. poll.clip \in Clips
  BY <1>1, PollFields
<1>4. QED
  BY <1>1, <1>2, <1>3 DEF InsertViewSnapshot, StoresSnapshot, NextClip, othersVars

\* Every other step leaves the snapshots alone.
SnapshotsStay == UNCHANGED snapshots

LEMMA LatestStays ==
    ASSUME SnapshotsStay, NEW k
    PROVE  latestViewSnapshot(k)' = latestViewSnapshot(k)
BY DEF SnapshotsStay, latestViewSnapshot

LEMMA PollStep ==
    ASSUME TypeInv, PollInv, [Next]_vars
    PROVE  PollInv'
<1>1. CASE ListActiveClips \/ EndCycle \/ FetchFails \/ QueuePending \/ QueueRejected
              \/ Crash \/ Restart
  BY <1>1 DEF ListActiveClips, EndCycle, FetchFails, NextClip, QueuePending,
              QueueRejected, Crash, Restart, PollInv
<1>2. CASE ReadPrevious
  <2>1. PICK row \in listed :
           /\ poll'.previous = latestViewSnapshot(row.id) /\ poll'.clip = row.id
           /\ pc' = "fetch" /\ SnapshotsStay
    BY <1>2 DEF ReadPrevious, SnapshotsStay
  <2>2. poll'.previous = latestViewSnapshot(poll.clip)'
    BY <2>1, LatestStays
  <2>3. QED
    BY <2>1, <2>2 DEF PollInv
<1>3. CASE FetchAnswers
  <2>1. pc = "fetch" /\ pc \in Polling /\ pc' = "snapshot" /\ SnapshotsStay
    BY <1>3 DEF FetchAnswers, Polling, SnapshotsStay
  <2>2. PICK count \in 0 .. impressions[poll.clip] :
           poll' = [poll EXCEPT !.count = count, !.polledAt = clock]
    BY <1>3 DEF FetchAnswers
  <2>3. poll'.previous = poll.previous /\ poll'.clip = poll.clip
    BY <2>1, <2>2, PollFields DEF PollRecord
  <2>4. latestViewSnapshot(poll.clip)' = latestViewSnapshot(poll.clip)
    BY <2>1, <2>3, LatestStays
  <2>5. QED
    BY <2>1, <2>3, <2>4 DEF PollInv
<1>4. CASE InsertViewSnapshot
  BY <1>4, InsertFacts, PollFields DEF PollInv
<1>5. CASE Others \/ UNCHANGED vars
  <2>1. UNCHANGED <<pc, poll>> /\ SnapshotsStay
    BY <1>5 DEF Others, ViewersWatch, Tick, ClockSetBack, SetClipCapped, CloseCampaign,
                SetEffectiveRate, ownVars, vars, SnapshotsStay
  <2>2. latestViewSnapshot(poll.clip)' = latestViewSnapshot(poll.clip)
    BY <2>1 DEF SnapshotsStay, latestViewSnapshot
  <2>3. validateViewDelta(poll.previous, poll.count, poll.polledAt)'
           = validateViewDelta(poll.previous, poll.count, poll.polledAt)
    BY <2>1
  <2>4. QED
    BY <2>1, <2>2, <2>3 DEF PollInv
<1>6. QED
  BY <1>1, <1>2, <1>3, <1>4, <1>5 DEF Next, Poller

\* At any moment the types are right and every rate in use is within max_cpm; a poll
\* compares itself with the newest snapshot of its clip (viewPoller.ts:36-70).
LEMMA PollsAreSound == Spec => [](TypeInv /\ PollInv)
<1>1. Init => TypeInv /\ PollInv
  BY InitTypes
<1>2. TypeInv /\ PollInv /\ [Next]_vars => (TypeInv /\ PollInv)'
  BY TypeStep, PollStep
<1>3. QED
  BY <1>1, <1>2, PTL DEF Spec

-----------------------------------------------------------------------------
(* The rows and the rate ceiling.                                          *)

\* Only QueuePending adds to the rows.
LEMMA RowsStay ==
    ASSUME [Next]_vars, ~QueuePending
    PROVE  UNCHANGED pendingRows
BY DEF Next, Poller, ListActiveClips, EndCycle, ReadPrevious, FetchFails, FetchAnswers,
       InsertViewSnapshot, QueueRejected, Crash, Restart, Others, ViewersWatch, Tick,
       ClockSetBack, SetClipCapped, CloseCampaign, SetEffectiveRate, ownVars, vars

LEMMA RowsStep ==
    ASSUME TypeInv, PollInv, RowsInv, [Next]_vars
    PROVE  RowsInv'
<1>1. CASE QueuePending
  <2>1. PICK row \in PendingRow :
           /\ pendingRows' = pendingRows \cup {row}
           /\ row.viewDelta \in Nat /\ row.amount \in Nat
           /\ ~exceedsRateCeiling(row.amount, row.viewDelta, MaxCpm[CampaignOf[row.clip]])
    BY <1>1, QueuedRow
  <2>2. QED
    BY <2>1 DEF RowsInv
<1>2. CASE ~QueuePending
  BY <1>2, RowsStay DEF RowsInv
<1>3. QED
  BY <1>1, <1>2

\* The worker's rate ceiling (worker.ts:183-194) never refuses what the poller queued,
\* whatever rates the Pacing Agent wrote between the listing and the row.
THEOREM QueuedRowsPassTheCeiling == Spec => []RowsPassTheCeiling
<1>1. Init => RowsInv
  BY DEF Init, RowsInv
<1>2. TypeInv /\ PollInv /\ RowsInv /\ [Next]_vars => RowsInv'
  BY RowsStep
<1>3. RowsInv => RowsPassTheCeiling
  BY DEF RowsInv, RowsPassTheCeiling
<1>4. QED
  BY <1>1, <1>2, <1>3, PollsAreSound, PTL DEF Spec

-----------------------------------------------------------------------------
(* One stale row at most.                                                  *)

\* Steps that start no poll and no cycle forget clips at most.
LEMMA ListStep ==
    ASSUME TypeInv, ListInv, [Next]_vars
    PROVE  ListInv'
<1>1. CASE ListActiveClips
  <2>1. listed' = {clipRow(k) : k \in {j \in Clips : active[CampaignOf[j]]}}
    BY <1>1 DEF ListActiveClips
  <2>2. \A k : clipRow(k).id = k
    BY DEF clipRow
  <2>3. \A row, other \in listed' : row.id = other.id => row = other
    BY <2>1, <2>2
  <2>4. pc' = "next"
    BY <1>1 DEF ListActiveClips
  <2>5. QED
    BY <2>3, <2>4 DEF ListInv, Polling
<1>2. CASE ReadPrevious
  <2>1. PICK row \in listed :
           poll'.clip = row.id /\ listed' = listed \ {row} /\ pc' = "fetch"
    BY <1>2 DEF ReadPrevious
  <2>2. QED
    BY <2>1 DEF ListInv, Polling
<1>3. CASE FetchAnswers
  <2>1. pc = "fetch" /\ pc \in Polling /\ pc' = "snapshot" /\ UNCHANGED listed
    BY <1>3 DEF FetchAnswers, Polling
  <2>2. poll'.clip = poll.clip
    BY <1>3, <2>1, PollFields DEF FetchAnswers, PollRecord
  <2>3. QED
    BY <2>1, <2>2 DEF ListInv, Polling
<1>4. CASE InsertViewSnapshot
  <2>1. /\ pc \in Polling /\ UNCHANGED listed
        /\ (pc' = "queue" /\ UNCHANGED poll) \/ pc' = "next"
    BY <1>4, InsertFacts
  <2>2. QED
    BY <2>1 DEF ListInv, Polling
<1>5. CASE EndCycle \/ FetchFails \/ QueuePending \/ QueueRejected \/ Crash \/ Restart
  BY <1>5 DEF EndCycle, FetchFails, NextClip, QueuePending, QueueRejected, Crash, Restart,
              ListInv, Polling
<1>6. CASE Others \/ UNCHANGED vars
  BY <1>6 DEF Others, ViewersWatch, Tick, ClockSetBack, SetClipCapped, CloseCampaign,
              SetEffectiveRate, ownVars, vars, ListInv
<1>7. QED
  BY <1>1, <1>2, <1>3, <1>4, <1>5, <1>6 DEF Next, Poller

\* A clip once capped, or a campaign once closed, stays so.
LEMMA StaleStays ==
    ASSUME TypeInv, [Next]_vars, NEW k \in Clips, staleNow(k)
    PROVE  staleNow(k)'
<1>1. /\ isCapped \in [Clips -> BOOLEAN] /\ active \in [Campaigns -> BOOLEAN]
      /\ CampaignOf[k] \in Campaigns
  BY PollerAssumption DEF TypeInv, TypeOK
<1>2. CASE SetClipCapped
  BY <1>1, <1>2 DEF SetClipCapped, staleNow
<1>3. CASE CloseCampaign
  BY <1>1, <1>3 DEF CloseCampaign, staleNow
<1>4. CASE ~SetClipCapped /\ ~CloseCampaign
  <2>1. UNCHANGED <<isCapped, active>>
    BY <1>4 DEF Next, Poller, ListActiveClips, EndCycle, ReadPrevious, FetchFails,
       FetchAnswers, InsertViewSnapshot, QueuePending, QueueRejected, Crash, Restart, Others,
       ViewersWatch, Tick, ClockSetBack, SetEffectiveRate, othersVars, vars
  <2>2. QED
    BY <2>1 DEF staleNow
<1>5. QED
  BY <1>2, <1>3, <1>4

\* The rows stay as they are: what is listed and polled has to be looked at.
LEMMA StaleKept ==
    ASSUME TypeInv, StaleInv, [Next]_vars, UNCHANGED pendingRows,
           \A row \in listed' : row \in listed \/ (staleNow(row.id) => row.isCapped),
           pc' \in Polling =>
              \/ /\ pc \in Polling /\ poll'.clip = poll.clip
                 /\ poll'.isCapped = poll.isCapped
              \/ \E row \in listed : poll'.clip = row.id /\ poll'.isCapped = row.isCapped
    PROVE  StaleInv'
<1>1. ASSUME NEW r \in pendingRows', r.stale
      PROVE  /\ staleNow(r.clip)'
             /\ \A row \in listed' : row.id = r.clip => row.isCapped
             /\ pc' \in Polling /\ poll'.clip = r.clip => poll'.isCapped
             /\ \A s \in pendingRows' : s.stale /\ s.clip = r.clip => s = r
  <2>1. r \in pendingRows /\ r.clip \in Clips
    BY DEF TypeInv, TypeOK, PendingRow
  <2>2. staleNow(r.clip) /\ staleNow(r.clip)'
    BY <1>1, <2>1, StaleStays DEF StaleInv
  <2>3. QED
    BY <1>1, <2>1, <2>2 DEF StaleInv
<1>2. QED
  BY <1>1 DEF StaleInv

LEMMA StaleStep ==
    ASSUME TypeInv, PollInv, ListInv, StaleInv, [Next]_vars
    PROVE  StaleInv'
<1>1. CASE ListActiveClips
  <2>1. listed' = {clipRow(k) : k \in {j \in Clips : active[CampaignOf[j]]}}
    BY <1>1 DEF ListActiveClips
  <2>2. \A k : clipRow(k).id = k /\ clipRow(k).isCapped = isCapped[k]
    BY DEF clipRow
  <2>3. \A row \in listed' : active[CampaignOf[row.id]] /\ row.isCapped = isCapped[row.id]
    BY <2>1, <2>2
  <2>4. \A row \in listed' : staleNow(row.id) => row.isCapped
    BY <2>3 DEF staleNow
  <2>5. pc' = "next" /\ UNCHANGED pendingRows
    BY <1>1 DEF ListActiveClips
  <2>6. QED
    BY <2>4, <2>5, StaleKept DEF Polling
<1>2. CASE ReadPrevious
  <2>1. PICK row \in listed :
           /\ poll'.clip = row.id /\ poll'.isCapped = row.isCapped
           /\ listed' = listed \ {row} /\ UNCHANGED pendingRows
    BY <1>2 DEF ReadPrevious
  <2>2. QED
    BY <2>1, StaleKept
<1>3. CASE FetchAnswers
  <2>1. pc \in Polling /\ UNCHANGED <<listed, pendingRows>>
    BY <1>3 DEF FetchAnswers, Polling
  <2>2. poll'.clip = poll.clip /\ poll'.isCapped = poll.isCapped
    BY <1>3, <2>1, PollFields DEF FetchAnswers, PollRecord
  <2>3. QED
    BY <2>1, <2>2, StaleKept
<1>4. CASE InsertViewSnapshot
  <2>1. /\ pc \in Polling /\ UNCHANGED <<listed, pendingRows>>
        /\ (pc' = "queue" /\ UNCHANGED poll) \/ pc' = "next"
    BY <1>4, InsertFacts
  <2>2. QED
    BY <2>1, StaleKept DEF Polling
<1>5. CASE QueuePending
  <2>1. PICK row \in PendingRow :
           /\ pendingRows' = pendingRows \cup {row}
           /\ row.clip = poll.clip
           /\ row.stale = (isCapped[poll.clip] \/ ~active[CampaignOf[poll.clip]])
    BY <1>5, QueuedRow
  <2>2. /\ pc = "queue" /\ pc \in Polling /\ pc' = "next" /\ pc' \notin Polling
        /\ UNCHANGED <<listed, isCapped, active>>
    BY <1>5 DEF QueuePending, NextClip, Polling, othersVars
  <2>3. ~poll.isCapped
    BY <2>2 DEF PollInv
  <2>4. \A s \in pendingRows : s.stale => s.clip # poll.clip
    BY <2>2, <2>3 DEF StaleInv
  <2>5. row.stale => staleNow(row.clip)
    BY <2>1 DEF staleNow
  <2>6. \A k : staleNow(k)' = staleNow(k)
    BY <2>2 DEF staleNow
  <2>7. \A other \in listed : other.id # row.clip
    BY <2>1, <2>2 DEF ListInv
  <2>8. ASSUME NEW r \in pendingRows', r.stale
        PROVE  /\ staleNow(r.clip)'
               /\ \A o \in listed' : o.id = r.clip => o.isCapped
               /\ \A s \in pendingRows' : s.stale /\ s.clip = r.clip => s = r
    <3>1. CASE r = row
      BY <2>1, <2>2, <2>4, <2>5, <2>6, <2>7, <2>8, <3>1
    <3>2. CASE r # row
      <4>1. r \in pendingRows /\ r.clip # row.clip
        BY <2>1, <2>4, <2>8, <3>2
      <4>2. QED
        BY <2>1, <2>2, <2>6, <2>8, <4>1 DEF StaleInv
    <3>3. QED
      BY <3>1, <3>2
  <2>9. QED
    BY <2>2, <2>8 DEF StaleInv
<1>6. CASE EndCycle \/ FetchFails \/ QueueRejected \/ Crash \/ Restart
  <2>1. pc' \notin Polling /\ listed' \subseteq listed /\ UNCHANGED pendingRows
    BY <1>6 DEF EndCycle, FetchFails, NextClip, QueueRejected, Crash, Restart, Polling
  <2>2. QED
    BY <2>1, StaleKept
<1>7. CASE Others \/ UNCHANGED vars
  <2>1. UNCHANGED <<pc, poll, listed, pendingRows>>
    BY <1>7 DEF Others, ViewersWatch, Tick, ClockSetBack, SetClipCapped, CloseCampaign,
                SetEffectiveRate, ownVars, vars
  <2>2. QED
    BY <2>1, StaleKept
<1>8. QED
  BY <1>1, <1>2, <1>3, <1>4, <1>5, <1>6, <1>7 DEF Next, Poller

\* However long a cycle takes, and whatever is capped or closed in the meantime, a clip
\* gets at most one row after that (viewPoller.ts:99-121, worker.ts:264-269).
THEOREM OneStaleRowAtMost == Spec => []AtMostOneStaleRow
<1>1. Init => ListInv /\ StaleInv
  BY DEF Init, ListInv, StaleInv, Polling
<1>2. TypeInv /\ PollInv /\ ListInv /\ StaleInv /\ [Next]_vars => (ListInv /\ StaleInv)'
  BY ListStep, StaleStep
<1>3. ASSUME StaleInv  PROVE AtMostOneStaleRow
  <2>1. SUFFICES ASSUME NEW k \in Clips
                 PROVE  Cardinality({r \in rowsOf(k) : r.stale}) <= 1
    BY DEF AtMostOneStaleRow
  <2> DEFINE R == {r \in rowsOf(k) : r.stale}
  <2>2. \A r, s \in R : s = r
    BY <1>3 DEF StaleInv, rowsOf
  <2>3. CASE R = {}
    BY <2>3, FS_EmptySet
  <2>4. CASE R # {}
    <3>1. PICK r : R = {r}
      BY <2>2, <2>4
    <3>2. Cardinality({r}) = 1
      BY FS_Singleton
    <3>3. QED
      BY <3>1, <3>2
  <2>5. QED
    BY <2>3, <2>4
<1>4. QED
  BY <1>1, <1>2, <1>3, PollsAreSound, PTL DEF Spec

-----------------------------------------------------------------------------
(* Times.                                                                  *)

\* A fault that was met is not forgotten, and the clock goes back only in one of them.
LEMMA MetGrows ==
    ASSUME TypeInv, [Next]_vars
    PROVE  /\ met \subseteq met'
           /\ clock' < clock => IF pc = "snapshot" THEN "stamp" \in met' ELSE "clock" \in met'
           /\ \A k \in Clips : impressions[k] <= impressions'[k]
<1>1. clock \in Nat /\ impressions \in [Clips -> Nat]
  BY DEF TypeInv, TypeOK
<1>2. CASE ClockSetBack
  BY <1>1, <1>2 DEF ClockSetBack
<1>3. CASE ViewersWatch
  <2>1. PICK k \in Clips, n \in 1 .. MaxViews :
           impressions' = [impressions EXCEPT ![k] = impressions[k] + n]
    BY <1>3 DEF ViewersWatch
  <2>2. \A j \in Clips : impressions[j] <= impressions'[j]
    BY <1>1, <2>1
  <2>3. QED
    BY <1>1, <1>3, <2>2 DEF ViewersWatch
<1>4. CASE ~ClockSetBack /\ ~ViewersWatch
  <2>1. UNCHANGED impressions /\ met \subseteq met' /\ clock' \in {clock, clock + 1}
    BY <1>4 DEF Next, Poller, ListActiveClips, EndCycle, ReadPrevious, FetchFails,
       FetchAnswers, InsertViewSnapshot, QueuePending, QueueRejected, Crash, Restart, Others,
       Tick, SetClipCapped, CloseCampaign, SetEffectiveRate, othersVars, vars
  <2>2. QED
    BY <1>1, <2>1
<1>5. QED
  BY <1>2, <1>3, <1>4

\* Only InsertViewSnapshot stores a snapshot.
LEMMA StoredOnlyByInsert ==
    ASSUME [Next]_vars, ~InsertViewSnapshot
    PROVE  SnapshotsStay
BY DEF Next, Poller, ListActiveClips, EndCycle, ReadPrevious, FetchFails, FetchAnswers,
       QueuePending, QueueRejected, Crash, Restart, Others, ViewersWatch, Tick,
       ClockSetBack, SetClipCapped, CloseCampaign, SetEffectiveRate, ownVars, vars, SnapshotsStay

\* A poll reaches the queue only with its snapshot, and stays there.
LEMMA QueueReachedByInsert ==
    ASSUME [Next]_vars, ~InsertViewSnapshot, pc' = "queue"
    PROVE  pc = "queue" /\ UNCHANGED poll
BY DEF Next, Poller, ListActiveClips, EndCycle, ReadPrevious, FetchFails, FetchAnswers,
       QueuePending, QueueRejected, Crash, Restart, Others, ViewersWatch, Tick, NextClip,
       ClockSetBack, SetClipCapped, CloseCampaign, SetEffectiveRate, ownVars, vars

\* Whatever the newest snapshot is, it is a snapshot, or none.
LEMMA LatestType ==
    ASSUME TypeInv, NEW k \in Clips
    PROVE  /\ latestViewSnapshot(k).polledAt \in Int /\ latestViewSnapshot(k).count \in Int
           /\ \/ latestViewSnapshot(k) = NoSnapshot
              \/ \E i \in DOMAIN snapshots[k] : latestViewSnapshot(k) = snapshots[k][i]
           /\ \A i \in DOMAIN snapshots[k] : snapshots[k][i] \in Snapshot
<1>1. snapshots[k] \in Seq(Snapshot)
  BY DEF TypeInv, TypeOK
<1>2. latestViewSnapshot(k) = newest(snapshots[k])
  BY LatestIsNewest
<1>3. snapshots[k] = << >> => newest(snapshots[k]) = NoSnapshot
  BY DEF newest
<1>4. QED
  BY <1>1, <1>2, <1>3, NewestType

\* An approved delta: its snapshot is the clip's newest, later than the previous one.
LEMMA ApprovedIsNewest ==
    ASSUME TypeInv, PollInv, TimesInv, "stamp" \notin met,
           InsertViewSnapshot, pc' = "queue"
    PROVE  /\ poll.previous = latestViewSnapshot(poll.clip)
           /\ latestViewSnapshot(poll.clip)' = [count |-> poll.count, polledAt |-> clock]
           /\ poll.previous.polledAt < poll.polledAt /\ poll.polledAt <= clock
           /\ poll.previous.count <= poll.count
           /\ UNCHANGED poll
<1> DEFINE s == [count |-> poll.count, polledAt |-> clock]
<1>1. /\ pc = "snapshot" /\ pc \in Polling /\ StoresSnapshot(poll.clip, s)
      /\ validateViewDelta(poll.previous, poll.count, poll.polledAt)
      /\ UNCHANGED poll
  BY InsertFacts
<1>2. poll.previous = latestViewSnapshot(poll.clip) /\ poll.polledAt <= clock
  BY <1>1 DEF PollInv, TimesInv
<1>3. /\ poll.previous.polledAt \in Int /\ poll.polledAt \in Nat /\ clock \in Nat
      /\ poll.previous.count \in Int /\ poll.count \in Nat
  BY <1>1, PollFields DEF TypeInv, TypeOK
<1>4. poll.previous.polledAt < poll.polledAt /\ poll.previous.count <= poll.count
  BY <1>1, <1>3 DEF validateViewDelta, nonPositiveInterval, isDrop
<1>5. latestViewSnapshot(poll.clip).polledAt <= s.polledAt
  BY <1>2, <1>3, <1>4
<1> HIDE DEF s
<1>6. latestViewSnapshot(poll.clip)' = s
  <2>1. PICK k \in Clips : k = poll.clip
    BY <1>1, PollFields
  <2>2. latestViewSnapshot(k)' = s
    BY <1>1, <1>5, <2>1, SnapshotStored
  <2>3. poll'.clip = k
    BY <1>1, <2>1
  <2>4. QED
    BY <2>2, <2>3
<1>7. QED
  BY <1>1, <1>2, <1>4, <1>6 DEF s

LEMMA TimesStep ==
    ASSUME TypeInv, TypeInv', PollInv, TimesInv, [Next]_vars
    PROVE  TimesInv'
<1>1. SUFFICES ASSUME "stamp" \notin met'  PROVE
         /\ pc' = "snapshot" => poll'.polledAt <= clock'
         /\ pc' = "queue" => poll'.polledAt <= latestViewSnapshot(poll.clip)'.polledAt
         /\ \A r \in pendingRows' :
               /\ r.polledAt <= latestViewSnapshot(r.clip)'.polledAt
               /\ pc' = "queue" /\ r.clip = poll'.clip => r.polledAt <= poll'.previous.polledAt
  BY DEF TimesInv
<1>2. "stamp" \notin met
  BY <1>1, MetGrows
<1>3. clock \in Nat /\ clock' \in Nat /\ pendingRows \in SUBSET PendingRow
  BY DEF TypeInv, TypeOK
<1>4. \A r \in pendingRows : r.clip \in Clips /\ r.polledAt \in Nat
  BY <1>3 DEF PendingRow
<1>5. pc' = "snapshot" => poll'.polledAt <= clock'
  <2>1. CASE FetchAnswers
    <3>1. pc = "fetch" /\ pc \in Polling
      BY <2>1 DEF FetchAnswers, Polling
    <3>2. poll'.polledAt = clock /\ UNCHANGED clock
      BY <2>1, <3>1, PollFields DEF FetchAnswers, PollRecord, othersVars
    <3>3. QED
      BY <1>3, <3>2
  <2>2. CASE ~FetchAnswers /\ pc' = "snapshot"
    <3>1. pc = "snapshot" /\ UNCHANGED poll
      BY <2>2 DEF Next, Poller, ListActiveClips, EndCycle, ReadPrevious, FetchFails, NextClip,
         InsertViewSnapshot, QueuePending, QueueRejected, Crash, Restart, Others, ViewersWatch,
         Tick, ClockSetBack, SetClipCapped, CloseCampaign, SetEffectiveRate, ownVars, vars
    <3>2. poll.polledAt <= clock /\ poll.polledAt \in Nat
      BY <1>2, <3>1, PollFields DEF TimesInv, Polling
    <3>3. clock <= clock'
      BY <1>1, <1>3, <3>1, MetGrows
    <3>4. QED
      BY <1>3, <3>1, <3>2, <3>3
  <2>3. QED
    BY <2>1, <2>2
<1>6. CASE InsertViewSnapshot
  <2>1. /\ pc = "snapshot" /\ pc \in Polling
        /\ StoresSnapshot(poll.clip, [count |-> poll.count, polledAt |-> clock])
        /\ UNCHANGED pendingRows
    BY <1>6, InsertFacts
  <2>2. ASSUME NEW r \in pendingRows'
        PROVE  r.polledAt <= latestViewSnapshot(r.clip)'.polledAt
    <3>1. r.polledAt <= latestViewSnapshot(r.clip).polledAt /\ r.clip \in Clips /\ r.polledAt \in Nat
      BY <1>2, <1>4, <2>1 DEF TimesInv
    <3>2. PICK k \in Clips : k = r.clip
      BY <3>1
    <3>3. /\ latestViewSnapshot(k).polledAt <= latestViewSnapshot(k)'.polledAt
          /\ latestViewSnapshot(k).polledAt \in Int /\ latestViewSnapshot(k)'.polledAt \in Int
      BY <2>1, SnapshotStored
    <3>4. QED
      BY <3>1, <3>2, <3>3
  <2>3. ASSUME pc' = "queue"
        PROVE  /\ poll'.polledAt <= latestViewSnapshot(poll.clip)'.polledAt
               /\ \A r \in pendingRows' : r.clip = poll'.clip => r.polledAt <= poll'.previous.polledAt
    <3>1. /\ poll.previous = latestViewSnapshot(poll.clip)
          /\ latestViewSnapshot(poll.clip)' = [count |-> poll.count, polledAt |-> clock]
          /\ poll.polledAt <= clock /\ UNCHANGED poll
      BY <1>2, <1>6, <2>3, ApprovedIsNewest
    <3>2. \A r \in pendingRows : r.polledAt <= latestViewSnapshot(r.clip).polledAt
      BY <1>2 DEF TimesInv
    <3>3. QED
      BY <2>1, <3>1, <3>2
  <2>4. QED
    BY <1>5, <2>2, <2>3
<1>7. CASE QueuePending
  <2>1. PICK row \in PendingRow : /\ pendingRows' = pendingRows \cup {row}
                                  /\ row.clip = poll.clip /\ row.polledAt = poll.polledAt
    BY <1>7, QueuedRow
  <2>2. pc = "queue" /\ pc' = "next" /\ SnapshotsStay
    BY <1>7 DEF QueuePending, NextClip, SnapshotsStay
  <2>3. poll.polledAt <= latestViewSnapshot(poll.clip).polledAt
    BY <1>2, <2>2 DEF TimesInv
  <2>4. \A k : latestViewSnapshot(k)' = latestViewSnapshot(k)
    BY <2>2 DEF SnapshotsStay, latestViewSnapshot
  <2>5. ASSUME NEW r \in pendingRows'
        PROVE  r.polledAt <= latestViewSnapshot(r.clip)'.polledAt
    <3>1. r.polledAt <= latestViewSnapshot(r.clip).polledAt
      BY <1>2, <2>1, <2>3 DEF TimesInv
    <3>2. QED
      BY <2>4, <3>1
  <2>6. QED
    BY <1>5, <2>2, <2>5
<1>8. CASE ~InsertViewSnapshot /\ ~QueuePending
  <2>1. UNCHANGED pendingRows /\ SnapshotsStay
    BY <1>8, RowsStay, StoredOnlyByInsert
  <2>2. \A k : latestViewSnapshot(k)' = latestViewSnapshot(k)
    BY <2>1 DEF SnapshotsStay, latestViewSnapshot
  <2>3. \A r \in pendingRows' : r.polledAt <= latestViewSnapshot(r.clip)'.polledAt
    BY <1>2, <2>1, <2>2 DEF TimesInv
  <2>4. ASSUME pc' = "queue"
        PROVE  /\ poll'.polledAt <= latestViewSnapshot(poll.clip)'.polledAt
               /\ \A r \in pendingRows' : r.clip = poll'.clip => r.polledAt <= poll'.previous.polledAt
    <3>1. pc = "queue" /\ UNCHANGED poll
      BY <1>8, <2>4, QueueReachedByInsert
    <3>2. latestViewSnapshot(poll.clip)' = latestViewSnapshot(poll.clip)
      BY <2>1, <3>1 DEF SnapshotsStay, latestViewSnapshot
    <3>3. QED
      BY <1>2, <2>1, <3>1, <3>2 DEF TimesInv
  <2>5. QED
    BY <1>5, <2>3, <2>4
<1>9. QED
  BY <1>6, <1>7, <1>8

\* An approved poll has a time that no row of its clip has.
LEMMA ApprovedIdIsFresh ==
    ASSUME TypeInv, PollInv, TimesInv, "stamp" \notin met, pc = "queue"
    PROVE  ~idTaken
<1>1. pc \in Polling
  BY DEF Polling
<1>2. poll.previous.polledAt < poll.polledAt
  BY <1>1, PollFields DEF PollInv, validateViewDelta, nonPositiveInterval
<1>3. \A r \in pendingRows : r.clip = poll.clip => r.polledAt <= poll.previous.polledAt
  BY DEF TimesInv
<1>4. \A r \in pendingRows : r.polledAt \in Nat
  BY DEF TypeInv, TypeOK, PendingRow
<1>5. QED
  BY <1>1, <1>2, <1>3, <1>4, PollFields DEF idTaken

LEMMA TimesHold == Spec => [](TypeInv /\ PollInv /\ TimesInv)
<1>1. Init => TimesInv
  BY DEF Init, TimesInv
<1>2. TypeInv /\ PollInv /\ TypeInv' /\ TimesInv /\ [Next]_vars => TimesInv'
  BY TimesStep
<1>3. QED
  BY <1>1, <1>2, PollsAreSound, PTL DEF Spec

\* UNIQUE(settlement_id) never stops a poll, through restarts within a millisecond and a
\* clock set back between polls (pendingSettlement.ts:20-27, viewPoller.ts:105-121).
THEOREM SettlementIdsAreFresh == Spec => []IdsAreFresh
<1>1. TypeInv /\ PollInv /\ TimesInv => IdsAreFresh
  BY ApprovedIdIsFresh DEF IdsAreFresh
<1>2. QED
  BY <1>1, TimesHold, PTL

-----------------------------------------------------------------------------
(* Views.                                                                  *)

\* While X does not go back: the count of a poll is the impressions of that moment.
LEMMA CountsStep ==
    ASSUME TypeInv, TypeInv', PollInv, TimesInv, ViewsInv, [Next]_vars, met' \subseteq {"clock"}
    PROVE  /\ \A k \in Clips : \A i \in DOMAIN snapshots'[k] :
                 snapshots'[k][i].count <= impressions'[k]
           /\ pc' = "snapshot" =>
                 /\ poll'.count <= impressions'[poll'.clip]
                 /\ \A i \in DOMAIN snapshots'[poll'.clip] :
                       snapshots'[poll'.clip][i].count <= poll'.count
<1>1. met \subseteq {"clock"} /\ \A k \in Clips : impressions[k] <= impressions'[k]
  BY MetGrows
<1>2. /\ impressions \in [Clips -> Nat] /\ snapshots \in [Clips -> Seq(Snapshot)]
      /\ clock \in Nat
  BY DEF TypeInv, TypeOK
<1>3. \A k \in Clips : \A i \in DOMAIN snapshots[k] :
         snapshots[k][i].count \in Nat /\ snapshots[k][i].count <= impressions[k]
  BY <1>1, LatestType DEF ViewsInv, Snapshot
<1>4. \A k \in Clips : impressions'[k] \in Nat
  BY DEF TypeInv, TypeOK
<1>5. CASE InsertViewSnapshot
  <2> DEFINE s == [count |-> poll.count, polledAt |-> clock]
  <2>1. /\ pc = "snapshot" /\ pc \in Polling /\ StoresSnapshot(poll.clip, s)
        /\ UNCHANGED impressions /\ pc' # "snapshot"
    BY <1>5, InsertFacts
  <2>2. PICK k \in Clips : k = poll.clip
    BY <2>1, PollFields
  <2>3. s.count <= impressions[k] /\ s \in Snapshot
    BY <1>1, <2>1, <2>2 DEF ViewsInv, StoresSnapshot
  <2> HIDE DEF s
  <2>4. /\ snapshots'[k] = Append(snapshots[k], s)
        /\ \A j \in Clips : j # k => snapshots'[j] = snapshots[j]
    BY <2>1, <2>2, SnapshotStored
  <2>5. \A i \in DOMAIN snapshots'[k] :
           \/ snapshots'[k][i] = s
           \/ (i \in DOMAIN snapshots[k] /\ snapshots'[k][i] = snapshots[k][i])
    <3> DEFINE q == snapshots[k]
    <3>1. q \in Seq(Snapshot)
      BY <1>2
    <3> HIDE DEF q
    <3>2. /\ Len(q) \in Nat /\ DOMAIN q = 1 .. Len(q)
          /\ DOMAIN Append(q, s) = 1 .. Len(q) + 1 /\ Append(q, s)[Len(q) + 1] = s
          /\ \A i \in 1 .. Len(q) : Append(q, s)[i] = q[i]
      BY <2>3, <3>1, AppendProperties, LenProperties
    <3>3. \A i \in 1 .. Len(q) + 1 : i = Len(q) + 1 \/ i \in 1 .. Len(q)
      BY <3>2
    <3>4. QED
      BY <2>4, <3>2, <3>3 DEF q
  <2>6. \A j \in Clips : \A i \in DOMAIN snapshots'[j] :
           snapshots'[j][i].count <= impressions[j]
    BY <1>3, <2>3, <2>4, <2>5
  <2>7. QED
    BY <2>1, <2>6
<1>6. CASE ~InsertViewSnapshot
  <2>1. UNCHANGED snapshots
    BY <1>6, StoredOnlyByInsert DEF SnapshotsStay
  <2>2. \A k \in Clips : \A i \in DOMAIN snapshots'[k] :
           snapshots'[k][i].count <= impressions'[k]
    BY <1>1, <1>2, <1>3, <1>4, <2>1
  <2>3. CASE FetchAnswers
    <3>1. pc = "fetch" /\ pc \in Polling
      BY <2>3 DEF FetchAnswers, Polling
    <3>2. PICK count \in 0 .. impressions[poll.clip] :
             /\ met' = IF count = impressions[poll.clip] THEN met ELSE met \cup {"dip"}
             /\ poll' = [poll EXCEPT !.count = count, !.polledAt = clock]
      BY <2>3 DEF FetchAnswers
    <3>3. count = impressions[poll.clip]
      BY <3>2
    <3>4. poll'.count = impressions[poll.clip] /\ poll'.clip = poll.clip /\ poll.clip \in Clips
      BY <3>1, <3>2, <3>3, PollFields DEF PollRecord
    <3>5. UNCHANGED impressions
      BY <2>3 DEF FetchAnswers, othersVars
    <3>6. QED
      BY <1>2, <1>3, <2>1, <2>2, <3>4, <3>5
  <2>4. CASE ~FetchAnswers /\ pc' = "snapshot"
    <3>1. pc = "snapshot" /\ UNCHANGED poll /\ pc \in Polling
      BY <2>4 DEF Next, Poller, ListActiveClips, EndCycle, ReadPrevious, FetchFails, NextClip,
         InsertViewSnapshot, QueuePending, QueueRejected, Crash, Restart, Others, ViewersWatch,
         Tick, ClockSetBack, SetClipCapped, CloseCampaign, SetEffectiveRate, ownVars, vars, Polling
    <3>2. poll.clip \in Clips /\ poll.count \in Nat
      BY <3>1, PollFields
    <3>3. /\ poll.count <= impressions[poll.clip]
          /\ \A i \in DOMAIN snapshots[poll.clip] : snapshots[poll.clip][i].count <= poll.count
      BY <1>1, <3>1 DEF ViewsInv
    <3>4. poll.count <= impressions'[poll.clip]
      BY <1>1, <1>2, <1>4, <3>2, <3>3
    <3>5. QED
      BY <2>1, <2>2, <3>1, <3>3, <3>4
  <2>5. QED
    BY <2>2, <2>3, <2>4
<1>7. QED
  BY <1>5, <1>6

\* The newest snapshot never counts fewer views than the one before.
LEMMA NewestGrows ==
    ASSUME TypeInv, PollInv, ViewsInv, met \subseteq {"clock"}, InsertViewSnapshot,
           NEW k \in Clips
    PROVE  /\ latestViewSnapshot(k).count \in Int /\ latestViewSnapshot(k)'.count \in Int
           /\ latestViewSnapshot(k).count <= latestViewSnapshot(k)'.count
<1> DEFINE s == [count |-> poll.count, polledAt |-> clock]
<1>1. pc = "snapshot" /\ pc \in Polling /\ StoresSnapshot(poll.clip, s) /\ s \in Snapshot
  BY InsertFacts DEF StoresSnapshot
<1>2. /\ latestViewSnapshot(k).count \in Int /\ latestViewSnapshot(k).polledAt \in Int
      /\ \/ latestViewSnapshot(k) = NoSnapshot
         \/ \E i \in DOMAIN snapshots[k] : latestViewSnapshot(k) = snapshots[k][i]
  BY LatestType
<1>3. CASE k = poll.clip
  <2>1. \A i \in DOMAIN snapshots[k] : snapshots[k][i].count <= poll.count
    BY <1>1, <1>3 DEF ViewsInv
  <2>2. poll.count \in Nat /\ s.count = poll.count /\ s.polledAt \in Nat
    BY <1>1, PollFields DEF Snapshot
  <2>3. latestViewSnapshot(k).count <= s.count
    BY <1>2, <2>1, <2>2 DEF NoSnapshot
  <2>4. latestViewSnapshot(k)' = s \/ latestViewSnapshot(k)' = latestViewSnapshot(k)
    <3> HIDE DEF s
    <3>1. QED
      BY <1>1, <1>2, <1>3, <2>2, SnapshotStored
  <2>5. QED
    BY <1>2, <2>2, <2>3, <2>4
<1>4. CASE k # poll.clip
  <2>1. latestViewSnapshot(k)' = latestViewSnapshot(k)
    BY <1>1, <1>4, SnapshotStored
  <2>2. QED
    BY <1>2, <2>1
<1>5. QED
  BY <1>3, <1>4

LEMMA ViewsStep ==
    ASSUME TypeInv, TypeInv', PollInv, TimesInv, ViewsInv, [Next]_vars
    PROVE  ViewsInv'
<1> DEFINE Reaches(r) ==
             /\ r.from <= r.to
             /\ r.to <= latestViewSnapshot(r.clip)'.count
             /\ pc' = "queue" /\ r.clip = poll'.clip => r.to <= poll'.previous.count
<1>1. SUFFICES ASSUME met' \subseteq {"clock"}
               PROVE  /\ pc' = "queue" => poll'.count <= latestViewSnapshot(poll.clip)'.count
                      /\ \A r \in pendingRows' : Reaches(r)
                      /\ \A r, s \in pendingRows' :
                           r.clip = s.clip /\ r # s => r.to <= s.from \/ s.to <= r.from
  BY CountsStep DEF ViewsInv
<1>2. met \subseteq {"clock"} /\ "stamp" \notin met
  BY <1>1, MetGrows
<1>3. \A r \in pendingRows : /\ r.clip \in Clips /\ r.from \in Nat /\ r.to \in Nat
                             /\ r.polledAt \in Nat
  BY DEF TypeInv, TypeOK, PendingRow
<1>4. \A r \in pendingRows : r.from <= r.to /\ r.to <= latestViewSnapshot(r.clip).count
  BY <1>2 DEF ViewsInv
<1>5. \A r, s \in pendingRows : r.clip = s.clip /\ r # s => r.to <= s.from \/ s.to <= r.from
  BY <1>2 DEF ViewsInv
<1>6. CASE InsertViewSnapshot
  <2>1. pc = "snapshot" /\ pc \in Polling /\ UNCHANGED pendingRows
    BY <1>6, InsertFacts
  <2>2. ASSUME NEW r \in pendingRows
        PROVE  r.to <= latestViewSnapshot(r.clip)'.count
    <3>1. PICK k \in Clips : k = r.clip
      BY <1>3
    <3>2. /\ latestViewSnapshot(k).count \in Int /\ latestViewSnapshot(k)'.count \in Int
          /\ latestViewSnapshot(k).count <= latestViewSnapshot(k)'.count
      BY <1>2, <1>6, NewestGrows
    <3>3. r.to <= latestViewSnapshot(k).count /\ r.to \in Nat
      BY <1>3, <1>4, <3>1
    <3>4. QED
      BY <3>1, <3>2, <3>3
  <2>3. ASSUME pc' = "queue"
        PROVE  /\ poll'.count <= latestViewSnapshot(poll.clip)'.count
               /\ \A r \in pendingRows : r.clip = poll'.clip => r.to <= poll'.previous.count
    <3>1. /\ poll.previous = latestViewSnapshot(poll.clip)
          /\ latestViewSnapshot(poll.clip)' = [count |-> poll.count, polledAt |-> clock]
          /\ UNCHANGED poll
      BY <1>2, <1>6, <2>3, ApprovedIsNewest
    <3>2. poll.count \in Nat
      BY <2>1, PollFields
    <3>3. QED
      BY <1>4, <3>1, <3>2
  <2>4. QED
    BY <1>4, <1>5, <2>1, <2>2, <2>3
<1>7. CASE QueuePending
  <2>1. PICK row \in PendingRow :
           /\ pendingRows' = pendingRows \cup {row}
           /\ row.clip = poll.clip
           /\ row.from = poll.previous.count /\ row.to = poll.count
           /\ row.viewDelta = poll.count - poll.previous.count /\ row.viewDelta \in Nat
    BY <1>7, QueuedRow
  <2>2. pc = "queue" /\ pc \in Polling /\ pc' = "next" /\ SnapshotsStay
    BY <1>7 DEF QueuePending, NextClip, SnapshotsStay, Polling
  <2>3. poll.count <= latestViewSnapshot(poll.clip).count
    BY <1>2, <2>2 DEF ViewsInv
  <2>4. \A k : latestViewSnapshot(k)' = latestViewSnapshot(k)
    BY <2>2 DEF SnapshotsStay, latestViewSnapshot
  <2>5. row.from <= row.to
    BY <2>1, <2>2, PollFields
  <2>6. ASSUME NEW r \in pendingRows'
        PROVE  r.from <= r.to /\ r.to <= latestViewSnapshot(r.clip)'.count
    <3>1. r.from <= r.to /\ r.to <= latestViewSnapshot(r.clip).count
      BY <1>4, <2>1, <2>3, <2>5
    <3>2. QED
      BY <2>4, <3>1
  <2>7. \A r \in pendingRows : r.clip = row.clip => r.to <= row.from
    BY <1>2, <2>1, <2>2 DEF ViewsInv
  <2>8. \A r, s \in pendingRows' : r.clip = s.clip /\ r # s => r.to <= s.from \/ s.to <= r.from
    BY <1>5, <2>1, <2>7
  <2>9. QED
    BY <2>2, <2>6, <2>8
<1>8. CASE ~InsertViewSnapshot /\ ~QueuePending
  <2>1. UNCHANGED pendingRows /\ SnapshotsStay
    BY <1>8, RowsStay, StoredOnlyByInsert
  <2>2. \A k : latestViewSnapshot(k)' = latestViewSnapshot(k)
    BY <2>1 DEF SnapshotsStay, latestViewSnapshot
  <2>3. ASSUME pc' = "queue"
        PROVE  /\ poll'.count <= latestViewSnapshot(poll.clip)'.count
               /\ \A r \in pendingRows' : r.clip = poll'.clip => r.to <= poll'.previous.count
    <3>1. pc = "queue" /\ UNCHANGED poll
      BY <1>8, <2>3, QueueReachedByInsert
    <3>2. latestViewSnapshot(poll.clip)' = latestViewSnapshot(poll.clip)
      BY <2>1, <3>1 DEF SnapshotsStay, latestViewSnapshot
    <3>3. QED
      BY <1>2, <2>1, <3>1, <3>2 DEF ViewsInv
  <2>4. \A r \in pendingRows' : r.to <= latestViewSnapshot(r.clip)'.count
    BY <1>4, <2>1, <2>2
  <2>5. QED
    BY <1>4, <1>5, <2>1, <2>3, <2>4
<1>9. QED
  BY <1>6, <1>7, <1>8

\* "Impression counts are monotonically non-decreasing on X" (engine.ts:49), and while
\* they are no view is queued twice: through crashes, restarts, failed requests and a
\* clock set back between polls.
THEOREM NoViewIsQueuedTwice == Spec => []ViewsQueuedOnce
<1>1. Init => ViewsInv
  BY EmptySeq DEF Init, ViewsInv
<1>2. TypeInv /\ TypeInv' /\ PollInv /\ TimesInv /\ ViewsInv /\ [Next]_vars => ViewsInv'
  BY ViewsStep
<1>3. ViewsInv => ViewsQueuedOnce
  BY DEF ViewsInv, ViewsQueuedOnce, rowsOf
<1>4. QED
  BY <1>1, <1>2, <1>3, TimesHold, PTL DEF Spec

-----------------------------------------------------------------------------
(* The plausible rate.                                                     *)

\* Time, in views.
LEMMA Plausible ==
    ASSUME NEW a \in Int, NEW b \in Int, a <= b
    PROVE  /\ MaxViewsPerTick * a \in Int /\ MaxViewsPerTick * b \in Int
           /\ MaxViewsPerTick * a + MaxViewsPerTick * (b - a) = MaxViewsPerTick * b
           /\ MaxViewsPerTick * a <= MaxViewsPerTick * b
<1>1. MaxViewsPerTick \in Nat
  BY PollerAssumption
<1>2. MaxViewsPerTick * (b - a) \in Nat
  <2>1. b - a \in Nat
    OBVIOUS
  <2>2. QED
    BY <1>1, <2>1
<1>3. MaxViewsPerTick * (b - a) = MaxViewsPerTick * b - MaxViewsPerTick * a
  BY <1>1
<1>4. MaxViewsPerTick * a \in Int /\ MaxViewsPerTick * b \in Int
  BY <1>1
<1>5. QED
  BY <1>2, <1>3, <1>4

LEMMA QueuedType ==
    ASSUME IsFiniteSet(pendingRows), RowsInv, NEW k
    PROVE  /\ IsFiniteSet(rowsOf(k)) /\ queued(k) \in Nat
           /\ rowsOf(k) = {} => queued(k) = 0
<1> DEFINE F == [r \in rowsOf(k) |-> r.viewDelta]
<1>1. rowsOf(k) \in SUBSET pendingRows
  BY DEF rowsOf
<1>2. IsFiniteSet(rowsOf(k))
  BY <1>1, FS_Subset
<1>3. \A r \in rowsOf(k) : F[r] \in Nat
  BY <1>1 DEF RowsInv
<1>4. queued(k) = SumFunctionOnSet(F, rowsOf(k))
  BY DEF queued
<1> HIDE DEF F
<1>5. queued(k) \in Nat
  BY <1>2, <1>3, <1>4, SumNat
<1>6. QED
  BY <1>2, <1>4, <1>5, SumEmpty

\* A new row adds its delta.
LEMMA QueuedGrows ==
    ASSUME IsFiniteSet(pendingRows), RowsInv, NEW row, row \notin pendingRows,
           row.viewDelta \in Nat, pendingRows' = pendingRows \cup {row}
    PROVE  queued(row.clip)' = row.viewDelta + queued(row.clip)
<1> DEFINE k == row.clip
           S == rowsOf(k)
           F == [r \in S |-> r.viewDelta]
           G == [r \in S \cup {row} |-> r.viewDelta]
<1>1. IsFiniteSet(S) /\ row \notin S /\ S \subseteq pendingRows
  BY QueuedType DEF rowsOf
<1>2. rowsOf(k)' = S \cup {row}
  BY DEF rowsOf
<1>3. queued(k)' = SumFunctionOnSet(G, S \cup {row})
  BY <1>2 DEF queued
<1>4. queued(k) = SumFunctionOnSet(F, S)
  BY DEF queued
<1>5. /\ \A r \in S \cup {row} : G[r] \in Int
      /\ \A r \in S : F[r] = G[r]
      /\ G[row] = row.viewDelta
  BY <1>1 DEF RowsInv
<1> HIDE DEF F, G, S, k
<1>6. SumFunctionOnSet(G, S \cup {row}) = G[row] + SumFunctionOnSet(G, S)
  BY <1>1, <1>5, SumAdd
<1>7. SumFunctionOnSet(F, S) = SumFunctionOnSet(G, S)
  BY <1>1, <1>5, SumCongruence
<1>8. QED
  BY <1>3, <1>4, <1>5, <1>6, <1>7 DEF k

LEMMA FinitelyManyRows ==
    ASSUME TypeInv, PollInv, IsFiniteSet(pendingRows), [Next]_vars
    PROVE  IsFiniteSet(pendingRows')
<1>1. CASE QueuePending
  BY <1>1, QueuedRow, FS_AddElement
<1>2. CASE ~QueuePending
  BY <1>2, RowsStay
<1>3. QED
  BY <1>1, <1>2

LEMMA RateStep ==
    ASSUME TypeInv, TypeInv', PollInv, RowsInv, TimesInv, RateInv, [Next]_vars
    PROVE  RateInv'
<1>1. SUFFICES ASSUME met' \subseteq {"dip"}
               PROVE  /\ \A k \in Clips : \A i \in DOMAIN snapshots'[k] :
                            snapshots'[k][i].polledAt <= clock'
                      /\ \A k \in Clips : rowsOf(k)' # {} =>
                            queued(k)' <= MaxViewsPerTick * latestViewSnapshot(k)'.polledAt
                      /\ pc' = "queue" /\ rowsOf(poll.clip)' # {} =>
                            queued(poll.clip)' <= MaxViewsPerTick * poll'.previous.polledAt
  BY FinitelyManyRows DEF RateInv
<1>2. met \subseteq {"dip"} /\ "stamp" \notin met
  BY <1>1, MetGrows
<1>3. /\ snapshots \in [Clips -> Seq(Snapshot)] /\ clock \in Nat /\ clock' \in Nat
      /\ IsFiniteSet(pendingRows)
  BY DEF TypeInv, TypeOK, RateInv
<1>4. clock <= clock'
  BY <1>1, <1>3, MetGrows
<1>5. \A k \in Clips : \A i \in DOMAIN snapshots[k] :
         snapshots[k][i].polledAt \in Nat /\ snapshots[k][i].polledAt <= clock
  BY <1>2, LatestType DEF RateInv, Snapshot
<1>6. \A k \in Clips :
         rowsOf(k) # {} => queued(k) <= MaxViewsPerTick * latestViewSnapshot(k).polledAt
  BY <1>2 DEF RateInv
<1>7. \A k : queued(k) \in Nat /\ (rowsOf(k) = {} => queued(k) = 0)
  BY <1>3, QueuedType
<1>8. CASE InsertViewSnapshot
  <2> DEFINE s == [count |-> poll.count, polledAt |-> clock]
  <2>1. /\ pc = "snapshot" /\ pc \in Polling /\ StoresSnapshot(poll.clip, s)
        /\ UNCHANGED <<clock, pendingRows>>
    BY <1>8, InsertFacts
  <2>2. s.polledAt = clock /\ s \in Snapshot
    BY <2>1 DEF StoresSnapshot
  <2> HIDE DEF s
  <2>3. PICK c \in Clips : c = poll.clip
    BY <2>1, PollFields
  <2>4. /\ snapshots'[c] = Append(snapshots[c], s)
        /\ \A j \in Clips : j # c => snapshots'[j] = snapshots[j]
    BY <2>1, <2>3, SnapshotStored
  <2>5. \A i \in DOMAIN snapshots'[c] : snapshots'[c][i].polledAt <= clock
    <3> DEFINE q == snapshots[c]
    <3>1. q \in Seq(Snapshot) /\ \A i \in DOMAIN q : q[i].polledAt <= clock
      BY <1>3, <1>5
    <3> HIDE DEF q
    <3>2. /\ Len(q) \in Nat /\ DOMAIN q = 1 .. Len(q)
          /\ DOMAIN Append(q, s) = 1 .. Len(q) + 1 /\ Append(q, s)[Len(q) + 1] = s
          /\ \A i \in 1 .. Len(q) : Append(q, s)[i] = q[i]
      BY <2>2, <3>1, AppendProperties, LenProperties
    <3>3. \A i \in 1 .. Len(q) + 1 : i = Len(q) + 1 \/ i \in 1 .. Len(q)
      BY <3>2
    <3>4. QED
      BY <1>3, <2>2, <2>4, <3>1, <3>2, <3>3 DEF q
  <2>6. \A k \in Clips : \A i \in DOMAIN snapshots'[k] : snapshots'[k][i].polledAt <= clock'
    BY <1>5, <2>1, <2>4, <2>5
  <2>7. \A k : rowsOf(k)' = rowsOf(k) /\ queued(k)' = queued(k)
    BY <2>1 DEF rowsOf, queued
  <2>8. ASSUME NEW k \in Clips, rowsOf(k)' # {}
        PROVE  queued(k)' <= MaxViewsPerTick * latestViewSnapshot(k)'.polledAt
    <3>1. /\ latestViewSnapshot(k).polledAt <= latestViewSnapshot(k)'.polledAt
          /\ latestViewSnapshot(k).polledAt \in Int /\ latestViewSnapshot(k)'.polledAt \in Int
      BY <2>1, SnapshotStored
    <3>2. /\ MaxViewsPerTick * latestViewSnapshot(k).polledAt
                <= MaxViewsPerTick * latestViewSnapshot(k)'.polledAt
          /\ MaxViewsPerTick * latestViewSnapshot(k).polledAt \in Int
          /\ MaxViewsPerTick * latestViewSnapshot(k)'.polledAt \in Int
      BY <3>1, Plausible
    <3>3. queued(k)' = queued(k) /\ rowsOf(k) # {}
      BY <2>7, <2>8
    <3>4. queued(k) <= MaxViewsPerTick * latestViewSnapshot(k).polledAt /\ queued(k) \in Nat
      BY <1>6, <1>7, <3>3
    <3>5. QED
      BY <3>2, <3>3, <3>4
  <2>9. ASSUME pc' = "queue", rowsOf(poll.clip)' # {}
        PROVE  queued(poll.clip)' <= MaxViewsPerTick * poll'.previous.polledAt
    <3>1. poll.previous = latestViewSnapshot(c) /\ UNCHANGED poll
      BY <1>2, <1>8, <2>3, <2>9, ApprovedIsNewest
    <3>2. rowsOf(c)' # {} /\ queued(poll.clip)' = queued(c)'
      BY <2>3, <2>9, <3>1 DEF rowsOf, queued
    <3>3. QED
      BY <1>6, <2>7, <3>1, <3>2
  <2>10. QED
    BY <2>6, <2>8, <2>9
<1>9. CASE QueuePending
  <2>1. PICK row \in PendingRow :
           /\ pendingRows' = pendingRows \cup {row}
           /\ row.clip = poll.clip /\ row.polledAt = poll.polledAt
           /\ row.viewDelta = poll.count - poll.previous.count /\ row.viewDelta \in Nat
    BY <1>9, QueuedRow
  <2>2. /\ pc = "queue" /\ pc \in Polling /\ pc' = "next" /\ SnapshotsStay /\ ~idTaken
        /\ UNCHANGED clock
    BY <1>9 DEF QueuePending, NextClip, SnapshotsStay, Polling, othersVars
  <2>3. PICK c \in Clips : c = poll.clip /\ c = row.clip
    BY <2>1, <2>2, PollFields
  <2>4. row \notin pendingRows
    BY <2>1, <2>2 DEF idTaken
  <2>5. queued(c)' = row.viewDelta + queued(c)
    <3>1. queued(row.clip)' = row.viewDelta + queued(row.clip)
      BY <1>3, <2>1, <2>4, QueuedGrows
    <3>2. QED
      BY <2>3, <3>1
  <2>6. /\ poll.polledAt \in Nat /\ poll.previous.polledAt \in Nat
        /\ poll.previous.polledAt < poll.polledAt
        /\ row.viewDelta <= MaxViewsPerTick * (poll.polledAt - poll.previous.polledAt)
    <3>1. poll.previous \in Snapshot /\ poll.polledAt \in Nat /\ poll.count \in Nat
      BY <2>2, PollFields DEF PollInv
    <3>2. validateViewDelta(poll.previous, poll.count, poll.polledAt)
      BY <2>2 DEF PollInv
    <3>3. poll.previous.polledAt \in Nat /\ poll.previous.count \in Nat
      BY <3>1 DEF Snapshot
    <3>4. MaxViewsPerTick * (poll.polledAt - poll.previous.polledAt) \in Int
      BY <3>1, <3>3, PollerAssumption
    <3>5. QED
      BY <2>1, <3>1, <3>2, <3>3, <3>4
         DEF validateViewDelta, nonPositiveInterval, implausibleJump
  <2>7. queued(c) <= MaxViewsPerTick * poll.previous.polledAt
    <3>1. CASE rowsOf(c) # {}
      BY <1>2, <2>2, <2>3, <3>1 DEF RateInv
    <3>2. CASE rowsOf(c) = {}
      <4>1. MaxViewsPerTick * poll.previous.polledAt \in Nat
        BY <2>6, PollerAssumption
      <4>2. QED
        BY <1>7, <3>2, <4>1
    <3>3. QED
      BY <3>1, <3>2
  <2>8. queued(c)' <= MaxViewsPerTick * poll.polledAt
    <3>1. /\ MaxViewsPerTick * poll.previous.polledAt \in Int
          /\ MaxViewsPerTick * poll.previous.polledAt
                + MaxViewsPerTick * (poll.polledAt - poll.previous.polledAt)
                = MaxViewsPerTick * poll.polledAt
      <4>1. /\ poll.previous.polledAt \in Int /\ poll.polledAt \in Int
            /\ poll.previous.polledAt <= poll.polledAt
        BY <2>6
      <4>2. QED
        BY <4>1, Plausible
    <3>2. MaxViewsPerTick * (poll.polledAt - poll.previous.polledAt) \in Int
      BY <2>6, PollerAssumption
    <3>3. queued(c) \in Nat /\ row.viewDelta \in Nat
      BY <1>7, <2>1
    <3>4. QED
      BY <2>5, <2>6, <2>7, <3>1, <3>2, <3>3
  <2>9. poll.polledAt <= latestViewSnapshot(c).polledAt /\ latestViewSnapshot(c).polledAt \in Int
    BY <1>2, <2>2, <2>3, LatestType DEF TimesInv
  <2>10. \A k : latestViewSnapshot(k)' = latestViewSnapshot(k)
    BY <2>2 DEF SnapshotsStay, latestViewSnapshot
  <2>11. ASSUME NEW k \in Clips, rowsOf(k)' # {}
         PROVE  queued(k)' <= MaxViewsPerTick * latestViewSnapshot(k)'.polledAt
    <3>1. CASE k = c
      <4>1. /\ MaxViewsPerTick * poll.polledAt
                  <= MaxViewsPerTick * latestViewSnapshot(c).polledAt
            /\ MaxViewsPerTick * poll.polledAt \in Int
            /\ MaxViewsPerTick * latestViewSnapshot(c).polledAt \in Int
        <5>1. poll.polledAt \in Int
          BY <2>6
        <5>2. QED
          BY <2>9, <5>1, Plausible
      <4>2. queued(c)' \in Int
        BY <1>7, <2>1, <2>5
      <4>3. queued(c)' <= MaxViewsPerTick * latestViewSnapshot(c).polledAt
        BY <2>8, <4>1, <4>2
      <4>4. QED
        BY <2>10, <3>1, <4>3
    <3>2. CASE k # c
      <4>1. rowsOf(k)' = rowsOf(k)
        BY <2>1, <2>3, <3>2 DEF rowsOf
      <4>2. queued(k)' = queued(k)
        BY <4>1 DEF queued
      <4>3. QED
        BY <1>6, <2>10, <2>11, <4>1, <4>2
    <3>3. QED
      BY <3>1, <3>2
  <2>12. \A k \in Clips : \A i \in DOMAIN snapshots'[k] : snapshots'[k][i].polledAt <= clock'
    BY <1>5, <2>2 DEF SnapshotsStay
  <2>13. QED
    BY <2>2, <2>11, <2>12
<1>10. CASE ~InsertViewSnapshot /\ ~QueuePending
  <2>1. UNCHANGED pendingRows /\ SnapshotsStay
    BY <1>10, RowsStay, StoredOnlyByInsert
  <2>2. \A k : /\ latestViewSnapshot(k)' = latestViewSnapshot(k)
               /\ rowsOf(k)' = rowsOf(k) /\ queued(k)' = queued(k)
    BY <2>1 DEF SnapshotsStay, latestViewSnapshot, rowsOf, queued
  <2>3. ASSUME pc' = "queue", rowsOf(poll.clip)' # {}
        PROVE  queued(poll.clip)' <= MaxViewsPerTick * poll'.previous.polledAt
    <3>1. pc = "queue" /\ UNCHANGED poll
      BY <1>10, <2>3, QueueReachedByInsert
    <3>2. rowsOf(poll.clip)' = rowsOf(poll.clip) /\ queued(poll.clip)' = queued(poll.clip)
      BY <2>1, <3>1 DEF rowsOf, queued
    <3>3. QED
      BY <1>2, <2>3, <3>1, <3>2 DEF RateInv
  <2>4. \A k \in Clips : \A i \in DOMAIN snapshots'[k] : snapshots'[k][i].polledAt <= clock'
    <3>1. ASSUME NEW k \in Clips, NEW i \in DOMAIN snapshots[k]
          PROVE  snapshots[k][i].polledAt <= clock'
      BY <1>3, <1>4, <1>5
    <3>2. QED
      BY <2>1, <3>1 DEF SnapshotsStay
  <2>5. QED
    BY <1>6, <2>2, <2>3, <2>4
<1>11. QED
  BY <1>8, <1>9, <1>10

\* Whatever counts X answered, all that was queued of a clip together is plausible for
\* the time that passed, as long as the clock goes forward (engine.ts:37-44, 72-92).
THEOREM QueueIsPlausible == Spec => []QueuedWithinPlausibleRate
<1>1. Init => RowsInv /\ RateInv
  BY EmptySeq, FS_EmptySet DEF Init, RowsInv, RateInv, rowsOf
<1>2. TypeInv /\ TypeInv' /\ PollInv /\ RowsInv /\ TimesInv /\ RateInv /\ [Next]_vars
         => RowsInv' /\ RateInv'
  BY RowsStep, RateStep
<1>3. ASSUME TypeInv, RowsInv, RateInv  PROVE QueuedWithinPlausibleRate
  <2>1. SUFFICES ASSUME met \subseteq {"dip"}, NEW k \in Clips
                 PROVE  queued(k) <= MaxViewsPerTick * clock
    BY DEF QueuedWithinPlausibleRate, queued
  <2>2. queued(k) \in Nat /\ (rowsOf(k) = {} => queued(k) = 0) /\ clock \in Nat
    BY <1>3, QueuedType DEF RateInv, TypeInv, TypeOK
  <2>3. CASE rowsOf(k) = {}
    <3>1. MaxViewsPerTick * clock \in Nat
      BY <2>2, PollerAssumption
    <3>2. QED
      BY <2>2, <2>3, <3>1
  <2>4. CASE rowsOf(k) # {}
    <3>1. latestViewSnapshot(k).polledAt <= clock /\ latestViewSnapshot(k).polledAt \in Int
      BY <1>3, <2>1, <2>2, LatestType DEF RateInv, NoSnapshot
    <3>2. /\ MaxViewsPerTick * latestViewSnapshot(k).polledAt <= MaxViewsPerTick * clock
          /\ MaxViewsPerTick * latestViewSnapshot(k).polledAt \in Int
          /\ MaxViewsPerTick * clock \in Int
      <4>1. clock \in Int
        BY <2>2
      <4>2. QED
        BY <3>1, <4>1, Plausible
    <3>3. queued(k) <= MaxViewsPerTick * latestViewSnapshot(k).polledAt
      BY <1>3, <2>1, <2>4 DEF RateInv
    <3>4. QED
      BY <2>2, <3>2, <3>3
  <2>5. QED
    BY <2>3, <2>4
<1>4. QED
  BY <1>1, <1>2, <1>3, TimesHold, PTL DEF Spec

-----------------------------------------------------------------------------
(* From approval to the queue.                                             *)

LEMMA QueueStep ==
    ASSUME TypeInv, PollInv, TimesInv, QueueInv, [Next]_vars
    PROVE  QueueInv'
<1> DEFINE Row(a, rows) == \E r \in rows : /\ r.clip = a.clip /\ r.polledAt = a.polledAt
                                           /\ r.from = a.from /\ r.to = a.to
           On(a, p) == /\ p.clip = a.clip /\ p.polledAt = a.polledAt
                       /\ p.previous.count = a.from /\ p.count = a.to
<1>1. SUFFICES ASSUME {"crash", "stamp"} \cap Faults = {}
               PROVE  /\ "stamp" \notin met'
                      /\ \A a \in approved' :
                           Row(a, pendingRows') \/ (pc' = "queue" /\ On(a, poll'))
  BY DEF QueueInv
<1>2. /\ "stamp" \notin met
      /\ \A a \in approved : Row(a, pendingRows) \/ (pc = "queue" /\ On(a, poll))
  BY <1>1 DEF QueueInv
<1> HIDE DEF Row, On
<1>3. ~Fault("crash") /\ ~Fault("stamp")
  BY <1>1 DEF Fault
<1>4. CASE InsertViewSnapshot
  <2>1. pc = "snapshot" /\ UNCHANGED <<pendingRows, met>>
    BY <1>4, InsertFacts
  <2>2. CASE pc' = "queue" /\ UNCHANGED poll
    <3> DEFINE new == [clip |-> poll.clip, from |-> poll.previous.count,
                       to |-> poll.count, polledAt |-> poll.polledAt]
    <3>1. approved' = approved \cup {new}
      BY <1>4, <2>2, InsertFacts
    <3>2. On(new, poll)
      BY DEF On
    <3> HIDE DEF new
    <3>3. QED
      BY <1>2, <2>1, <2>2, <3>1, <3>2
  <2>3. CASE ~(pc' = "queue" /\ UNCHANGED poll)
    <3>1. UNCHANGED approved
      BY <1>4, <2>3, InsertFacts
    <3>2. QED
      BY <1>2, <2>1, <3>1
  <2>4. QED
    BY <2>2, <2>3
<1>5. CASE QueuePending
  <2>1. PICK row \in PendingRow :
           /\ pendingRows' = pendingRows \cup {row}
           /\ row.clip = poll.clip /\ row.polledAt = poll.polledAt
           /\ row.from = poll.previous.count /\ row.to = poll.count
    BY <1>5, QueuedRow
  <2>2. UNCHANGED <<approved, met>>
    BY <1>5 DEF QueuePending
  <2>3. \A a \in approved : Row(a, pendingRows')
    BY <1>2, <2>1 DEF Row, On
  <2>4. QED
    BY <1>2, <2>2, <2>3
<1>6. CASE QueueRejected
  BY <1>2, <1>6, ApprovedIdIsFresh DEF QueueRejected
<1>7. CASE Others \/ UNCHANGED vars
  <2>1. UNCHANGED <<approved, pendingRows, pc, poll>>
    BY <1>7 DEF Others, ViewersWatch, Tick, ClockSetBack, SetClipCapped, CloseCampaign,
                SetEffectiveRate, ownVars, vars
  <2>2. "stamp" \notin met'
    BY <1>2, <1>3, <1>7 DEF Others, ViewersWatch, Tick, ClockSetBack, SetClipCapped,
                CloseCampaign, SetEffectiveRate, vars
  <2>3. QED
    BY <1>2, <2>1, <2>2
<1>8. CASE ListActiveClips \/ EndCycle \/ ReadPrevious \/ FetchFails \/ FetchAnswers \/ Restart
  <2>1. UNCHANGED <<approved, pendingRows>> /\ pc # "queue"
    BY <1>8 DEF ListActiveClips, EndCycle, ReadPrevious, FetchFails, FetchAnswers, Restart
  <2>2. met' = met \/ met' = met \cup {"dip"}
    <3>1. CASE FetchAnswers
      BY <3>1 DEF FetchAnswers
    <3>2. CASE ~FetchAnswers
      BY <1>8, <3>2 DEF ListActiveClips, EndCycle, ReadPrevious, FetchFails, Restart
    <3>3. QED
      BY <3>1, <3>2
  <2>3. "stamp" \notin met'
    BY <1>2, <2>2
  <2>4. QED
    BY <1>2, <2>1, <2>3
<1>9. CASE Crash
  BY <1>3, <1>9 DEF Crash
<1>10. QED
  BY <1>4, <1>5, <1>6, <1>7, <1>8, <1>9 DEF Next, Poller

\* "The poller inserts a 'pending' row whenever validateViewDelta APPROVES a delta"
\* (schema.sql:120-121): so it does, for every history of answers and of the clock,
\* unless it dies in between, or takes the two times of a poll across a clock set back.
THEOREM ApprovedIsQueued ==
    ASSUME {"crash", "stamp"} \cap Faults = {}
    PROVE  Spec => []ApprovedDeltasAreQueued
<1>1. Init => QueueInv
  BY DEF Init, QueueInv
<1>2. TypeInv /\ PollInv /\ TimesInv /\ QueueInv /\ [Next]_vars => QueueInv'
  BY QueueStep
<1>3. QueueInv => ApprovedDeltasAreQueued
  BY DEF QueueInv, ApprovedDeltasAreQueued
<1>4. QED
  BY <1>1, <1>2, <1>3, TimesHold, PTL DEF Spec

-----------------------------------------------------------------------------
\* The parts together are inductive: what a poll carries and a row was queued for
\* agrees with the snapshots, through crashes, failed requests, dips and clocks set back.
THEOREM PollerInvariant == Spec => []IInv
<1>1. Init => IInv
  <2>1. Init => TypeInv /\ PollInv
    BY InitTypes
  <2>2. Init => RowsInv /\ ListInv /\ StaleInv
    BY DEF Init, RowsInv, ListInv, StaleInv, Polling
  <2>3. Init => TimesInv /\ ViewsInv /\ QueueInv
    BY EmptySeq DEF Init, TimesInv, ViewsInv, QueueInv
  <2>4. Init => RateInv
    BY EmptySeq, FS_EmptySet DEF Init, RateInv, rowsOf
  <2>5. QED
    BY <2>1, <2>2, <2>3, <2>4 DEF IInv
<1>2. IInv /\ [Next]_vars => IInv'
  <2>1. SUFFICES ASSUME IInv, [Next]_vars  PROVE IInv'
    OBVIOUS
  <2>2. (TypeInv /\ PollInv)'
    BY <2>1, TypeStep, PollStep DEF IInv
  <2>3. RowsInv' /\ ListInv' /\ StaleInv'
    BY <2>1, RowsStep, ListStep, StaleStep DEF IInv
  <2>4. TimesInv' /\ QueueInv'
    BY <2>1, <2>2, TimesStep, QueueStep DEF IInv
  <2>5. ViewsInv' /\ RateInv'
    BY <2>1, <2>2, ViewsStep, RateStep DEF IInv
  <2>6. QED
    BY <2>2, <2>3, <2>4, <2>5 DEF IInv
<1>3. QED
  BY <1>1, <1>2, PTL DEF Spec

\* The tables and a poll under way have the types the schema gives them, for any number
\* of clips and polls (db/schema.sql:109-150).
THEOREM PollerTypeCorrect == Spec => []TypeOK
<1>1. IInv => TypeOK
  BY DEF IInv, TypeInv
<1>2. QED
  BY <1>1, PollerInvariant, PTL
=============================================================================
