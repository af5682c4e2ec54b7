------------------------------ MODULE PayoutMath ------------------------------
(***************************************************************************)
(* The payout arithmetic of settlement/pendingSettlement.ts, the rate of   *)
(* poller/viewPoller.ts and the checks settlement/worker.ts makes before   *)
(* it pays.  All amounts are BigInt in the source: naturals without bound  *)
(* here, and `/` on BigInt is \div.                                        *)
(***************************************************************************)
EXTENDS Integers

\* cap: null, an uncapped clip.
NoCap == -1

Caps == Nat \cup {NoCap}

\* Rounded in the clipper's favour.
perViewRateRoundedUp(cpm) == (cpm + 999) \div 1000

\* USDC base units per view from USDC base units per thousand views, floored.
perViewRate(cpm) == cpm \div 1000

computeSettlementAmount(viewDelta, rate) == viewDelta * rate

\* The requested amount goes out whole as long as anything is left of the cap.
clampToRemainingCapOnce(requested, alreadyPaid, cap) ==
    IF cap = NoCap \/ cap - alreadyPaid > 0
      THEN [payable |-> requested, isCapped |-> FALSE]
      ELSE [payable |-> 0, isCapped |-> TRUE]

\* A capped clip is paid what is left of its cap, requested or not.
clampToRemainingCapInFull(requested, alreadyPaid, cap) ==
    IF cap = NoCap
      THEN [payable |-> requested, isCapped |-> FALSE]
      ELSE [payable |-> IF cap > alreadyPaid THEN cap - alreadyPaid ELSE 0,
            isCapped |-> TRUE]

clampToRemainingCap(requested, alreadyPaid, cap) ==
    LET remaining == cap - alreadyPaid
    IN  IF cap = NoCap \/ (remaining > 0 /\ requested <= remaining)
          THEN [payable |-> requested, isCapped |-> FALSE]
          ELSE [payable |-> IF remaining > 0 THEN remaining ELSE 0, isCapped |-> TRUE]

\* The worker's defence against a queued amount computed under a rate above
\* the campaign's max_cpm: both sides are floored.
exceedsRateCeiling(amount, viewDelta, maxCpm) ==
    viewDelta > 0 /\ amount \div viewDelta > maxCpm \div 1000

(***************************************************************************)
(* Why the worker refuses to pay a row, in the order it asks; "none" when  *)
(* it goes on to release.                                                  *)
(***************************************************************************)
rejectReason(requested, viewDelta, maxCpm, alreadyPaid, cap) ==
    IF requested = 0 THEN "zero"
    ELSE IF exceedsRateCeiling(requested, viewDelta, maxCpm) THEN "rateCeiling"
    ELSE IF clampToRemainingCap(requested, alreadyPaid, cap).payable = 0 THEN "capReached"
    ELSE "none"

RejectReasons == {"zero", "rateCeiling", "capReached"}
=============================================================================
