------------------------------ MODULE PacingMath ------------------------------
(***************************************************************************)
(* The arithmetic of pacing/pacingEngine.ts and of applyLlmAdjustment in   *)
(* pacing/llmAdvisor.ts: BigInt in the source, ratios in basis points.     *)
(***************************************************************************)
EXTENDS Integers

BP == 10000
BASE_MULTIPLIER_BP == 5000
RUNWAY_THRESHOLD_BP == 2000
RUNWAY_THROTTLE_BP == 7000

\* The smaller of a rate and the campaign's ceiling.
atMost(rate, maxCpm) == IF rate > maxCpm THEN maxCpm ELSE rate

\* A campaign without any budget is not short of it.
runwayLow(remainingBalance, totalBudget) ==
    /\ totalBudget > 0
    /\ (remainingBalance * BP) \div totalBudget < RUNWAY_THRESHOLD_BP

\* 0.5 + (share of the velocity / even share) * 0.5, for a velocity that is not zero.
multiplierBp(velocity, n, totalVelocity) ==
    BASE_MULTIPLIER_BP + (velocity * n * BASE_MULTIPLIER_BP) \div totalVelocity

\* The rate under which a clip goes on: raised or lowered, clamped, then throttled.
pacedRate(cpmRate, maxCpm, multiplier, throttled) ==
    LET rate == atMost((cpmRate * multiplier) \div BP, maxCpm)
    IN  IF throttled THEN atMost((rate * RUNWAY_THROTTLE_BP) \div BP, maxCpm) ELSE rate

\* The factor is applied to the rate and the result taken as it is.
applyLlmAdjustmentUnclamped(rate, factorBp, maxCpm) == (rate * factorBp) \div BP

\* Clamped to [0, max_cpm], whatever the factor.
applyLlmAdjustment(rate, factorBp, maxCpm) ==
    LET adjusted == (rate * factorBp) \div BP
    IN  atMost(IF adjusted < 0 THEN 0 ELSE adjusted, maxCpm)
=============================================================================
