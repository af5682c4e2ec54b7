-------------------------- MODULE PacingAgentProofs --------------------------
(***************************************************************************)
(* What the pacing arithmetic guarantees for every rate and factor, and    *)
(* that the decision feed shows the rates in force (FeedShowsRates) for    *)
(* every set of campaigns and clips, whatever Claude answers and whenever  *)
(* the agent dies.                                                         *)
(*                                                                         *)
(* FeedShowsRates is not inductive: a row is true because the rate it is   *)
(* about was written just before, and follows the one before it because    *)
(* the agent alone writes rates, so that what it read at the start of the  *)
(* pass is still in force.  FeedInv says both.                             *)
(***************************************************************************)
EXTENDS PacingAgent, SumProofs, TLAPS

(***************************************************************************)
(* applyLlmAdjustment (llmAdvisor.ts:166-172): whatever factor Claude      *)
(* suggests, a rate stays between zero and the campaign's ceiling.         *)
(***************************************************************************)
THEOREM AdjustmentRespectsCeiling ==
    ASSUME NEW rate \in Int, NEW factorBp \in Int, NEW maxCpm \in Nat
    PROVE  /\ applyLlmAdjustment(rate, factorBp, maxCpm) \in Nat
           /\ applyLlmAdjustment(rate, factorBp, maxCpm) <= maxCpm
<1>1. (rate * factorBp) \div BP \in Int
  BY DEF BP
<1>2. QED
  BY <1>1 DEF applyLlmAdjustment, atMost

(***************************************************************************)
(* computePacingDecisions (pacingEngine.ts:109-118): the rate of a clip    *)
(* with a share of the velocity is a natural number within the ceiling,    *)
(* throttled or not.                                                       *)
(***************************************************************************)
THEOREM PacedRateRespectsCeiling ==
    ASSUME NEW cpmRate \in Nat, NEW maxCpm \in Nat, NEW n \in Nat,
           NEW v \in Nat, NEW total \in Nat \ {0}, NEW throttled \in BOOLEAN
    PROVE  LET rate == pacedRate(cpmRate, maxCpm, multiplierBp(v, n, total), throttled)
           IN  rate \in Nat /\ rate <= maxCpm
<1> DEFINE m == multiplierBp(v, n, total)
           raw == (cpmRate * m) \div BP
           clamped == atMost(raw, maxCpm)
<1>1. m \in Nat
  <2>1. v * n * BASE_MULTIPLIER_BP \in Nat
    BY DEF BASE_MULTIPLIER_BP
  <2>2. (v * n * BASE_MULTIPLIER_BP) \div total \in Nat
    BY <2>1
  <2>3. QED
    BY <2>2 DEF multiplierBp, BASE_MULTIPLIER_BP
<1>2. raw \in Nat
  BY <1>1 DEF BP
<1>3. clamped \in Nat /\ clamped <= maxCpm
  BY <1>2 DEF atMost
<1>4. (clamped * RUNWAY_THROTTLE_BP) \div BP \in Nat
  BY <1>3 DEF RUNWAY_THROTTLE_BP, BP
<1>5. QED
  BY <1>3, <1>4 DEF pacedRate, atMost

-----------------------------------------------------------------------------
\* Where the agent may be between the first read of a campaign and its last write.
InHand == {"balance", "settled", "llm", "rate", "row"}

PassFields == {"campaign", "velocity", "oldRate", "balance", "throttled", "rate",
               "llmUsed", "todo", "clip", "undisturbed"}

FunctionOn(f, S) == DOMAIN f = S /\ f = [x \in S |-> f[x]]

\* The clips of a pass are clips of its campaign.
PassInv ==
    pc \in InHand =>
       /\ FunctionOn(pass, PassFields)
       /\ \A k \in DOMAIN pass.velocity : k \in Clips /\ CampaignOf[k] = pass.campaign

\* Whose rate this pass has still to write.
waiting(k) ==
    /\ \/ pc \in {"balance", "settled", "llm"}
       \/ pc \in {"rate", "row"} /\ k \in pass.todo
    /\ k \in DOMAIN pass.velocity

\* What was read of them is still true, and the row to be inserted is about the rate
\* that was just written.
ReadsInv ==
    /\ \A k \in Clips : waiting(k) => pass.oldRate[k] = inForce(k)
    /\ pc \in {"rate", "row"} => pass.todo \subseteq DOMAIN pass.velocity
    /\ pc = "row" =>
          /\ pass.clip \in DOMAIN pass.velocity
          /\ pass.clip \notin pass.todo
          /\ effectiveRate[pass.clip] = pass.rate[pass.clip]
          /\ pass.clip \notin torn => pass.oldRate[pass.clip] = shown(pass.clip)

FeedInv ==
    /\ submitted \subseteq Clips
    /\ torn \subseteq Clips
    /\ FunctionOn(effectiveRate, Clips)
    /\ FunctionOn(feed, Clips)
    /\ PassInv
    /\ ReadsInv
    /\ FeedShowsRates

LEMMA FeedInvInit == Init => FeedInv
<1> SUFFICES ASSUME Init PROVE FeedInv
  OBVIOUS
<1>1. PassInv /\ ReadsInv
  BY DEF Init, PassInv, ReadsInv, InHand, waiting
<1>2. FeedShowsRates
  BY DEF Init, FeedShowsRates, inForce, shown, NoRow
<1>3. QED
  BY <1>1, <1>2 DEF Init, FeedInv, FunctionOn

(***************************************************************************)
(* Steps that change neither rates nor rows, and either leave the pass in  *)
(* hand as it is or give it up.                                            *)
(***************************************************************************)
LEMMA PassKept ==
    ASSUME FeedInv, submitted' \subseteq Clips,
           UNCHANGED <<effectiveRate, feed, torn, pc, pass>>
    PROVE  FeedInv'
<1>1. PassInv' /\ ReadsInv'
  BY DEF FeedInv, PassInv, ReadsInv, waiting, inForce, shown
<1>2. FeedShowsRates'
  BY DEF FeedInv, FeedShowsRates, inForce, shown
<1>3. QED
  BY <1>1, <1>2 DEF FeedInv

LEMMA PassGivenUp ==
    ASSUME FeedInv, submitted' \subseteq Clips, pc' \notin InHand,
           UNCHANGED <<effectiveRate, feed>>,
           \/ torn' = torn /\ pc # "row"
           \/ torn' = IF pc = "row" THEN torn \cup {pass.clip} ELSE torn
    PROVE  FeedInv'
<1>1. pc' # "row" /\ PassInv' /\ ReadsInv'
  BY DEF PassInv, ReadsInv, waiting, InHand
<1>2. torn' \subseteq Clips
  BY DEF FeedInv, PassInv, ReadsInv, InHand
<1>3. FeedShowsRates'
  BY <1>1 DEF FeedInv, FeedShowsRates, inForce, shown
<1>4. QED
  BY <1>1, <1>2, <1>3 DEF FeedInv

(***************************************************************************)
(* Steps of a pass that only write to the agent's own memory, and nothing  *)
(* that the invariant looks at, before the loop over the decisions begins. *)
(***************************************************************************)
LEMMA PassGoesOn ==
    ASSUME FeedInv, UNCHANGED <<submitted, effectiveRate, feed, torn>>,
           pc \in {"balance", "settled", "llm"}, FunctionOn(pass', PassFields),
           pass'.campaign = pass.campaign, pass'.velocity = pass.velocity,
           pass'.oldRate = pass.oldRate,
           \/ pc' \in {"balance", "settled", "llm"}
           \/ pc' = "rate" /\ pass'.todo = DOMAIN pass.velocity
    PROVE  FeedInv'
<1>1. PassInv'
  BY DEF FeedInv, PassInv, InHand
<1>2. ReadsInv'
  BY DEF FeedInv, ReadsInv, waiting, inForce
<1>3. FeedShowsRates'
  BY DEF FeedInv, FeedShowsRates, inForce, shown
<1>4. QED
  BY <1>1, <1>2, <1>3 DEF FeedInv

LEMMA FeedInvStartCampaign == FeedInv /\ StartCampaign => FeedInv'
<1> SUFFICES ASSUME FeedInv, StartCampaign PROVE FeedInv'
  OBVIOUS
<1> USE DEF dbVars, chainVars
<1>1. PICK c \in listed :
         /\ pass' = [campaign |-> c,
                     velocity |-> [k \in clipsOf(c) |-> velocity[k]],
                     oldRate |-> [k \in clipsOf(c) |-> inForce(k)],
                     balance |-> 0, throttled |-> FALSE, rate |-> << >>,
                     llmUsed |-> FALSE, todo |-> {}, clip |-> 0,
                     undisturbed |-> unbooked[c] = 0]
         /\ pc' \in {"next", "balance"}
  BY DEF StartCampaign
<1>2. UNCHANGED <<submitted, effectiveRate, feed, torn>> /\ pc = "next"
  BY DEF StartCampaign
<1>3. CASE pc' = "next"
  BY <1>2, <1>3, PassGivenUp DEF FeedInv, InHand
<1>4. CASE pc' = "balance"
  <2>1. /\ FunctionOn(pass', PassFields)
        /\ pass'.campaign = c
        /\ DOMAIN pass'.velocity = clipsOf(c)
        /\ \A k \in clipsOf(c) : pass'.oldRate[k] = inForce(k)
    BY <1>1 DEF FunctionOn, PassFields
  <2>2. \A k \in clipsOf(c) : k \in Clips /\ CampaignOf[k] = c
    BY DEF clipsOf, FeedInv
  <2>3. PassInv'
    BY <2>1, <2>2 DEF PassInv
  <2>4. ReadsInv'
    BY <1>2, <1>4, <2>1 DEF ReadsInv, waiting, inForce
  <2>5. FeedShowsRates'
    BY <1>2, <1>4 DEF FeedInv, FeedShowsRates, inForce, shown
  <2>6. QED
    BY <1>2, <2>3, <2>4, <2>5 DEF FeedInv
<1>5. QED
  BY <1>1, <1>3, <1>4

LEMMA FeedInvBalanceAnswers == FeedInv /\ BalanceAnswers => FeedInv'
<1> SUFFICES ASSUME FeedInv, BalanceAnswers PROVE FeedInv'
  OBVIOUS
<1>1. FunctionOn(pass, PassFields) /\ pc = "balance"
  BY DEF BalanceAnswers, FeedInv, PassInv, InHand
<1>2. QED
  BY <1>1, PassGoesOn DEF BalanceAnswers, FunctionOn, PassFields, dbVars

LEMMA FeedInvDecide == FeedInv /\ Decide => FeedInv'
<1> SUFFICES ASSUME FeedInv, Decide PROVE FeedInv'
  OBVIOUS
<1>1. FunctionOn(pass, PassFields) /\ pc = "settled"
  BY DEF Decide, FeedInv, PassInv, InHand
<1>2. PICK t, r : pass' = [pass EXCEPT !.throttled = t, !.rate = r]
  BY DEF Decide
<1>3. QED
  BY <1>1, <1>2, PassGoesOn DEF Decide, FunctionOn, PassFields, dbVars

LEMMA FeedInvLlmFails == FeedInv /\ LlmFails => FeedInv'
<1> SUFFICES ASSUME FeedInv, LlmFails PROVE FeedInv'
  OBVIOUS
<1>1. FunctionOn(pass, PassFields) /\ pc = "llm"
  BY DEF LlmFails, FeedInv, PassInv, InHand
<1>2. QED
  BY <1>1, PassGoesOn DEF LlmFails, StartWriting, FunctionOn, PassFields, dbVars

LEMMA FeedInvLlmAnswers == FeedInv /\ LlmAnswers => FeedInv'
<1> SUFFICES ASSUME FeedInv, LlmAnswers PROVE FeedInv'
  OBVIOUS
<1>1. FunctionOn(pass, PassFields) /\ pc = "llm"
  BY DEF LlmAnswers, FeedInv, PassInv, InHand
<1>2. PICK r : StartWriting([pass EXCEPT !.llmUsed = TRUE, !.rate = r])
  BY DEF LlmAnswers
<1>3. /\ FunctionOn(pass', PassFields)
      /\ pass'.campaign = pass.campaign
      /\ pass'.velocity = pass.velocity
      /\ pass'.oldRate = pass.oldRate
      /\ pass'.todo = DOMAIN pass.velocity
  BY <1>1, <1>2 DEF StartWriting, FunctionOn, PassFields
<1>4. pc' = "rate" /\ UNCHANGED <<submitted, effectiveRate, feed, torn>>
  BY <1>2 DEF LlmAnswers, StartWriting, dbVars
<1>5. QED
  BY <1>1, <1>3, <1>4, PassGoesOn

-----------------------------------------------------------------------------
LEMMA FeedInvSetClipEffectiveCpmRate ==
    FeedInv /\ SetClipEffectiveCpmRate => FeedInv'
<1> SUFFICES ASSUME FeedInv, SetClipEffectiveCpmRate PROVE FeedInv'
  OBVIOUS
<1>1. PICK k \in pass.todo :
         /\ effectiveRate' = [effectiveRate EXCEPT ![k] = pass.rate[k]]
         /\ pass' = [pass EXCEPT !.todo = @ \ {k}, !.clip = k]
  BY DEF SetClipEffectiveCpmRate
<1>2. /\ pc = "rate" /\ pc' = "row"
      /\ UNCHANGED <<submitted, feed, torn>>
  BY DEF SetClipEffectiveCpmRate
<1>3. /\ FunctionOn(pass, PassFields)
      /\ pass.todo \subseteq DOMAIN pass.velocity
      /\ \A j \in DOMAIN pass.velocity : j \in Clips /\ CampaignOf[j] = pass.campaign
  BY <1>2 DEF FeedInv, PassInv, ReadsInv, InHand
<1>4. /\ FunctionOn(pass', PassFields)
      /\ pass'.campaign = pass.campaign
      /\ pass'.velocity = pass.velocity
      /\ pass'.oldRate = pass.oldRate
      /\ pass'.rate = pass.rate
      /\ pass'.todo = pass.todo \ {k}
      /\ pass'.clip = k
  BY <1>1, <1>3 DEF FunctionOn, PassFields
<1>5. k \in Clips /\ k \in DOMAIN pass.velocity
  BY <1>3
<1>6. /\ FunctionOn(effectiveRate', Clips)
      /\ effectiveRate'[k] = pass.rate[k]
      /\ \A j \in Clips \ {k} : effectiveRate'[j] = effectiveRate[j]
  BY <1>1, <1>5 DEF FeedInv, FunctionOn
<1>7. PassInv'
  BY <1>3, <1>4 DEF PassInv
<1>8. ReadsInv'
  <2>1. ASSUME NEW j \in Clips, waiting(j)' PROVE pass'.oldRate[j] = inForce(j)'
    <3>1. j # k /\ waiting(j)
      BY <1>2, <1>4, <2>1 DEF waiting
    <3>2. QED
      BY <1>4, <1>6, <3>1 DEF FeedInv, ReadsInv, inForce
  <2>2. k \notin torn => pass.oldRate[k] = shown(k)
    <3>1. waiting(k)
      BY <1>2, <1>5 DEF waiting
    <3>2. QED
      BY <1>2, <1>5, <3>1 DEF FeedInv, ReadsInv, FeedShowsRates
  <2>3. QED
    BY <1>2, <1>3, <1>4, <1>5, <1>6, <2>1, <2>2 DEF ReadsInv, shown
<1>9. FeedShowsRates'
  BY <1>2, <1>4, <1>6 DEF FeedInv, FeedShowsRates, inForce, shown
<1>10. QED
  BY <1>2, <1>6, <1>7, <1>8, <1>9 DEF FeedInv

LEMMA FeedInvInsertAgentDecision == FeedInv /\ InsertAgentDecision => FeedInv'
<1> SUFFICES ASSUME FeedInv, InsertAgentDecision PROVE FeedInv'
  OBVIOUS
<1>0. PICK k : k = pass.clip
  OBVIOUS
<1> DEFINE row == [newRate |-> newRate(k), follows |-> pass.oldRate[k] = shown(k),
                   llmUsed |-> pass.llmUsed /\ k \in pacedClips]
<1>1. /\ pc = "row"
      /\ pc' \in {"next", "rate"}
      /\ pc' = "rate" => pass' = pass
      /\ feed' = [feed EXCEPT ![k] = row]
      /\ torn' = IF feed'[k].follows THEN torn \ {k} ELSE torn
      /\ UNCHANGED <<submitted, effectiveRate>>
  BY <1>0 DEF InsertAgentDecision
<1>2. /\ k \in Clips /\ k \in DOMAIN pass.velocity /\ k \notin pass.todo
      /\ CampaignOf[k] = pass.campaign
      /\ effectiveRate[k] = pass.rate[k]
      /\ k \notin torn => pass.oldRate[k] = shown(k)
  BY <1>0, <1>1 DEF FeedInv, PassInv, ReadsInv, InHand
<1>3. /\ FunctionOn(feed', Clips)
      /\ feed'[k] = row
      /\ \A j \in Clips \ {k} : feed'[j] = feed[j]
  BY <1>1, <1>2 DEF FeedInv, FunctionOn
<1>4. row.newRate = newRate(k) /\ (row.follows <=> pass.oldRate[k] = shown(k))
  OBVIOUS
<1> HIDE DEF row
<1>5. newRate(k) = inForce(k) /\ newRate(k) # -1
  <2>1. CpmRate[CampaignOf[k]] \in Nat
    BY <1>2, PacingAssumption
  <2>2. QED
    BY <1>2, <2>1 DEF newRate, inForce, Unpaced
<1>6. shown(k)' = inForce(k)'
  <2>1. row # NoRow
    BY <1>4, <1>5 DEF NoRow
  <2>2. shown(k)' = row.newRate
    BY <1>3, <2>1 DEF shown
  <2>3. inForce(k)' = inForce(k)
    BY <1>1 DEF inForce
  <2>4. QED
    BY <1>4, <1>5, <2>2, <2>3
<1>7. torn' \subseteq torn /\ (k \notin torn' => feed'[k].follows)
  <2>1. CASE feed'[k].follows
    BY <1>1, <2>1
  <2>2. CASE ~feed'[k].follows
    BY <1>1, <1>2, <1>3, <1>4, <2>2
  <2>3. QED
    BY <2>1, <2>2
<1>8. \A j \in Clips \ {k} : j \in torn <=> j \in torn'
  BY <1>1
<1>9. FeedShowsRates'
  <2>1. ASSUME NEW j \in Clips \ torn'
        PROVE  feed'[j].follows /\ inForce(j)' = shown(j)'
    <3>1. CASE j = k
      BY <1>6, <1>7, <3>1
    <3>2. CASE j # k
      BY <1>0, <1>1, <1>3, <1>8, <3>2 DEF FeedInv, FeedShowsRates, inForce, shown
    <3>3. QED
      BY <3>1, <3>2
  <2>2. QED
    BY <2>1 DEF FeedShowsRates
<1>10. PassInv' /\ ReadsInv'
  <2>1. CASE pc' = "next"
    BY <2>1 DEF PassInv, ReadsInv, waiting, InHand
  <2>2. CASE pc' = "rate"
    BY <1>0, <1>1, <2>2 DEF FeedInv, PassInv, ReadsInv, waiting, InHand, inForce
  <2>3. QED
    BY <1>1, <2>1, <2>2
<1>11. QED
  BY <1>1, <1>3, <1>7, <1>9, <1>10 DEF FeedInv

LEMMA FeedInvOrganizerTopsUp == FeedInv /\ OrganizerTopsUp => FeedInv'
<1> SUFFICES ASSUME FeedInv, OrganizerTopsUp PROVE FeedInv'
  OBVIOUS
<1>1. UNCHANGED <<submitted, effectiveRate, feed, torn, pc>>
  BY DEF OrganizerTopsUp, agentVars, dbVars
<1>2. CASE pass' = pass
  BY <1>1, <1>2, PassKept DEF FeedInv
<1>3. CASE pass' # pass
  <2>1. pc \in {"balance", "settled"} /\ pass' = [pass EXCEPT !.undisturbed = FALSE]
    BY <1>3 DEF OrganizerTopsUp, watching
  <2>2. FunctionOn(pass, PassFields)
    BY <2>1 DEF FeedInv, PassInv, InHand
  <2>3. QED
    BY <1>1, <2>1, <2>2, PassGoesOn DEF FunctionOn, PassFields
<1>4. QED
  BY <1>2, <1>3

-----------------------------------------------------------------------------
LEMMA FeedInvStep == FeedInv /\ [Next]_vars => FeedInv'
<1> SUFFICES ASSUME FeedInv, [Next]_vars PROVE FeedInv'
  OBVIOUS
<1> USE DEF dbVars, chainVars, agentVars
<1>1. CASE ListActiveCampaigns
  BY <1>1, PassGivenUp DEF ListActiveCampaigns, FeedInv, InHand
<1>2. CASE EndCycle
  BY <1>2, PassGivenUp DEF EndCycle, FeedInv, InHand
<1>3. CASE BalanceFails
  BY <1>3, PassGivenUp DEF BalanceFails, FeedInv, InHand
<1>4. CASE Crash
  BY <1>4, PassGivenUp DEF Crash, FeedInv, InHand
<1>5. CASE Restart
  BY <1>5, PassGivenUp DEF Restart, FeedInv, InHand
<1>6. CASE InsertClip
  <2>1. submitted' \subseteq Clips
    BY <1>6 DEF InsertClip, FeedInv
  <2>2. QED
    BY <1>6, <2>1, PassKept DEF InsertClip
<1>7. CASE PollerStoresSnapshot
  BY <1>7, PassKept DEF PollerStoresSnapshot, FeedInv
<1>8. CASE CloseCampaign
  BY <1>8, PassKept DEF CloseCampaign, FeedInv
<1>9. CASE WorkerReleases
  BY <1>9, PassKept DEF WorkerReleases, FeedInv
<1>10. CASE WorkerBooks
  BY <1>10, PassKept DEF WorkerBooks, FeedInv
<1>11. CASE UNCHANGED vars
  BY <1>11, PassKept DEF vars, FeedInv
<1>12. QED
  BY <1>1, <1>2, <1>3, <1>4, <1>5, <1>6, <1>7, <1>8, <1>9, <1>10, <1>11,
     FeedInvStartCampaign, FeedInvBalanceAnswers, FeedInvDecide, FeedInvLlmFails,
     FeedInvLlmAnswers, FeedInvSetClipEffectiveCpmRate, FeedInvInsertAgentDecision,
     FeedInvOrganizerTopsUp
     DEF Next, Agent, Others

\* The reads of a pass stay true until the writes they lead to.
THEOREM FeedInvariant == Spec => []FeedInv
  BY FeedInvInit, FeedInvStep, PTL DEF Spec

(***************************************************************************)
(* FeedShowsRates: the newest row of the decision feed names the rate a    *)
(* clip earns under, and each row goes on from the one before it, but for  *)
(* a death between the two writes (agent.ts:186-197).                      *)
(***************************************************************************)
THEOREM FeedStaysTrue == Spec => []FeedShowsRates
<1>1. FeedInv => FeedShowsRates
  BY DEF FeedInv
<1>2. QED
  BY FeedInvariant, <1>1, PTL

-----------------------------------------------------------------------------
(***************************************************************************)
(* The ceiling.  RatesWithinMax is not inductive: what is written is what  *)
(* the pass decided, and a share of the velocity is only taken when there  *)
(* is one.                                                                 *)
(***************************************************************************)
WithinMax(rate, c) == rate = Unpaced \/ (rate \in Nat /\ rate <= MaxCpm[c])

\* What was read of the clips, and what was decided for them.
PassRatesInv ==
    pc \in InHand =>
       /\ pass.campaign \in Campaigns
       /\ \A k \in DOMAIN pass.velocity : pass.velocity[k] \in Nat
       /\ totalVelocity(pass) \in Nat \ {0}
       /\ pc \in {"llm", "rate", "row"} =>
             \A k \in DOMAIN pass.velocity : WithinMax(pass.rate[k], pass.campaign)

RateInv ==
    /\ velocity \in [Clips -> Nat]
    /\ listed \subseteq Campaigns
    /\ PassRatesInv
    /\ \A k \in Clips : /\ WithinMax(effectiveRate[k], CampaignOf[k])
                        /\ feed[k].newRate <= MaxCpm[CampaignOf[k]]

LEMMA RateInvInit == Init => RateInv
<1> SUFFICES ASSUME Init PROVE RateInv
  OBVIOUS
<1>1. \A k \in Clips : MaxCpm[CampaignOf[k]] \in Nat
  BY PacingAssumption
<1>2. QED
  BY <1>1 DEF Init, RateInv, PassRatesInv, InHand, WithinMax, NoRow

\* Steps that write no rate, and keep the pass or give it up.
LEMMA RatesKept ==
    ASSUME RateInv, velocity' \in [Clips -> Nat], listed' \subseteq Campaigns,
           UNCHANGED <<effectiveRate, feed>>,
           \/ pc' \notin InHand
           \/ UNCHANGED <<pc, pass>>
           \/ UNCHANGED pc /\ pass' = [pass EXCEPT !.undisturbed = FALSE] /\ FeedInv
    PROVE  RateInv'
<1>1. PassRatesInv'
  <2>1. CASE pc' \notin InHand
    BY <2>1 DEF PassRatesInv
  <2>2. CASE UNCHANGED <<pc, pass>>
    BY <2>2 DEF RateInv, PassRatesInv, totalVelocity
  <2>3. CASE UNCHANGED pc /\ pass' = [pass EXCEPT !.undisturbed = FALSE] /\ FeedInv
             /\ pc' \in InHand
    <3>1. FunctionOn(pass, PassFields)
      BY <2>3 DEF FeedInv, PassInv
    <3>2. /\ pass'.campaign = pass.campaign /\ pass'.velocity = pass.velocity
          /\ pass'.rate = pass.rate
      BY <2>3, <3>1 DEF FunctionOn, PassFields
    <3>3. QED
      BY <2>3, <3>2 DEF RateInv, PassRatesInv, totalVelocity
  <2>4. QED
    BY <2>1, <2>2, <2>3
<1>2. QED
  BY <1>1 DEF RateInv

LEMMA RateInvStartCampaign == RateInv /\ FeedInv /\ StartCampaign => RateInv'
<1> SUFFICES ASSUME RateInv, FeedInv, StartCampaign PROVE RateInv'
  OBVIOUS
<1>1. PICK c \in listed :
         /\ listed' = listed \ {c}
         /\ pass' = [campaign |-> c,
                     velocity |-> [k \in clipsOf(c) |-> velocity[k]],
                     oldRate |-> [k \in clipsOf(c) |-> inForce(k)],
                     balance |-> 0, throttled |-> FALSE, rate |-> << >>,
                     llmUsed |-> FALSE, todo |-> {}, clip |-> 0,
                     undisturbed |-> unbooked[c] = 0]
         /\ pc' = "next" \/ (pc' = "balance" /\ ~nothingToPace(pass'))
  BY DEF StartCampaign
<1>2. UNCHANGED <<velocity, effectiveRate, feed>> /\ listed' \subseteq Campaigns
  BY <1>1 DEF StartCampaign, dbVars, RateInv
<1>3. CASE pc' = "next"
  BY <1>2, <1>3, RatesKept DEF RateInv, InHand
<1>4. CASE pc' = "balance" /\ ~nothingToPace(pass')
  <2>1. /\ pass'.campaign = c /\ c \in Campaigns
        /\ DOMAIN pass'.velocity = clipsOf(c)
        /\ clipsOf(c) \subseteq Clips
        /\ \A k \in clipsOf(c) : pass'.velocity[k] = velocity[k]
    BY <1>1 DEF RateInv, FeedInv, clipsOf
  <2>2. /\ IsFiniteSet(DOMAIN pass'.velocity)
        /\ \A k \in DOMAIN pass'.velocity : pass'.velocity[k] \in Nat
    BY <2>1, PacingAssumption, FS_Subset DEF RateInv
  <2>3. totalVelocity(pass') \in Nat \ {0}
    BY <1>4, <2>2, SumNat DEF totalVelocity, nothingToPace
  <2>4. PassRatesInv'
    BY <1>4, <2>1, <2>2, <2>3 DEF PassRatesInv, totalVelocity
  <2>5. QED
    BY <1>2, <2>4 DEF RateInv
<1>5. QED
  BY <1>1, <1>3, <1>4

\* The pass goes on with the same clips; what it decides is within the ceiling.
LEMMA RatesDecided ==
    ASSUME RateInv, pc \in InHand, pc' \in InHand,
           UNCHANGED <<velocity, listed, effectiveRate, feed>>,
           pass'.campaign = pass.campaign, pass'.velocity = pass.velocity,
           pc' \in {"llm", "rate", "row"} =>
              \A k \in DOMAIN pass.velocity : WithinMax(pass'.rate[k], pass.campaign)
    PROVE  RateInv'
<1>1. PassRatesInv'
  BY DEF RateInv, PassRatesInv, totalVelocity
<1>2. QED
  BY <1>1 DEF RateInv

LEMMA RateInvBalanceAnswers == RateInv /\ FeedInv /\ BalanceAnswers => RateInv'
<1> SUFFICES ASSUME RateInv, FeedInv, BalanceAnswers PROVE RateInv'
  OBVIOUS
<1>1. FunctionOn(pass, PassFields)
  BY DEF BalanceAnswers, FeedInv, PassInv, InHand
<1>2. pass'.campaign = pass.campaign /\ pass'.velocity = pass.velocity
  BY <1>1 DEF BalanceAnswers, FunctionOn, PassFields
<1>3. QED
  BY <1>2, RatesDecided DEF BalanceAnswers, InHand, dbVars

LEMMA RateInvDecide == RateInv /\ FeedInv /\ Decide => RateInv'
<1> SUFFICES ASSUME RateInv, FeedInv, Decide PROVE RateInv'
  OBVIOUS
<1>1. PICK throttled :
         /\ throttled = runwayLow(pass.balance, totalBudget)
         /\ pass' = [pass EXCEPT
                       !.throttled = throttled,
                       !.rate = [k \in DOMAIN pass.velocity |-> decision(k, throttled)]]
  BY DEF Decide
<1>2. FunctionOn(pass, PassFields) /\ pc = "settled" /\ pc' = "llm"
  BY DEF Decide, FeedInv, PassInv, InHand
<1>3. /\ pass'.campaign = pass.campaign /\ pass'.velocity = pass.velocity
      /\ \A k \in DOMAIN pass.velocity : pass'.rate[k] = decision(k, throttled)
  BY <1>1, <1>2 DEF FunctionOn, PassFields
<1>4. throttled \in BOOLEAN
  BY <1>1 DEF runwayLow
<1>5. /\ pass.campaign \in Campaigns /\ totalVelocity(pass) \in Nat \ {0}
      /\ \A k \in DOMAIN pass.velocity : pass.velocity[k] \in Nat /\ k \in Clips
  BY <1>2 DEF RateInv, PassRatesInv, FeedInv, PassInv, InHand
<1>6. CpmRate[pass.campaign] \in Nat /\ MaxCpm[pass.campaign] \in Nat
  BY <1>5, PacingAssumption
<1>7. ASSUME NEW k \in DOMAIN pass.velocity
      PROVE  WithinMax(decision(k, throttled), pass.campaign)
  <2>1. Cardinality(DOMAIN pass.velocity) \in Nat
    BY <1>5, PacingAssumption, FS_Subset, FS_CardinalityType
  <2>2. PICK n \in Nat : n = Cardinality(DOMAIN pass.velocity)
    BY <2>1
  <2>3. PICK v \in Nat : v = pass.velocity[k]
    BY <1>5, <1>7
  <2>4. PICK total \in Nat \ {0} : total = totalVelocity(pass)
    BY <1>5
  <2>5. CASE v = 0
    BY <2>3, <2>5 DEF decision, WithinMax
  <2>6. CASE v # 0
    <3>1. PICK cpm \in Nat, max \in Nat :
             cpm = CpmRate[pass.campaign] /\ max = MaxCpm[pass.campaign]
      BY <1>6
    <3>2. decision(k, throttled) = pacedRate(cpm, max, multiplierBp(v, n, total), throttled)
      BY <2>2, <2>3, <2>4, <2>6, <3>1 DEF decision
    <3>3. LET rate == pacedRate(cpm, max, multiplierBp(v, n, total), throttled)
          IN  rate \in Nat /\ rate <= max
      BY <1>4, PacedRateRespectsCeiling
    <3>4. QED
      BY <3>1, <3>2, <3>3 DEF WithinMax
  <2>7. QED
    BY <2>5, <2>6
<1>8. QED
  BY <1>2, <1>3, <1>7, RatesDecided DEF Decide, InHand, dbVars

\* Claude's factor is clamped; without it the rates stay as they were decided.
LEMMA RateInvLlm == RateInv /\ FeedInv /\ (LlmFails \/ LlmAnswers) => RateInv'
<1> SUFFICES ASSUME RateInv, FeedInv, LlmFails \/ LlmAnswers PROVE RateInv'
  OBVIOUS
<1>1. /\ FunctionOn(pass, PassFields) /\ pc = "llm"
      /\ UNCHANGED <<velocity, listed, effectiveRate, feed>>
  BY DEF LlmFails, LlmAnswers, FeedInv, PassInv, InHand, dbVars
<1>2. /\ pass.campaign \in Campaigns
      /\ \A k \in DOMAIN pass.velocity : WithinMax(pass.rate[k], pass.campaign)
  BY <1>1 DEF RateInv, PassRatesInv, InHand
<1>3. MaxCpm[pass.campaign] \in Nat
  BY <1>2, PacingAssumption
<1>4. CASE LlmFails
  <2>1. /\ pass'.campaign = pass.campaign /\ pass'.velocity = pass.velocity
        /\ pass'.rate = pass.rate /\ pc' = "rate"
    BY <1>1, <1>4 DEF LlmFails, StartWriting, FunctionOn, PassFields
  <2>2. QED
    BY <1>1, <1>2, <2>1, RatesDecided DEF InHand
<1>5. CASE LlmAnswers
  <2>1. PICK answer \in Answers :
           /\ isValidAnswer(answer)
           /\ StartWriting([pass EXCEPT
                !.llmUsed = TRUE,
                !.rate = [k \in DOMAIN pass.velocity |->
                            IF k \in pacedClips
                              THEN applyLlmAdjustment(pass.rate[k], answer[k],
                                                      MaxCpm[pass.campaign])
                              ELSE pass.rate[k]]])
    BY <1>5 DEF LlmAnswers
  <2>2. /\ pass'.campaign = pass.campaign /\ pass'.velocity = pass.velocity
        /\ pc' = "rate"
        /\ \A k \in DOMAIN pass.velocity :
              pass'.rate[k] = IF k \in pacedClips
                                THEN applyLlmAdjustment(pass.rate[k], answer[k],
                                                        MaxCpm[pass.campaign])
                                ELSE pass.rate[k]
    BY <1>1, <2>1 DEF StartWriting, FunctionOn, PassFields
  <2>3. ASSUME NEW k \in DOMAIN pass.velocity
        PROVE  WithinMax(pass'.rate[k], pass.campaign)
    <3>1. CASE k \notin pacedClips
      BY <1>2, <2>2, <3>1
    <3>2. CASE k \in pacedClips
      <4>1. pass.rate[k] \in Int
        BY <1>2 DEF WithinMax, Unpaced
      <4>2. answer[k] \in Int
        <5>1. PICK S \in SUBSET Clips : answer \in [S -> Factors]
          BY DEF Answers
        <5>2. k \in S
          BY <2>1, <3>2, <5>1 DEF isValidAnswer
        <5>3. QED
          BY <5>1, <5>2, PacingAssumption
      <4>3. PICK rate \in Int, factor \in Int : rate = pass.rate[k] /\ factor = answer[k]
        BY <4>1, <4>2
      <4>4. pass'.rate[k] = applyLlmAdjustment(rate, factor, MaxCpm[pass.campaign])
        BY <2>2, <3>2, <4>3
      <4>5. QED
        BY <1>3, <4>4, AdjustmentRespectsCeiling DEF WithinMax
    <3>3. QED
      BY <3>1, <3>2
  <2>4. QED
    BY <1>1, <2>2, <2>3, RatesDecided DEF InHand
<1>6. QED
  BY <1>4, <1>5

LEMMA RateInvSetClipEffectiveCpmRate ==
    RateInv /\ FeedInv /\ SetClipEffectiveCpmRate => RateInv'
<1> SUFFICES ASSUME RateInv, FeedInv, SetClipEffectiveCpmRate PROVE RateInv'
  OBVIOUS
<1>1. PICK k \in pass.todo :
         /\ effectiveRate' = [effectiveRate EXCEPT ![k] = pass.rate[k]]
         /\ pass' = [pass EXCEPT !.todo = @ \ {k}, !.clip = k]
  BY DEF SetClipEffectiveCpmRate
<1>2. /\ pc = "rate" /\ pc' = "row" /\ UNCHANGED <<velocity, listed, feed>>
      /\ FunctionOn(pass, PassFields) /\ FunctionOn(effectiveRate, Clips)
      /\ k \in DOMAIN pass.velocity /\ k \in Clips /\ CampaignOf[k] = pass.campaign
  BY <1>1 DEF SetClipEffectiveCpmRate, FeedInv, PassInv, ReadsInv, InHand
<1>3. /\ pass'.campaign = pass.campaign /\ pass'.velocity = pass.velocity
      /\ pass'.rate = pass.rate
  BY <1>1, <1>2 DEF FunctionOn, PassFields
<1>4. WithinMax(pass.rate[k], CampaignOf[k])
  BY <1>2 DEF RateInv, PassRatesInv, InHand
<1>5. \A j \in Clips : WithinMax(effectiveRate'[j], CampaignOf[j])
  BY <1>1, <1>2, <1>4 DEF RateInv, FunctionOn
<1>6. PassRatesInv'
  BY <1>2, <1>3 DEF RateInv, PassRatesInv, InHand, totalVelocity
<1>7. QED
  BY <1>2, <1>5, <1>6 DEF RateInv

LEMMA RateInvInsertAgentDecision ==
    RateInv /\ FeedInv /\ InsertAgentDecision => RateInv'
<1> SUFFICES ASSUME RateInv, FeedInv, InsertAgentDecision PROVE RateInv'
  OBVIOUS
<1>1. PICK k : k = pass.clip
  OBVIOUS
<1>2. /\ pc = "row" /\ k \in DOMAIN pass.velocity /\ k \in Clips
      /\ CampaignOf[k] = pass.campaign /\ FunctionOn(feed, Clips)
      /\ UNCHANGED <<velocity, listed, effectiveRate>>
  BY <1>1 DEF InsertAgentDecision, FeedInv, PassInv, ReadsInv, InHand
<1>3. /\ feed'[k].newRate = newRate(k)
      /\ \A j \in Clips \ {k} : feed'[j] = feed[j]
  BY <1>1, <1>2 DEF InsertAgentDecision, FunctionOn
<1>4. newRate(k) <= MaxCpm[CampaignOf[k]]
  <2>1. WithinMax(pass.rate[k], pass.campaign)
    BY <1>2 DEF RateInv, PassRatesInv, InHand
  <2>2. CpmRate[CampaignOf[k]] <= MaxCpm[CampaignOf[k]]
    BY <1>2, PacingAssumption
  <2>3. QED
    BY <1>2, <2>1, <2>2 DEF newRate, WithinMax
<1>5. PassRatesInv'
  <2>1. CASE pc' = "next"
    BY <2>1 DEF PassRatesInv, InHand
  <2>2. CASE pc' = "rate" /\ pass' = pass
    BY <1>2, <2>2 DEF RateInv, PassRatesInv, InHand, totalVelocity
  <2>3. QED
    BY <2>1, <2>2 DEF InsertAgentDecision
<1>6. QED
  BY <1>2, <1>3, <1>4, <1>5 DEF RateInv

LEMMA RateInvStep == RateInv /\ FeedInv /\ [Next]_vars => RateInv'
<1> SUFFICES ASSUME RateInv, FeedInv, [Next]_vars PROVE RateInv'
  OBVIOUS
<1> USE DEF dbVars, chainVars, agentVars
<1>1. CASE ListActiveCampaigns
  BY <1>1, RatesKept DEF ListActiveCampaigns, RateInv, InHand
<1>2. CASE EndCycle
  BY <1>2, RatesKept DEF EndCycle, RateInv, InHand
<1>3. CASE BalanceFails \/ Crash \/ Restart
  BY <1>3, RatesKept DEF BalanceFails, Crash, Restart, RateInv, InHand
<1>4. CASE InsertClip \/ CloseCampaign \/ WorkerReleases \/ WorkerBooks
  BY <1>4, RatesKept DEF InsertClip, CloseCampaign, WorkerReleases, WorkerBooks, RateInv
<1>5. CASE PollerStoresSnapshot
  <2>1. velocity' \in [Clips -> Nat]
    BY <1>5, PacingAssumption DEF PollerStoresSnapshot, RateInv
  <2>2. QED
    BY <1>5, <2>1, RatesKept DEF PollerStoresSnapshot, RateInv
<1>6. CASE OrganizerTopsUp
  BY <1>6, RatesKept DEF OrganizerTopsUp, RateInv
<1>7. CASE UNCHANGED vars
  BY <1>7, RatesKept DEF vars, RateInv
<1>8. QED
  BY <1>1, <1>2, <1>3, <1>4, <1>5, <1>6, <1>7, RateInvStartCampaign, RateInvBalanceAnswers,
     RateInvDecide, RateInvLlm, RateInvSetClipEffectiveCpmRate, RateInvInsertAgentDecision
     DEF Next, Agent, Others

(***************************************************************************)
(* "The ceiling can never be violated regardless of what the model         *)
(* suggests" (README.md:56-57): no rate in the database or in the feed     *)
(* exceeds max_cpm, for every velocity, answer and death of the agent.     *)
(***************************************************************************)
THEOREM RatesStayWithinMax == Spec => []RatesWithinMax
<1>1. RateInv => RatesWithinMax
  <2>1. \A k \in Clips : CpmRate[CampaignOf[k]] <= MaxCpm[CampaignOf[k]]
    BY PacingAssumption
  <2>2. QED
    BY <2>1 DEF RateInv, WithinMax, RatesWithinMax, inForce
<1>2. QED
  BY <1>1, RateInvInit, RateInvStep, FeedInvariant, PTL DEF Spec

-----------------------------------------------------------------------------
(***************************************************************************)
(* The throttle.  A verdict is made of a balance and of a settled sum read *)
(* later; without division it compares five times the balance with the     *)
(* budget, and the moments of the pass bound both from either side.        *)
(***************************************************************************)
LEMMA LowMeans ==
    ASSUME NEW b \in Nat, NEW total \in Nat
    PROVE  runwayLow(b, total) <=> 5 * b < total
<1>1. CASE total = 0
  BY <1>1 DEF runwayLow
<1>2. CASE total # 0
  <2> DEFINE q == (b * BP) \div total
  <2>1. q \in Nat /\ q * total <= b * 10000 /\ b * 10000 < (q + 1) * total
    BY <1>2 DEF BP
  <2> HIDE DEF q
  <2>2. q < 2000 => 5 * b < total
    <3>1. SUFFICES ASSUME q + 1 <= 2000  PROVE 5 * b < total
      BY <2>1
    <3>2. (q + 1) * total <= 2000 * total
      BY <2>1, <3>1
    <3>3. QED
      BY <2>1, <3>2
  <2>3. 5 * b < total => q < 2000
    <3>1. SUFFICES ASSUME 5 * b < total, 2000 <= q  PROVE FALSE
      BY <2>1
    <3>2. 2000 * total <= q * total
      BY <2>1, <3>1
    <3>3. QED
      BY <2>1, <3>1, <3>2
  <2>4. QED
    BY <1>2, <2>2, <2>3 DEF runwayLow, q, RUNWAY_THRESHOLD_BP
<1>3. QED
  BY <1>1, <1>2

BooksInv ==
    /\ settled \in [Campaigns -> Nat]
    /\ balance \in [Campaigns -> Nat]
    /\ unbooked \in [Campaigns -> Nat]

budget(c) == balance[c] + settled[c] + unbooked[c]

\* The verdict that a balance of b would have got has been seen.
seen(b, c) == IF 5 * b < budget(c) THEN TRUE \in lowSeen ELSE FALSE \in lowSeen

\* What is known of the campaign of an undisturbed pass: the verdict now has been seen,
\* that at the start too, when the balance was at least what is now left or unbooked,
\* and so has that of the moment the balance was read.
RunwayInv ==
    pc \in {"balance", "settled"} /\ pass.undisturbed =>
       LET c == pass.campaign
       IN  /\ seen(balance[c], c)
           /\ \E start \in Nat : start >= balance[c] + unbooked[c] /\ seen(start, c)
           /\ pc = "settled" => /\ pass.balance \in Nat
                                /\ pass.balance >= balance[c]
                                /\ seen(pass.balance, c)

HistoryInv == BooksInv /\ RunwayInv /\ RunwayWasReal

LEMMA VerdictMeans ==
    ASSUME NEW b \in Nat, NEW s \in Nat, NEW u \in Nat
    PROVE  runwayLow(b, b + s + u) = IF 5 * b < b + s + u THEN TRUE ELSE FALSE
<1>1. PICK t \in Nat : t = b + s + u
  OBVIOUS
<1>2. runwayLow(b, t) <=> 5 * b < t
  BY LowMeans
<1>3. runwayLow(b, t) \in BOOLEAN
  BY DEF runwayLow
<1>4. QED
  BY <1>1, <1>2, <1>3

LEMMA HistoryInvInit == Init => HistoryInv
  BY PacingAssumption DEF Init, HistoryInv, BooksInv, RunwayInv, RunwayWasReal

\* Steps that touch neither the books nor the history.
LEMMA HistoryKept ==
    ASSUME HistoryInv, UNCHANGED <<settled, balance, unbooked>>,
           \/ pc' \notin {"balance", "settled", "llm"}
           \/ UNCHANGED <<pc, pass, lowSeen>>
    PROVE  HistoryInv'
<1>1. BooksInv'
  BY DEF HistoryInv, BooksInv
<1>2. RunwayInv' /\ RunwayWasReal'
  <2>1. CASE pc' \notin {"balance", "settled", "llm"}
    BY <2>1 DEF RunwayInv, RunwayWasReal
  <2>2. CASE UNCHANGED <<pc, pass, lowSeen>>
    BY <2>2 DEF HistoryInv, RunwayInv, RunwayWasReal, seen, budget
  <2>3. QED
    BY <2>1, <2>2
<1>3. QED
  BY <1>1, <1>2 DEF HistoryInv

LEMMA HistoryInvStartCampaign == HistoryInv /\ RateInv /\ StartCampaign => HistoryInv'
<1> SUFFICES ASSUME HistoryInv, RateInv, StartCampaign PROVE HistoryInv'
  OBVIOUS
<1>0. PICK c \in listed :
         /\ pass' = [campaign |-> c,
                     velocity |-> [k \in clipsOf(c) |-> velocity[k]],
                     oldRate |-> [k \in clipsOf(c) |-> inForce(k)],
                     balance |-> 0, throttled |-> FALSE, rate |-> << >>,
                     llmUsed |-> FALSE, todo |-> {}, clip |-> 0,
                     undisturbed |-> unbooked[c] = 0]
         /\ \/ pc' = "next"
            \/ pc' = "balance" /\ lowSeen' = {trulyLow(c)}
  BY DEF StartCampaign
<1>1. /\ pass'.campaign = c /\ (pass'.undisturbed => unbooked[c] = 0)
      /\ \/ pc' = "next"
         \/ pc' = "balance" /\ lowSeen' = {trulyLow(c)}
  BY <1>0
<1>2. UNCHANGED <<settled, balance, unbooked>> /\ c \in Campaigns
  BY DEF StartCampaign, dbVars, chainVars, RateInv
<1>3. CASE pc' = "next"
  BY <1>2, <1>3, HistoryKept
<1>4. CASE pc' = "balance" /\ lowSeen' = {trulyLow(c)}
  <2>1. /\ balance[c] \in Nat /\ unbooked[c] \in Nat
        /\ trulyLow(c) = IF 5 * balance[c] < budget(c) THEN TRUE ELSE FALSE
    BY <1>2, VerdictMeans DEF HistoryInv, BooksInv, trulyLow, budget
  <2>2. seen(balance[c], c)'
    BY <1>2, <1>4, <2>1 DEF seen, budget
  <2>3. pass'.undisturbed => balance[c] >= balance[c] + unbooked[c]
    BY <1>1, <2>1
  <2>4. RunwayInv'
    BY <1>1, <1>2, <1>4, <2>1, <2>2, <2>3 DEF RunwayInv, seen, budget
  <2>5. BooksInv' /\ RunwayWasReal'
    BY <1>2, <1>4 DEF HistoryInv, BooksInv, RunwayWasReal
  <2>6. QED
    BY <2>4, <2>5 DEF HistoryInv
<1>5. QED
  BY <1>1, <1>3, <1>4

LEMMA HistoryInvBalanceAnswers ==
    HistoryInv /\ FeedInv /\ RateInv /\ BalanceAnswers => HistoryInv'
<1> SUFFICES ASSUME HistoryInv, FeedInv, RateInv, BalanceAnswers PROVE HistoryInv'
  OBVIOUS
<1>1. /\ pc = "balance" /\ pc' = "settled" /\ FunctionOn(pass, PassFields)
      /\ pass' = [pass EXCEPT !.balance = balance[pass.campaign]]
      /\ UNCHANGED <<settled, balance, unbooked, lowSeen>>
      /\ pass.campaign \in Campaigns
  BY DEF BalanceAnswers, dbVars, chainVars, FeedInv, PassInv, RateInv, PassRatesInv, InHand
<1>2. /\ pass'.campaign = pass.campaign /\ pass'.undisturbed = pass.undisturbed
      /\ pass'.balance = balance[pass.campaign] /\ balance[pass.campaign] \in Nat
  BY <1>1 DEF FunctionOn, PassFields, HistoryInv, BooksInv
<1>3. RunwayInv'
  <2>1. SUFFICES ASSUME pass.undisturbed  PROVE RunwayInv'
    BY <1>2 DEF RunwayInv
  <2>2. PICK c \in Campaigns : c = pass.campaign
    BY <1>1
  <2>3. \A b : seen(b, c) => (\A x : x = b => seen(x, c)')
    BY <1>1 DEF seen, budget
  <2>4. PICK start \in Nat : start >= balance[c] + unbooked[c] /\ seen(start, c)
    BY <1>1, <2>1, <2>2 DEF HistoryInv, RunwayInv
  <2>5. PICK b \in Nat : b = balance[c] /\ seen(b, c)
    BY <1>1, <1>2, <2>1, <2>2 DEF HistoryInv, RunwayInv
  <2>6. seen(start, c)' /\ seen(b, c)'
    BY <2>3, <2>4, <2>5
  <2>7. start >= balance'[c] + unbooked'[c] /\ balance'[c] = b /\ pass'.balance = b
    BY <1>1, <1>2, <2>2, <2>4, <2>5
  <2>8. seen(balance[c], c)' /\ seen(pass.balance, c)' /\ pass'.balance >= balance'[c]
    <3>1. \A x : x = b => (seen(x, c)' <=> seen(b, c)')
      BY DEF seen
    <3>2. ASSUME NEW x, x = b  PROVE seen(x, c)'
      BY <2>6, <3>1, <3>2
    <3>3. QED
      BY <2>7, <3>2
  <2>9. QED
    BY <1>2, <2>2, <2>6, <2>7, <2>8 DEF RunwayInv
<1>4. BooksInv' /\ RunwayWasReal'
  BY <1>1 DEF HistoryInv, BooksInv, RunwayWasReal
<1>5. QED
  BY <1>3, <1>4 DEF HistoryInv

(***************************************************************************)
(* The verdict.  A budget taken too small means that a payment was paid    *)
(* and not booked when the balance was read: it was paid during the pass,  *)
(* and before it the balance was higher.  A budget taken too large means   *)
(* that payments came and were booked since: now the balance is lower.     *)
(***************************************************************************)
LEMMA VerdictWasSeen ==
    ASSUME NEW c \in Campaigns, BooksInv, NEW b \in Nat, b >= balance[c], seen(b, c),
           seen(balance[c], c), NEW start \in Nat, start >= balance[c] + unbooked[c],
           seen(start, c)
    PROVE  runwayLow(b, b + settled[c]) \in lowSeen
<1>1. balance[c] \in Nat /\ settled[c] \in Nat /\ unbooked[c] \in Nat
  BY DEF BooksInv
<1>2. PICK s \in Nat, u \in Nat, left \in Nat :
         s = settled[c] /\ u = unbooked[c] /\ left = balance[c]
  BY <1>1
<1>3. b + s \in Nat
  OBVIOUS
<1>4. runwayLow(b, b + s) <=> 5 * b < b + s
  BY <1>3, LowMeans
<1>5. runwayLow(b, b + s) \in BOOLEAN
  BY DEF runwayLow
<1>6. budget(c) = left + s + u
  BY <1>2 DEF budget
<1>7. CASE 5 * b < b + s
  <2>1. 5 * b < left + s + u \/ 5 * left < left + s + u
    BY <1>2, <1>7
  <2>2. TRUE \in lowSeen
    BY <1>2, <1>6, <2>1 DEF seen
  <2>3. QED
    BY <1>2, <1>4, <1>5, <1>7, <2>2
<1>8. CASE ~ (5 * b < b + s)
  <2>1. ~ (5 * b < left + s + u) \/ ~ (5 * start < left + s + u)
    BY <1>2, <1>8
  <2>2. FALSE \in lowSeen
    BY <1>6, <2>1 DEF seen
  <2>3. QED
    BY <1>2, <1>4, <1>5, <1>8, <2>2
<1>9. QED
  BY <1>7, <1>8

LEMMA HistoryInvDecide == HistoryInv /\ FeedInv /\ RateInv /\ Decide => HistoryInv'
<1> SUFFICES ASSUME HistoryInv, FeedInv, RateInv, Decide PROVE HistoryInv'
  OBVIOUS
<1>1. PICK throttled, r :
         /\ throttled = runwayLow(pass.balance, totalBudget)
         /\ pass' = [pass EXCEPT !.throttled = throttled, !.rate = r]
  BY DEF Decide
<1>2. /\ pc = "settled" /\ pc' = "llm" /\ FunctionOn(pass, PassFields)
      /\ UNCHANGED <<settled, balance, unbooked, lowSeen>>
      /\ pass.campaign \in Campaigns
  BY DEF Decide, dbVars, chainVars, FeedInv, PassInv, RateInv, PassRatesInv, InHand
<1>3. pass'.throttled = throttled /\ pass'.undisturbed = pass.undisturbed
  BY <1>1, <1>2 DEF FunctionOn, PassFields
<1>4. ASSUME pass.undisturbed  PROVE throttled \in lowSeen
  <2>1. PICK start \in Nat :
           /\ start >= balance[pass.campaign] + unbooked[pass.campaign]
           /\ seen(start, pass.campaign)
    BY <1>2, <1>4 DEF HistoryInv, RunwayInv
  <2>2. /\ seen(balance[pass.campaign], pass.campaign)
        /\ pass.balance \in Nat /\ pass.balance >= balance[pass.campaign]
        /\ seen(pass.balance, pass.campaign)
    BY <1>2, <1>4 DEF HistoryInv, RunwayInv
  <2>3. PICK c \in Campaigns, b \in Nat : c = pass.campaign /\ b = pass.balance
    BY <1>2, <2>2
  <2>4. runwayLow(b, b + settled[c]) \in lowSeen
    BY <2>1, <2>2, <2>3, VerdictWasSeen DEF HistoryInv
  <2>5. QED
    BY <1>1, <2>3, <2>4 DEF totalBudget
<1>5. RunwayWasReal'
  BY <1>2, <1>3, <1>4 DEF RunwayWasReal
<1>6. BooksInv' /\ RunwayInv'
  BY <1>2 DEF HistoryInv, BooksInv, RunwayInv
<1>7. QED
  BY <1>5, <1>6 DEF HistoryInv

(***************************************************************************)
(* The worker and the organizer.                                           *)
(***************************************************************************)
\* A payment or its booking: the budget stays, what is left or unbooked does not grow.
LEMMA BooksMoved ==
    ASSUME HistoryInv, RateInv, BooksInv', UNCHANGED <<pc, pass>>, NEW c \in Campaigns,
           WatchRunway(c), budget(c)' = budget(c),
           balance'[c] <= balance[c],
           balance'[c] + unbooked'[c] <= balance[c] + unbooked[c],
           \A d \in Campaigns \ {c} : /\ balance'[d] = balance[d]
                                      /\ settled'[d] = settled[d]
                                      /\ unbooked'[d] = unbooked[d]
    PROVE  HistoryInv'
<1>1. lowSeen \subseteq lowSeen'
  BY DEF WatchRunway
<1>2. ASSUME pc \in {"balance", "settled"}  PROVE pass.campaign \in Campaigns
  BY <1>2 DEF RateInv, PassRatesInv, InHand
<1>3. RunwayWasReal'
  BY <1>1 DEF HistoryInv, RunwayWasReal
<1>4. RunwayInv'
  <2>1. SUFFICES ASSUME pc \in {"balance", "settled"}, pass.undisturbed
                 PROVE  RunwayInv'
    BY DEF RunwayInv
  <2>2. PICK d \in Campaigns : d = pass.campaign
    BY <1>2, <2>1
  <2>3. \A b : budget(d)' = budget(d) /\ seen(b, d) => (\A x : x = b => seen(x, d)')
    BY <1>1 DEF seen
  <2>4. /\ seen(balance[d], d)
        /\ pc = "settled" => /\ pass.balance \in Nat
                             /\ pass.balance >= balance[d]
                             /\ seen(pass.balance, d)
    BY <2>1, <2>2 DEF HistoryInv, RunwayInv
  <2>5. PICK start \in Nat : start >= balance[d] + unbooked[d] /\ seen(start, d)
    BY <2>1, <2>2 DEF HistoryInv, RunwayInv
  <2>6. /\ balance[d] \in Nat /\ unbooked[d] \in Nat /\ balance'[d] \in Nat
        /\ unbooked'[d] \in Nat
    BY DEF HistoryInv, BooksInv
  <2>7. /\ budget(d)' = budget(d)
        /\ balance'[d] <= balance[d]
        /\ balance'[d] + unbooked'[d] <= balance[d] + unbooked[d]
    BY <2>6 DEF budget
  <2>8. seen(start, d)' /\ start >= balance'[d] + unbooked'[d]
    BY <2>3, <2>5, <2>6, <2>7
  <2>9. pc = "settled" => pass.balance >= balance'[d] /\ seen(pass.balance, d)'
    <3>1. ASSUME NEW x, x = pass.balance, pc = "settled"  PROVE seen(x, d)'
      BY <2>3, <2>4, <2>7, <3>1
    <3>2. QED
      BY <2>4, <2>6, <2>7, <3>1
  <2>10. seen(balance[d], d)'
    <3>1. CASE d = c
      <4>1. trulyLow(d)' = IF 5 * balance'[d] < budget(d)' THEN TRUE ELSE FALSE
        BY VerdictMeans DEF BooksInv, trulyLow, budget
      <4>2. trulyLow(d)' \in lowSeen'
        BY <2>1, <2>2, <3>1 DEF WatchRunway, watching
      <4>3. QED
        BY <4>1, <4>2 DEF seen
    <3>2. CASE d # c
      <4>1. balance'[d] = balance[d]
        BY <3>2
      <4>2. ASSUME NEW x, x = balance[d]  PROVE seen(x, d)'
        BY <2>3, <2>4, <2>7, <4>2
      <4>3. QED
        BY <4>1, <4>2
    <3>3. QED
      BY <3>1, <3>2
  <2>11. QED
    BY <2>2, <2>4, <2>8, <2>9, <2>10 DEF RunwayInv
<1>5. QED
  BY <1>3, <1>4 DEF HistoryInv

LEMMA HistoryInvWorkerReleases ==
    HistoryInv /\ RateInv /\ WorkerReleases => HistoryInv'
<1> SUFFICES ASSUME HistoryInv, RateInv, WorkerReleases PROVE HistoryInv'
  OBVIOUS
<1>1. PICK c \in Campaigns, amount \in Amounts :
         /\ amount <= balance[c]
         /\ balance' = [balance EXCEPT ![c] = @ - amount]
         /\ unbooked' = [unbooked EXCEPT ![c] = @ + amount]
         /\ UNCHANGED <<settled, pc, pass>>
         /\ WatchRunway(c)
  BY DEF WorkerReleases, agentVars, dbVars
<1>2. amount \in Nat /\ BooksInv
  BY PacingAssumption DEF HistoryInv
<1>3. /\ balance'[c] = balance[c] - amount /\ unbooked'[c] = unbooked[c] + amount
      /\ balance[c] \in Nat /\ unbooked[c] \in Nat /\ settled[c] \in Nat
      /\ \A d \in Campaigns \ {c} : balance'[d] = balance[d] /\ unbooked'[d] = unbooked[d]
  BY <1>1, <1>2 DEF BooksInv
<1>4. BooksInv'
  BY <1>1, <1>2, <1>3 DEF BooksInv
<1>5. /\ budget(c)' = budget(c) /\ balance'[c] <= balance[c]
      /\ balance'[c] + unbooked'[c] <= balance[c] + unbooked[c]
  BY <1>1, <1>2, <1>3 DEF budget
<1>6. QED
  BY <1>1, <1>3, <1>4, <1>5, BooksMoved

LEMMA HistoryInvWorkerBooks ==
    HistoryInv /\ RateInv /\ WorkerBooks => HistoryInv'
<1> SUFFICES ASSUME HistoryInv, RateInv, WorkerBooks PROVE HistoryInv'
  OBVIOUS
<1>1. PICK c \in Campaigns, amount \in Amounts :
         /\ amount <= unbooked[c]
         /\ settled' = [settled EXCEPT ![c] = @ + amount]
         /\ unbooked' = [unbooked EXCEPT ![c] = @ - amount]
         /\ UNCHANGED <<balance, pc, pass>>
         /\ WatchRunway(c)
  BY DEF WorkerBooks, agentVars
<1>2. amount \in Nat /\ BooksInv
  BY PacingAssumption DEF HistoryInv
<1>3. /\ settled'[c] = settled[c] + amount /\ unbooked'[c] = unbooked[c] - amount
      /\ balance[c] \in Nat /\ unbooked[c] \in Nat /\ settled[c] \in Nat
      /\ \A d \in Campaigns \ {c} : settled'[d] = settled[d] /\ unbooked'[d] = unbooked[d]
  BY <1>1, <1>2 DEF BooksInv
<1>4. BooksInv'
  BY <1>1, <1>2, <1>3 DEF BooksInv
<1>5. /\ budget(c)' = budget(c) /\ balance'[c] <= balance[c]
      /\ balance'[c] + unbooked'[c] <= balance[c] + unbooked[c]
  BY <1>1, <1>2, <1>3 DEF budget
<1>6. QED
  BY <1>1, <1>3, <1>4, <1>5, BooksMoved

\* A deposit disturbs the pass of its own campaign, and no other.
LEMMA HistoryInvOrganizerTopsUp ==
    HistoryInv /\ FeedInv /\ OrganizerTopsUp => HistoryInv'
<1> SUFFICES ASSUME HistoryInv, FeedInv, OrganizerTopsUp PROVE HistoryInv'
  OBVIOUS
<1>1. PICK c \in Campaigns, amount \in TopUps :
         /\ balance' = [balance EXCEPT ![c] = @ + amount]
         /\ pass' = IF watching(c) THEN [pass EXCEPT !.undisturbed = FALSE] ELSE pass
         /\ UNCHANGED <<settled, unbooked, pc>>
         /\ WatchRunway(c)
  BY DEF OrganizerTopsUp, agentVars, dbVars
<1>2. BooksInv'
  BY <1>1, PacingAssumption DEF HistoryInv, BooksInv
<1>3. RunwayWasReal'
  BY <1>1 DEF HistoryInv, RunwayWasReal, watching, WatchRunway
<1>4. CASE watching(c)
  <2>1. pass'.undisturbed = FALSE
    BY <1>1, <1>4 DEF watching, FeedInv, PassInv, InHand, FunctionOn, PassFields
  <2>2. QED
    BY <1>2, <1>3, <2>1 DEF HistoryInv, RunwayInv
<1>5. CASE ~watching(c) /\ pc \in {"balance", "settled"}
  <2>1. pass' = pass /\ lowSeen' = lowSeen /\ pass.campaign # c
    BY <1>1, <1>5 DEF watching, WatchRunway
  <2>2. balance'[pass.campaign] = balance[pass.campaign]
    BY <1>1, <2>1 DEF HistoryInv, BooksInv
  <2>3. RunwayInv'
    BY <1>1, <1>5, <2>1, <2>2 DEF HistoryInv, RunwayInv, seen, budget
  <2>4. QED
    BY <1>2, <1>3, <2>3 DEF HistoryInv
<1>6. CASE pc \notin {"balance", "settled"}
  BY <1>1, <1>2, <1>3, <1>6 DEF HistoryInv, RunwayInv
<1>7. QED
  BY <1>4, <1>5, <1>6

LEMMA HistoryInvStep ==
    HistoryInv /\ FeedInv /\ RateInv /\ [Next]_vars => HistoryInv'
<1> SUFFICES ASSUME HistoryInv, FeedInv, RateInv, [Next]_vars PROVE HistoryInv'
  OBVIOUS
<1> USE DEF dbVars, chainVars, agentVars
<1>1. CASE ListActiveCampaigns \/ EndCycle
  BY <1>1, HistoryKept DEF ListActiveCampaigns, EndCycle
<1>2. CASE BalanceFails \/ Crash \/ Restart
  BY <1>2, HistoryKept DEF BalanceFails, Crash, Restart
<1>3. CASE LlmFails \/ LlmAnswers
  BY <1>3, HistoryKept DEF LlmFails, LlmAnswers, StartWriting
<1>4. CASE SetClipEffectiveCpmRate \/ InsertAgentDecision
  BY <1>4, HistoryKept DEF SetClipEffectiveCpmRate, InsertAgentDecision
<1>5. CASE InsertClip \/ PollerStoresSnapshot \/ CloseCampaign
  BY <1>5, HistoryKept DEF InsertClip, PollerStoresSnapshot, CloseCampaign
<1>6. CASE UNCHANGED vars
  BY <1>6, HistoryKept DEF vars
<1>7. QED
  BY <1>1, <1>2, <1>3, <1>4, <1>5, <1>6, HistoryInvStartCampaign, HistoryInvBalanceAnswers,
     HistoryInvDecide, HistoryInvWorkerReleases, HistoryInvWorkerBooks,
     HistoryInvOrganizerTopsUp
     DEF Next, Agent, Others

(***************************************************************************)
(* The throttle is applied exactly when the campaign ran low at some       *)
(* moment of the pass (pacingEngine.ts:55, 74-75), although the balance    *)
(* and the settled sum come from two stores at two moments: for every      *)
(* budget, amount and order of payments, bookings and reads.               *)
(***************************************************************************)
THEOREM ThrottleIsJustified == Spec => []RunwayWasReal
<1>1. HistoryInv => RunwayWasReal
  BY DEF HistoryInv
<1>2. Init => RateInv /\ FeedInv
  BY RateInvInit, FeedInvInit
<1>3. RateInv /\ FeedInv /\ HistoryInv /\ [Next]_vars => RateInv' /\ FeedInv' /\ HistoryInv'
  BY RateInvStep, FeedInvStep, HistoryInvStep
<1>4. QED
  BY <1>1, <1>2, <1>3, HistoryInvInit, PTL DEF Spec

-----------------------------------------------------------------------------
(***************************************************************************)
(* Idle clips.  A pass that is not skipped decides on the base rate for    *)
(* them, Claude's factors leave that alone, and nobody but the pass writes *)
(* rates until it has ended.                                               *)
(***************************************************************************)
IdleInv ==
    /\ pc \in {"llm", "rate", "row"} =>
          \A k \in DOMAIN pass.velocity : pass.velocity[k] = 0 =>
             /\ pass.rate[k] = Unpaced
             /\ pc # "llm" /\ k \notin pass.todo => effectiveRate[k] = Unpaced
    /\ PacedIdleClipsRevert

LEMMA IdleDecide == FeedInv /\ Decide => IdleInv'
<1> SUFFICES ASSUME FeedInv, Decide PROVE IdleInv'
  OBVIOUS
<1>1. PICK t : pass' = [pass EXCEPT !.throttled = t,
                           !.rate = [k \in DOMAIN pass.velocity |-> decision(k, t)]]
  BY DEF Decide
<1>2. pc = "settled" /\ pc' = "llm"
  BY DEF Decide
<1>3. FunctionOn(pass, PassFields)
  BY <1>2 DEF FeedInv, PassInv, InHand
<1>4. /\ pass'.velocity = pass.velocity
      /\ pass'.rate = [k \in DOMAIN pass.velocity |-> decision(k, t)]
  BY <1>1, <1>3 DEF FunctionOn, PassFields
<1>5. ASSUME NEW k \in DOMAIN pass.velocity, pass.velocity[k] = 0
      PROVE  pass'.rate[k] = Unpaced
  BY <1>4, <1>5 DEF decision
<1>6. QED
  BY <1>2, <1>4, <1>5 DEF IdleInv, PacedIdleClipsRevert

LEMMA IdleLlm == FeedInv /\ IdleInv /\ (LlmFails \/ LlmAnswers) => IdleInv'
<1> SUFFICES ASSUME FeedInv, IdleInv, LlmFails \/ LlmAnswers PROVE IdleInv'
  OBVIOUS
<1>1. pc = "llm" /\ pc' = "rate"
  BY DEF LlmFails, LlmAnswers, StartWriting
<1>2. FunctionOn(pass, PassFields)
  BY <1>1 DEF FeedInv, PassInv, InHand
<1>3. /\ pass'.velocity = pass.velocity /\ pass'.todo = DOMAIN pass.velocity
      /\ \A k \in DOMAIN pass.velocity : pass.velocity[k] = 0 => pass'.rate[k] = pass.rate[k]
  <2>1. CASE LlmFails
    BY <1>2, <2>1 DEF LlmFails, StartWriting, FunctionOn, PassFields
  <2>2. CASE LlmAnswers
    <3>1. PICK r :
            /\ StartWriting([pass EXCEPT !.llmUsed = TRUE, !.rate = r])
            /\ \A k \in DOMAIN pass.velocity : k \notin pacedClips => r[k] = pass.rate[k]
      BY <2>2 DEF LlmAnswers
    <3>2. /\ pass'.velocity = pass.velocity /\ pass'.todo = DOMAIN pass.velocity
          /\ pass'.rate = r
      BY <1>2, <3>1 DEF StartWriting, FunctionOn, PassFields
    <3>3. QED
      BY <3>1, <3>2 DEF pacedClips
  <2>3. QED
    BY <2>1, <2>2
<1>4. QED
  BY <1>1, <1>3 DEF IdleInv, PacedIdleClipsRevert

LEMMA IdleSetClipEffectiveCpmRate == FeedInv /\ IdleInv /\ SetClipEffectiveCpmRate => IdleInv'
<1> SUFFICES ASSUME FeedInv, IdleInv, SetClipEffectiveCpmRate PROVE IdleInv'
  OBVIOUS
<1>1. PICK k \in pass.todo :
         /\ effectiveRate' = [effectiveRate EXCEPT ![k] = pass.rate[k]]
         /\ pass' = [pass EXCEPT !.todo = @ \ {k}, !.clip = k]
  BY DEF SetClipEffectiveCpmRate
<1>2. pc = "rate" /\ pc' = "row"
  BY DEF SetClipEffectiveCpmRate
<1>3. /\ FunctionOn(pass, PassFields)
      /\ pass.todo \subseteq DOMAIN pass.velocity
      /\ \A j \in DOMAIN pass.velocity : j \in Clips
  BY <1>2 DEF FeedInv, PassInv, ReadsInv, InHand
<1>4. /\ pass'.velocity = pass.velocity /\ pass'.rate = pass.rate
      /\ pass'.todo = pass.todo \ {k}
  BY <1>1, <1>3 DEF FunctionOn, PassFields
<1>5. /\ effectiveRate'[k] = pass.rate[k]
      /\ \A j \in Clips \ {k} : effectiveRate'[j] = effectiveRate[j]
  BY <1>1, <1>3 DEF FeedInv, FunctionOn
<1>6. QED
  BY <1>2, <1>3, <1>4, <1>5 DEF IdleInv, PacedIdleClipsRevert

LEMMA IdleInsertAgentDecision == FeedInv /\ IdleInv /\ InsertAgentDecision => IdleInv'
<1> SUFFICES ASSUME FeedInv, IdleInv, InsertAgentDecision PROVE IdleInv'
  OBVIOUS
<1>1. pc = "row" /\ effectiveRate' = effectiveRate
  BY DEF InsertAgentDecision
<1>2. CASE pass.todo = {}
  <2>1. /\ pc' = "next"
        /\ pass' = [pass EXCEPT !.oldRate = << >>, !.rate = << >>, !.llmUsed = FALSE, !.clip = 0]
    BY <1>2 DEF InsertAgentDecision
  <2>2. FunctionOn(pass, PassFields)
    BY <1>1 DEF FeedInv, PassInv, InHand
  <2>3. pass'.velocity = pass.velocity
    BY <2>1, <2>2 DEF FunctionOn, PassFields
  <2>4. QED
    BY <1>1, <1>2, <2>1, <2>3 DEF IdleInv, PacedIdleClipsRevert
<1>3. CASE pass.todo # {}
  <2>1. pc' = "rate" /\ pass' = pass
    BY <1>3 DEF InsertAgentDecision
  <2>2. QED
    BY <1>1, <2>1 DEF IdleInv, PacedIdleClipsRevert
<1>4. QED
  BY <1>2, <1>3

LEMMA IdleStep == FeedInv /\ IdleInv /\ [Next]_vars => IdleInv'
<1> SUFFICES ASSUME FeedInv, IdleInv, [Next]_vars PROVE IdleInv'
  OBVIOUS
<1> USE DEF IdleInv, PacedIdleClipsRevert, dbVars, chainVars, agentVars
<1>1. CASE ListActiveCampaigns \/ EndCycle \/ BalanceAnswers \/ BalanceFails \/ Crash \/ Restart
  BY <1>1 DEF ListActiveCampaigns, EndCycle, BalanceAnswers, BalanceFails, Crash, Restart
<1>2. CASE StartCampaign
  BY <1>2 DEF StartCampaign
<1>3. CASE InsertClip \/ PollerStoresSnapshot \/ CloseCampaign \/ WorkerReleases \/ WorkerBooks
  BY <1>3 DEF InsertClip, PollerStoresSnapshot, CloseCampaign, WorkerReleases, WorkerBooks
<1>4. CASE OrganizerTopsUp
  BY <1>4 DEF OrganizerTopsUp, watching
<1>5. CASE UNCHANGED vars
  BY <1>5 DEF vars
<1>6. QED
  BY <1>1, <1>2, <1>3, <1>4, <1>5, IdleDecide, IdleLlm, IdleSetClipEffectiveCpmRate,
     IdleInsertAgentDecision DEF Next, Agent, Others

\* A clip without views reverts to the base rate (pacingEngine.ts:82-83) in every pass in
\* which some clip of its campaign gained views, whatever Claude answers; without that
\* condition the code breaks it (IdleClipsRevert).
THEOREM IdleClipsRevertWhenPaced == Spec => []PacedIdleClipsRevert
<1>1. Init => IdleInv
  BY DEF Init, IdleInv, PacedIdleClipsRevert
<1>2. IdleInv => PacedIdleClipsRevert
  BY DEF IdleInv
<1>3. QED
  BY <1>1, <1>2, IdleStep, FeedInvariant, PTL DEF Spec

-----------------------------------------------------------------------------
(* Types: those the invariants above leave open.                           *)

AgentState == {"down", "idle", "next", "balance", "settled", "llm", "rate", "row"}
FeedRow == [newRate : Rates, follows : BOOLEAN, llmUsed : BOOLEAN]

AgentTypes ==
    /\ feed \in [Clips -> FeedRow]
    /\ active \in [Campaigns -> BOOLEAN]
    /\ pc \in AgentState
    /\ pc \in {"down", "idle"} => pass = NoPass
    /\ lowSeen \subseteq BOOLEAN
    /\ crashes \in Nat

LEMMA AgentTypesInit == Init => AgentTypes
<1> SUFFICES ASSUME Init PROVE AgentTypes
  OBVIOUS
<1>1. NoRow \in FeedRow
  BY DEF NoRow, FeedRow, Rates, Unpaced
<1>2. feed \in [Clips -> FeedRow] /\ active \in [Campaigns -> BOOLEAN]
  BY <1>1 DEF Init
<1>3. QED
  BY <1>2 DEF Init, AgentTypes, AgentState

LEMMA RowsOfTheFeed ==
    ASSUME FeedInv, RateInv, AgentTypes, InsertAgentDecision
    PROVE  feed' \in [Clips -> FeedRow]
<1>1. PICK k : k = pass.clip
  OBVIOUS
<1> DEFINE row == [newRate |-> newRate(k), follows |-> pass.oldRate[k] = shown(k),
                   llmUsed |-> pass.llmUsed /\ k \in pacedClips]
<1>2. pc = "row" /\ feed' = [feed EXCEPT ![k] = row]
  BY <1>1 DEF InsertAgentDecision
<1>3. k \in DOMAIN pass.velocity
  BY <1>1, <1>2 DEF FeedInv, ReadsInv
<1>4. pass.campaign \in Campaigns /\ WithinMax(pass.rate[k], pass.campaign)
  BY <1>2, <1>3 DEF RateInv, PassRatesInv, InHand
<1>5. newRate(k) \in Rates
  BY <1>4, PacingAssumption DEF newRate, WithinMax, Rates
<1>6. row \in FeedRow
  <2>1. (pass.oldRate[k] = shown(k)) \in BOOLEAN
    OBVIOUS
  <2>2. (pass.llmUsed /\ k \in pacedClips) \in BOOLEAN
    OBVIOUS
  <2>3. QED
    BY <1>5, <2>1, <2>2 DEF FeedRow
<1> HIDE DEF row
<1>7. QED
  BY <1>2, <1>6 DEF AgentTypes

LEMMA RunwayIsTrueOrFalse == \A c : trulyLow(c) \in BOOLEAN /\ trulyLow(c)' \in BOOLEAN
BY DEF trulyLow, runwayLow

LEMMA AgentTypesStep == FeedInv /\ RateInv /\ AgentTypes /\ [Next]_vars => AgentTypes'
<1> SUFFICES ASSUME FeedInv, RateInv, AgentTypes, [Next]_vars PROVE AgentTypes'
  OBVIOUS
<1> USE DEF dbVars, chainVars, agentVars, AgentTypes, AgentState
<1>1. CASE ListActiveCampaigns \/ EndCycle \/ BalanceAnswers \/ Decide
  BY <1>1 DEF ListActiveCampaigns, EndCycle, BalanceAnswers, Decide
<1>2. CASE StartCampaign
  BY <1>2, RunwayIsTrueOrFalse DEF StartCampaign
<1>3. CASE BalanceFails \/ Crash \/ Restart
  <2>1. crashes' \in Nat
    BY <1>3 DEF BalanceFails, Crash, Restart
  <2>2. QED
    BY <1>3, <2>1 DEF BalanceFails, Crash, Restart
<1>4. CASE LlmFails \/ LlmAnswers
  BY <1>4 DEF LlmFails, LlmAnswers, StartWriting
<1>5. CASE SetClipEffectiveCpmRate
  BY <1>5 DEF SetClipEffectiveCpmRate
<1>6. CASE InsertAgentDecision
  <2>1. feed' \in [Clips -> FeedRow]
    BY <1>6, RowsOfTheFeed
  <2>2. pc' \in {"next", "rate"} /\ UNCHANGED <<active, lowSeen, crashes>>
    BY <1>6 DEF InsertAgentDecision
  <2>3. QED
    BY <2>1, <2>2
<1>7. CASE InsertClip \/ PollerStoresSnapshot \/ CloseCampaign
  BY <1>7 DEF InsertClip, PollerStoresSnapshot, CloseCampaign
<1>8. CASE WorkerReleases \/ WorkerBooks \/ OrganizerTopsUp
  <2>1. UNCHANGED <<feed, active, pc, crashes>>
    BY <1>8 DEF WorkerReleases, WorkerBooks, OrganizerTopsUp
  <2>2. pc \in {"down", "idle"} => pass' = pass
    BY <1>8 DEF WorkerReleases, WorkerBooks, OrganizerTopsUp, watching
  <2>3. lowSeen' \subseteq BOOLEAN
    BY <1>8, RunwayIsTrueOrFalse DEF WorkerReleases, WorkerBooks, OrganizerTopsUp, WatchRunway
  <2>4. QED
    BY <2>1, <2>2, <2>3
<1>9. CASE UNCHANGED vars
  BY <1>9 DEF vars
<1>10. QED
  BY <1>1, <1>2, <1>3, <1>4, <1>5, <1>6, <1>7, <1>8, <1>9 DEF Next, Agent, Others

\* The agent, the books and the feed are type correct: a pass is in hand from its first
\* read to the end of its cycle, and no amount is ever negative (agent.ts:90-200).
THEOREM AgentTypeCorrect == Spec => []TypeOK
<1>1. Init => FeedInv /\ RateInv /\ HistoryInv /\ AgentTypes
  BY FeedInvInit, RateInvInit, HistoryInvInit, AgentTypesInit
<1>2. FeedInv /\ RateInv /\ HistoryInv /\ AgentTypes /\ [Next]_vars
         => FeedInv' /\ RateInv' /\ HistoryInv' /\ AgentTypes'
  BY FeedInvStep, RateInvStep, HistoryInvStep, AgentTypesStep
<1>3. ASSUME FeedInv, RateInv, HistoryInv, AgentTypes  PROVE TypeOK
  <2>1. effectiveRate \in [Clips -> Rates]
    BY <1>3 DEF FeedInv, FunctionOn, RateInv, WithinMax, Rates
  <2>2. pc \in InHand => pass # NoPass
    <3>1. "velocity" \notin DOMAIN NoPass
      BY DEF NoPass
    <3>2. QED
      BY <1>3, <3>1 DEF FeedInv, PassInv, FunctionOn, PassFields
  <2>3. QED
    BY <1>3, <2>1, <2>2 DEF TypeOK, FeedInv, RateInv, HistoryInv, BooksInv, AgentTypes,
       AgentState, FeedRow, InHand
<1>4. QED
  BY <1>1, <1>2, <1>3, PTL DEF Spec
=============================================================================
