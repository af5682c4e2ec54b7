------------------------------ MODULE PacingAgent ------------------------------
(***************************************************************************)
(* The Pacing Agent (pacing/agent.ts, pacing/pacingEngine.ts and           *)
(* pacing/llmAdvisor.ts).  One cycle lists the active campaigns, and for   *)
(* each of them in turn reads its clips and their recent velocities, asks  *)
(* the chain for the balance, reads what the database says was settled,    *)
(* asks Claude for adjustments, and writes each clip's rate and the row of *)
(* the decision feed that explains it.                                     *)
(*                                                                         *)
(* The agent is cut at its two awaits and between any two writes.  In the  *)
(* meantime the poller stores snapshots, clips are submitted, the          *)
(* Settlement Worker pays, books and closes, organizers deposit.           *)
(***************************************************************************)
EXTENDS PacingMath, FiniteSets, Functions

CONSTANTS
    Campaigns,       \* campaigns.id
    Clips,           \* bound: clips.id that may be submitted
    CampaignOf,      \* clips.campaign_id
    CpmRate,         \* campaigns.cpm_rate
    MaxCpm,          \* campaigns.max_cpm
    Velocities,      \* bound: views gained over a clip's last three snapshots
    Factors,         \* bound: the factors Claude may answer, in basis points
    InitialDeposit,  \* what a campaign was created with
    Amounts,         \* bound: the amounts of releases
    TopUps,          \* bound: the amounts of deposits
    MaxBudget,       \* bound: all that is deposited for each campaign
    MaxCrashes       \* bound: deaths of the agent

ASSUME PacingAssumption ==
    /\ Campaigns \subseteq Nat
    /\ IsFiniteSet(Clips)
    /\ CampaignOf \in [Clips -> Campaigns]
    /\ CpmRate \in [Campaigns -> Nat]
    /\ MaxCpm \in [Campaigns -> Nat]
    /\ \A c \in Campaigns : CpmRate[c] <= MaxCpm[c]
    /\ Velocities \subseteq Nat
    /\ Factors \subseteq Int
    /\ InitialDeposit \in [Campaigns -> Nat]
    /\ Amounts \subseteq Nat
    /\ TopUps \subseteq Nat
    /\ MaxBudget \in [Campaigns -> Nat]

VARIABLES
    \* the database
    submitted,      \* clips, by id
    velocity,       \* what computeClipVelocity makes of each clip's last three snapshots
    effectiveRate,  \* clips.effective_cpm_rate
    feed,           \* agent_decisions: the newest pacing_rate_update of each clip
    settled,        \* getTotalSettledAmountForCampaign, by campaign
    active,         \* campaigns.status = 'active'
    \* the chain and the Settlement Worker
    balance,        \* the escrow's balance of each campaign
    unbooked,       \* paid, and no row of settlements written (yet, or ever)
    \* the agent's memory
    pc,             \* the await or statement it has reached
    listed,         \* the campaigns this cycle has still to evaluate
    pass,           \* the evaluation of one campaign: what was read and decided
    \* history
    lowSeen,        \* whether the true runway was low, at each moment since the pass began
    torn,           \* clips whose rate was written and whose row of the feed never was
    crashes         \* deaths so far

dbVars == <<submitted, velocity, effectiveRate, feed, settled, active>>
chainVars == <<balance, unbooked>>
vars == <<submitted, velocity, effectiveRate, feed, settled, active, balance, unbooked,
          pc, listed, pass, lowSeen, torn, crashes>>

-----------------------------------------------------------------------------
\* effective_cpm_rate: null, the campaign's cpm_rate applies.
Unpaced == -1
NoRow == [newRate |-> -1, follows |-> TRUE, llmUsed |-> FALSE]
NoPass == [campaign |-> -1]

inForce(k) == IF effectiveRate[k] = Unpaced THEN CpmRate[CampaignOf[k]] ELSE effectiveRate[k]

\* The rate the feed shows for a clip.
shown(k) == IF feed[k] = NoRow THEN CpmRate[CampaignOf[k]] ELSE feed[k].newRate

clipsOf(c) == {k \in submitted : CampaignOf[k] = c}

\* History: whether the runway is short by the books of this moment.
trulyLow(c) == runwayLow(balance[c], balance[c] + settled[c] + unbooked[c])

Init ==
    /\ submitted = {}
    /\ velocity = [k \in Clips |-> 0]
    /\ effectiveRate = [k \in Clips |-> Unpaced]
    /\ feed = [k \in Clips |-> NoRow]
    /\ settled = [c \in Campaigns |-> 0]
    /\ active = [c \in Campaigns |-> TRUE]
    /\ balance = InitialDeposit
    /\ unbooked = [c \in Campaigns |-> 0]
    /\ pc = "idle"
    /\ listed = {}
    /\ pass = NoPass
    /\ lowSeen = {}
    /\ torn = {}
    /\ crashes = 0

-----------------------------------------------------------------------------
(***************************************************************************)
(* runPacingCycle.                                                         *)
(***************************************************************************)
ListActiveCampaigns ==
    /\ pc = "idle"
    /\ listed' = {c \in Campaigns : active[c]}
    /\ listed' # {}
    /\ pass' = NoPass
    /\ pc' = "next"
    /\ UNCHANGED <<dbVars, chainVars, lowSeen, torn, crashes>>

EndCycle ==
    /\ pc = "next"
    /\ listed = {}
    /\ pass' = NoPass
    /\ pc' = "idle"
    /\ UNCHANGED <<dbVars, chainVars, listed, lowSeen, torn, crashes>>

(***************************************************************************)
(* paceCampaign up to the balance request.  A campaign with fewer than two *)
(* clips, or none of whose clips gained a view, is skipped; the pass then  *)
(* ends with what was read.                                                *)
(***************************************************************************)
totalVelocity(p) == SumFunctionOnSet(p.velocity, DOMAIN p.velocity)

nothingToPace(p) == Cardinality(DOMAIN p.velocity) < 2 \/ totalVelocity(p) = 0

StartCampaign ==
    /\ pc = "next"
    /\ \E c \in listed :
          /\ \A other \in listed : c <= other
          /\ listed' = listed \ {c}
          /\ pass' = [campaign |-> c,
                      velocity |-> [k \in clipsOf(c) |-> velocity[k]],
                      oldRate |-> [k \in clipsOf(c) |-> inForce(k)],
                      balance |-> 0, throttled |-> FALSE, rate |-> << >>,
                      llmUsed |-> FALSE, todo |-> {}, clip |-> 0,
                      undisturbed |-> unbooked[c] = 0]
          /\ IF nothingToPace(pass')
               THEN pc' = "next" /\ lowSeen' = {}
               ELSE pc' = "balance" /\ lowSeen' = {trulyLow(c)}
    /\ UNCHANGED <<dbVars, chainVars, torn, crashes>>

\* The node answers with the balance at this moment.
BalanceAnswers ==
    /\ pc = "balance"
    /\ pass' = [pass EXCEPT !.balance = balance[pass.campaign]]
    /\ pc' = "settled"
    /\ UNCHANGED <<dbVars, chainVars, listed, lowSeen, torn, crashes>>

\* The request fails: nothing catches what getCampaignBalance throws, and the
\* unhandled rejection ends the process.
BalanceFails ==
    /\ pc = "balance"
    /\ crashes < MaxCrashes
    /\ crashes' = crashes + 1
    /\ pc' = "down"
    /\ listed' = {}
    /\ pass' = NoPass
    /\ lowSeen' = {}
    /\ UNCHANGED <<dbVars, chainVars, torn>>

-----------------------------------------------------------------------------
(***************************************************************************)
(* computePacingDecisions, on the velocities and the balance that were     *)
(* read before and the settled sum that is read now.                       *)
(***************************************************************************)
\* What was paid already is left out.
totalBudgetRemainingOnly == pass.balance

totalBudget == pass.balance + settled[pass.campaign]

decision(k, throttled) ==
    IF pass.velocity[k] = 0
      THEN Unpaced
      ELSE pacedRate(CpmRate[pass.campaign], MaxCpm[pass.campaign],
                     multiplierBp(pass.velocity[k], Cardinality(DOMAIN pass.velocity),
                                  totalVelocity(pass)),
                     throttled)

Decide ==
    /\ pc = "settled"
    /\ LET throttled == runwayLow(pass.balance, totalBudget)
       IN  pass' = [pass EXCEPT
                      !.throttled = throttled,
                      !.rate = [k \in DOMAIN pass.velocity |-> decision(k, throttled)]]
    /\ pc' = "llm"
    /\ UNCHANGED <<dbVars, chainVars, listed, lowSeen, torn, crashes>>

(***************************************************************************)
(* getLlmAdjustments.  An answer gives some clips a factor; it counts only *)
(* if it covers every paced clip, no other, each within the bound.  An     *)
(* answer that does not, and a request that fails, times out, is refused   *)
(* or cannot be parsed, leave the deterministic rates as they are.         *)
(***************************************************************************)
MIN_ADJUSTMENT_FACTOR == 8000
MAX_ADJUSTMENT_FACTOR == 12000

pacedClips == {k \in DOMAIN pass.velocity : pass.velocity[k] # 0}

Answers == UNION {[S -> Factors] : S \in SUBSET Clips}

isValidAnswer(answer) ==
    /\ DOMAIN answer = pacedClips
    /\ \A k \in pacedClips :
          MIN_ADJUSTMENT_FACTOR <= answer[k] /\ answer[k] <= MAX_ADJUSTMENT_FACTOR

\* What the loop does not use any more is forgotten.
StartWriting(p) ==
    /\ pass' = [p EXCEPT !.todo = DOMAIN p.velocity, !.balance = 0, !.throttled = FALSE,
                         !.undisturbed = FALSE]
    /\ pc' = "rate"

\* The cycle is given up.
LlmFailsEndingCycle ==
    /\ pc = "llm"
    /\ pass' = NoPass
    /\ listed' = {}
    /\ pc' = "idle"
    /\ lowSeen' = {}
    /\ UNCHANGED <<dbVars, chainVars, torn, crashes>>

LlmFails ==
    /\ pc = "llm"
    /\ StartWriting(pass)
    /\ lowSeen' = {}
    /\ UNCHANGED <<dbVars, chainVars, listed, torn, crashes>>

LlmAnswers ==
    /\ pc = "llm"
    /\ \E answer \in Answers :
          /\ isValidAnswer(answer)
          /\ StartWriting([pass EXCEPT
                !.llmUsed = TRUE,
                !.rate = [k \in DOMAIN pass.velocity |->
                            IF k \in pacedClips
                              THEN applyLlmAdjustment(pass.rate[k], answer[k],
                                                      MaxCpm[pass.campaign])
                              ELSE pass.rate[k]]])
    /\ lowSeen' = {}
    /\ UNCHANGED <<dbVars, chainVars, listed, torn, crashes>>

-----------------------------------------------------------------------------
(***************************************************************************)
(* The loop over the decisions, two writes a clip.  The order of the clips *)
(* is that of submitted_at, left open here.  Of old_rate a row keeps       *)
(* whether it is the rate the feed showed before.                          *)
(***************************************************************************)
SetClipEffectiveCpmRate ==
    /\ pc = "rate"
    /\ \E k \in pass.todo :
          /\ effectiveRate' = [effectiveRate EXCEPT ![k] = pass.rate[k]]
          /\ pass' = [pass EXCEPT !.todo = @ \ {k}, !.clip = k]
    /\ pc' = "row"
    /\ UNCHANGED <<submitted, velocity, feed, settled, active, chainVars, listed, lowSeen,
                   torn, crashes>>

\* The rate it had until now is shown for a clip that reverts.
newRateOrOld(k) == IF pass.rate[k] = Unpaced THEN pass.oldRate[k] ELSE pass.rate[k]

newRate(k) == IF pass.rate[k] = Unpaced THEN CpmRate[pass.campaign] ELSE pass.rate[k]

InsertAgentDecision ==
    /\ pc = "row"
    /\ LET k == pass.clip
       IN  /\ feed' = [feed EXCEPT ![k] =
                         [newRate |-> newRate(k), follows |-> pass.oldRate[k] = shown(k),
                          llmUsed |-> pass.llmUsed /\ k \in pacedClips]]
           /\ torn' = IF feed'[k].follows THEN torn \ {k} ELSE torn
    /\ IF pass.todo = {}
         THEN pc' = "next" /\ pass' = [pass EXCEPT !.oldRate = << >>, !.rate = << >>,
                                                   !.llmUsed = FALSE, !.clip = 0]
         ELSE pc' = "rate" /\ UNCHANGED pass
    /\ UNCHANGED <<submitted, velocity, effectiveRate, settled, active, chainVars, listed,
                   lowSeen, crashes>>

-----------------------------------------------------------------------------
Crash ==
    /\ pc # "down"
    /\ crashes < MaxCrashes
    /\ crashes' = crashes + 1
    /\ torn' = IF pc = "row" THEN torn \cup {pass.clip} ELSE torn
    /\ pc' = "down"
    /\ listed' = {}
    /\ pass' = NoPass
    /\ lowSeen' = {}
    /\ UNCHANGED <<dbVars, chainVars>>

\* concurrently starts a dead process again.
Restart ==
    /\ pc = "down"
    /\ pc' = "idle"
    /\ UNCHANGED <<dbVars, chainVars, listed, pass, lowSeen, torn, crashes>>

(***************************************************************************)
(* The other processes.                                                    *)
(***************************************************************************)
agentVars == <<effectiveRate, feed, pc, listed, torn, crashes>>

watching(c) == pc \in {"balance", "settled"} /\ pass.campaign = c

\* The history of a pass goes on with what the escrow and the settlements say now.
WatchRunway(c) ==
    lowSeen' = IF watching(c) THEN lowSeen \cup {trulyLow(c)'} ELSE lowSeen

InsertClip ==
    /\ \E k \in Clips \ submitted : submitted' = submitted \cup {k}
    /\ UNCHANGED <<agentVars, chainVars, velocity, settled, active, pass, lowSeen>>

PollerStoresSnapshot ==
    /\ \E k \in submitted, v \in Velocities : velocity' = [velocity EXCEPT ![k] = v]
    /\ UNCHANGED <<agentVars, chainVars, submitted, settled, active, pass, lowSeen>>

\* The worker closes a campaign whose balance it read as zero, some time after a
\* settlement was booked.
CloseCampaign ==
    /\ \E c \in Campaigns : settled[c] > 0 /\ active' = [active EXCEPT ![c] = FALSE]
    /\ UNCHANGED <<agentVars, chainVars, submitted, velocity, settled, pass, lowSeen>>

\* A worker that died before it booked a payment goes on to the next.
WorkerReleases ==
    \E c \in Campaigns, amount \in Amounts :
       /\ clipsOf(c) # {}
       /\ amount <= balance[c]
       /\ balance' = [balance EXCEPT ![c] = @ - amount]
       /\ unbooked' = [unbooked EXCEPT ![c] = @ + amount]
       /\ UNCHANGED <<agentVars, dbVars, pass>>
       /\ WatchRunway(c)

WorkerBooks ==
    \E c \in Campaigns, amount \in Amounts :
       /\ amount <= unbooked[c]
       /\ settled' = [settled EXCEPT ![c] = @ + amount]
       /\ unbooked' = [unbooked EXCEPT ![c] = @ - amount]
       /\ UNCHANGED <<agentVars, submitted, velocity, active, balance, pass>>
       /\ WatchRunway(c)

\* History: a deposit during a pass is remembered as one that disturbs it.
OrganizerTopsUp ==
    \E c \in Campaigns, amount \in TopUps :
       /\ balance[c] + settled[c] + unbooked[c] + amount <= MaxBudget[c]
       /\ balance' = [balance EXCEPT ![c] = @ + amount]
       /\ pass' = IF watching(c) THEN [pass EXCEPT !.undisturbed = FALSE] ELSE pass
       /\ UNCHANGED <<agentVars, dbVars, unbooked>>
       /\ WatchRunway(c)

-----------------------------------------------------------------------------
Agent ==
    \/ ListActiveCampaigns \/ EndCycle \/ StartCampaign
    \/ BalanceAnswers \/ BalanceFails \/ Decide
    \/ LlmFails \/ LlmAnswers
    \/ SetClipEffectiveCpmRate \/ InsertAgentDecision

Others == InsertClip \/ PollerStoresSnapshot \/ CloseCampaign
          \/ WorkerReleases \/ WorkerBooks \/ OrganizerTopsUp

Next == Agent \/ Crash \/ Restart \/ Others

Spec == Init /\ [][Next]_vars

(***************************************************************************)
(* setInterval starts a cycle, requests are answered or fail (Claude's     *)
(* after API_TIMEOUT_MS), a dead process is started again.                 *)
(***************************************************************************)
FairSpec == Spec /\ WF_vars(Agent) /\ WF_vars(Restart)

-----------------------------------------------------------------------------
Rates == Nat \cup {Unpaced}

\* Type invariant; in particular a pass is in hand exactly from its first read to the end
\* of its cycle, and the amounts of the books are never negative.
TypeOK ==
    /\ submitted \subseteq Clips
    /\ velocity \in [Clips -> Nat]
    /\ effectiveRate \in [Clips -> Rates]
    /\ feed \in [Clips -> [newRate : Rates, follows : BOOLEAN, llmUsed : BOOLEAN]]
    /\ settled \in [Campaigns -> Nat]
    /\ active \in [Campaigns -> BOOLEAN]
    /\ balance \in [Campaigns -> Nat]
    /\ unbooked \in [Campaigns -> Nat]
    /\ pc \in {"down", "idle", "next", "balance", "settled", "llm", "rate", "row"}
    /\ listed \subseteq Campaigns
    /\ pc \in {"balance", "settled", "llm", "rate", "row"} => pass # NoPass
    /\ pc \in {"down", "idle"} => pass = NoPass
    /\ lowSeen \subseteq BOOLEAN
    /\ torn \subseteq Clips
    /\ crashes \in Nat

\* "The ceiling can never be violated regardless of what the model suggests"
\* (README.md:56-57): no rate in the database or in the feed exceeds max_cpm.
RatesWithinMax ==
    \A k \in Clips : /\ inForce(k) <= MaxCpm[CampaignOf[k]]
                     /\ feed[k].newRate <= MaxCpm[CampaignOf[k]]

\* The feed shows what clips earn (agent.ts:186-197): the newest row of a clip names the
\* rate in force, and each row goes on from the rate of the one before it.  Only a death
\* between the two writes breaks this.
FeedShowsRates ==
    \A k \in Clips \ torn :
       /\ feed[k].follows
       /\ inForce(k) = shown(k) \/ (pc = "row" /\ pass.clip = k)

\* The throttle is applied exactly when the campaign ran low (pacingEngine.ts:55,74-75): the
\* balance and the settled sum are read at different moments, in two stores, but the
\* verdict is true of some moment of the pass, if all payments were booked when it began
\* and no deposit came in between.
RunwayWasReal == pc = "llm" /\ pass.undisturbed => pass.throttled \in lowSeen

\* Neither an outage or a bad response of Claude (llmAdvisor.ts:20-25) nor a campaign
\* before it keeps a campaign from being evaluated: one that stays active is evaluated
\* again and again.
CampaignsArePaced ==
    \A c \in Campaigns : []<>(~active[c] \/ (pc = "next" /\ pass.campaign = c))

\* "A clip with zero recent velocity reverts to the campaign's base rate (null)"
\* (pacingEngine.ts:82-83): when a campaign with clips to choose from was evaluated, no clip
\* that was seen idle has a rate of its own.
IdleClipsRevert ==
    pc = "next" /\ pass # NoPass /\ Cardinality(DOMAIN pass.velocity) >= 2 =>
       \A k \in DOMAIN pass.velocity : pass.velocity[k] = 0 => effectiveRate[k] = Unpaced

\* What holds instead: it is so when at least one clip of the campaign gained views.
PacedIdleClipsRevert ==
    pc = "next" /\ pass # NoPass /\ ~nothingToPace(pass) =>
       \A k \in DOMAIN pass.velocity : pass.velocity[k] = 0 => effectiveRate[k] = Unpaced
=============================================================================
