# ClipStream in TLA+

ClipStream pays people ("clippers") for the views their clips of a campaign get on X. An
organizer deposits money in an escrow contract; a poller counts views, a worker pays for
them with the escrow's money, and a pacing agent moves the rates. This directory holds a
formal model of its processes, contracts and pages, what TLC checks of it, and what TLAPS
proves.

Paths below are relative to the repository (`src/`).

## 1. The system

Four Node processes (`package.json:21`, `concurrently --restart-tries -1`: a dead process is
started again), one SQLite file they share, and two contracts.

| Component | State | Operations | Talks to |
|---|---|---|---|
| CampaignEscrow (`contracts/CampaignEscrow.sol`) | campaigns (balance, agent, organizer, closed), used settlement ids | createCampaign, topUp, release, withdrawRemaining | calls the recipient of a transfer, who may call back |
| PayoutRegistry (`contracts/PayoutRegistry.sol`) | recorded ids, an event log | recordPayout | — |
| View Poller (`poller/viewPoller.ts`) | `isPolling` | one cycle a minute: snapshot per clip, delta, pending settlement | X API, SQLite, Validation Engine |
| Validation Engine (`validation/engine.ts`) | none | validateViewDelta | — |
| Settlement Worker (`settlement/`) | `isRunning`, a nonce counter per cycle | one cycle a minute: pending row → release → settlement row → audit entry | SQLite, the chain through an RPC node |
| Pacing Agent (`pacing/`) | `isRunning` | every two minutes: velocities, rates, an LLM's adjustments | SQLite, the chain, an LLM |
| Database (`db/`) | campaigns, clips, snapshots, pending settlements, settlements, wallets, X accounts, Circle users, decisions | queries, no transactions spanning two statements | — |
| API server (`server/`) | OAuth states in memory; handlers in flight | register and finalize a wallet, link or recover by an X login, submit a clip, wait for a transaction, index a campaign; summaries for the pages | SQLite, the chain, X, Circle |
| Web (`web/`) | the wallet in local storage, a wallet previewed, what each part of a page loaded last | load, poll, refresh; the forms that submit a clip, create and fund a campaign | API server, Circle's SDK |

What makes it hard: the database and the chain share no transaction, so every await and
every pair of writes in the worker is a place to die or to be told something wrong; the
poller's snapshot and the row it queues are two writes; each process works on rows it read
some time ago; the contract calls strangers' code in the middle of its functions. The
server's handlers wait for X, Circle or the chain between what they look up and what they
write, several at a time; the flows of a form are chains of requests that can end at every
link; and a page shows answers in whatever order they arrive.

What makes each component correct:

* Escrow: what it holds is what it owes, an id is paid once, a closed campaign is over.
* Worker: no row is paid twice, the books say what was paid and nothing else, caps hold,
  no nonce is skipped, no row is forgotten.
* Poller: no view is queued twice, no approved view is lost, ids are unique, what it queues
  is plausible and acceptable to the worker, stale data lives for one cycle.
* Pacing Agent: rates stay under the organizer's maximum whatever the LLM says, the decision
  feed tells the rates that are in force, a throttle has a reason, no campaign is forgotten.
* Accounts: a login state is used once, a login that X confirmed is not refused, a wallet that a
  browser remembers is known to the server with the right Circle user.
* Clip submission: a tweet is one clip, of a wallet that was linked to its author.
* Campaign creation: an on-chain campaign is one row, with the prices its own creation was
  submitted with; what a form reports as done was done; a form comes to an end.
* Pages: what is polled comes to show the truth, an old answer does not pass for another
  wallet's, and a view that loads comes to show its data or the error (two views do not: see
  section 3).

`PROJECT.json` lists all components with their status and all hazards with their lines.

## 2. Modules

| Module | Models | State ↔ code |
|---|---|---|
| `PayoutMath` | the arithmetic of `settlement/pendingSettlement.ts`, the rate of `poller/viewPoller.ts:97-105`, the worker's reasons to refuse (`worker.ts:156-218`) | pure operators; BigInt `/` is `\div` |
| `EscrowStorage` | the escrow's storage and each function's checks and effects | `campaigns`, `usedSettlementIds`, `campaignCount` as declared; `payouts` is the PayoutReleased log by id; `deposited`, `released`, `returned` are history |
| `CampaignEscrow` | the contract with its external calls | `call` is the open call (and the lock of nonReentrant), with the storage to restore on failure; `held` is the contract's ether |
| `PayoutLedger` | the promise: an abstract ledger | implemented by the two modules that build on `EscrowStorage` |
| `SettlementWorker` | the worker, the tables it uses, the mempool, the escrow and the registry | `pc` is the await or statement of `processPendingSettlement` it stands at, `job` its local variables, `nextNonce` the tracker's counter; one action per statement that writes and per answer an await can get |
| `ViewPoller` | the poller and the Validation Engine | `pc`, `listed` (the rows of clips read at the start of the cycle), `poll` (locals of pollClip); `approved` is history |
| `PacingMath` | the arithmetic of `pacing/pacingEngine.ts` and of `applyLlmAdjustment` | pure operators, ratios in basis points |
| `PacingAgent` | the agent's cycle, next to a poller, a worker and organizers that go on meanwhile | `pc` is the await or statement of `paceCampaign`, `pass` its local variables, `listed` the campaigns still to do; `velocity` is what computeClipVelocity returns, `feed` the newest row of `agent_decisions` per clip, of whose `old_rate` the model keeps whether it continues the row before (`follows`); `balance`, `settled`, `unbooked` are the chain, the books and what is between them; `lowSeen` and `torn` are history |
| `Accounts` | wallets, signups through Circle, logins with X in both modes, and what browsers remember | `wallets`, `circleUsers`, `xAccounts` are the tables; `pendingStates` is the Map of `oauth.ts:35`, `callbacks` the handlers that wait for X; `signup` is where a `createCircleWallet` stands, `held` localStorage; `walletOf` and `consent` are what Circle and X know; `byHand` (what POST /wallets registered), `issued`, `exchanges`, `everLinked`, `refusedLinks` are history |
| `ClipSubmission` | POST /clips on top of `Accounts` | `submissions` holds, per request, the locals of the handler while X is asked; `clips` is the table, each row with the request that wrote it |
| `CampaignCreation` | the create and top-up forms, Circle's transactions, the contract's counter, the finalize, resolve and index routes | `flow` is the await a submission stands at and its locals; `txs` is Circle's list, `campaigns` the contract's, `rows` the table |
| `LivePages` | the eight parts of pages that load by themselves, the wallet hooks, and the server's reads | `wallet` is the state of the hook, `requests` what is unanswered, `shown`, `loading`, `error` the part's state; `balance` is the chain, `booked` the settlements, `feed` the decisions |
| `SettlementWorkerProofs`, `CampaignEscrowProofs`, `ViewPollerProofs`, `PacingAgentProofs`, `ClipSubmissionProofs`, `CampaignCreationProofs`, `LivePagesProofs` | theorems about the module of the name | |
| `SumProofs` | lemmas about sums over finite sets, and about the division by a thousand | |
| `MC*` | constants for TLC | |

`SettlementWorker` composes the worker with `EscrowStorage`: there a contract call is one
step, because the chain runs transactions one at a time and the worker only sees their
outcome; a clipper that refuses its transfer is the fault "refuse". `CampaignEscrow` is the
place where the inside of a transaction is opened up. `ClipSubmission` composes the submission
with `Accounts`, whose logins move links while X is asked for an author. `LivePages` has only
as much of the worker, the chain and the agent as its reads tell apart. Definitions whose comment describes a
mistake ("The id is not looked up: every retry pays again") are variants of the definition
that follows them. Nothing uses them: they document what each check protects from, and
putting one in the place of the original makes the property named in `PROJECT.json` fail.

What was abstracted: amounts are small naturals, text is left out except the reason a row is
refused for, a settlement id is a model value in the worker and the pair (clip, time) it is
the hash of in the poller. Copies of a clip's campaign, wallet and cap are read from the
clip, since nothing changes those after it is submitted. `per_clip_cap` is not set by
`POST /clips`; the worker enforces it for clips that have one, and so does the model. Two
requests that change nothing and whose failure ends the flow are one step. In `Accounts`
signups have a new Circle user each, and a browser's two stored wallets (one per role) are
one. In `CampaignCreation` there is one organizer with one Circle user, which is the case in
which `listTransactions` is ambiguous; that a row has the right terms is left to the chain's
answer. In `LivePages` a behaviour has one view, since the views of a page share nothing but
the wallet; the clipper's clips are shown first, and their load ends when the links to the
payments came, none of which can fail it (`ShowAnswer`, `ShowLinks`). `shown`, `loading` and
`error` are the component's state, and what the page says of them is `SaysLoading`. In `Accounts`
the wallet that a redirect names is the one the server sent back; a query string that somebody
typed (`clipper/profile/page.tsx:51-63`) is not. A request for the nonce that fails, in
`SettlementWorker`, ends the process and is so part of the bounded `Crash`.

### Faults

`SettlementWorker.Faults` and `ViewPoller.Faults` name what may go wrong, so that a run can
say under which faults a property holds. Worker: the process dies; a request fails before it
had an effect; a transaction is accepted and the answer lost; wait() rejects although the
transaction may still be mined; the recipient refuses. Poller: death; an X request fails; X
answers with too low a count; the clock is set back, between polls or between the two times
one poll takes (`viewPoller.ts:51` and the default of `polled_at`). Pacing Agent (`MaxCrashes`
bounds both together): death, and a failed balance request, which nothing catches, so that
the unhandled rejection ends the process; the LLM answers anything or nothing, at any time.
In the modules of the server and the pages faults are not optional: a request to X or Circle
fails, an answer is lost, the server's process ends with everything in its memory, the second
of two writes does not happen, a transaction fails or is never mined, a tab is closed (the
handler it waited for goes on to its end: `FlowFails` is then the step after that).

## 3. What is checked

All bounds are constants named in the modules. CHECK_DEADLOCK is off where the bounded
environment may run out of steps; that processes do not stop is stated by the liveness
properties instead.

| Run | Shows | Instance |
|---|---|---|
| `escrow` | `Solvency`, `Conservation`, and `ImplementsLedger` (an id is paid once, a closed campaign is final), with re-entrant recipients and failing transfers | 2 campaigns, 2 ids, 2 accounts in every role, values 0..2, a duration that overflows; 570 thousand states |
| `worker_faults` | under every fault: `PaidAtMostOnce`, `PayoutsMatchTheQueue`, `SettledMeansPaid`, `AuditMatchesPayouts`, `NoNonceGap`, `VerdictsAreFinal`, `ImplementsLedger`, the inductive invariant `IInv` (with `TypeOK` and the caps in it); and, under fairness, `RowsAreDecided` | 2 rows, 2 clips (one capped below what two rows ask), a deposit two rows use up, one death; 410 thousand states |
| `worker_reliable` | without faults: `EarnedWithinCap`, `BooksBalance`; and `PaymentsAreBooked`, `DepletedCampaignsClose` under fairness | same, no death |
| `poller_faults` | `ViewsQueuedOnce`, `QueuedWithinPlausibleRate`, `RowsPassTheCeiling`, `AtMostOneStaleRow` through deaths, failed requests, counts that drop, clocks set back | 1 clip, 3 snapshots, 2 views against a plausible 1 per tick, 3 moments, one death; 3.4 million states |
| `poller_cycle` | `EveryListedClipIsPolled` under fairness, `ApprovedDeltasAreQueued` | 2 clips, failing requests |
| `pacing` | `RatesWithinMax`, `FeedShowsRates`, `RunwayWasReal`, with payments, deposits, snapshots, new clips and a closing between any two steps of a pass; `CampaignsArePaced` under fairness | 2 campaigns (one without clips), 2 clips, velocities 0 and 1, a release to a tenth of the budget, a deposit that lifts it, bookings that are partly lost, factors at the bound and outside, one death; 1.6 million states |
| `clip_submission` | `StatesAreUsedOnce`, `RelinkingNeverFails`, `HeldWalletsAreRecoverable`, `ClipsWereOwned`, `TwiceOnlyIfConcurrent`, with repeated callbacks, expiry, lost answers, half-written registrations, addresses posted to /wallets by anybody, and restarts | 2 signups, 2 addresses, 2 X users, 3 login states, one browser, 1 tweet, 2 requests; 2.5 million states, up to symmetry |
| `campaign_creation` | `PricedAsEntered`, `OneRowPerCampaign`, `ReportsAreTrue`, `TypeOK`; `FlowsEnd` under fairness | 2 creations and a top-up at once, 2 polls of the challenge and 2 of the transaction; 200 thousand states |
| `live_pages` | `OldAnswersNeedASwitch`, `TypeOK`; `ViewsCatchUp`, `LoadingEndsOrHidesAnError` under fairness | all 8 views, 2 wallets, 2 requests in flight, 2 changes of the wallet, one failed request, one payment and one decision; 530 thousand states |

Why these bounds are enough to be interesting: two rows are what it takes for one row to be
affected by another (a cap reached, a deposit used up, a nonce taken twice, a settled row
next to a pending one), one death separates a payment from its bookkeeping, a third snapshot
is the first whose baseline can be the wrong one, and two clips are needed for one to keep
the other waiting. Three login states let a link move away and back while a fourth party, the
submission, waits for X; of two addresses either may be Circle's, posted by hand, or both. A third
flow is what it takes for a guess to hit a transaction that is neither its own nor a
campaign's creation; two polls are the fewest with one that goes on. Two requests are what it
takes to be out of order, and a second change of the wallet returns to the first. Every property has been seen to fail when the definition it guards is
replaced by a plausible mistake (`mutants` in `PROJECT.json`).

### Fairness

* `WF(Worker)`, `WF(Poller)`: `setInterval` starts a cycle every minute, and an await that was
  answered goes on. X requests end by themselves (fetch gives up after five minutes).
* `WF(Mine)`: the chain includes what waits under the agent's next nonce. This is an assumption
  about the chain; `wait()` has no timeout (`worker.ts:247`), so without it the worker hangs.
* `WF(Agent)`: `setInterval` every two minutes; a request to the LLM ends by `API_TIMEOUT_MS`, one to
  the node is answered or fails. A failed balance request ends the process, so
  `CampaignsArePaced` holds because only `MaxCrashes` of them happen: if the node failed
  every time at the same campaign, the ones listed after it would never be reached.
* `WF(Restart)`: `--restart-tries -1`.
* `WF(HandlerStep(f))` (`CampaignCreation`): a handler goes on from one timer or answer to the
  next, for every flow; the clients give each request an end. Neither the user nor Circle nor
  the chain is assumed to do anything.
* `WF(Poll)`, and weak fairness of answering the oldest request (`LivePages`): the interval
  ticks, and what was asked is answered in the end. An error may take the answer's place, as
  often as `MaxErrors` says. A poll is taken only while fewer than `MaxInFlight` requests are
  unanswered, which is what bounds the overlap of polls.

Nothing is assumed about organizers, viewers, the poller (in the worker's module) or faults.

### Where the code does not do what it says

Three runs end in a violation; the traces are short and the findings in `PROJECT.json` quote
the lines.

* `failed_but_paid`: a worker that dies after a release was sent, and before its rows were written,
  marks a paid row failed on the next attempt, for good (`worker.ts:230-231` says a failure
  means that nothing happened on the chain). The lost row is also missing from the sum that
  enforces the clip's cap, which is why `EarnedWithinCap` is checked without faults only.
* `idle_rate_kept`: clips that went idle keep their raised or lowered rate if all clips of the
  campaign did, because such a campaign is skipped before any rate is written
  (`pacingEngine.ts:82-83` says an idle clip reverts to the base rate).
* `tweet_twice`: two requests that submit one tweet and both wait for X when the other inserts are
  both accepted, since `clips.tweet_id` is not UNIQUE; its views are then paid for each clip
  (`docs/FRONTEND_DATA_CONTRACT.md:325` promises a 409). `TwiceOnlyIfConcurrent` is what holds.

`HeldWalletsAreRecoverable` has an exception that the code makes: `POST /wallets` takes any address,
and finalize inserts a Circle user only for one that is not registered yet
(`circleWallets.ts:168-173`). Whoever posts a wallet's address in between leaves the browser with
a wallet that cannot be recovered with X.

One thing the code does is contradicted by no document, but is a defect. If the first load of the
organizer's profile or of the clipper's earnings fails, the page says "Loading" from then on and
does not show the error: it asks whether there is data before it asks whether there was an error
(`organizer/profile/page.tsx:120` and `:146`, `clipper/profile/page.tsx:210`), and these views have no
interval that would load again. `LoadingEndsOrHidesAnError` says that this is the only way to say
"Loading" for ever, and that the other six views are free of it; `<>[]~SaysLoading`, which would
say that no view does so, is violated by the failed load in `live_pages.cfg`'s instance.

Three more are stated in their modules and broken by the code; no run is kept for them. Each
is seen with the cfg of the run named, without its other properties.

* `ClosedWhenEmpty` (`SettlementWorker`, with `worker_reliable.cfg`): a top-up between the balance read
  and the status write (`worker.ts:288-290`) closes a campaign that has money; nothing opens it
  again.
* `ZeroReasonMeansNoViews` (`SettlementWorker`, with `worker_reliable.cfg`): a rate below 1,000 per
  thousand views floors to zero, and approved views are refused as "no new views".
* `ApprovedDeltasAreQueued` (`ViewPoller`, with one death and `Faults <- CrashOnly` in
  `poller_cycle.cfg`): a poller that dies between the snapshot and the pending row loses the delta.

`UsedIdsArePaid`, `ClosedIsFinal` and `PaidAtMostOnce` of the contract, `RowsWithinCap` and
`IdsAreFresh`, and the type invariants of the contract, the poller, the agent and the accounts
are stated too and hold, but are in no run of their own: they are theorems (section 4), the first
three are implied by `ImplementsLedger` besides, and the fourth by `IInv`.

Some properties of the poller are stated for behaviours that did not meet one of the faults
(`met`), on purpose. `ViewsQueuedOnce` assumes what `engine.ts:49` does ("monotonically
non-decreasing on X"), since a count that drops is stored as the next baseline and its
recovery is approved again; it and `IdsAreFresh` also assume that the clock is not set back
between the two times of one poll, and `QueuedWithinPlausibleRate` that it is never set back.
`PricedAsEntered` and `ReportsAreTrue` leave out the flows whose transaction was taken from
`listTransactions`: with two forms at once the newest transaction may be another's, and a
campaign is then indexed with the prices of another form, which no check can see. `RunwayWasReal`
compares the agent's verdict, made of a balance and a settled sum read at
different moments, with the truth at each moment of the pass. It assumes that every payment
was booked when the pass began and that nobody deposited during it: otherwise the sum
of what was read can be less or more than any budget the campaign ever had.

## 4. What is proved

For all values of the constants that satisfy the modules' named assumptions, with any number
of rows, clips, campaigns, users, forms and deaths and every subset of the faults:

* `CampaignEscrowProofs`: `Spec => []IInv`, and from it `[]Solvency`, `[]Conservation`,
  `[]PaidAtMostOnce`, `[]UsedIdsArePaid`, `[]TypeOK`, `ClosedIsFinal` and `ImplementsLedger`, with
  any code run by the recipients inside the transfers.
* `SettlementWorkerProofs`: `Spec => []IInv`, and from it `[]TypeOK`, `[]PaidAtMostOnce`,
  `[]PayoutsMatchTheQueue`, `[]SettledMeansPaid`, `[]AuditMatchesPayouts`, `[]TotalsWithinCap`,
  `[]RowsWithinCap`, `[]NoNonceGap`, `VerdictsAreFinal` and `ImplementsLedger`, under every fault;
  and `[]FailedMeansUnpaid`, `[]EarnedWithinCap`, `[]BooksBalance` for a worker that is `Reliable`
  (see below). The clamp never exceeds the request or the cap and pays in full unless it caps,
  and the amount of an accepted row is positive.
* `ViewPollerProofs`: `Spec => []IInv`, and from its parts `[]TypeOK`, `[]RowsPassTheCeiling`,
  `[]AtMostOneStaleRow`, `[]IdsAreFresh`, `[]ViewsQueuedOnce`, `[]QueuedWithinPlausibleRate`; and
  `[]ApprovedDeltasAreQueued` if deaths and the fault "stamp" are not among `Faults`. The worker's
  rate ceiling admits every rate up to `max_cpm` at every delta, although both sides are floored.
* `PacingAgentProofs`: `Spec => []TypeOK`, `[]FeedShowsRates`, `[]RatesWithinMax`, `[]RunwayWasReal`,
  `[]PacedIdleClipsRevert`; and of the arithmetic, for any factor, negative ones included, that no
  rate the engine or the factor makes exceeds `max_cpm`.
* `ClipSubmissionProofs`: `Spec => []IInv`, and from it `[]TypeOK`, `[]StatesAreUsedOnce`,
  `[]RelinkingNeverFails`, `[]HeldWalletsAreRecoverable`, `[]ClipsWereOwned`,
  `[]TwiceOnlyIfConcurrent`.
* `CampaignCreationProofs`: `Spec => []IInv`, and from it `[]TypeOK`, `[]PricedAsEntered`,
  `[]OneRowPerCampaign`, `[]ReportsAreTrue`.
* `LivePagesProofs`: `Spec => []PagesInv`, and from it `[]TypeOK` and `[]OldAnswersNeedASwitch`.

Every safety property of a run that passes is so a theorem, and three of them bound what the
runs that fail show: `FailedMeansUnpaid` holds without deaths, lost answers and failed waits;
`TwiceOnlyIfConcurrent` of any two submissions that do not overlap; `PacedIdleClipsRevert` of
every pass that is not skipped.

The worker. None of the safety properties is inductive: that a row of settlements is backed
by a payout needs to know, at the moment it is written, that the receipt the worker saw was
that of its own transaction. `IInv` therefore says, besides types: the escrow's used ids are
exactly the paid ones (`EscrowInv`); a transaction, waiting or mined, carries what its row
asks for, one that was mined successfully has left exactly that payout, and an audit
transaction exists only for a payment that exists (`TxInv`); and what is already true of the
row in hand at each `pc` (`JobInv`): before the receipt it is pending, unbooked and within
the cap, after it it is paid, and after the insert it is booked. The proof has one lemma per
action or group of actions, and under it a step per part of `IInv`. The refinement maps
`payouts`, `deposited`, `released`, `returned` and the closed campaigns to the ledger's
variables; every action of the worker but the mining of a release is a stutter or a deposit.

Two chains of further invariants build on it. `NoNonceGap` is inductive given the types: a
transaction goes out under the tracker's next nonce, everything below it is mined or waiting
already, and mining takes the lowest. The caps and the books are sums: `TotalsAreSums` says that the totals the database
answers with are the sums of the rows, for any number of rows and clips, and is kept because a
step writes at most one of them. `ReliableInv` is what holds besides if `Faults` has no death,
no lost answer and no failed wait (`Reliable`; requests may still fail before they had an effect,
and recipients refuse): nothing is in the mempool but the transaction the worker waits for, and
a payout without its row is that of the row in hand, between the receipt and the insert. That is
where a worker that dies breaks the books, and why `Reliable` is assumed.

The agent's `FeedInv` adds to `FeedShowsRates` what makes it inductive: the rates a pass read
are still in force for the clips it has not written yet (only the agent writes rates, and the
pass has each clip once), and the clip between its two writes has the rate the next row
will name. `RateInv` adds that what was decided is within the ceiling, and that the sum of the
velocities of a pass in hand is not zero, so that the share of it is defined. For `RunwayWasReal`
the pass has to be compared with a history. While all payments are booked or under way and
nobody deposits, the budget does not change and the balance only falls. The balance that was
read is therefore one the campaign had during the pass, and the settled sum that is read later
lies between what was booked at that moment and the whole of what was paid. The verdict on it
is between the verdicts of two moments; with two values, it is that of one of them (`seen`,
`RunwayInv`). That a clip without views reverts is carried by `IdleInv` from the decision over
Claude's answer to the write.

The poller. The argument is about the newest snapshot of a clip. A poll compares itself with it,
because no other poll of the clip runs meanwhile (`PollInv`); and no queued row reaches beyond
it, in time (`TimesInv`) or in views (`ViewsInv`), as long as the clock or X does not misbehave in
the one way that breaks this, which the history `met` tells. Rows of a clip are so queued one
after the other, and a new one starts where the newest snapshot stood. `RateInv` adds up what was
queued against the time up to that snapshot: each delta passed the ceiling for its own interval,
and the intervals follow each other, which bounds their sum for any number of polls.

The contract. Its storage is of no help alone: when a transfer fails, the state is the one
before the call. `IInv` therefore speaks of both, the storage and the one saved for the failure
(`Consistent`), and says what an open call has done between them (`OpenCall`): a release has
marked one id that was not used and moved its amount from the balance of an open campaign to
`released`; a withdrawal has closed one campaign and returned what was not paid out; what
recipients may do meanwhile, create and top up, only adds deposits, and none to a campaign
that was closed (`DepositsSince`). For the ledger nothing has happened until the call returns,
and then `OpenCall` is a `Pay` or a `Refund`. `Solvent` and `ClosedInv` say of both storages that
the ether held is the sum of the balances, and that a closed campaign is empty; the first is a
sum over the campaigns of which each function changes one.

Logins and submissions. A state that is pending was not exchanged, and one that was not issued
is not pending (`StatesInv`); a login that will link has a registered wallet (`LinkInv`); a
wallet of a browser comes from a signup whose two writes both happened, or that found the
address posted by hand, or from a recovery that found the two (`WalletInv`); and what a
submission read before it waited was true then and is remembered by the history (`ClipInv`).

Campaign creation. What a flow holds is its own: the transaction it polls, unless it was
guessed, and from there the id that is resolved, posted and inserted (`FlowOK`), because a
transaction that is confirmed names the campaign its flow created (`TxOK`).

The pages. Until something is under way as the wallet changes, every request and the form belong
to the wallet that is looked at (`OwnInv`): a change of the wallet with nothing under way leaves
only the load for the new wallet, and a form that reloads does so for the wallet it was
submitted with. So an answer that is shown is that wallet's, and after a change either the load
is announced or nothing is shown.

Sums. The functions of the community modules are recursive, and the library's induction
theorems cannot be instantiated here. `SumProofs` goes round this with smallest counterexamples:
if a fact about finite subsets failed, it would fail for one of least cardinality (`SmallestSubset`,
from the well-foundedness of `<` on `Nat`), and taking one element out of that one gives a
smaller. In this way the recursion behind `SumFunctionOnSet` is shown to have exactly one
solution, and from there that a sum does not depend on the order, changes by what one of its
values changes by, and is monotone.

Assumed are the named assumptions on the constants, `Reliable` and the restriction on `Faults` where
they are named above, and nothing else: `Spec` is each module's own. Sets of rows and clips are
finite there, since a database is; their size is free.

Only model-checked: all liveness (`RowsAreDecided`, `PaymentsAreBooked`, `DepletedCampaignsClose`,
`EveryListedClipIsPolled`, `CampaignsArePaced`, `FlowsEnd`, `ViewsCatchUp`,
`LoadingEndsOrHidesAnError`), because the prover does not do fairness and ENABLED. What the runs
with a violation show is false and has no proof; `ClosedWhenEmpty` and `ZeroReasonMeansNoViews` are false too and nothing weaker is
stated in their place. Every inductive invariant also holds on the instance of its module's run,
where TLC checked it (in `RunwayInv` with the witness `start` taken from an interval, since TLC
does not enumerate `Nat`).

## 5. Plan

Done: the money path (`PayoutMath`, `EscrowStorage`, `CampaignEscrow`, `PayoutLedger`,
`SettlementWorker`), the poller, the pacing agent, the API server (`Accounts`,
`ClipSubmission`, `CampaignCreation`) and the pages (`LivePages`); for each of them, its type
correctness and every safety property that a run checks as a theorem.

Next, in this order:

1. The ledger's own consequences (nothing is spent that was not deposited), proved of
   `PayoutLedger` once, for both modules that implement it.
2. `Payments`: poller and worker composed over one queue, and an end-to-end statement: what a
   clipper is paid for is at most what viewers watched.
3. What can be said of progress without fairness: that a row that is decided, or a form that
   ended, was so within the number of attempts the code makes.

### Not modelled

Rendering, formatting and styling of the web frontend, and its landing pages, which keep no
state; deployment and seeding scripts, and the migrations of `db/init.ts`, which run before any
process; PKCE's cryptography; the LLM itself (its answer is any value); the faucet request
(`server/circleWallets.ts:196-211`), which changes nothing that is read. None of them has a
state of the program that another step reads.
