---------------------------- MODULE CampaignEscrow ----------------------------
(***************************************************************************)
(* contracts/CampaignEscrow.sol, with the call it makes in the middle of   *)
(* release and withdrawRemaining.  The recipient of that call runs code of *)
(* its own before the transaction ends: it may call the contract again,    *)
(* and it may make the transfer fail, which undoes everything the          *)
(* transaction did, the calls nested in it included.                       *)
(*                                                                         *)
(* `call` is the open external call, with the storage to go back to; it is *)
(* also the lock of nonReentrant, taken by release and withdrawRemaining   *)
(* and by no other function.  While it is open no other transaction runs:  *)
(* the steps taken then are calls made by the recipient.                   *)
(***************************************************************************)
EXTENDS EscrowStorage, Functions

CONSTANTS
    Amounts,    \* bound: the values sent and released
    Durations,  \* bound: the maxDuration arguments
    MaxDeposit, \* bound: the value one campaign may receive
    MaxTime     \* bound: the last block timestamp

ASSUME EscrowAssumption ==
    /\ Amounts \subseteq Nat
    /\ Durations \subseteq 0 .. UintMax

VARIABLES
    held,   \* the contract's native balance
    call    \* the open external call, or NoCall

vars == <<campaignCount, campaigns, usedSettlementIds, blockTimestamp,
          payouts, deposited, released, returned, held, call>>

NoCall == [function |-> "none"]
locked == call # NoCall

CallTypeOK ==
    \/ call = NoCall
    \/ /\ call.function = "release"
       /\ call.campaign \in CampaignIds
       /\ call.clipper \in Accounts
       /\ call.amount \in Nat \ {0}
       /\ call.id \in SettlementIds
    \/ /\ call.function = "withdrawRemaining"
       /\ call.campaign \in CampaignIds

\* Type invariant: the storage has the types the contract declares, and an
\* open call carries the arguments of the function that made it.
TypeOK == StorageTypeOK /\ held \in Int /\ CallTypeOK

\* What the campaigns of a mapping are owed together.
owed(cs) == SumFunctionOnSet([c \in CampaignIds |-> cs[c].balance], CampaignIds)

Init ==
    /\ campaignCount = 0
    /\ campaigns = [c \in CampaignIds |-> NoCampaign]
    /\ usedSettlementIds = {}
    /\ blockTimestamp = 0
    /\ held = 0
    /\ payouts = [s \in SettlementIds |-> << >>]
    /\ deposited = [c \in CampaignIds |-> 0]
    /\ released = [c \in CampaignIds |-> 0]
    /\ returned = [c \in CampaignIds |-> 0]
    /\ call = NoCall

(***************************************************************************)
(* Not nonReentrant: also possible from inside an open call.               *)
(***************************************************************************)
CreateCampaign ==
    /\ \E sender \in Accounts, agent \in Address, value \in Amounts, d \in Durations :
          /\ value <= MaxDeposit
          /\ createCampaign(sender, value, d, agent)
          /\ held' = held + value
    /\ UNCHANGED <<blockTimestamp, call>>

TopUp ==
    /\ \E c \in CampaignIds, value \in Amounts :
          /\ deposited[c] + value <= MaxDeposit
          /\ topUp(c, value)
          /\ held' = held + value
    /\ UNCHANGED <<blockTimestamp, call>>

(***************************************************************************)
(* release up to the transfer: checks, effects, then the call.             *)
(***************************************************************************)
openReleaseCall(c, clipper, amount, id) ==
    call' = [function |-> "release", campaign |-> c, clipper |-> clipper,
             amount |-> amount, id |-> id, saved |-> Snapshot, savedHeld |-> held]

\* The id is marked, and the balance reduced, only once the clipper was paid.
CallClipperBeforeEffects ==
    \E sender \in Accounts, c \in CampaignIds, clipper \in Address,
       amount \in Amounts, id \in SettlementIds :
       /\ ~locked
       /\ releaseAllowed(sender, c, clipper, amount, id)
       /\ held' = held - amount
       /\ openReleaseCall(c, clipper, amount, id)
       /\ UNCHANGED <<blockTimestamp, payouts, campaignCount, campaigns,
                      usedSettlementIds, deposited, released, returned>>

CallClipper ==
    \E sender \in Accounts, c \in CampaignIds, clipper \in Address,
       amount \in Amounts, id \in SettlementIds :
       /\ ~locked
       /\ releaseAllowed(sender, c, clipper, amount, id)
       /\ releaseEffects(c, amount, id)
       /\ held' = held - amount
       /\ openReleaseCall(c, clipper, amount, id)
       /\ UNCHANGED <<blockTimestamp, payouts>>

(***************************************************************************)
(* withdrawRemaining up to the transfer; an empty campaign is closed       *)
(* without a call.                                                         *)
(***************************************************************************)
CallOrganizer ==
    \E sender \in Accounts, c \in CampaignIds :
       /\ ~locked
       /\ withdrawAllowed(sender, c)
       /\ campaigns[c].balance > 0
       /\ withdrawEffects(c)
       /\ held' = held - campaigns[c].balance
       /\ call' = [function |-> "withdrawRemaining", campaign |-> c,
                   saved |-> Snapshot, savedHeld |-> held]
       /\ UNCHANGED <<blockTimestamp, payouts>>

CloseEmptyCampaign ==
    \E sender \in Accounts, c \in CampaignIds :
       /\ ~locked
       /\ withdrawAllowed(sender, c)
       /\ campaigns[c].balance = 0
       /\ withdrawEffects(c)
       /\ UNCHANGED <<blockTimestamp, payouts, held, call>>

(***************************************************************************)
(* The call returns.  A success lets the function end, with its event; a   *)
(* failure is NativeTransferFailed, and the transaction never happened.    *)
(***************************************************************************)
CallReturns ==
    /\ locked
    /\ IF call.function = "release"
         THEN emitPayoutReleased(call.campaign, call.clipper, call.amount, call.id)
         ELSE UNCHANGED payouts
    /\ call' = NoCall
    /\ UNCHANGED <<campaignCount, campaigns, usedSettlementIds, blockTimestamp,
                   deposited, released, returned, held>>

CallFails ==
    /\ locked
    /\ RestoreSnapshot(call.saved)
    /\ held' = call.savedHeld
    /\ call' = NoCall
    /\ UNCHANGED blockTimestamp

\* A later block: no transaction is running.
NextBlock ==
    /\ ~locked
    /\ blockTimestamp < MaxTime
    /\ blockTimestamp' = blockTimestamp + 1
    /\ UNCHANGED <<campaignCount, campaigns, usedSettlementIds, payouts,
                   deposited, released, returned, held, call>>

Next ==
    \/ CreateCampaign
    \/ TopUp
    \/ CallClipper
    \/ CallOrganizer
    \/ CloseEmptyCampaign
    \/ CallReturns
    \/ CallFails
    \/ NextBlock

Spec == Init /\ [][Next]_vars

-----------------------------------------------------------------------------
(***************************************************************************)
(* Properties.                                                             *)
(***************************************************************************)

\* At every moment, inside an open call too, the contract holds exactly the
\* ether its campaigns are owed: a recipient that calls back in never finds a
\* balance that was paid out already (CampaignEscrow.sol:128-137, 150-157).
Solvency == held = owed(campaigns)

\* For each campaign, what came in is what is left, plus what clippers got,
\* plus what the organizer got back; a failed transfer takes nothing with it.
Conservation ==
    \A c \in CampaignIds :
       deposited[c] = campaigns[c].balance + released[c] + returned[c]

\* A settlement id is paid at most once, on whatever campaign, and while it is
\* being paid it is already marked (usedSettlementIds, CampaignEscrow.sol:27-31).
PaidAtMostOnce ==
    \A s \in SettlementIds :
       /\ Len(payouts[s]) <= 1
       /\ locked /\ call.function = "release" /\ call.id = s
             => payouts[s] = << >> /\ s \in usedSettlementIds

\* An id is marked as used exactly when its clipper was paid or is being paid:
\* a release that reverts leaves its id usable for the next attempt.
UsedIdsArePaid ==
    \A s \in SettlementIds :
       s \in usedSettlementIds <=>
          \/ payouts[s] # << >>
          \/ locked /\ call.function = "release" /\ call.id = s

\* withdrawRemaining "closes the campaign permanently" (CampaignEscrow.sol:143):
\* once its transaction committed, no later one reopens it or changes it.
ClosedIsFinal ==
    [][\A c \in CampaignIds :
          campaigns[c].closed /\ ~locked
             => campaigns'[c] = campaigns[c] /\ campaigns[c].balance = 0]_vars

(***************************************************************************)
(* The contract implements PayoutLedger.  An open call has not happened    *)
(* yet for the ledger: its transaction may still fail as a whole.          *)
(***************************************************************************)
committed == IF locked THEN call.saved ELSE Snapshot

Ledger == INSTANCE PayoutLedger WITH
    Campaigns <- CampaignIds,
    Ids       <- SettlementIds,
    Payouts   <- Payout,
    paid      <- committed.payouts,
    deposits  <- committed.deposited,
    spent     <- committed.released,
    refunds   <- committed.returned,
    finished  <- {c \in CampaignIds : committed.campaigns[c].closed}

\* Whatever recipients do inside the calls, each committed transaction is a
\* deposit, one payout of an unpaid id, or one refund, possibly with deposits.
ImplementsLedger == Ledger!LedgerSpec
=============================================================================
