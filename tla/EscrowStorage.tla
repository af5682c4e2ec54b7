---------------------------- MODULE EscrowStorage ----------------------------
(***************************************************************************)
(* The storage of contracts/CampaignEscrow.sol and what each of its        *)
(* functions does to it.  A call that reverts changes nothing, so every    *)
(* `revert` of the source is a conjunct of a guard.  Two modules build on  *)
(* this one: CampaignEscrow adds the external calls made in the middle of  *)
(* release and withdrawRemaining, and SettlementWorker runs the contract   *)
(* one transaction at a time, as the chain does for its callers.           *)
(*                                                                         *)
(* baseRate is left out (nothing reads it); the event log is kept as the   *)
(* PayoutReleased events of each settlement id.                            *)
(***************************************************************************)
EXTENDS Integers, Sequences

CONSTANTS
    MaxCampaigns,   \* bound: campaigns ever created
    Accounts,       \* the addresses that send or receive
    ZeroAddress,    \* address(0), no account
    SettlementIds,  \* the bytes32 ids release() is called with
    UintMax         \* the largest uint256

ASSUME StorageAssumption ==
    /\ MaxCampaigns \in Nat \ {0}
    /\ ZeroAddress \notin Accounts
    /\ UintMax \in Nat

CampaignIds == 0 .. MaxCampaigns - 1

VARIABLES
    campaignCount,      \* the next campaign id
    campaigns,          \* mapping(uint256 => Campaign)
    usedSettlementIds,  \* mapping(bytes32 => bool), as the set of used ids
    blockTimestamp,     \* block.timestamp
    payouts,            \* the PayoutReleased events of each id, in order
    deposited,          \* history: value received for each campaign
    released,           \* history: value sent to clippers from each campaign
    returned            \* history: value sent back to the organizer

storageVars == <<campaignCount, campaigns, usedSettlementIds, payouts,
                 deposited, released, returned>>

Address == Accounts \cup {ZeroAddress}

Campaign == [organizer : Address, authorizedAgent : Address,
             maxDuration : 0 .. UintMax, balance : Nat,
             createdAt : Nat, closed : BOOLEAN]

Payout == [campaign : CampaignIds, clipper : Accounts, amount : Nat \ {0}]

\* What the mapping returns for an id never assigned.
NoCampaign == [organizer |-> ZeroAddress, authorizedAgent |-> ZeroAddress,
               maxDuration |-> 0, balance |-> 0, createdAt |-> 0,
               closed |-> FALSE]

StorageTypeOK ==
    /\ campaignCount \in 0 .. MaxCampaigns
    /\ campaigns \in [CampaignIds -> Campaign]
    /\ usedSettlementIds \in SUBSET SettlementIds
    /\ blockTimestamp \in Nat
    /\ payouts \in [SettlementIds -> Seq(Payout)]
    /\ deposited \in [CampaignIds -> Nat]
    /\ released \in [CampaignIds -> Nat]
    /\ returned \in [CampaignIds -> Nat]

campaignExists(c) == campaigns[c].organizer # ZeroAddress

(***************************************************************************)
(* createCampaign: the deposit arrives with the call that creates the      *)
(* campaign, under the next id.                                            *)
(***************************************************************************)
createCampaign(sender, value, maxDuration, agent) ==
    /\ agent # ZeroAddress
    /\ value > 0
    /\ campaignCount \in CampaignIds
    /\ campaigns' = [campaigns EXCEPT ![campaignCount] =
                        [organizer |-> sender, authorizedAgent |-> agent,
                         maxDuration |-> maxDuration, balance |-> value,
                         createdAt |-> blockTimestamp, closed |-> FALSE]]
    /\ campaignCount' = campaignCount + 1
    /\ deposited' = [deposited EXCEPT ![campaignCount] = value]
    /\ UNCHANGED <<usedSettlementIds, payouts, released, returned>>

topUpAllowed(c, value) ==
    /\ campaignExists(c)
    /\ ~campaigns[c].closed
    /\ value > 0

topUp(c, value) ==
    /\ topUpAllowed(c, value)
    /\ campaigns' = [campaigns EXCEPT ![c].balance = @ + value]
    /\ deposited' = [deposited EXCEPT ![c] = @ + value]
    /\ UNCHANGED <<campaignCount, usedSettlementIds, payouts, released, returned>>

(***************************************************************************)
(* release: the checks, then the effects.  The event comes after the       *)
(* transfer returned, so it is an operator of its own.                     *)
(***************************************************************************)
\* The id is not looked up: every retry pays again.
releaseAllowedForUsedId(sender, c, clipper, amount, id) ==
    /\ campaignExists(c)
    /\ sender = campaigns[c].authorizedAgent
    /\ clipper # ZeroAddress
    /\ amount > 0
    /\ ~campaigns[c].closed
    /\ campaigns[c].balance >= amount

releaseAllowed(sender, c, clipper, amount, id) ==
    /\ campaignExists(c)
    /\ sender = campaigns[c].authorizedAgent
    /\ clipper # ZeroAddress
    /\ amount > 0
    /\ id \notin usedSettlementIds
    /\ ~campaigns[c].closed
    /\ campaigns[c].balance >= amount

releaseEffects(c, amount, id) ==
    /\ usedSettlementIds' = usedSettlementIds \cup {id}
    /\ campaigns' = [campaigns EXCEPT ![c].balance = @ - amount]
    /\ released' = [released EXCEPT ![c] = @ + amount]
    /\ UNCHANGED <<campaignCount, deposited, returned>>

emitPayoutReleased(c, clipper, amount, id) ==
    payouts' = [payouts EXCEPT ![id] =
                   Append(@, [campaign |-> c, clipper |-> clipper, amount |-> amount])]

(***************************************************************************)
(* withdrawRemaining: createdAt + maxDuration is a checked addition, which *)
(* reverts when it exceeds a uint256.                                      *)
(***************************************************************************)
maxDurationElapsed(c) ==
    LET deadline == campaigns[c].createdAt + campaigns[c].maxDuration
    IN  deadline <= UintMax /\ blockTimestamp >= deadline

withdrawAllowed(sender, c) ==
    /\ campaignExists(c)
    /\ sender = campaigns[c].organizer
    /\ ~campaigns[c].closed
    /\ maxDurationElapsed(c)

\* The money goes out and the recorded balance stays.
withdrawEffectsKeepingBalance(c) ==
    /\ campaigns' = [campaigns EXCEPT ![c].closed = TRUE]
    /\ returned' = [returned EXCEPT ![c] = @ + campaigns[c].balance]
    /\ UNCHANGED <<campaignCount, usedSettlementIds, deposited, released>>

\* The campaign is not closed.
withdrawEffectsLeavingOpen(c) ==
    /\ campaigns' = [campaigns EXCEPT ![c].balance = 0]
    /\ returned' = [returned EXCEPT ![c] = @ + campaigns[c].balance]
    /\ UNCHANGED <<campaignCount, usedSettlementIds, deposited, released>>

withdrawEffects(c) ==
    /\ campaigns' = [campaigns EXCEPT ![c].balance = 0, ![c].closed = TRUE]
    /\ returned' = [returned EXCEPT ![c] = @ + campaigns[c].balance]
    /\ UNCHANGED <<campaignCount, usedSettlementIds, deposited, released>>

(***************************************************************************)
(* A transaction that reverts puts back the storage and the log it found.  *)
(***************************************************************************)
Snapshot == [campaignCount |-> campaignCount, campaigns |-> campaigns,
             used |-> usedSettlementIds, payouts |-> payouts,
             deposited |-> deposited, released |-> released, returned |-> returned]

RestoreSnapshot(s) ==
    /\ campaignCount' = s.campaignCount
    /\ campaigns' = s.campaigns
    /\ usedSettlementIds' = s.used
    /\ payouts' = s.payouts
    /\ deposited' = s.deposited
    /\ released' = s.released
    /\ returned' = s.returned
=============================================================================
