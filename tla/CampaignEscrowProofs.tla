------------------------- MODULE CampaignEscrowProofs -------------------------
(***************************************************************************)
(* The contract with calls in the middle of its transactions, for every    *)
(* number of campaigns, accounts, ids and values: money is conserved, an   *)
(* id is paid at most once, and each committed transaction is a step of    *)
(* PayoutLedger, whatever the recipients do inside the calls.              *)
(*                                                                         *)
(* The accounts add up in every state (Consistent), in the storage a       *)
(* failing transaction goes back to as well.  What an open call has done   *)
(* so far, compared to that storage, is one payout or one refund, and      *)
(* deposits (OpenCall): it is what the ledger sees when the call returns.  *)
(***************************************************************************)
EXTENDS CampaignEscrow, SumProofs, TLAPS

\* Of a Snapshot: types, and accounts that add up.
Consistent(s) ==
    /\ s.campaignCount \in 0 .. MaxCampaigns
    /\ s.campaigns \in [CampaignIds -> Campaign]
    /\ s.used \in SUBSET SettlementIds
    /\ s.payouts \in [SettlementIds -> Seq(Payout)]
    /\ s.deposited \in [CampaignIds -> Nat]
    /\ s.released \in [CampaignIds -> Nat]
    /\ s.returned \in [CampaignIds -> Nat]
    /\ \A c \in CampaignIds :
         /\ s.deposited[c] = s.campaigns[c].balance + s.released[c] + s.returned[c]
         /\ c >= s.campaignCount => s.campaigns[c] = NoCampaign /\ s.deposited[c] = 0

\* Of a Snapshot: an id was paid once, if it is marked.
PaidOnce(s) ==
    \A id \in SettlementIds :
        /\ Len(s.payouts[id]) <= 1
        /\ id \in s.used <=> s.payouts[id] # << >>

\* Since s: money came in only for campaigns that are not closed.
DepositsSince(s) ==
    \A c \in CampaignIds :
        /\ deposited[c] >= s.deposited[c]
        /\ s.campaigns[c].closed => deposited[c] = s.deposited[c]

OpenRelease(s) ==
    /\ call.function = "release"
    /\ call.campaign \in CampaignIds
    /\ call.clipper \in Accounts
    /\ call.amount \in Nat \ {0}
    /\ call.id \in SettlementIds
    /\ ~s.campaigns[call.campaign].closed
    /\ s.campaigns[call.campaign].balance >= call.amount
    /\ call.id \notin s.used
    /\ usedSettlementIds = s.used \cup {call.id}
    /\ released = [s.released EXCEPT ![call.campaign] = @ + call.amount]
    /\ returned = s.returned
    /\ \A c \in CampaignIds : campaigns[c].closed = s.campaigns[c].closed

OpenWithdrawal(s) ==
    /\ call.function = "withdrawRemaining"
    /\ call.campaign \in CampaignIds
    /\ ~s.campaigns[call.campaign].closed
    /\ deposited[call.campaign] = s.deposited[call.campaign]
    /\ usedSettlementIds = s.used
    /\ released = s.released
    /\ returned = [s.returned EXCEPT ![call.campaign] =
                      s.deposited[call.campaign] - s.released[call.campaign]]
    /\ \A c \in CampaignIds :
         campaigns[c].closed = (c = call.campaign \/ s.campaigns[c].closed)

OpenCall(s) ==
    /\ Consistent(s)
    /\ PaidOnce(s)
    /\ payouts = s.payouts
    /\ DepositsSince(s)
    /\ OpenRelease(s) \/ OpenWithdrawal(s)

IInv ==
    /\ blockTimestamp \in Nat
    /\ Consistent(Snapshot)
    /\ IF locked THEN OpenCall(call.saved) ELSE PaidOnce(Snapshot)

-----------------------------------------------------------------------------
(* The functions of the contract keep the accounts.                        *)

LEMMA StorageFacts ==
    ASSUME Consistent(Snapshot)
    PROVE  /\ campaignCount \in 0 .. MaxCampaigns
           /\ campaigns \in [CampaignIds -> Campaign]
           /\ usedSettlementIds \in SUBSET SettlementIds
           /\ payouts \in [SettlementIds -> Seq(Payout)]
           /\ deposited \in [CampaignIds -> Nat]
           /\ released \in [CampaignIds -> Nat]
           /\ returned \in [CampaignIds -> Nat]
           /\ \A c \in CampaignIds :
                /\ deposited[c] = campaigns[c].balance + released[c] + returned[c]
                /\ c >= campaignCount => campaigns[c] = NoCampaign /\ deposited[c] = 0
BY DEF Consistent, Snapshot

LEMMA StorageFromFacts ==
    ASSUME campaignCount' \in 0 .. MaxCampaigns,
           campaigns' \in [CampaignIds -> Campaign],
           usedSettlementIds' \in SUBSET SettlementIds,
           payouts' \in [SettlementIds -> Seq(Payout)],
           deposited' \in [CampaignIds -> Nat],
           released' \in [CampaignIds -> Nat],
           returned' \in [CampaignIds -> Nat],
           \A c \in CampaignIds :
                /\ deposited'[c] = campaigns'[c].balance + released'[c] + returned'[c]
                /\ c >= campaignCount' => campaigns'[c] = NoCampaign /\ deposited'[c] = 0
    PROVE  Consistent(Snapshot)'
BY DEF Consistent, Snapshot

\* Only existing campaigns are touched, and they have an id that was given.
LEMMA ExistingCampaign ==
    ASSUME Consistent(Snapshot), NEW c \in CampaignIds, campaignExists(c)
    PROVE  /\ c < campaignCount
           /\ campaigns[c] \in Campaign /\ campaigns[c].balance \in Nat
<1>1. campaigns[c] # NoCampaign
  BY DEF campaignExists, NoCampaign
<1>2. c \in Nat /\ campaignCount \in Nat
  BY StorageFacts, StorageAssumption DEF CampaignIds
<1>3. campaigns[c] \in Campaign
  BY StorageFacts
<1>4. QED
  BY <1>1, <1>2, <1>3, StorageFacts DEF Campaign

\* What the accounts of one campaign are.
LEMMA Books ==
    ASSUME Consistent(Snapshot), NEW c \in CampaignIds
    PROVE  /\ campaigns[c] \in Campaign
           /\ campaigns[c].balance \in Nat /\ campaigns[c].closed \in BOOLEAN
           /\ deposited[c] \in Nat /\ released[c] \in Nat /\ returned[c] \in Nat
           /\ deposited[c] = campaigns[c].balance + released[c] + returned[c]
<1>1. campaigns[c] \in Campaign
  BY StorageFacts
<1>2. QED
  BY <1>1, StorageFacts DEF Campaign

\* One campaign gets a new record.
LEMMA CampaignReplaced ==
    ASSUME Consistent(Snapshot), NEW c \in CampaignIds, NEW r \in Campaign,
           campaigns' = [campaigns EXCEPT ![c] = r]
    PROVE  /\ campaigns' \in [CampaignIds -> Campaign]
           /\ campaigns'[c] = r
           /\ \A d \in CampaignIds \ {c} : campaigns'[d] = campaigns[d]
BY StorageFacts

\* Money comes in for campaigns that are not closed, and nothing else happens.
MoneyIn ==
    /\ Consistent(Snapshot)'
    /\ UNCHANGED <<usedSettlementIds, payouts, released, returned>>
    /\ \A c \in CampaignIds :
         /\ deposited'[c] >= deposited[c]
         /\ campaigns[c].closed => deposited'[c] = deposited[c]
         /\ campaigns'[c].closed = campaigns[c].closed

LEMMA CreateIsMoneyIn ==
    ASSUME Consistent(Snapshot), blockTimestamp \in Nat,
           NEW sender \in Accounts, NEW agent \in Address,
           NEW value \in Nat, NEW d \in 0 .. UintMax,
           createCampaign(sender, value, d, agent)
    PROVE  MoneyIn
<1> DEFINE n == campaignCount
           new == [organizer |-> sender, authorizedAgent |-> agent,
                   maxDuration |-> d, balance |-> value,
                   createdAt |-> blockTimestamp, closed |-> FALSE]
<1>1. /\ n \in CampaignIds /\ campaigns' = [campaigns EXCEPT ![n] = new]
      /\ campaignCount' = n + 1 /\ deposited' = [deposited EXCEPT ![n] = value]
      /\ UNCHANGED <<usedSettlementIds, payouts, released, returned>>
  BY DEF createCampaign
<1>2. /\ new \in Campaign /\ new.balance = value /\ new.closed = FALSE
  BY DEF Campaign, Address
<1>3. n \in Nat /\ MaxCampaigns \in Nat /\ n + 1 \in 0 .. MaxCampaigns
  BY <1>1, StorageAssumption DEF CampaignIds
<1>4. campaigns[n] = NoCampaign
  BY <1>1, <1>3, StorageFacts
<1>5. campaigns[n].balance = 0 /\ campaigns[n].closed = FALSE
  BY <1>4 DEF NoCampaign
<1>6. deposited[n] = 0 /\ released[n] = 0 /\ returned[n] = 0
  <2>1. /\ released[n] \in Nat /\ returned[n] \in Nat
        /\ deposited[n] = campaigns[n].balance + released[n] + returned[n]
    BY <1>1, Books
  <2>2. deposited[n] = 0
    BY <1>1, <1>3, StorageFacts
  <2>3. QED
    BY <1>5, <2>1, <2>2
<1> HIDE DEF new, n
<1>7. /\ campaigns' \in [CampaignIds -> Campaign]
      /\ campaigns'[n] = new
      /\ \A c \in CampaignIds \ {n} : campaigns'[c] = campaigns[c]
  BY <1>1, <1>2, CampaignReplaced
<1>8. /\ deposited' \in [CampaignIds -> Nat] /\ deposited'[n] = value
      /\ \A c \in CampaignIds \ {n} : deposited'[c] = deposited[c]
  BY <1>1, StorageFacts
<1>9. ASSUME NEW c \in CampaignIds
      PROVE  /\ deposited'[c] = campaigns'[c].balance + released'[c] + returned'[c]
             /\ c >= campaignCount' => campaigns'[c] = NoCampaign /\ deposited'[c] = 0
  <2>1. CASE c = n
    BY <1>1, <1>2, <1>3, <1>6, <1>7, <1>8, <2>1
  <2>2. CASE c # n
    <3>1. c >= n + 1 => c >= n
      BY <1>3, StorageAssumption DEF CampaignIds
    <3>2. QED
      BY <1>1, <1>7, <1>8, <2>2, <3>1, StorageFacts DEF n
  <2>3. QED
    BY <2>1, <2>2
<1>10. Consistent(Snapshot)'
  BY <1>1, <1>3, <1>7, <1>8, <1>9, StorageFacts, StorageFromFacts
<1>11. ASSUME NEW c \in CampaignIds
       PROVE  /\ deposited'[c] >= deposited[c]
              /\ campaigns[c].closed => deposited'[c] = deposited[c]
              /\ campaigns'[c].closed = campaigns[c].closed
  <2>1. CASE c = n
    <3>1. deposited'[c] >= deposited[c]
      BY <1>6, <1>8, <2>1
    <3>2. campaigns[c].closed = FALSE /\ campaigns'[c].closed = FALSE
      BY <1>2, <1>5, <1>7, <2>1
    <3>3. QED
      BY <3>1, <3>2
  <2>2. CASE c # n
    BY <1>7, <1>8, <2>2, Books
  <2>3. QED
    BY <2>1, <2>2
<1>12. QED
  BY <1>1, <1>10, <1>11 DEF MoneyIn

\* What a function that changes the balance of an existing campaign does to it.
LEMMA BalanceChanges ==
    ASSUME Consistent(Snapshot), NEW c \in CampaignIds, NEW b \in Nat,
           NEW closing \in BOOLEAN,
           campaigns' = [campaigns EXCEPT ![c] =
                            [campaigns[c] EXCEPT !.balance = b, !.closed = closing]]
    PROVE  /\ campaigns' \in [CampaignIds -> Campaign]
           /\ campaigns'[c].balance = b /\ campaigns'[c].closed = closing
           /\ \A d \in CampaignIds \ {c} : campaigns'[d] = campaigns[d]
<1> DEFINE r == [campaigns[c] EXCEPT !.balance = b, !.closed = closing]
<1>1. campaigns[c] \in Campaign
  BY Books
<1>2. r \in Campaign /\ r.balance = b /\ r.closed = closing
  BY <1>1 DEF Campaign
<1>3. campaigns' = [campaigns EXCEPT ![c] = r]
  OBVIOUS
<1> HIDE DEF r
<1>4. QED
  BY <1>2, <1>3, CampaignReplaced

LEMMA BalanceOnlyChanges ==
    ASSUME Consistent(Snapshot), NEW c \in CampaignIds, NEW b \in Nat,
           campaigns' = [campaigns EXCEPT ![c].balance = b]
    PROVE  /\ campaigns' \in [CampaignIds -> Campaign]
           /\ campaigns'[c].balance = b /\ campaigns'[c].closed = campaigns[c].closed
           /\ \A d \in CampaignIds \ {c} : campaigns'[d] = campaigns[d]
<1> DEFINE r == [campaigns[c] EXCEPT !.balance = b]
<1>1. campaigns[c] \in Campaign
  BY Books
<1>2. r \in Campaign /\ r.balance = b /\ r.closed = campaigns[c].closed
  BY <1>1 DEF Campaign
<1>3. campaigns' = [campaigns EXCEPT ![c] = r]
  OBVIOUS
<1> HIDE DEF r
<1>4. QED
  BY <1>2, <1>3, CampaignReplaced

LEMMA TopUpIsMoneyIn ==
    ASSUME Consistent(Snapshot), NEW c \in CampaignIds, NEW value \in Nat, topUp(c, value)
    PROVE  MoneyIn
<1>1. /\ campaignExists(c) /\ ~campaigns[c].closed
      /\ campaigns' = [campaigns EXCEPT ![c].balance = @ + value]
      /\ deposited' = [deposited EXCEPT ![c] = @ + value]
      /\ UNCHANGED <<campaignCount, usedSettlementIds, payouts, released, returned>>
  BY DEF topUp, topUpAllowed
<1>2. c < campaignCount /\ c \in Nat /\ campaignCount \in Nat
  BY <1>1, ExistingCampaign, StorageFacts, StorageAssumption DEF CampaignIds
<1>3. campaigns[c].balance + value \in Nat
  BY Books
<1>4. campaigns' = [campaigns EXCEPT ![c].balance = campaigns[c].balance + value]
  BY <1>1
<1>5. /\ campaigns' \in [CampaignIds -> Campaign]
      /\ campaigns'[c].balance = campaigns[c].balance + value
      /\ campaigns'[c].closed = campaigns[c].closed
      /\ \A d \in CampaignIds \ {c} : campaigns'[d] = campaigns[d]
  BY <1>3, <1>4, BalanceOnlyChanges
<1>6. /\ deposited' \in [CampaignIds -> Nat] /\ deposited'[c] = deposited[c] + value
      /\ \A d \in CampaignIds \ {c} : deposited'[d] = deposited[d]
  BY <1>1, StorageFacts
<1>7. \A d \in CampaignIds :
         /\ deposited'[d] = campaigns'[d].balance + released'[d] + returned'[d]
         /\ d >= campaignCount' => campaigns'[d] = NoCampaign /\ deposited'[d] = 0
  <2>1. deposited'[c] = campaigns'[c].balance + released'[c] + returned'[c]
    BY <1>1, <1>5, <1>6, Books
  <2>2. QED
    BY <1>1, <1>2, <1>5, <1>6, <2>1, StorageFacts
<1>8. Consistent(Snapshot)'
  BY <1>1, <1>5, <1>6, <1>7, StorageFacts, StorageFromFacts
<1>9. ASSUME NEW d \in CampaignIds
      PROVE  /\ deposited'[d] >= deposited[d]
             /\ campaigns[d].closed => deposited'[d] = deposited[d]
             /\ campaigns'[d].closed = campaigns[d].closed
  <2>1. CASE d = c
    BY <1>1, <1>5, <1>6, <2>1, Books
  <2>2. CASE d # c
    BY <1>5, <1>6, <2>2, Books
  <2>3. QED
    BY <2>1, <2>2
<1>10. QED
  BY <1>1, <1>8, <1>9 DEF MoneyIn

\* release up to its call.
LEMMA ReleaseKeepsAccounts ==
    ASSUME Consistent(Snapshot), NEW sender \in Accounts, NEW c \in CampaignIds,
           NEW clipper \in Address, NEW amount \in Nat, NEW id \in SettlementIds,
           releaseAllowed(sender, c, clipper, amount, id), releaseEffects(c, amount, id),
           UNCHANGED payouts
    PROVE  /\ Consistent(Snapshot)'
           /\ \A d \in CampaignIds : campaigns'[d].closed = campaigns[d].closed
<1>1. /\ campaignExists(c) /\ campaigns[c].balance >= amount
      /\ campaigns' = [campaigns EXCEPT ![c].balance = @ - amount]
      /\ released' = [released EXCEPT ![c] = @ + amount]
      /\ usedSettlementIds' = usedSettlementIds \cup {id}
      /\ UNCHANGED <<campaignCount, payouts, deposited, returned>>
  BY DEF releaseAllowed, releaseEffects
<1>2. c < campaignCount /\ c \in Nat /\ campaignCount \in Nat
  BY <1>1, ExistingCampaign, StorageFacts, StorageAssumption DEF CampaignIds
<1>3. campaigns[c].balance - amount \in Nat
  BY <1>1, Books
<1>4. campaigns' = [campaigns EXCEPT ![c].balance = campaigns[c].balance - amount]
  BY <1>1
<1>5. /\ campaigns' \in [CampaignIds -> Campaign]
      /\ campaigns'[c].balance = campaigns[c].balance - amount
      /\ campaigns'[c].closed = campaigns[c].closed
      /\ \A d \in CampaignIds \ {c} : campaigns'[d] = campaigns[d]
  BY <1>3, <1>4, BalanceOnlyChanges
<1>6. /\ released' \in [CampaignIds -> Nat] /\ released'[c] = released[c] + amount
      /\ \A d \in CampaignIds \ {c} : released'[d] = released[d]
  BY <1>1, StorageFacts
<1>7. \A d \in CampaignIds :
         /\ deposited'[d] = campaigns'[d].balance + released'[d] + returned'[d]
         /\ d >= campaignCount' => campaigns'[d] = NoCampaign /\ deposited'[d] = 0
  <2>1. deposited'[c] = campaigns'[c].balance + released'[c] + returned'[c]
    BY <1>1, <1>5, <1>6, Books
  <2>2. QED
    BY <1>1, <1>2, <1>5, <1>6, <2>1, StorageFacts
<1>8. Consistent(Snapshot)'
  BY <1>1, <1>5, <1>6, <1>7, StorageFacts, StorageFromFacts
<1>9. \A d \in CampaignIds : campaigns'[d].closed = campaigns[d].closed
  BY <1>5
<1>10. QED
  BY <1>8, <1>9

\* withdrawRemaining up to its call; the refund is all that was not paid out.
LEMMA WithdrawKeepsAccounts ==
    ASSUME Consistent(Snapshot), NEW sender \in Accounts, NEW c \in CampaignIds,
           withdrawAllowed(sender, c), withdrawEffects(c), UNCHANGED payouts
    PROVE  /\ Consistent(Snapshot)'
           /\ returned' = [returned EXCEPT ![c] = deposited[c] - released[c]]
           /\ campaigns'[c].closed = TRUE
           /\ \A d \in CampaignIds \ {c} : campaigns'[d] = campaigns[d]
<1>1. /\ campaignExists(c)
      /\ campaigns' = [campaigns EXCEPT ![c].balance = 0, ![c].closed = TRUE]
      /\ returned' = [returned EXCEPT ![c] = @ + campaigns[c].balance]
      /\ UNCHANGED <<campaignCount, usedSettlementIds, payouts, deposited, released>>
  BY DEF withdrawAllowed, withdrawEffects
<1>2. c < campaignCount /\ c \in Nat /\ campaignCount \in Nat
  BY <1>1, ExistingCampaign, StorageFacts, StorageAssumption DEF CampaignIds
<1>3. campaigns' = [campaigns EXCEPT ![c] =
                       [campaigns[c] EXCEPT !.balance = 0, !.closed = TRUE]]
  BY <1>1, StorageFacts
<1>4. /\ campaigns' \in [CampaignIds -> Campaign]
      /\ campaigns'[c].balance = 0 /\ campaigns'[c].closed = TRUE
      /\ \A d \in CampaignIds \ {c} : campaigns'[d] = campaigns[d]
  BY <1>3, BalanceChanges
<1>5. returned[c] + campaigns[c].balance = deposited[c] - released[c]
  BY Books
<1>6. returned' = [returned EXCEPT ![c] = deposited[c] - released[c]]
  BY <1>1, <1>5
<1>7. deposited[c] - released[c] \in Nat
  BY Books
<1>8. /\ returned' \in [CampaignIds -> Nat] /\ returned'[c] = deposited[c] - released[c]
      /\ \A d \in CampaignIds \ {c} : returned'[d] = returned[d]
  BY <1>6, <1>7, StorageFacts
<1>9. \A d \in CampaignIds :
         /\ deposited'[d] = campaigns'[d].balance + released'[d] + returned'[d]
         /\ d >= campaignCount' => campaigns'[d] = NoCampaign /\ deposited'[d] = 0
  <2>1. deposited'[c] = campaigns'[c].balance + released'[c] + returned'[c]
    BY <1>1, <1>4, <1>8, Books
  <2>2. QED
    BY <1>1, <1>2, <1>4, <1>8, <2>1, StorageFacts
<1>10. Consistent(Snapshot)'
  BY <1>1, <1>4, <1>8, <1>9, StorageFacts, StorageFromFacts
<1>11. QED
  BY <1>4, <1>6, <1>10

-----------------------------------------------------------------------------
(* Every step keeps IInv.                                                  *)

LEMMA InitEstablishes ==
    ASSUME Init  PROVE IInv
<1>1. ~locked /\ blockTimestamp \in Nat
  BY DEF Init, locked
<1>2. NoCampaign \in Campaign /\ NoCampaign.balance = 0
  BY StorageAssumption DEF NoCampaign, Campaign, Address
<1>3. Consistent(Snapshot)
  BY <1>2, StorageAssumption DEF Init, Consistent, Snapshot
<1>4. PaidOnce(Snapshot)
  BY DEF Init, PaidOnce, Snapshot
<1>5. QED
  BY <1>1, <1>3, <1>4 DEF IInv

\* What was over before the transaction is over inside its call.
LEMMA ClosedStays ==
    ASSUME OpenCall(call.saved), NEW c \in CampaignIds, call.saved.campaigns[c].closed
    PROVE  campaigns[c].closed
<1>1. CASE OpenRelease(call.saved)
  BY <1>1 DEF OpenRelease
<1>2. CASE OpenWithdrawal(call.saved)
  BY <1>2 DEF OpenWithdrawal
<1>3. QED
  BY <1>1, <1>2 DEF OpenCall

\* A deposit made by the recipient inside the call.
LEMMA MoneyInDuringCall ==
    ASSUME IInv, locked, MoneyIn, UNCHANGED call
    PROVE  OpenCall(call.saved)'
<1> DEFINE s == call.saved
<1>1. /\ OpenCall(s) /\ Consistent(s) /\ PaidOnce(s) /\ payouts = s.payouts
      /\ DepositsSince(s) /\ s' = s
  BY DEF IInv, OpenCall
<1>2. /\ UNCHANGED <<usedSettlementIds, payouts, released, returned>>
      /\ Consistent(Snapshot) /\ Consistent(Snapshot)'
      /\ \A c \in CampaignIds :
           /\ deposited'[c] >= deposited[c]
           /\ campaigns[c].closed => deposited'[c] = deposited[c]
           /\ campaigns'[c].closed = campaigns[c].closed
  BY DEF MoneyIn, IInv
<1>3. Consistent(s)' /\ PaidOnce(s)' /\ payouts' = s'.payouts
  BY <1>1, <1>2 DEF Consistent, PaidOnce
<1>4. DepositsSince(s)'
  <2> SUFFICES ASSUME NEW c \in CampaignIds
               PROVE  /\ deposited'[c] >= s.deposited[c]
                      /\ s.campaigns[c].closed => deposited'[c] = s.deposited[c]
    BY <1>1 DEF DepositsSince
  <2>1. deposited'[c] \in Nat /\ deposited[c] \in Nat /\ s.deposited[c] \in Nat
    BY <1>1, <1>2 DEF Consistent, Snapshot
  <2>2. deposited'[c] >= s.deposited[c]
    BY <1>1, <1>2, <2>1 DEF DepositsSince
  <2>3. ASSUME s.campaigns[c].closed  PROVE deposited'[c] = s.deposited[c]
    <3>1. campaigns[c].closed
      BY <1>1, <2>3, ClosedStays
    <3>2. QED
      BY <1>1, <1>2, <2>3, <3>1 DEF DepositsSince
  <2>4. QED
    BY <2>2, <2>3
<1>5. OpenRelease(s) => OpenRelease(s)'
  BY <1>1, <1>2 DEF OpenRelease
<1>6. OpenWithdrawal(s) => OpenWithdrawal(s)'
  <2> SUFFICES ASSUME OpenWithdrawal(s)  PROVE OpenWithdrawal(s)'
    OBVIOUS
  <2>1. call.campaign \in CampaignIds /\ campaigns[call.campaign].closed
    BY DEF OpenWithdrawal
  <2>2. deposited'[call.campaign] = deposited[call.campaign]
    BY <1>2, <2>1
  <2>3. QED
    BY <1>1, <1>2, <2>2 DEF OpenWithdrawal
<1>7. QED
  BY <1>1, <1>3, <1>4, <1>5, <1>6 DEF OpenCall

LEMMA MoneyInStep ==
    ASSUME IInv, MoneyIn, UNCHANGED <<blockTimestamp, call>>
    PROVE  IInv'
<1>1. blockTimestamp' \in Nat /\ locked' = locked /\ Consistent(Snapshot)'
  BY DEF IInv, locked, MoneyIn
<1>2. CASE ~locked
  <2>1. PaidOnce(Snapshot)'
    BY <1>2 DEF IInv, MoneyIn, PaidOnce, Snapshot
  <2>2. QED
    BY <1>1, <1>2, <2>1 DEF IInv
<1>3. CASE locked
  BY <1>1, <1>3, MoneyInDuringCall DEF IInv
<1>4. QED
  BY <1>2, <1>3

\* createCampaign and topUp, from an account or from inside a call.
LEMMA DepositsAreMoneyIn ==
    ASSUME IInv, CreateCampaign \/ TopUp
    PROVE  MoneyIn /\ UNCHANGED <<blockTimestamp, call>>
<1>1. Consistent(Snapshot) /\ blockTimestamp \in Nat
  BY DEF IInv
<1>2. CASE CreateCampaign
  <2>1. PICK sender \in Accounts, agent \in Address, value \in Amounts, d \in Durations :
           createCampaign(sender, value, d, agent)
    BY <1>2 DEF CreateCampaign
  <2>2. value \in Nat /\ d \in 0 .. UintMax
    BY EscrowAssumption
  <2>3. QED
    BY <1>1, <1>2, <2>1, <2>2, CreateIsMoneyIn DEF CreateCampaign
<1>3. CASE TopUp
  <2>1. PICK c \in CampaignIds, value \in Amounts : topUp(c, value)
    BY <1>3 DEF TopUp
  <2>2. value \in Nat
    BY EscrowAssumption
  <2>3. QED
    BY <1>1, <1>3, <2>1, <2>2, TopUpIsMoneyIn DEF TopUp
<1>4. QED
  BY <1>2, <1>3

LEMMA CallClipperStep ==
    ASSUME IInv, CallClipper
    PROVE  IInv' /\ ~locked /\ locked' /\ call'.saved = Snapshot
<1>1. PICK sender \in Accounts, c \in CampaignIds, clipper \in Address,
           amount \in Amounts, id \in SettlementIds :
         /\ ~locked
         /\ releaseAllowed(sender, c, clipper, amount, id)
         /\ releaseEffects(c, amount, id)
         /\ openReleaseCall(c, clipper, amount, id)
         /\ UNCHANGED <<blockTimestamp, payouts>>
  BY DEF CallClipper
<1>2. amount \in Nat /\ amount > 0 /\ clipper \in Accounts
  BY <1>1, EscrowAssumption DEF releaseAllowed, Address
<1>3. Consistent(Snapshot) /\ PaidOnce(Snapshot) /\ blockTimestamp' \in Nat
  BY <1>1 DEF IInv
<1>4. /\ call'.function = "release" /\ call'.campaign = c /\ call'.clipper = clipper
      /\ call'.amount = amount /\ call'.id = id /\ call'.saved = Snapshot
  BY <1>1 DEF openReleaseCall
<1>5. locked'
  BY <1>4 DEF locked, NoCall
<1>6. /\ Consistent(Snapshot)'
      /\ \A d \in CampaignIds : campaigns'[d].closed = campaigns[d].closed
  BY <1>1, <1>2, <1>3, ReleaseKeepsAccounts
<1>7. /\ id \notin usedSettlementIds
      /\ ~campaigns[c].closed /\ campaigns[c].balance >= amount
      /\ usedSettlementIds' = usedSettlementIds \cup {id}
      /\ released' = [released EXCEPT ![c] = @ + amount]
      /\ UNCHANGED <<payouts, deposited, returned>>
  BY <1>1 DEF releaseAllowed, releaseEffects
<1> DEFINE s == Snapshot
<1>8. /\ s.campaigns = campaigns /\ s.used = usedSettlementIds /\ s.payouts = payouts
      /\ s.deposited = deposited /\ s.released = released /\ s.returned = returned
  BY DEF Snapshot
<1>9. \A d \in CampaignIds : deposited[d] \in Nat
  BY <1>3, StorageFacts
<1> HIDE DEF s
<1>10. OpenRelease(call.saved)'
  BY <1>2, <1>4, <1>6, <1>7, <1>8 DEF OpenRelease, s
<1>11. DepositsSince(call.saved)'
  BY <1>4, <1>7, <1>8, <1>9 DEF DepositsSince, s
<1>12. Consistent(call.saved)' /\ PaidOnce(call.saved)'
  BY <1>3, <1>4 DEF Consistent, PaidOnce
<1>13. payouts' = call'.saved.payouts
  BY <1>4, <1>7, <1>8 DEF s
<1>14. QED
  BY <1>1, <1>3, <1>4, <1>5, <1>6, <1>10, <1>11, <1>12, <1>13 DEF IInv, OpenCall

LEMMA CallOrganizerStep ==
    ASSUME IInv, CallOrganizer
    PROVE  IInv' /\ ~locked /\ locked' /\ call'.saved = Snapshot
<1>1. PICK sender \in Accounts, c \in CampaignIds :
         /\ ~locked
         /\ withdrawAllowed(sender, c)
         /\ withdrawEffects(c)
         /\ call' = [function |-> "withdrawRemaining", campaign |-> c,
                     saved |-> Snapshot, savedHeld |-> held]
         /\ UNCHANGED <<blockTimestamp, payouts>>
  BY DEF CallOrganizer
<1>2. Consistent(Snapshot) /\ PaidOnce(Snapshot) /\ blockTimestamp' \in Nat
  BY <1>1 DEF IInv
<1>3. /\ call'.function = "withdrawRemaining" /\ call'.campaign = c
      /\ call'.saved = Snapshot
  BY <1>1
<1>4. locked'
  BY <1>3 DEF locked, NoCall
<1>5. /\ Consistent(Snapshot)'
      /\ returned' = [returned EXCEPT ![c] = deposited[c] - released[c]]
      /\ campaigns'[c].closed = TRUE
      /\ \A d \in CampaignIds \ {c} : campaigns'[d] = campaigns[d]
  BY <1>1, <1>2, WithdrawKeepsAccounts
<1>6. /\ ~campaigns[c].closed
      /\ UNCHANGED <<usedSettlementIds, payouts, deposited, released>>
  BY <1>1 DEF withdrawAllowed, withdrawEffects
<1> DEFINE s == Snapshot
<1>7. /\ s.campaigns = campaigns /\ s.used = usedSettlementIds /\ s.payouts = payouts
      /\ s.deposited = deposited /\ s.released = released /\ s.returned = returned
  BY DEF Snapshot
<1>8. \A d \in CampaignIds : deposited[d] \in Nat /\ campaigns[d].closed \in BOOLEAN
  BY <1>2, Books
<1> HIDE DEF s
<1>9. ASSUME NEW d \in CampaignIds
      PROVE  campaigns'[d].closed = (d = c \/ campaigns[d].closed)
  <2>1. CASE d = c
    BY <1>5, <2>1
  <2>2. CASE d # c
    BY <1>5, <1>8, <2>2
  <2>3. QED
    BY <2>1, <2>2
<1>10. OpenWithdrawal(call.saved)'
  BY <1>3, <1>5, <1>6, <1>7, <1>9 DEF OpenWithdrawal, s
<1>11. DepositsSince(call.saved)'
  BY <1>3, <1>6, <1>7, <1>8 DEF DepositsSince, s
<1>12. Consistent(call.saved)' /\ PaidOnce(call.saved)'
  BY <1>2, <1>3 DEF Consistent, PaidOnce
<1>13. payouts' = call'.saved.payouts
  BY <1>3, <1>6, <1>7 DEF s
<1>14. QED
  BY <1>1, <1>2, <1>3, <1>4, <1>5, <1>10, <1>11, <1>12, <1>13 DEF IInv, OpenCall

\* The event of the payout that the open call made.
CallPayout == [campaign |-> call.campaign, clipper |-> call.clipper, amount |-> call.amount]

LEMMA ReleaseReturns ==
    ASSUME IInv, locked, OpenRelease(call.saved), CallReturns
    PROVE  /\ CallPayout \in Payout
           /\ payouts[call.id] = << >>
           /\ payouts' = [payouts EXCEPT ![call.id] = <<CallPayout>>]
<1>1. call.function = "release" /\ call.id \in SettlementIds /\ CallPayout \in Payout
  BY DEF OpenRelease, CallPayout, Payout
<1>2. OpenCall(call.saved)
  BY DEF IInv
<1>3. payouts[call.id] = << >>
  BY <1>1, <1>2 DEF OpenCall, OpenRelease, PaidOnce
<1>4. Append(<< >>, CallPayout) = <<CallPayout>>
  OBVIOUS
<1>5. payouts' = [payouts EXCEPT ![call.id] = Append(@, CallPayout)]
  BY <1>1 DEF CallReturns, emitPayoutReleased, CallPayout
<1>6. QED
  BY <1>1, <1>3, <1>4, <1>5

LEMMA CallReturnsStep ==
    ASSUME IInv, CallReturns
    PROVE  IInv' /\ ~locked'
<1>1. /\ locked /\ ~locked' /\ blockTimestamp' \in Nat
      /\ UNCHANGED <<campaignCount, campaigns, usedSettlementIds,
                     deposited, released, returned>>
  BY DEF CallReturns, IInv, locked
<1>2. Consistent(Snapshot) /\ OpenCall(call.saved)
  BY <1>1 DEF IInv
<1>3. /\ payouts = call.saved.payouts
      /\ \A i \in SettlementIds :
           /\ Len(payouts[i]) <= 1
           /\ i \in call.saved.used <=> payouts[i] # << >>
  BY <1>2 DEF OpenCall, PaidOnce
<1>4. CASE OpenRelease(call.saved)
  <2> DEFINE p == CallPayout
             id == call.id
  <2>1. /\ p \in Payout /\ payouts[id] = << >>
        /\ payouts' = [payouts EXCEPT ![id] = <<p>>]
    BY <1>1, <1>4, ReleaseReturns
  <2>2. id \in SettlementIds /\ usedSettlementIds = call.saved.used \cup {id}
    BY <1>4 DEF OpenRelease
  <2> HIDE DEF p, id
  <2>3. <<p>> \in Seq(Payout) /\ Len(<<p>>) = 1 /\ <<p>> # << >>
    BY <2>1
  <2>4. payouts \in [SettlementIds -> Seq(Payout)]
    BY <1>2, StorageFacts
  <2>5. /\ payouts' \in [SettlementIds -> Seq(Payout)]
        /\ payouts'[id] = <<p>>
        /\ \A i \in SettlementIds \ {id} : payouts'[i] = payouts[i]
    BY <2>1, <2>2, <2>3, <2>4
  <2>6. Consistent(Snapshot)'
    BY <1>1, <1>2, <2>5, StorageFacts, StorageFromFacts
  <2>7. ASSUME NEW i \in SettlementIds
        PROVE  /\ Len(payouts'[i]) <= 1
               /\ i \in usedSettlementIds' <=> payouts'[i] # << >>
    <3>1. CASE i = id
      <4>1. payouts'[i] = <<p>> /\ i \in usedSettlementIds'
        BY <1>1, <2>2, <2>5, <3>1
      <4>2. QED
        BY <2>3, <4>1
    <3>2. CASE i # id
      <4>1. /\ payouts'[i] = payouts[i]
            /\ i \in usedSettlementIds' <=> i \in call.saved.used
        BY <1>1, <2>2, <2>5, <3>2
      <4>2. QED
        BY <1>3, <4>1
    <3>3. QED
      BY <3>1, <3>2
  <2>8. PaidOnce(Snapshot)'
    BY <2>7 DEF PaidOnce, Snapshot
  <2>9. QED
    BY <1>1, <2>6, <2>8 DEF IInv
<1>5. CASE OpenWithdrawal(call.saved)
  <2>1. UNCHANGED payouts /\ usedSettlementIds = call.saved.used
    BY <1>5 DEF CallReturns, OpenWithdrawal
  <2>2. Consistent(Snapshot)'
    BY <1>1, <1>2, <2>1, StorageFacts, StorageFromFacts
  <2>3. PaidOnce(Snapshot)'
    BY <1>1, <1>3, <2>1 DEF PaidOnce, Snapshot
  <2>4. QED
    BY <1>1, <2>2, <2>3 DEF IInv
<1>6. QED
  BY <1>1, <1>2, <1>4, <1>5 DEF OpenCall

LEMMA CallFailsStep ==
    ASSUME IInv, CallFails
    PROVE  IInv' /\ ~locked'
<1>1. locked /\ ~locked' /\ blockTimestamp' \in Nat /\ RestoreSnapshot(call.saved)
  BY DEF CallFails, IInv, locked
<1>2. Consistent(call.saved) /\ PaidOnce(call.saved)
  BY <1>1 DEF IInv, OpenCall
<1>3. Consistent(Snapshot)'
  BY <1>1, <1>2 DEF Consistent, Snapshot, RestoreSnapshot
<1>4. PaidOnce(Snapshot)'
  BY <1>1, <1>2 DEF PaidOnce, Snapshot, RestoreSnapshot
<1>5. QED
  BY <1>1, <1>3, <1>4 DEF IInv

LEMMA CloseEmptyCampaignStep ==
    ASSUME IInv, CloseEmptyCampaign
    PROVE  IInv' /\ ~locked /\ ~locked'
<1>1. PICK sender \in Accounts, c \in CampaignIds :
         /\ ~locked
         /\ withdrawAllowed(sender, c)
         /\ withdrawEffects(c)
         /\ UNCHANGED <<blockTimestamp, payouts, call>>
  BY DEF CloseEmptyCampaign
<1>2. Consistent(Snapshot) /\ PaidOnce(Snapshot) /\ blockTimestamp' \in Nat /\ ~locked'
  BY <1>1 DEF IInv, locked
<1>3. Consistent(Snapshot)'
  BY <1>1, <1>2, WithdrawKeepsAccounts
<1>4. PaidOnce(Snapshot)'
  BY <1>1, <1>2 DEF PaidOnce, Snapshot, withdrawEffects
<1>5. QED
  BY <1>1, <1>2, <1>3, <1>4 DEF IInv

LEMMA NothingMoves ==
    ASSUME IInv, UNCHANGED <<storageVars, call>>, blockTimestamp' \in Nat
    PROVE  IInv'
<1>1. /\ UNCHANGED <<campaignCount, campaigns, usedSettlementIds, payouts>>
      /\ UNCHANGED <<deposited, released, returned, call>>
  BY DEF storageVars
<1>2. Snapshot' = Snapshot /\ locked' = locked
  BY <1>1 DEF Snapshot, locked
<1>3. Consistent(Snapshot)'
  BY <1>2 DEF IInv, Consistent
<1>4. CASE ~locked
  <2>1. PaidOnce(Snapshot)'
    BY <1>2, <1>4 DEF IInv, PaidOnce
  <2>2. QED
    BY <1>2, <1>3, <1>4, <2>1 DEF IInv
<1>5. CASE locked
  <2>1. OpenCall(call.saved)
    BY <1>5 DEF IInv
  <2>2. Consistent(call.saved)' /\ PaidOnce(call.saved)' /\ payouts' = call'.saved.payouts
    BY <1>1, <2>1 DEF OpenCall, Consistent, PaidOnce
  <2>3. DepositsSince(call.saved)'
    BY <1>1, <2>1 DEF OpenCall, DepositsSince
  <2>4. (OpenRelease(call.saved) \/ OpenWithdrawal(call.saved))'
    BY <1>1, <2>1 DEF OpenCall, OpenRelease, OpenWithdrawal
  <2>5. OpenCall(call.saved)'
    BY <2>2, <2>3, <2>4 DEF OpenCall
  <2>6. QED
    BY <1>2, <1>3, <1>5, <2>5 DEF IInv
<1>6. QED
  BY <1>4, <1>5

LEMMA StepKeepsIInv ==
    ASSUME IInv, [Next]_vars  PROVE IInv'
<1>1. CASE CreateCampaign \/ TopUp
  BY <1>1, DepositsAreMoneyIn, MoneyInStep
<1>2. CASE CallClipper
  BY <1>2, CallClipperStep
<1>3. CASE CallOrganizer
  BY <1>3, CallOrganizerStep
<1>4. CASE CloseEmptyCampaign
  BY <1>4, CloseEmptyCampaignStep
<1>5. CASE CallReturns
  BY <1>5, CallReturnsStep
<1>6. CASE CallFails
  BY <1>6, CallFailsStep
<1>7. CASE NextBlock
  <2>1. UNCHANGED <<storageVars, call>> /\ blockTimestamp' \in Nat
    BY <1>7 DEF NextBlock, storageVars, IInv
  <2>2. QED
    BY <2>1, NothingMoves
<1>8. CASE UNCHANGED vars
  <2>1. UNCHANGED <<storageVars, call>> /\ blockTimestamp' \in Nat
    BY <1>8 DEF vars, storageVars, IInv
  <2>2. QED
    BY <2>1, NothingMoves
<1>9. QED
  BY <1>1, <1>2, <1>3, <1>4, <1>5, <1>6, <1>7, <1>8 DEF Next

\* In every state the accounts add up, here and in the storage a failing call goes
\* back to, and what the open call did so far is one payout or one refund
\* (CampaignEscrow.sol:108-167).
THEOREM CallsAreAccountedFor == Spec => []IInv
<1>1. Init => IInv
  BY InitEstablishes
<1>2. IInv /\ [Next]_vars => IInv'
  BY StepKeepsIInv
<1>3. QED
  BY <1>1, <1>2, PTL DEF Spec

\* What came in for a campaign is what is left, what clippers got and what the
\* organizer got back, inside every call and after every failure.
THEOREM MoneyIsConserved == Spec => []Conservation
<1>1. IInv => Conservation
  BY StorageFacts DEF IInv, Conservation
<1>2. QED
  BY <1>1, CallsAreAccountedFor, PTL

\* An id is paid at most once, and is marked before its clipper is called
\* (CampaignEscrow.sol:27-31, 128-137).
THEOREM IdsArePaidOnce == Spec => []PaidAtMostOnce
<1>1. ASSUME IInv  PROVE PaidAtMostOnce
  <2>1. CASE ~locked
    BY <1>1, <2>1 DEF IInv, PaidOnce, Snapshot, PaidAtMostOnce
  <2>2. CASE locked
    <3>1. OpenCall(call.saved)
      BY <1>1, <2>2 DEF IInv
    <3>2. \A i \in SettlementIds :
            /\ Len(payouts[i]) <= 1
            /\ i \in call.saved.used <=> payouts[i] # << >>
      BY <3>1 DEF OpenCall, PaidOnce
    <3>3. ASSUME NEW i \in SettlementIds, call.function = "release", call.id = i
          PROVE  payouts[i] = << >> /\ i \in usedSettlementIds
      BY <3>1, <3>2, <3>3 DEF OpenCall, OpenRelease, OpenWithdrawal
    <3>4. QED
      BY <3>2, <3>3 DEF PaidAtMostOnce
  <2>3. QED
    BY <2>1, <2>2
<1>2. QED
  BY <1>1, CallsAreAccountedFor, PTL

-----------------------------------------------------------------------------
(***************************************************************************)
(* What the contract holds is what its campaigns are owed.  A failing call *)
(* puts back what it found, so that has to be solvent too.                 *)
(***************************************************************************)
Solvent ==
    /\ held = owed(campaigns)
    /\ locked => call.savedHeld = owed(call.saved.campaigns)

LEMMA CampaignIdsAreFinite == IsFiniteSet(CampaignIds)
BY FS_Interval, StorageAssumption DEF CampaignIds

\* One campaign changes.
LEMMA OwedChanges ==
    ASSUME campaigns \in [CampaignIds -> Campaign], campaigns' \in [CampaignIds -> Campaign],
           NEW c \in CampaignIds, \A d \in CampaignIds \ {c} : campaigns'[d] = campaigns[d]
    PROVE  /\ owed(campaigns') = owed(campaigns) - campaigns[c].balance
                                                  + campaigns'[c].balance
           /\ owed(campaigns) \in Int /\ campaigns[c].balance \in Nat
<1> DEFINE F == [d \in CampaignIds |-> campaigns[d].balance]
           G == [d \in CampaignIds |-> campaigns'[d].balance]
<1>1. \A d \in CampaignIds : campaigns[d].balance \in Nat /\ campaigns'[d].balance \in Nat
  BY DEF Campaign
<1>2. /\ \A d \in CampaignIds : F[d] \in Int
      /\ G[c] \in Int
      /\ \A d \in CampaignIds \ {c} : G[d] = F[d]
      /\ F[c] = campaigns[c].balance /\ G[c] = campaigns'[c].balance
  BY <1>1
<1>3. owed(campaigns) = SumFunctionOnSet(F, CampaignIds)
  BY DEF owed
<1>4. owed(campaigns') = SumFunctionOnSet(G, CampaignIds)
  BY DEF owed
<1> HIDE DEF F, G
<1>5. SumFunctionOnSet(F, CampaignIds) \in Int
  BY <1>2, CampaignIdsAreFinite, SumInt
<1>6. SumFunctionOnSet(G, CampaignIds)
         = SumFunctionOnSet(F, CampaignIds) - F[c] + G[c]
  BY <1>2, CampaignIdsAreFinite, SumUpdate
<1>7. QED
  BY <1>1, <1>2, <1>3, <1>4, <1>5, <1>6

\* No campaign, nothing owed.
LEMMA NothingOwed ==
    ASSUME Init  PROVE Solvent
<1> DEFINE F == [c \in CampaignIds |-> campaigns[c].balance]
<1>1. \A c \in CampaignIds : F[c] = 0
  BY DEF Init, NoCampaign
<1>2. owed(campaigns) = SumFunctionOnSet(F, CampaignIds)
  BY DEF owed
<1> HIDE DEF F
<1>3. owed(campaigns) = 0
  BY <1>1, <1>2, CampaignIdsAreFinite, SumZero
<1>4. QED
  BY <1>3 DEF Init, Solvent, locked

\* The value of a transaction goes to one campaign.
LEMMA DepositsAreHeld ==
    ASSUME IInv, Solvent, CreateCampaign \/ TopUp
    PROVE  Solvent'
<1>1. Consistent(Snapshot) /\ campaigns \in [CampaignIds -> Campaign] /\ blockTimestamp \in Nat
  BY StorageFacts DEF IInv
<1>2. CASE CreateCampaign
  <2>1. PICK sender \in Accounts, agent \in Address, value \in Amounts, d \in Durations :
           createCampaign(sender, value, d, agent) /\ held' = held + value /\ UNCHANGED call
    BY <1>2 DEF CreateCampaign
  <2> DEFINE new == [organizer |-> sender, authorizedAgent |-> agent,
                     maxDuration |-> d, balance |-> value,
                     createdAt |-> blockTimestamp, closed |-> FALSE]
             n == campaignCount
  <2>2. n \in CampaignIds /\ campaigns' = [campaigns EXCEPT ![n] = new]
    BY <2>1 DEF createCampaign
  <2>3. value \in Nat /\ d \in 0 .. UintMax
    BY EscrowAssumption
  <2>4. new \in Campaign /\ new.balance = value
    BY <1>1, <2>3 DEF Campaign, Address
  <2> HIDE DEF new
  <2>5. n >= n
    BY <1>1, StorageFacts
  <2>6. campaigns[n].balance = 0
    BY <1>1, <2>2, <2>5, StorageFacts DEF NoCampaign
  <2>7. /\ campaigns' \in [CampaignIds -> Campaign] /\ campaigns'[n] = new
        /\ \A c \in CampaignIds \ {n} : campaigns'[c] = campaigns[c]
    BY <1>1, <2>2, <2>4, CampaignReplaced
  <2> HIDE DEF n
  <2>8. owed(campaigns') = owed(campaigns) + value
    <3>1. /\ owed(campaigns') = owed(campaigns) - campaigns[n].balance
                                                + campaigns'[n].balance
          /\ owed(campaigns) \in Int
      BY <1>1, <2>2, <2>7, OwedChanges
    <3>2. campaigns'[n].balance = value
      BY <2>4, <2>7
    <3>3. QED
      BY <2>3, <2>6, <3>1, <3>2
  <2>9. QED
    BY <2>1, <2>8 DEF Solvent, locked
<1>3. CASE TopUp
  <2>1. PICK c \in CampaignIds, value \in Amounts :
           topUp(c, value) /\ held' = held + value /\ UNCHANGED call
    BY <1>3 DEF TopUp
  <2>2. /\ value \in Nat /\ campaigns[c].balance \in Nat
        /\ campaigns[c].balance + value \in Nat
    BY <1>1, Books, EscrowAssumption
  <2>3. campaigns' = [campaigns EXCEPT ![c].balance = campaigns[c].balance + value]
    BY <2>1 DEF topUp
  <2>4. /\ campaigns' \in [CampaignIds -> Campaign]
        /\ campaigns'[c].balance = campaigns[c].balance + value
        /\ \A d \in CampaignIds \ {c} : campaigns'[d] = campaigns[d]
    BY <1>1, <2>2, <2>3, BalanceOnlyChanges
  <2>5. owed(campaigns') = owed(campaigns) + value
    BY <1>1, <2>2, <2>4, OwedChanges
  <2>6. QED
    BY <2>1, <2>5 DEF Solvent, locked
<1>4. QED
  BY <1>2, <1>3

\* What a call sends is what its campaign is owed less.
LEMMA CallsSendWhatWasOwed ==
    ASSUME IInv, Solvent, CallClipper \/ CallOrganizer
    PROVE  Solvent'
<1>1. Consistent(Snapshot) /\ campaigns \in [CampaignIds -> Campaign]
  BY StorageFacts DEF IInv
<1>2. Snapshot.campaigns = campaigns
  BY DEF Snapshot
<1>3. CASE CallClipper
  <2>1. PICK sender \in Accounts, c \in CampaignIds, clipper \in Address,
             amount \in Amounts, id \in SettlementIds :
           /\ releaseAllowed(sender, c, clipper, amount, id)
           /\ releaseEffects(c, amount, id)
           /\ held' = held - amount
           /\ openReleaseCall(c, clipper, amount, id)
    BY <1>3 DEF CallClipper
  <2>2. /\ amount \in Nat /\ campaigns[c].balance \in Nat
        /\ campaigns[c].balance - amount \in Nat
    BY <1>1, <2>1, Books, EscrowAssumption DEF releaseAllowed
  <2>3. campaigns' = [campaigns EXCEPT ![c].balance = campaigns[c].balance - amount]
    BY <2>1 DEF releaseEffects
  <2>4. /\ campaigns' \in [CampaignIds -> Campaign]
        /\ campaigns'[c].balance = campaigns[c].balance - amount
        /\ \A d \in CampaignIds \ {c} : campaigns'[d] = campaigns[d]
    BY <1>1, <2>2, <2>3, BalanceOnlyChanges
  <2>5. owed(campaigns') = owed(campaigns) - amount
    BY <1>1, <2>2, <2>4, OwedChanges
  <2>6. call'.savedHeld = held /\ call'.saved.campaigns = campaigns
    BY <1>2, <2>1 DEF openReleaseCall
  <2>7. QED
    BY <2>1, <2>5, <2>6 DEF Solvent
<1>4. CASE CallOrganizer
  <2>1. PICK sender \in Accounts, c \in CampaignIds :
           /\ withdrawAllowed(sender, c) /\ withdrawEffects(c) /\ UNCHANGED payouts
           /\ held' = held - campaigns[c].balance
           /\ call' = [function |-> "withdrawRemaining", campaign |-> c,
                       saved |-> Snapshot, savedHeld |-> held]
    BY <1>4 DEF CallOrganizer
  <2>2. campaigns' \in [CampaignIds -> Campaign]
        /\ \A d \in CampaignIds \ {c} : campaigns'[d] = campaigns[d]
    <3>1. Consistent(Snapshot)'
      BY <1>1, <2>1, WithdrawKeepsAccounts
    <3>2. campaigns' \in [CampaignIds -> Campaign]
      BY <3>1 DEF Consistent, Snapshot
    <3>3. QED
      BY <1>1, <2>1, <3>2, WithdrawKeepsAccounts
  <2>3. campaigns'[c].balance = 0
    <3>1. campaigns' = [campaigns EXCEPT ![c].balance = 0, ![c].closed = TRUE]
      BY <2>1 DEF withdrawEffects
    <3>2. campaigns' = [campaigns EXCEPT ![c] =
                           [campaigns[c] EXCEPT !.balance = 0, !.closed = TRUE]]
      BY <1>1, <3>1
    <3>3. QED
      BY <1>1, <3>2, BalanceChanges
  <2>4. owed(campaigns') = owed(campaigns) - campaigns[c].balance
    BY <1>1, <2>2, <2>3, OwedChanges
  <2>5. call'.savedHeld = held /\ call'.saved.campaigns = campaigns
    BY <1>2, <2>1
  <2>6. QED
    BY <2>1, <2>4, <2>5 DEF Solvent
<1>5. QED
  BY <1>3, <1>4

LEMMA EmptyCampaignsOweNothing ==
    ASSUME IInv, Solvent, CloseEmptyCampaign
    PROVE  Solvent'
<1>1. Consistent(Snapshot) /\ campaigns \in [CampaignIds -> Campaign]
  BY StorageFacts DEF IInv
<1>2. PICK sender \in Accounts, c \in CampaignIds :
         /\ campaigns[c].balance = 0
         /\ withdrawAllowed(sender, c) /\ withdrawEffects(c)
         /\ UNCHANGED <<payouts, held, call>>
  BY DEF CloseEmptyCampaign
<1>3. campaigns' = [campaigns EXCEPT ![c] =
                       [campaigns[c] EXCEPT !.balance = 0, !.closed = TRUE]]
  BY <1>1, <1>2 DEF withdrawEffects
<1>4. /\ campaigns' \in [CampaignIds -> Campaign]
      /\ campaigns'[c].balance = 0
      /\ \A d \in CampaignIds \ {c} : campaigns'[d] = campaigns[d]
  BY <1>1, <1>3, BalanceChanges
<1>5. owed(campaigns') = owed(campaigns)
  BY <1>1, <1>2, <1>4, OwedChanges
<1>6. QED
  BY <1>2, <1>5 DEF Solvent, locked

LEMMA StepKeepsSolvent ==
    ASSUME IInv, Solvent, [Next]_vars  PROVE Solvent'
<1>1. CASE CreateCampaign \/ TopUp
  BY <1>1, DepositsAreHeld
<1>2. CASE CallClipper \/ CallOrganizer
  BY <1>2, CallsSendWhatWasOwed
<1>3. CASE CloseEmptyCampaign
  BY <1>3, EmptyCampaignsOweNothing
<1>4. CASE CallReturns
  BY <1>4 DEF CallReturns, Solvent, locked
<1>5. CASE CallFails
  BY <1>5 DEF CallFails, Solvent, locked, RestoreSnapshot
<1>6. CASE NextBlock
  BY <1>6 DEF NextBlock, Solvent, locked
<1>7. CASE UNCHANGED vars
  BY <1>7 DEF vars, Solvent, locked
<1>8. QED
  BY <1>1, <1>2, <1>3, <1>4, <1>5, <1>6, <1>7 DEF Next

\* At every moment, inside an open call too, the contract holds exactly what its
\* campaigns are owed together (CampaignEscrow.sol:128-137, 150-157).
THEOREM ContractIsSolvent == Spec => []Solvency
<1>1. Init => Solvent
  BY NothingOwed
<1>2. IInv /\ Solvent /\ [Next]_vars => Solvent'
  BY StepKeepsSolvent
<1>3. Solvent => Solvency
  BY DEF Solvent, Solvency
<1>4. QED
  BY <1>1, <1>2, <1>3, CallsAreAccountedFor, PTL DEF Spec

\* The storage and the open call have the types the contract gives them, and what
\* the contract holds is never negative.
THEOREM ContractTypeCorrect == Spec => [](TypeOK /\ held \in Nat)
<1>1. Init => Solvent
  BY NothingOwed
<1>2. IInv /\ Solvent /\ [Next]_vars => Solvent'
  BY StepKeepsSolvent
<1>3. ASSUME IInv, Solvent  PROVE TypeOK /\ held \in Nat
  <2> DEFINE F == [c \in CampaignIds |-> campaigns[c].balance]
  <2>1. StorageTypeOK
    BY <1>3, StorageFacts DEF IInv, StorageTypeOK
  <2>2. \A c \in CampaignIds : F[c] \in Nat
    BY <2>1 DEF StorageTypeOK, Campaign
  <2>3. held = SumFunctionOnSet(F, CampaignIds)
    BY <1>3 DEF Solvent, owed
  <2> HIDE DEF F
  <2>4. held \in Nat
    BY <2>2, <2>3, CampaignIdsAreFinite, SumNat
  <2>5. CallTypeOK
    <3>1. CASE ~locked
      BY <3>1 DEF locked, CallTypeOK
    <3>2. CASE locked
      <4>1. OpenCall(call.saved)
        BY <1>3, <3>2 DEF IInv
      <4>2. CASE OpenRelease(call.saved)
        BY <4>2 DEF OpenRelease, CallTypeOK
      <4>3. CASE OpenWithdrawal(call.saved)
        BY <4>3 DEF OpenWithdrawal, CallTypeOK
      <4>4. QED
        BY <4>1, <4>2, <4>3 DEF OpenCall
    <3>3. QED
      BY <3>1, <3>2
  <2>6. QED
    BY <2>1, <2>4, <2>5 DEF TypeOK
<1>4. QED
  BY <1>1, <1>2, <1>3, CallsAreAccountedFor, PTL DEF Spec

-----------------------------------------------------------------------------
(* Ids and closed campaigns.                                               *)

\* An id is marked exactly when its clipper was paid or is being paid, so that a
\* release that fails leaves it usable (CampaignEscrow.sol:122-137).
THEOREM MarkedMeansPaid == Spec => []UsedIdsArePaid
<1>1. ASSUME IInv  PROVE UsedIdsArePaid
  <2>1. CASE ~locked
    BY <1>1, <2>1 DEF IInv, PaidOnce, Snapshot, UsedIdsArePaid
  <2>2. CASE locked
    <3>1. OpenCall(call.saved)
      BY <1>1, <2>2 DEF IInv
    <3>2. \A i \in SettlementIds : i \in call.saved.used <=> payouts[i] # << >>
      BY <3>1 DEF OpenCall, PaidOnce
    <3>3. CASE OpenRelease(call.saved)
      BY <2>2, <3>2, <3>3 DEF OpenRelease, UsedIdsArePaid
    <3>4. CASE OpenWithdrawal(call.saved)
      BY <3>2, <3>4 DEF OpenWithdrawal, UsedIdsArePaid
    <3>5. QED
      BY <3>1, <3>3, <3>4 DEF OpenCall
  <2>3. QED
    BY <2>1, <2>2
<1>2. QED
  BY <1>1, CallsAreAccountedFor, PTL

Emptied(cs) == \A c \in CampaignIds : cs[c].closed => cs[c].balance = 0

\* A closed campaign is empty, in the storage a failing call puts back as well.
ClosedInv == Emptied(campaigns) /\ (locked => Emptied(call.saved.campaigns))

\* Of a campaign that a function touches: it was open, and is empty if it is closed.
Touched(c) == ~campaigns[c].closed /\ (campaigns'[c].closed => campaigns'[c].balance = 0)

LEMMA OnlyOpenOnesAreTouched ==
    ASSUME IInv, [Next]_vars, ~CallFails
    PROVE  \A c \in CampaignIds : campaigns'[c] = campaigns[c] \/ Touched(c)
<1>1. Consistent(Snapshot) /\ campaigns \in [CampaignIds -> Campaign]
  BY StorageFacts DEF IInv
<1>2. CASE CreateCampaign
  <2>1. PICK r :
          /\ campaignCount \in CampaignIds /\ r.closed = FALSE
          /\ campaigns' = [campaigns EXCEPT ![campaignCount] = r]
    BY <1>2 DEF CreateCampaign, createCampaign
  <2>2. campaigns[campaignCount] = NoCampaign
    BY <1>1, <2>1, StorageFacts, StorageAssumption
  <2>3. ~campaigns[campaignCount].closed /\ ~campaigns'[campaignCount].closed
    BY <1>1, <2>1, <2>2 DEF NoCampaign
  <2>4. QED
    BY <1>1, <2>1, <2>3 DEF Touched
<1>3. CASE TopUp
  <2>1. PICK c \in CampaignIds, value \in Amounts : topUp(c, value)
    BY <1>3 DEF TopUp
  <2>2. campaigns[c].balance \in Nat /\ value \in Nat /\ ~campaigns[c].closed
    BY <1>1, <2>1, EscrowAssumption DEF topUp, topUpAllowed, Campaign
  <2>3. PICK b \in Nat : b = campaigns[c].balance + value
    BY <2>2
  <2>4. campaigns' = [campaigns EXCEPT ![c].balance = b]
    BY <2>1, <2>3 DEF topUp
  <2>5. QED
    BY <1>1, <2>2, <2>4, BalanceOnlyChanges DEF Touched
<1>4. CASE CallClipper
  <2>1. PICK c \in CampaignIds, amount \in Amounts, id \in SettlementIds :
          /\ ~campaigns[c].closed /\ campaigns[c].balance >= amount
          /\ releaseEffects(c, amount, id)
    BY <1>4 DEF CallClipper, releaseAllowed
  <2>2. campaigns[c].balance \in Nat /\ amount \in Nat
    BY <1>1, EscrowAssumption DEF Campaign
  <2>3. PICK b \in Nat : b = campaigns[c].balance - amount
    BY <2>1, <2>2
  <2>4. campaigns' = [campaigns EXCEPT ![c].balance = b]
    BY <2>1, <2>3 DEF releaseEffects
  <2>5. QED
    BY <1>1, <2>1, <2>4, BalanceOnlyChanges DEF Touched
<1>5. CASE CallOrganizer \/ CloseEmptyCampaign
  <2>1. PICK c \in CampaignIds : ~campaigns[c].closed /\ withdrawEffects(c)
    BY <1>5 DEF CallOrganizer, CloseEmptyCampaign, withdrawAllowed
  <2>2. campaigns' = [campaigns EXCEPT ![c] =
                         [campaigns[c] EXCEPT !.balance = 0, !.closed = TRUE]]
    BY <1>1, <2>1 DEF withdrawEffects
  <2>3. QED
    BY <1>1, <2>1, <2>2, BalanceChanges DEF Touched
<1>6. CASE CallReturns \/ NextBlock \/ UNCHANGED vars
  BY <1>6 DEF CallReturns, NextBlock, vars
<1>7. QED
  BY <1>2, <1>3, <1>4, <1>5, <1>6 DEF Next

LEMMA StepKeepsClosedInv ==
    ASSUME IInv, ClosedInv, [Next]_vars  PROVE ClosedInv'
<1>1. CASE CallFails
  BY <1>1 DEF CallFails, RestoreSnapshot, ClosedInv, Emptied, locked
<1>2. CASE ~CallFails
  <2>1. Emptied(campaigns)'
    BY <1>2, OnlyOpenOnesAreTouched DEF ClosedInv, Emptied, Touched
  <2>2. ASSUME locked'  PROVE Emptied(call'.saved.campaigns)
    <3>1. CASE call' = call
      BY <2>2, <3>1 DEF ClosedInv, locked
    <3>2. CASE CallClipper
      <4>1. call'.saved = Snapshot
        BY <3>2, CallClipperStep
      <4>2. QED
        BY <4>1 DEF Snapshot, ClosedInv
    <3>3. CASE CallOrganizer
      <4>1. call'.saved = Snapshot
        BY <3>3 DEF CallOrganizer
      <4>2. QED
        BY <4>1 DEF Snapshot, ClosedInv
    <3>4. QED
      BY <1>2, <2>2, <3>1, <3>2, <3>3 DEF Next, CreateCampaign, TopUp, CloseEmptyCampaign,
         CallReturns, NextBlock, vars, locked
  <2>3. QED
    BY <2>1, <2>2 DEF ClosedInv, Emptied
<1>3. QED
  BY <1>1, <1>2

\* Once withdrawRemaining committed, no function changes the campaign again: nothing is
\* deposited to it, paid from it or returned a second time (CampaignEscrow.sol:143-160).
THEOREM ClosedStaysClosed == Spec => ClosedIsFinal
<1>1. Init => ClosedInv
  BY DEF Init, ClosedInv, Emptied, NoCampaign, locked
<1>2. IInv /\ ClosedInv /\ [Next]_vars => ClosedInv'
  BY StepKeepsClosedInv
<1>3. ASSUME IInv, ClosedInv, [Next]_vars
      PROVE  [\A c \in CampaignIds :
                 campaigns[c].closed /\ ~locked
                    => campaigns'[c] = campaigns[c] /\ campaigns[c].balance = 0]_vars
  <2>1. SUFFICES ASSUME NEW c \in CampaignIds, campaigns[c].closed, ~locked
                 PROVE  campaigns'[c] = campaigns[c] /\ campaigns[c].balance = 0
    OBVIOUS
  <2>2. ~CallFails
    BY <2>1 DEF CallFails
  <2>3. QED
    BY <1>3, <2>1, <2>2, OnlyOpenOnesAreTouched DEF ClosedInv, Emptied, Touched
<1>4. QED
  BY <1>1, <1>2, <1>3, CallsAreAccountedFor, PTL DEF Spec, ClosedIsFinal

-----------------------------------------------------------------------------
(* Refinement of PayoutLedger: an open call is no step of the ledger yet.  *)

LEMMA CommittedOutsideCalls ==
    ASSUME ~locked
    PROVE  /\ committed.payouts = payouts /\ committed.deposited = deposited
           /\ committed.released = released /\ committed.returned = returned
           /\ committed.campaigns = campaigns
BY DEF committed, Snapshot

LEMMA CommittedAfter ==
    ASSUME ~locked'
    PROVE  /\ committed'.payouts = payouts' /\ committed'.deposited = deposited'
           /\ committed'.released = released' /\ committed'.returned = returned'
           /\ committed'.campaigns = campaigns'
BY DEF committed, Snapshot

LEMMA LedgerInitially ==
    ASSUME Init  PROVE Ledger!LedgerInit
<1>1. ~locked
  BY DEF Init, locked
<1>2. \A c \in CampaignIds : ~campaigns[c].closed
  BY DEF Init, NoCampaign
<1>3. QED
  BY <1>1, <1>2, CommittedOutsideCalls DEF Init, Ledger!LedgerInit

\* What goes on inside a call is not committed.
LEMMA LedgerUntouched ==
    ASSUME committed' = committed
    PROVE  UNCHANGED Ledger!ledgerVars
BY DEF Ledger!ledgerVars

LEMMA MoneyInIsDeposit ==
    ASSUME IInv, MoneyIn, UNCHANGED call
    PROVE  Ledger!Deposit \/ UNCHANGED Ledger!ledgerVars
<1>1. locked' = locked
  BY DEF locked
<1>2. CASE locked
  <2>1. committed' = committed
    BY <1>1, <1>2 DEF committed
  <2>2. QED
    BY <2>1, LedgerUntouched
<1>3. CASE ~locked
  <2>1. /\ UNCHANGED <<payouts, released, returned>>
        /\ deposited' \in [CampaignIds -> Nat]
        /\ \A c \in CampaignIds :
             /\ deposited'[c] >= deposited[c]
             /\ campaigns[c].closed => deposited'[c] = deposited[c]
             /\ campaigns'[c].closed = campaigns[c].closed
    BY DEF MoneyIn, Consistent, Snapshot
  <2>2. QED
    BY <1>1, <1>3, <2>1, CommittedOutsideCalls, CommittedAfter
       DEF Ledger!Deposit, Ledger!DepositsGrow
<1>4. QED
  BY <1>2, <1>3

\* Deposits made inside the call come to the ledger with its end.
LEMMA CallBringsDeposits ==
    ASSUME IInv, CallReturns
    PROVE  Ledger!DepositsGrow
<1>1. locked /\ OpenCall(call.saved) /\ ~locked' /\ UNCHANGED deposited
  BY CallReturnsStep DEF CallReturns, IInv
<1>2. committed = call.saved /\ committed'.deposited = deposited
  BY <1>1, CommittedAfter DEF committed
<1>3. deposited \in [CampaignIds -> Nat]
  BY StorageFacts DEF IInv
<1>4. \A c \in CampaignIds :
        /\ deposited[c] >= call.saved.deposited[c]
        /\ call.saved.campaigns[c].closed => deposited[c] = call.saved.deposited[c]
  BY <1>1 DEF OpenCall, DepositsSince
<1>5. QED
  BY <1>2, <1>3, <1>4 DEF Ledger!DepositsGrow

LEMMA ReleaseIsPay ==
    ASSUME IInv, CallReturns, OpenRelease(call.saved)
    PROVE  \E i \in SettlementIds : Ledger!Pay(i)
<1> DEFINE s == call.saved
           id == call.id
           c == call.campaign
           p == CallPayout
<1>1. locked /\ OpenCall(s) /\ ~locked'
  BY CallReturnsStep DEF CallReturns, IInv
<1>2. /\ id \in SettlementIds /\ c \in CampaignIds /\ call.amount \in Nat
      /\ ~s.campaigns[c].closed /\ s.campaigns[c].balance >= call.amount
      /\ released = [s.released EXCEPT ![c] = @ + call.amount]
      /\ returned = s.returned
      /\ \A d \in CampaignIds : campaigns[d].closed = s.campaigns[d].closed
  BY DEF OpenRelease
<1>3. /\ p \in Payout /\ payouts[id] = << >>
      /\ payouts' = [payouts EXCEPT ![id] = <<p>>]
  BY <1>1, ReleaseReturns
<1>4. payouts = s.payouts /\ payouts \in [SettlementIds -> Seq(Payout)]
  BY <1>1, StorageFacts DEF OpenCall, IInv
<1>5. p.campaign = c /\ p.amount = call.amount
  BY DEF CallPayout
<1>6. /\ s.deposited[c] \in Nat /\ s.released[c] \in Nat /\ s.returned[c] \in Nat
      /\ s.campaigns[c].balance \in Nat
      /\ s.deposited[c] = s.campaigns[c].balance + s.released[c] + s.returned[c]
  BY <1>1, <1>2 DEF OpenCall, Consistent, Campaign
<1>7. s.released[c] + call.amount <= s.deposited[c]
  BY <1>2, <1>6
<1>8. UNCHANGED <<campaigns, released, returned>>
  BY DEF CallReturns
<1>9. committed = s
  BY <1>1 DEF committed
<1>10. /\ committed'.payouts = payouts' /\ committed'.released = released
       /\ committed'.returned = returned /\ committed'.campaigns = campaigns
  BY <1>1, <1>8, CommittedAfter
<1>11. Ledger!DepositsGrow
  BY CallBringsDeposits
<1> HIDE DEF s, id, c, p
<1>12. payouts'[id] = <<p>> /\ payouts'[id] # << >> /\ payouts'[id][1] = p
  BY <1>2, <1>3, <1>4
<1>13. {d \in CampaignIds : campaigns[d].closed} = {d \in CampaignIds : s.campaigns[d].closed}
  BY <1>2
<1>14. Ledger!Pay(id)
  BY <1>2, <1>3, <1>4, <1>5, <1>7, <1>9, <1>10, <1>11, <1>12, <1>13 DEF Ledger!Pay
<1>15. QED
  BY <1>2, <1>14

LEMMA WithdrawalIsRefund ==
    ASSUME IInv, CallReturns, OpenWithdrawal(call.saved)
    PROVE  \E d \in CampaignIds : Ledger!Refund(d)
<1> DEFINE s == call.saved
<1>0. PICK c \in CampaignIds : c = call.campaign
  BY DEF OpenWithdrawal
<1>1. locked /\ OpenCall(s) /\ ~locked'
  BY CallReturnsStep DEF CallReturns, IInv
<1>2. /\ c \in CampaignIds /\ ~s.campaigns[c].closed
      /\ deposited[c] = s.deposited[c]
      /\ released = s.released
      /\ returned = [s.returned EXCEPT ![c] = s.deposited[c] - s.released[c]]
      /\ \A d \in CampaignIds : campaigns[d].closed = (d = c \/ s.campaigns[d].closed)
  BY <1>0 DEF OpenWithdrawal
<1>3. payouts = s.payouts
  BY <1>1 DEF OpenCall
<1>4. UNCHANGED <<campaigns, released, returned, deposited, payouts>>
  BY DEF CallReturns, OpenWithdrawal
<1>5. committed = s
  BY <1>1 DEF committed
<1>6. /\ committed'.payouts = payouts /\ committed'.released = released
      /\ committed'.returned = returned /\ committed'.campaigns = campaigns
      /\ committed'.deposited = deposited
  BY <1>1, <1>4, CommittedAfter
<1>7. Ledger!DepositsGrow
  BY CallBringsDeposits
<1> HIDE DEF s
<1>8. {d \in CampaignIds : campaigns[d].closed}
         = {d \in CampaignIds : s.campaigns[d].closed} \cup {c}
  BY <1>2
<1>9. Ledger!Refund(c)
  BY <1>2, <1>3, <1>5, <1>6, <1>7, <1>8 DEF Ledger!Refund
<1>10. QED
  BY <1>9

LEMMA EmptyIsRefund ==
    ASSUME IInv, CloseEmptyCampaign
    PROVE  \E d \in CampaignIds : Ledger!Refund(d)
<1>1. PICK sender \in Accounts, c \in CampaignIds :
         /\ withdrawAllowed(sender, c)
         /\ withdrawEffects(c)
         /\ UNCHANGED payouts
  BY DEF CloseEmptyCampaign
<1>2. ~locked /\ ~locked' /\ Consistent(Snapshot)
  BY CloseEmptyCampaignStep DEF IInv
<1>3. /\ returned' = [returned EXCEPT ![c] = deposited[c] - released[c]]
      /\ campaigns'[c].closed = TRUE
      /\ \A d \in CampaignIds \ {c} : campaigns'[d] = campaigns[d]
  BY <1>1, <1>2, WithdrawKeepsAccounts
<1>4. ~campaigns[c].closed /\ UNCHANGED <<payouts, deposited, released>>
  BY <1>1 DEF withdrawAllowed, withdrawEffects
<1>5. {d \in CampaignIds : campaigns'[d].closed}
         = {d \in CampaignIds : campaigns[d].closed} \cup {c}
  BY <1>3
<1>6. deposited \in [CampaignIds -> Nat]
  BY <1>2, StorageFacts
<1>7. Ledger!DepositsGrow
  BY <1>2, <1>4, <1>6, CommittedOutsideCalls, CommittedAfter DEF Ledger!DepositsGrow
<1>8. Ledger!Refund(c)
  BY <1>2, <1>3, <1>4, <1>5, <1>7, CommittedOutsideCalls, CommittedAfter DEF Ledger!Refund
<1>9. QED
  BY <1>8

\* A call that fails leaves the storage it was opened on.
LEMMA FailureIsNothing ==
    ASSUME IInv, CallFails
    PROVE  UNCHANGED Ledger!ledgerVars
<1>1. locked /\ ~locked' /\ RestoreSnapshot(call.saved)
  BY CallFailsStep DEF CallFails
<1>2. committed = call.saved
  BY <1>1 DEF committed
<1>3. QED
  BY <1>1, <1>2, CommittedAfter DEF RestoreSnapshot, Ledger!ledgerVars

LEMMA LedgerStep ==
    ASSUME IInv, [Next]_vars  PROVE [Ledger!LedgerNext]_(Ledger!ledgerVars)
<1>1. CASE CreateCampaign \/ TopUp
  BY <1>1, DepositsAreMoneyIn, MoneyInIsDeposit DEF Ledger!LedgerNext
<1>2. CASE CallClipper \/ CallOrganizer
  <2>1. committed' = committed
    BY <1>2, CallClipperStep, CallOrganizerStep DEF committed
  <2>2. QED
    BY <2>1, LedgerUntouched
<1>3. CASE CloseEmptyCampaign
  BY <1>3, EmptyIsRefund DEF Ledger!LedgerNext
<1>4. CASE CallReturns
  <2>1. OpenRelease(call.saved) \/ OpenWithdrawal(call.saved)
    BY <1>4 DEF CallReturns, IInv, OpenCall
  <2>2. QED
    BY <1>4, <2>1, ReleaseIsPay, WithdrawalIsRefund DEF Ledger!LedgerNext
<1>5. CASE CallFails
  BY <1>5, FailureIsNothing
<1>6. CASE NextBlock
  <2>1. committed' = committed
    BY <1>6 DEF NextBlock, committed, locked, Snapshot
  <2>2. QED
    BY <2>1, LedgerUntouched
<1>7. CASE UNCHANGED vars
  <2>1. committed' = committed
    BY <1>7 DEF vars, committed, locked, Snapshot
  <2>2. QED
    BY <2>1, LedgerUntouched
<1>8. QED
  BY <1>1, <1>2, <1>3, <1>4, <1>5, <1>6, <1>7 DEF Next

\* The contract implements PayoutLedger, whatever recipients do inside its calls: each
\* transaction that commits is one deposit, one payout of an unpaid id, or one refund of
\* all that was not paid out, possibly with deposits (CampaignEscrow.sol:108-167).
THEOREM ContractImplementsLedger == Spec => ImplementsLedger
<1>1. Init => Ledger!LedgerInit
  BY LedgerInitially
<1>2. IInv /\ [Next]_vars => [Ledger!LedgerNext]_(Ledger!ledgerVars)
  BY LedgerStep
<1>3. QED
  BY <1>1, <1>2, CallsAreAccountedFor, PTL DEF Spec, ImplementsLedger, Ledger!LedgerSpec
=============================================================================
