--------------------------- MODULE LivePagesProofs ---------------------------
(***************************************************************************)
(* For every set of wallets and any number of requests, submissions and    *)
(* changes of the wallet: the views of LivePages keep their types, and a   *)
(* view shows another wallet's answer only while it says so or after       *)
(* something was under way as the wallet changed (OldAnswersNeedASwitch).  *)
(*                                                                         *)
(* The latter needs to know what is under way: as long as nothing was when *)
(* the wallet changed, every request and the form belong to the wallet     *)
(* that is looked at (OwnInv).                                             *)
(***************************************************************************)
EXTENDS LivePages, SumProofs, SequenceTheorems, TLAPS

\* A form is only submitted with a wallet.
SubmissionInv == submission # None => Active(submission) # None

\* Without a change of the wallet under way, what is under way is this wallet's,
\* and so is what is shown while the links of the clips are waited for.
OwnInv ==
    view \in OfWallet /\ ~crossed =>
       /\ \A i \in DOMAIN requests : requests[i].answer.wallet = activeWallet
       /\ submission # None => Active(submission) = activeWallet
       /\ \A i \in DOMAIN requests :
             requests[i].at = "shown" => shown = None \/ shown.wallet = activeWallet

PagesInv == TypeOK /\ SubmissionInv /\ OwnInv /\ OldAnswersNeedASwitch

-----------------------------------------------------------------------------
(***************************************************************************)
(* Requests.                                                               *)
(***************************************************************************)
Addressed(q) == view \in OfWallet => \A i \in DOMAIN q : q[i].answer.wallet # None

\* The wallet the view is looked at with.
LEMMA ActiveType ==
    ASSUME NEW h \in Hook  PROVE Active(h) \in Wallets \cup {None}
  BY DEF Hook, Active

LEMMA NewRequestType ==
    ASSUME NEW w \in Wallets \cup {None}, NEW refresh \in BOOLEAN
    PROVE  /\ NewRequest(w, refresh) \in Request
           /\ NewRequest(w, refresh).answer.wallet = w
           /\ NewRequest(w, refresh).at = "sent"
  BY DEF NewRequest, Request, Answer

\* Two lists of requests one after the other.
LEMMA Joined ==
    ASSUME NEW q \in Seq(Request), NEW r \in Seq(Request)
    PROVE  /\ q \o r \in Seq(Request)
           /\ \A i \in DOMAIN (q \o r) :
                 \/ \E j \in DOMAIN q : (q \o r)[i] = q[j]
                 \/ \E j \in DOMAIN r : (q \o r)[i] = r[j]
<1>1. /\ q \o r \in Seq(Request) /\ Len(q \o r) = Len(q) + Len(r)
      /\ \A i \in 1 .. Len(q) + Len(r) :
            (q \o r)[i] = IF i <= Len(q) THEN q[i] ELSE r[i - Len(q)]
  BY ConcatProperties
<1>2. /\ Len(q) \in Nat /\ DOMAIN q = 1 .. Len(q)
      /\ Len(r) \in Nat /\ DOMAIN r = 1 .. Len(r)
      /\ DOMAIN (q \o r) = 1 .. Len(q) + Len(r)
  BY <1>1, LenProperties
<1>3. ASSUME NEW i \in DOMAIN (q \o r)
      PROVE  \/ \E j \in DOMAIN q : (q \o r)[i] = q[j]
             \/ \E j \in DOMAIN r : (q \o r)[i] = r[j]
  <2>1. CASE i <= Len(q)
    BY <1>1, <1>2, <1>3, <2>1
  <2>2. CASE ~ (i <= Len(q))
    <3>1. i - Len(q) \in DOMAIN r
      BY <1>2, <1>3, <2>2
    <3>2. QED
      BY <1>1, <1>2, <1>3, <2>2, <3>1
  <2>3. QED
    BY <2>1, <2>2
<1>4. QED
  BY <1>1, <1>3

\* One request is taken out.
LEMMA TakenOut ==
    ASSUME NEW q \in Seq(Request), NEW i \in DOMAIN q
    PROVE  /\ RemoveAt(q, i) \in Seq(Request)
           /\ Len(RemoveAt(q, i)) <= Len(q)
           /\ \A k \in DOMAIN RemoveAt(q, i) :
                 \E j \in DOMAIN q : RemoveAt(q, i)[k] = q[j]
<1> DEFINE front == SubSeq(q, 1, i - 1)
           back == SubSeq(q, i + 1, Len(q))
<1>1. Len(q) \in Nat /\ DOMAIN q = 1 .. Len(q) /\ i \in 1 .. Len(q)
  BY LenProperties
<1>2. \A j \in 1 .. Len(q) : q[j] \in Request
  BY ElementOfSeq
<1>3. /\ front \in Seq(Request) /\ Len(front) = i - 1
      /\ \A j \in 1 .. i - 1 : front[j] = q[j]
  <2>1. 1 \in Int /\ i - 1 \in Int /\ \A j \in 1 .. i - 1 : q[j] \in Request
    BY <1>1, <1>2
  <2>2. /\ front \in Seq(Request)
        /\ Len(front) = IF 1 <= i - 1 THEN (i - 1) - 1 + 1 ELSE 0
        /\ \A j \in 1 .. (i - 1) - 1 + 1 : front[j] = q[1 + j - 1]
    BY <2>1, SubSeqProperties
  <2>3. (IF 1 <= i - 1 THEN (i - 1) - 1 + 1 ELSE 0) = i - 1
    BY <1>1
  <2>4. \A j \in 1 .. i - 1 : j \in 1 .. (i - 1) - 1 + 1 /\ 1 + j - 1 = j
    BY <1>1
  <2>5. QED
    BY <2>2, <2>3, <2>4
<1>4. /\ back \in Seq(Request) /\ Len(back) = Len(q) - i
      /\ \A j \in 1 .. Len(q) - i : back[j] = q[i + j]
  <2>1. i + 1 \in Int /\ Len(q) \in Int /\ \A j \in i + 1 .. Len(q) : q[j] \in Request
    BY <1>1, <1>2
  <2>2. /\ back \in Seq(Request)
        /\ Len(back) = IF i + 1 <= Len(q) THEN Len(q) - (i + 1) + 1 ELSE 0
        /\ \A j \in 1 .. Len(q) - (i + 1) + 1 : back[j] = q[i + 1 + j - 1]
    BY <2>1, SubSeqProperties
  <2>3. (IF i + 1 <= Len(q) THEN Len(q) - (i + 1) + 1 ELSE 0) = Len(q) - i
    BY <1>1
  <2>4. \A j \in 1 .. Len(q) - i : j \in 1 .. Len(q) - (i + 1) + 1 /\ i + 1 + j - 1 = i + j
    BY <1>1
  <2>5. QED
    BY <2>2, <2>3, <2>4
<1>5. RemoveAt(q, i) = front \o back
  BY DEF RemoveAt
<1> HIDE DEF front, back
<1>6. front \o back \in Seq(Request) /\ Len(front \o back) = (i - 1) + (Len(q) - i)
  BY <1>3, <1>4, ConcatProperties
<1>7. \A j \in DOMAIN front : j \in DOMAIN q /\ front[j] = q[j]
  BY <1>1, <1>3, LenProperties
<1>8. \A j \in DOMAIN back : i + j \in DOMAIN q /\ back[j] = q[i + j]
  <2>1. DOMAIN back = 1 .. Len(q) - i
    BY <1>4, LenProperties
  <2>2. \A j \in 1 .. Len(q) - i : i + j \in DOMAIN q
    BY <1>1
  <2>3. QED
    BY <1>4, <2>1, <2>2
<1>9. ASSUME NEW k \in DOMAIN (front \o back)
      PROVE  \E j \in DOMAIN q : (front \o back)[k] = q[j]
  <2>1. front \in Seq(Request) /\ back \in Seq(Request)
    BY <1>3, <1>4
  <2>2. \/ \E j \in DOMAIN front : (front \o back)[k] = front[j]
        \/ \E j \in DOMAIN back : (front \o back)[k] = back[j]
    BY <2>1, <1>9, Joined
  <2>3. CASE \E j \in DOMAIN front : (front \o back)[k] = front[j]
    BY <2>3, <1>7
  <2>4. CASE \E j \in DOMAIN back : (front \o back)[k] = back[j]
    <3>1. PICK j \in DOMAIN back : (front \o back)[k] = back[j]
      BY <2>4
    <3>2. i + j \in DOMAIN q /\ back[j] = q[i + j]
      BY <1>8
    <3>3. QED
      BY <3>1, <3>2
  <2>5. QED
    BY <2>2, <2>3, <2>4
<1>10. QED
  BY <1>1, <1>5, <1>6, <1>9

\* One request is replaced.
LEMMA Replaced ==
    ASSUME NEW q \in Seq(Request), NEW i \in DOMAIN q, NEW r \in Request
    PROVE  /\ [q EXCEPT ![i] = r] \in Seq(Request)
           /\ Len([q EXCEPT ![i] = r]) <= Len(q)
           /\ \A k \in DOMAIN [q EXCEPT ![i] = r] :
                 k \in DOMAIN q /\ [q EXCEPT ![i] = r][k] = IF k = i THEN r ELSE q[k]
<1>1. Len(q) \in Nat /\ DOMAIN q = 1 .. Len(q)
  BY LenProperties
<1>2. /\ [q EXCEPT ![i] = r] \in Seq(Request)
      /\ Len([q EXCEPT ![i] = r]) = Len(q)
      /\ \A k \in 1 .. Len(q) : [q EXCEPT ![i] = r][k] = IF k = i THEN r ELSE q[k]
  BY <1>1, ExceptSeq
<1>3. DOMAIN [q EXCEPT ![i] = r] = DOMAIN q
  OBVIOUS
<1>4. QED
  BY <1>1, <1>2, <1>3

\* A single request.
LEMMA One ==
    ASSUME NEW r \in Request
    PROVE  <<r>> \in Seq(Request) /\ Len(<<r>>) = 1
           /\ \A j \in DOMAIN <<r>> : <<r>>[j] = r
  OBVIOUS

\* In the list a change of the wallet leaves, every request is of the callback,
\* was there before, or is the load for the new wallet.
LEMMA MovedRequests ==
    ASSUME NEW q \in Seq(Request), NEW extra \in Seq(Request), NEW loads \in Seq(Request)
    PROVE  /\ q \o extra \o loads \in Seq(Request)
           /\ \A i \in DOMAIN (q \o extra \o loads) :
                 \/ \E j \in DOMAIN q : (q \o extra \o loads)[i] = q[j]
                 \/ \E j \in DOMAIN extra : (q \o extra \o loads)[i] = extra[j]
                 \/ \E j \in DOMAIN loads : (q \o extra \o loads)[i] = loads[j]
           /\ q \o extra = <<>> => q \o extra \o loads = loads
           /\ loads = <<>> => q \o extra \o loads = q \o extra
<1>1. PICK both \in Seq(Request) : both = q \o extra
  BY Joined
<1>2. \A i \in DOMAIN both : \/ \E j \in DOMAIN q : both[i] = q[j]
                             \/ \E j \in DOMAIN extra : both[i] = extra[j]
  BY <1>1, Joined
<1>3. /\ both \o loads \in Seq(Request)
      /\ \A i \in DOMAIN (both \o loads) :
            \/ \E j \in DOMAIN both : (both \o loads)[i] = both[j]
            \/ \E j \in DOMAIN loads : (both \o loads)[i] = loads[j]
  BY Joined
<1>4. both = <<>> => both \o loads = loads
  BY ConcatEmptySeq
<1>5. loads = <<>> => both \o loads = both
  BY ConcatEmptySeq
<1>6. /\ both \o loads \in Seq(Request)
      /\ \A i \in DOMAIN (both \o loads) :
            \/ \E j \in DOMAIN q : (both \o loads)[i] = q[j]
            \/ \E j \in DOMAIN extra : (both \o loads)[i] = extra[j]
            \/ \E j \in DOMAIN loads : (both \o loads)[i] = loads[j]
      /\ both = <<>> => both \o loads = loads
      /\ loads = <<>> => both \o loads = both
  <2>1. ASSUME NEW i \in DOMAIN (both \o loads), NEW j \in DOMAIN both,
               (both \o loads)[i] = both[j]
        PROVE  \/ \E k \in DOMAIN q : (both \o loads)[i] = q[k]
               \/ \E k \in DOMAIN extra : (both \o loads)[i] = extra[k]
    BY <1>2, <2>1
  <2>2. QED
    BY <1>3, <1>4, <1>5, <2>1, Zenon
<1>7. QED
  BY <1>1, <1>6, Zenon

-----------------------------------------------------------------------------
(***************************************************************************)
(* The steps.                                                              *)
(***************************************************************************)
LEMMA InitEstablishes ==
    ASSUME PagesAssumption, Init  PROVE PagesInv
<1>1. wallet \in Hook /\ activeWallet \in Wallets \cup {None}
  BY ActiveType DEF Init, Hook, activeWallet
<1>2. WalletOfLoad \in Wallets \cup {None} /\ (view \in OfWallet => WalletOfLoad = activeWallet)
  BY <1>1 DEF WalletOfLoad
<1>3. PICK r \in Request : r = NewRequest(WalletOfLoad, FALSE)
  BY <1>2, NewRequestType
<1>4. r.answer.wallet = WalletOfLoad
  BY <1>2, <1>3, NewRequestType
<1>5. /\ requests \in Seq(Request) /\ Len(requests) \in 0 .. 1
      /\ \A i \in DOMAIN requests :
            requests[i].answer.wallet = WalletOfLoad
            /\ (view \in OfWallet => activeWallet # None)
  <2>1. CASE view \in OfWallet /\ activeWallet = None
    BY <2>1 DEF Init
  <2>2. CASE ~ (view \in OfWallet /\ activeWallet = None)
    <3>1. requests = <<r>>
      BY <1>3, <2>2 DEF Init
    <3>2. QED
      BY <1>4, <2>2, <3>1, One
  <2>3. QED
    BY <2>1, <2>2
<1>6. TypeOK
  <2>1. Len(requests) <= MaxInFlight
    BY <1>5 DEF PagesAssumption
  <2>2. view \in OfWallet => \A i \in DOMAIN requests : requests[i].answer.wallet # None
    BY <1>2, <1>5
  <2>3. /\ view \in Views
        /\ submission \in Hook \cup {None} /\ shown \in Answer \cup {None}
        /\ error \in BOOLEAN /\ crossed \in BOOLEAN
        /\ balance \in 0 .. Deposit /\ feed \in 0 .. MaxFeed
    <3>1. /\ view \in Views /\ submission = None /\ shown = None
          /\ error = FALSE /\ crossed = FALSE /\ balance = Deposit /\ feed = 0
      BY DEF Init
    <3>2. Deposit \in Nat /\ MaxFeed \in Nat
      BY DEF PagesAssumption
    <3>3. balance \in 0 .. Deposit /\ feed \in 0 .. MaxFeed
      BY <3>1, <3>2
    <3>4. QED
      BY <3>1, <3>3, Zenon
  <2>4. unbooked \in [Wallets -> Nat] /\ booked \in [Wallets -> Nat]
    BY DEF Init
  <2>5. loading \in BOOLEAN
    BY DEF Init
  <2>6. QED
    BY <1>1, <1>5, <2>1, <2>2, <2>3, <2>4, <2>5 DEF TypeOK
<1>7. SubmissionInv /\ OldAnswersNeedASwitch
  BY DEF Init, SubmissionInv, OldAnswersNeedASwitch
<1>8. OwnInv
  BY <1>2, <1>5 DEF Init, OwnInv
<1>9. QED
  BY <1>6, <1>7, <1>8 DEF PagesInv

\* The hook's state changes: what is shown is then being loaded anew, nothing
\* is shown, or the wallet that is looked at is the same as before.
LEMMA MovesKeepsInv ==
    ASSUME PagesAssumption, PagesInv,
           NEW new \in Hook, NEW extra \in Seq(Request),
           view \in OfWallet, view' = view, error' = error,
           submission' \in {submission, None}, UNCHANGED serverVars,
           \A i \in DOMAIN extra : extra[i].answer.wallet # None /\ extra[i].at = "sent",
           ~crossed => \A i \in DOMAIN extra : extra[i].answer.wallet = activeWallet,
           Moves(new, extra)
    PROVE  PagesInv'
<1> DEFINE w == Active(new)
           loads == IF w \notin {activeWallet, None} THEN <<NewRequest(w, FALSE)>> ELSE <<>>
<1>1. /\ wallet' = new
      /\ requests' = requests \o extra \o loads
      /\ Len(requests') <= MaxInFlight
      /\ loading' = IF w # activeWallet THEN w # None ELSE loading
      /\ shown' = IF w # activeWallet /\ w = None THEN None ELSE shown
      /\ crossed' = (crossed \/ (w # activeWallet /\ Underway(extra)))
  BY DEF Moves
<1>2. w \in Wallets \cup {None} /\ activeWallet' = w
  BY <1>1, ActiveType DEF activeWallet
<1>3. /\ loads \in Seq(Request)
      /\ \A i \in DOMAIN loads : loads[i].answer.wallet = w /\ w # None /\ loads[i].at = "sent"
      /\ w = activeWallet => loads = <<>>
  <2>1. CASE w \notin {activeWallet, None}
    <3>1. PICK r \in Request :
             r = NewRequest(w, FALSE) /\ r.answer.wallet = w /\ r.at = "sent"
      BY <1>2, NewRequestType
    <3>2. loads = <<r>>
      BY <2>1, <3>1
    <3>3. QED
      BY <2>1, <3>1, <3>2, One
  <2>2. CASE w \in {activeWallet, None}
    BY <2>2
  <2>3. QED
    BY <2>1, <2>2
<1> HIDE DEF w, loads
<1>4. requests \in Seq(Request) /\ (\A i \in DOMAIN requests : requests[i].answer.wallet # None)
  BY DEF PagesInv, TypeOK
<1>5. /\ requests' \in Seq(Request)
      /\ \A i \in DOMAIN requests' :
            \/ \E j \in DOMAIN requests : requests'[i] = requests[j]
            \/ \E j \in DOMAIN extra : requests'[i] = extra[j]
            \/ \E j \in DOMAIN loads : requests'[i] = loads[j]
      /\ requests \o extra = <<>> => requests' = loads
      /\ loads = <<>> => requests' = requests \o extra
  <2>1. requests' = requests \o extra \o loads
    BY <1>1
  <2>2. loads \in Seq(Request) /\ requests \in Seq(Request)
    BY <1>3, <1>4
  <2>3. /\ requests \o extra \o loads \in Seq(Request)
        /\ \A i \in DOMAIN (requests \o extra \o loads) :
              \/ \E j \in DOMAIN requests : (requests \o extra \o loads)[i] = requests[j]
              \/ \E j \in DOMAIN extra : (requests \o extra \o loads)[i] = extra[j]
              \/ \E j \in DOMAIN loads : (requests \o extra \o loads)[i] = loads[j]
        /\ requests \o extra = <<>> => requests \o extra \o loads = loads
        /\ loads = <<>> => requests \o extra \o loads = requests \o extra
    BY <2>2, MovedRequests, Zenon
  <2>4. QED
    BY <2>1, <2>3, Zenon
<1>6. \A i \in DOMAIN requests' : requests'[i].answer.wallet # None
  BY <1>3, <1>4, <1>5
<1>7. TypeOK'
  <2>1. loading' \in BOOLEAN /\ crossed' \in BOOLEAN
    BY <1>1 DEF PagesInv, TypeOK, Underway
  <2>2. shown' \in Answer \cup {None} /\ submission' \in Hook \cup {None}
    BY <1>1 DEF PagesInv, TypeOK
  <2>3. QED
    BY <1>1, <1>5, <1>6, <2>1, <2>2 DEF PagesInv, TypeOK, serverVars
<1>8. SubmissionInv'
  BY DEF PagesInv, SubmissionInv
<1>9. OwnInv'
  <2>1. SUFFICES ASSUME ~crossed'
                 PROVE  /\ \A i \in DOMAIN requests' : requests'[i].answer.wallet = w
                        /\ submission' # None => Active(submission') = w
                        /\ \A i \in DOMAIN requests' :
                              requests'[i].at = "shown" => shown' = None \/ shown'.wallet = w
    BY <1>2 DEF OwnInv
  <2>2. ~crossed /\ (w # activeWallet => ~Underway(extra))
    BY <1>1, <2>1
  <2>3. CASE w = activeWallet
    <3>1. /\ \A i \in DOMAIN requests : requests[i].answer.wallet = w
          /\ submission # None => Active(submission) = w
          /\ \A i \in DOMAIN requests :
                requests[i].at = "shown" => shown = None \/ shown.wallet = w
      BY <2>2, <2>3 DEF PagesInv, OwnInv
    <3>2. \A i \in DOMAIN extra : extra[i].answer.wallet = w /\ extra[i].at # "shown"
      BY <2>2, <2>3
    <3>3. \A i \in DOMAIN loads : loads[i].answer.wallet = w /\ loads[i].at # "shown"
      BY <1>3
    <3>4. shown' = shown
      BY <1>1, <2>3
    <3>5. QED
      BY <1>5, <3>1, <3>2, <3>3, <3>4
  <2>4. CASE w # activeWallet
    <3>1. requests \o extra = <<>> /\ submission = None
      BY <2>2, <2>4 DEF Underway
    <3>2. QED
      BY <1>3, <1>5, <3>1
  <2>5. QED
    BY <2>3, <2>4
<1>10. OldAnswersNeedASwitch'
  <2>1. CASE w = activeWallet
    BY <1>1, <1>2, <2>1 DEF PagesInv, OldAnswersNeedASwitch
  <2>2. CASE w # activeWallet
    BY <1>1, <1>2, <2>2 DEF OldAnswersNeedASwitch
  <2>3. QED
    BY <2>1, <2>2
<1>11. QED
  BY <1>7, <1>8, <1>9, <1>10 DEF PagesInv

LEMMA ChangeWalletKeepsInv ==
    ASSUME PagesAssumption, PagesInv, ChangeWallet  PROVE PagesInv'
<1>1. PICK new \in WalletChoices : Moves(new, <<>>)
  BY DEF ChangeWallet
<1>2. new \in Hook
  <2>1. wallet \in Hook
    BY DEF PagesInv, TypeOK
  <2>2. /\ [wallet EXCEPT !.show = ~@] \in Hook
        /\ \A w \in Wallets : /\ [wallet EXCEPT !.dev = w] \in Hook
                              /\ [wallet EXCEPT !.circle = w] \in Hook
        /\ [wallet EXCEPT !.circle = None] \in Hook
    <3>1. (~wallet.show) \in BOOLEAN
      OBVIOUS
    <3>2. QED
      BY <2>1, <3>1 DEF Hook
  <2>3. \/ new = [wallet EXCEPT !.show = ~@]
        \/ \E w \in Wallets : new = [wallet EXCEPT !.dev = w] \/ new = [wallet EXCEPT !.circle = w]
        \/ new = [wallet EXCEPT !.circle = None]
    BY DEF WalletChoices
  <2>4. QED
    BY <2>2, <2>3
<1>3. <<>> \in Seq(Request) /\ \A i \in DOMAIN <<>> : FALSE
  OBVIOUS
<1>4. /\ view \in OfWallet /\ view' = view /\ error' = error
      /\ submission' \in {submission, None} /\ UNCHANGED serverVars
  BY DEF ChangeWallet
<1>5. QED
  BY <1>1, <1>2, <1>3, <1>4, MovesKeepsInv

\* The form's wallet may reload: without a change of the wallet under way it is
\* the wallet that is looked at.
LEMMA FormAnsweredKeepsInv ==
    ASSUME PagesAssumption, PagesInv, FormAnswered  PROVE PagesInv'
<1>1. /\ submission # None /\ submission' = None
      /\ view' = view /\ error' = error /\ UNCHANGED serverVars
  BY DEF FormAnswered
<1>2. wallet \in Hook /\ submission \in Hook
  BY <1>1 DEF PagesInv, TypeOK
<1>3. Active(submission) \in Wallets /\ Active(submission) # None
  BY <1>1, <1>2, ActiveType DEF PagesInv, SubmissionInv
<1>4. PICK r \in Request : /\ r = NewRequest(Active(submission), FALSE)
                           /\ r.answer.wallet = Active(submission) /\ r.at = "sent"
  BY <1>3, NewRequestType
<1>5. view \in OfWallet /\ ~crossed => r.answer.wallet = activeWallet
  BY <1>1, <1>4 DEF PagesInv, OwnInv
<1>6. ASSUME view \in OfWallet, NEW new \in Hook, NEW extra \in {<<>>, <<r>>}, Moves(new, extra)
      PROVE  PagesInv'
  <2>1. /\ extra \in Seq(Request)
        /\ \A i \in DOMAIN extra : extra[i] = r
    <3>1. CASE extra = <<>>
      BY <3>1
    <3>2. CASE extra = <<r>>
      BY <3>2, One
    <3>3. QED
      BY <1>6, <3>1, <3>2
  <2>2. /\ \A i \in DOMAIN extra : extra[i].answer.wallet # None /\ extra[i].at = "sent"
        /\ ~crossed => \A i \in DOMAIN extra : extra[i].answer.wallet = activeWallet
    BY <1>3, <1>4, <1>5, <1>6, <2>1
  <2>3. QED
    BY <1>1, <1>6, <2>1, <2>2, MovesKeepsInv
<1>7. CASE view = "clips" /\ Moves(wallet, <<NewRequest(Active(submission), FALSE)>>)
  BY <1>2, <1>4, <1>6, <1>7 DEF OfWallet
<1>8. CASE /\ view = "organizer"
           /\ Moves([wallet EXCEPT !.show = @ /\ ~submission.show],
                    IF submission.circle = Active(submission)
                    THEN <<NewRequest(Active(submission), FALSE)>> ELSE <<>>)
  <2>1. PICK new \in Hook : new = [wallet EXCEPT !.show = @ /\ ~submission.show]
    <3>1. (wallet.show /\ ~submission.show) \in BOOLEAN
      OBVIOUS
    <3>2. QED
      BY <1>2, <3>1 DEF Hook
  <2>2. PICK extra \in {<<>>, <<r>>} :
           extra = IF submission.circle = Active(submission) THEN <<r>> ELSE <<>>
    OBVIOUS
  <2>3. Moves(new, extra)
    BY <1>4, <1>8, <2>1, <2>2
  <2>4. QED
    BY <1>6, <1>8, <2>3 DEF OfWallet
<1>9. CASE UNCHANGED <<wallet, requests, shown, loading, crossed>>
  <2>1. TypeOK'
    BY <1>1, <1>9 DEF PagesInv, TypeOK, serverVars
  <2>2. SubmissionInv' /\ OwnInv' /\ OldAnswersNeedASwitch'
    BY <1>1, <1>9 DEF PagesInv, SubmissionInv, OwnInv, OldAnswersNeedASwitch, activeWallet
  <2>3. QED
    BY <2>1, <2>2 DEF PagesInv
<1>10. QED
  BY <1>7, <1>8, <1>9 DEF FormAnswered

LEMMA LoadKeepsInv ==
    ASSUME PagesAssumption, PagesInv, NEW refresh \in BOOLEAN, Load(refresh)
    PROVE  PagesInv'
<1>1. /\ ~NoWallet /\ Len(requests) < MaxInFlight
      /\ requests' = Append(requests, NewRequest(WalletOfLoad, refresh))
      /\ UNCHANGED <<view, wallet, submission, shown, loading, error, crossed, serverVars>>
  BY DEF Load
<1>2. requests \in Seq(Request) /\ wallet \in Hook
  BY DEF PagesInv, TypeOK
<1>3. /\ WalletOfLoad \in Wallets \cup {None}
      /\ view \in OfWallet => WalletOfLoad = activeWallet /\ WalletOfLoad # None
  BY <1>1, <1>2, ActiveType DEF WalletOfLoad, activeWallet, NoWallet
<1>4. PICK r \in Request : /\ r = NewRequest(WalletOfLoad, refresh)
                           /\ r.answer.wallet = WalletOfLoad /\ r.at = "sent"
  BY <1>3, NewRequestType
<1>5. /\ requests' \in Seq(Request) /\ Len(requests') = Len(requests) + 1
      /\ \A i \in DOMAIN requests' :
            requests'[i] = r \/ \E j \in DOMAIN requests : requests'[i] = requests[j]
  <2>1. requests' = Append(requests, r)
    BY <1>1, <1>4
  <2>2. /\ Append(requests, r) \in Seq(Request)
        /\ Len(Append(requests, r)) = Len(requests) + 1
        /\ \A i \in 1 .. Len(requests) : Append(requests, r)[i] = requests[i]
        /\ Append(requests, r)[Len(requests) + 1] = r
    BY <1>2, AppendProperties
  <2>3. /\ Len(requests) \in Nat /\ DOMAIN requests = 1 .. Len(requests)
        /\ DOMAIN requests' = 1 .. Len(requests) + 1
    BY <1>2, <2>1, <2>2, LenProperties
  <2>4. QED
    BY <2>1, <2>2, <2>3
<1>6. TypeOK'
  <2>1. Len(requests') <= MaxInFlight
    <3>1. Len(requests) \in Nat /\ MaxInFlight \in Nat
      BY <1>2, LenProperties DEF PagesAssumption
    <3>2. QED
      BY <1>1, <1>5, <3>1
  <2>2. view' \in OfWallet => \A i \in DOMAIN requests' : requests'[i].answer.wallet # None
    BY <1>1, <1>3, <1>4, <1>5 DEF PagesInv, TypeOK
  <2>3. QED
    BY <1>1, <1>5, <2>1, <2>2 DEF PagesInv, TypeOK, serverVars
<1>7. SubmissionInv' /\ OldAnswersNeedASwitch'
  BY <1>1 DEF PagesInv, SubmissionInv, OldAnswersNeedASwitch, activeWallet
<1>8. OwnInv'
  BY <1>1, <1>3, <1>4, <1>5 DEF PagesInv, OwnInv, activeWallet
<1>9. QED
  BY <1>6, <1>7, <1>8 DEF PagesInv

LEMMA PollKeepsInv ==
    ASSUME PagesAssumption, PagesInv, Poll  PROVE PagesInv'
<1>1. CASE Load(FALSE)
  BY <1>1, LoadKeepsInv
<1>2. CASE /\ NoWallet /\ shown' = None /\ loading' = FALSE
           /\ UNCHANGED <<view, wallet, requests, submission, error, crossed, moves, errors, serverVars>>
  <2>1. TypeOK'
    BY <1>2 DEF PagesInv, TypeOK, serverVars
  <2>2. SubmissionInv' /\ OwnInv' /\ OldAnswersNeedASwitch'
    BY <1>2 DEF PagesInv, SubmissionInv, OwnInv, OldAnswersNeedASwitch, activeWallet
  <2>3. QED
    BY <2>1, <2>2 DEF PagesInv
<1>3. QED
  BY <1>1, <1>2 DEF Poll

LEMMA SubmitFormKeepsInv ==
    ASSUME PagesAssumption, PagesInv, SubmitForm  PROVE PagesInv'
<1>1. /\ activeWallet # None /\ submission' = wallet
      /\ UNCHANGED <<view, wallet, requests, shown, loading, error, crossed, serverVars>>
  BY DEF SubmitForm
<1>2. TypeOK'
  BY <1>1 DEF PagesInv, TypeOK, serverVars
<1>3. SubmissionInv' /\ OwnInv' /\ OldAnswersNeedASwitch'
  BY <1>1 DEF PagesInv, SubmissionInv, OwnInv, OldAnswersNeedASwitch, activeWallet
<1>4. QED
  BY <1>2, <1>3 DEF PagesInv

-----------------------------------------------------------------------------
(***************************************************************************)
(* Answers.                                                                *)
(***************************************************************************)

\* A step that leaves each request with the wallet it was made for; and if a
\* load goes on after its answer, what is shown is that wallet's.
LEMMA AnsweringKeepsInv ==
    ASSUME PagesInv,
           requests' \in Seq(Request), Len(requests') <= Len(requests),
           \A k \in DOMAIN requests' :
              \E j \in DOMAIN requests : requests'[k].answer.wallet = requests[j].answer.wallet,
           view \in OfWallet /\ ~crossed => \A k \in DOMAIN requests' :
              requests'[k].at = "shown" => shown' = None \/ shown'.wallet = activeWallet,
           UNCHANGED <<view, wallet, submission, crossed, serverVars>>,
           shown' \in Answer \cup {None}, loading' \in BOOLEAN, error' \in BOOLEAN,
           OldAnswersNeedASwitch',
           PagesAssumption
    PROVE  PagesInv'
<1>1. Len(requests') <= MaxInFlight
  <2>1. /\ Len(requests) \in Nat /\ Len(requests') \in Nat /\ MaxInFlight \in Nat
        /\ Len(requests) <= MaxInFlight
    BY LenProperties DEF PagesInv, TypeOK, PagesAssumption
  <2>2. QED
    BY <2>1
<1>2. TypeOK'
  BY <1>1 DEF PagesInv, TypeOK, serverVars
<1>3. SubmissionInv' /\ OwnInv'
  BY DEF PagesInv, SubmissionInv, OwnInv, activeWallet
<1>4. QED
  BY <1>2, <1>3 DEF PagesInv

LEMMA FigureType ==
    ASSUME PagesAssumption, PagesInv, NEW i \in DOMAIN requests
    PROVE  /\ Figure(requests[i].answer.wallet) \in Nat
           /\ Remaining(requests[i].answer.wallet) \in Nat
<1>1. /\ booked \in [Wallets -> Nat] /\ feed \in Nat /\ balance \in Nat
      /\ requests[i].answer.wallet \in Wallets \cup {None}
      /\ view \in OfWallet => requests[i].answer.wallet \in Wallets
  <2>1. requests[i] \in Request
    BY ElementOfSeq, LenProperties DEF PagesInv, TypeOK
  <2>2. QED
    BY <2>1 DEF PagesInv, TypeOK, PagesAssumption, Request, Answer
<1>2. AllBooked \in Nat
  BY <1>1, SumNat DEF AllBooked, PagesAssumption
<1>3. QED
  BY <1>1, <1>2 DEF Figure, Remaining, OfWallet

\* The chain's or the database's part of an answer arrives.
LEMMA ReadKeepsInv ==
    ASSUME PagesAssumption, PagesInv, NEW i \in DOMAIN requests,
           ReadChain(i) \/ ReadDatabase(i)
    PROVE  PagesInv'
<1>1. requests \in Seq(Request) /\ requests[i] \in Request
  BY ElementOfSeq, LenProperties DEF PagesInv, TypeOK
<1>2. PICK r \in Request :
         /\ r.answer.wallet = requests[i].answer.wallet /\ r.at # "shown"
         /\ requests' = [requests EXCEPT ![i] = r]
  <2>1. CASE ReadChain(i)
    <3>1. PICK n \in Nat : n = Remaining(requests[i].answer.wallet)
      BY FigureType
    <3>2. requests' = [requests EXCEPT ![i].at = "read", ![i].answer.remaining = n]
      BY <2>1, <3>1 DEF ReadChain
    <3>3. PICK r : r = [requests[i] EXCEPT !.at = "read", !.answer.remaining = n]
      OBVIOUS
    <3>4. r \in Request /\ r.at # "shown" /\ r.answer.wallet = requests[i].answer.wallet
      BY <1>1, <3>3 DEF Request, Answer
    <3>5. requests' = [requests EXCEPT ![i] = r]
      BY <1>1, <3>2, <3>3
    <3>6. QED
      BY <3>4, <3>5
  <2>2. CASE ReadDatabase(i)
    <3>1. PICK n \in Nat : n = Figure(requests[i].answer.wallet)
      BY FigureType
    <3>2. requests' = [requests EXCEPT ![i].at = "answered", ![i].answer.figure = n]
      BY <2>2, <3>1 DEF ReadDatabase
    <3>3. PICK r : r = [requests[i] EXCEPT !.at = "answered", !.answer.figure = n]
      OBVIOUS
    <3>4. r \in Request /\ r.at # "shown" /\ r.answer.wallet = requests[i].answer.wallet
      BY <1>1, <3>3 DEF Request, Answer
    <3>5. requests' = [requests EXCEPT ![i] = r]
      BY <1>1, <3>2, <3>3
    <3>6. QED
      BY <3>4, <3>5
  <2>3. QED
    BY <2>1, <2>2
<1>3. /\ requests' \in Seq(Request) /\ Len(requests') <= Len(requests)
      /\ \A k \in DOMAIN requests' :
            /\ k \in DOMAIN requests /\ requests'[k].answer.wallet = requests[k].answer.wallet
            /\ requests'[k].at = "shown" => requests[k].at = "shown"
  BY <1>1, <1>2, Replaced
<1>4. shown' = shown
  BY DEF ReadChain, ReadDatabase
<1>5. /\ UNCHANGED <<view, wallet, submission, crossed, serverVars>>
      /\ UNCHANGED <<shown, loading, error>>
  BY DEF ReadChain, ReadDatabase
<1>6. OldAnswersNeedASwitch'
  BY <1>5 DEF PagesInv, OldAnswersNeedASwitch, activeWallet
<1>7. /\ shown' \in Answer \cup {None} /\ loading' \in BOOLEAN /\ error' \in BOOLEAN
      /\ Len(requests') <= Len(requests)
  BY <1>3, <1>5 DEF PagesInv, TypeOK
<1>8. view \in OfWallet /\ ~crossed => \A k \in DOMAIN requests' :
         requests'[k].at = "shown" => shown' = None \/ shown'.wallet = activeWallet
  BY <1>3, <1>4, <1>5 DEF PagesInv, OwnInv
<1>9. QED
  BY <1>3, <1>5, <1>6, <1>7, <1>8, AnsweringKeepsInv

\* The answer shown is this wallet's unless something was under way as the
\* wallet changed.
LEMMA ShowAnswerKeepsInv ==
    ASSUME PagesAssumption, PagesInv, NEW i \in DOMAIN requests, ShowAnswer(i)
    PROVE  PagesInv'
<1>1. /\ shown' = requests[i].answer /\ error' = FALSE
      /\ \/ loading' = FALSE /\ requests' = RemoveAt(requests, i)
         \/ loading' = loading /\ requests' = [requests EXCEPT ![i].at = "shown"]
      /\ UNCHANGED <<view, wallet, submission, crossed, serverVars>>
  BY DEF ShowAnswer, AfterAnswer, EndsLoad
<1>2. requests \in Seq(Request) /\ requests[i] \in Request
  BY ElementOfSeq, LenProperties DEF PagesInv, TypeOK
<1>3. view \in OfWallet /\ ~crossed => shown'.wallet = activeWallet
  BY <1>1 DEF PagesInv, OwnInv
<1>4. OldAnswersNeedASwitch'
  BY <1>1, <1>3 DEF OldAnswersNeedASwitch, activeWallet
<1>5. /\ requests' \in Seq(Request) /\ Len(requests') <= Len(requests)
      /\ \A k \in DOMAIN requests' :
            \E j \in DOMAIN requests : requests'[k].answer.wallet = requests[j].answer.wallet
  <2>1. CASE requests' = RemoveAt(requests, i)
    BY <1>2, <2>1, TakenOut
  <2>2. CASE requests' = [requests EXCEPT ![i].at = "shown"]
    <3>1. PICK r \in Request : /\ r.answer.wallet = requests[i].answer.wallet
                               /\ requests' = [requests EXCEPT ![i] = r]
      BY <1>2, <2>2 DEF Request
    <3>2. QED
      BY <1>2, <3>1, Replaced
  <2>3. QED
    BY <1>1, <2>1, <2>2
<1>6. shown' \in Answer \cup {None} /\ loading' \in BOOLEAN /\ error' \in BOOLEAN
  BY <1>1, <1>2 DEF PagesInv, TypeOK, Request
<1>7. QED
  BY <1>1, <1>3, <1>4, <1>5, <1>6, AnsweringKeepsInv

\* The load of the clips ends: what is shown was this wallet's unless something
\* was under way as the wallet changed.
LEMMA ShowLinksKeepsInv ==
    ASSUME PagesAssumption, PagesInv, NEW i \in DOMAIN requests, ShowLinks(i)
    PROVE  PagesInv'
<1>1. /\ requests[i].at = "shown"
      /\ loading' = FALSE /\ error' = error /\ shown' = shown
      /\ requests' = RemoveAt(requests, i)
      /\ UNCHANGED <<view, wallet, submission, crossed, serverVars>>
  BY DEF ShowLinks, EndsLoad
<1>2. /\ requests \in Seq(Request) /\ shown \in Answer \cup {None}
      /\ error \in BOOLEAN
  BY DEF PagesInv, TypeOK
<1>3. view \in OfWallet /\ ~crossed => shown = None \/ shown.wallet = activeWallet
  BY <1>1 DEF PagesInv, OwnInv
<1>4. OldAnswersNeedASwitch'
  BY <1>1, <1>3 DEF OldAnswersNeedASwitch, activeWallet
<1>5. /\ requests' \in Seq(Request) /\ Len(requests') <= Len(requests)
      /\ \A k \in DOMAIN requests' : \E j \in DOMAIN requests : requests'[k] = requests[j]
  BY <1>1, <1>2, TakenOut
<1>6. QED
  BY <1>1, <1>2, <1>3, <1>4, <1>5, AnsweringKeepsInv

LEMMA ShowErrorKeepsInv ==
    ASSUME PagesAssumption, PagesInv, NEW i \in DOMAIN requests, ShowError(i)
    PROVE  PagesInv'
<1>1. /\ error' = TRUE /\ loading' = FALSE /\ shown' = shown
      /\ requests' = RemoveAt(requests, i)
      /\ UNCHANGED <<view, wallet, submission, crossed, serverVars>>
  BY DEF ShowError, EndsLoad
<1>2. requests \in Seq(Request) /\ shown \in Answer \cup {None}
  BY DEF PagesInv, TypeOK
<1>3. OldAnswersNeedASwitch'
  BY <1>1 DEF OldAnswersNeedASwitch
<1>4. /\ requests' \in Seq(Request) /\ Len(requests') <= Len(requests)
      /\ \A k \in DOMAIN requests' : \E j \in DOMAIN requests : requests'[k] = requests[j]
  BY <1>1, <1>2, TakenOut
<1>5. view \in OfWallet /\ ~crossed => \A k \in DOMAIN requests' :
         requests'[k].at = "shown" => shown' = None \/ shown'.wallet = activeWallet
  BY <1>1, <1>4 DEF PagesInv, OwnInv
<1>6. QED
  BY <1>1, <1>2, <1>3, <1>4, <1>5, AnsweringKeepsInv

\* Payments and decisions change nothing on the page.
LEMMA ServerKeepsInv ==
    ASSUME PagesAssumption, PagesInv,
           (\E w \in Wallets : Release(w) \/ Book(w)) \/ Decide
    PROVE  PagesInv'
<1>1. UNCHANGED pageVars
  BY DEF Release, Book, Decide
<1>2. /\ balance \in 0 .. Deposit /\ feed \in 0 .. MaxFeed
      /\ unbooked \in [Wallets -> Nat] /\ booked \in [Wallets -> Nat]
      /\ Deposit \in Nat /\ MaxFeed \in Nat
  BY DEF PagesInv, TypeOK, PagesAssumption
<1>3. /\ balance' \in 0 .. Deposit /\ feed' \in 0 .. MaxFeed
      /\ unbooked' \in [Wallets -> Nat] /\ booked' \in [Wallets -> Nat]
  <2>1. CASE \E w \in Wallets : Release(w)
    BY <1>2, <2>1 DEF Release
  <2>2. CASE \E w \in Wallets : Book(w)
    <3>1. PICK w \in Wallets : Book(w)
      BY <2>2
    <3>2. unbooked[w] - 1 \in Nat /\ booked[w] + 1 \in Nat
      BY <1>2, <3>1 DEF Book
    <3>3. QED
      BY <1>2, <3>1, <3>2 DEF Book
  <2>3. CASE Decide
    BY <1>2, <2>3 DEF Decide
  <2>4. QED
    BY <2>1, <2>2, <2>3
<1>4. TypeOK'
  BY <1>1, <1>3 DEF PagesInv, TypeOK, pageVars
<1>5. SubmissionInv' /\ OwnInv' /\ OldAnswersNeedASwitch'
  BY <1>1 DEF PagesInv, SubmissionInv, OwnInv, OldAnswersNeedASwitch, activeWallet, pageVars
<1>6. QED
  BY <1>4, <1>5 DEF PagesInv

LEMMA StepsKeepInv ==
    ASSUME PagesAssumption, PagesInv, [Next]_vars  PROVE PagesInv'
<1>1. CASE Refresh
  BY <1>1, LoadKeepsInv DEF Refresh
<1>2. CASE \E i \in DOMAIN requests : Answered(i) \/ ShowError(i)
  BY <1>2, ReadKeepsInv, ShowAnswerKeepsInv, ShowLinksKeepsInv, ShowErrorKeepsInv
     DEF Answered
<1>3. CASE UNCHANGED vars
  <2>1. TypeOK'
    BY <1>3 DEF PagesInv, TypeOK, vars, pageVars, serverVars
  <2>2. SubmissionInv' /\ OwnInv' /\ OldAnswersNeedASwitch'
    BY <1>3 DEF PagesInv, SubmissionInv, OwnInv, OldAnswersNeedASwitch, activeWallet,
                vars, pageVars
  <2>3. QED
    BY <2>1, <2>2 DEF PagesInv
<1>4. QED
  BY <1>1, <1>2, <1>3, ChangeWalletKeepsInv, PollKeepsInv, SubmitFormKeepsInv,
     FormAnsweredKeepsInv, ServerKeepsInv DEF Next

\* The inductive invariant of a view: its types, and whose requests are under
\* way.
THEOREM PagesInvariant == Spec => []PagesInv
<1>1. Init => PagesInv
  BY PagesAssumption, InitEstablishes
<1>2. PagesInv /\ [Next]_vars => PagesInv'
  BY PagesAssumption, StepsKeepInv
<1>3. QED
  BY <1>1, <1>2, PTL DEF Spec

\* A view never asks for the data of no wallet and shows answers only, for every
\* set of wallets (web/app/clipper/profile/page.tsx:81-113).
THEOREM PagesTypeCorrect == Spec => []TypeOK
<1>1. PagesInv => TypeOK
  BY DEF PagesInv
<1>2. QED
  BY <1>1, PagesInvariant, PTL

\* For every set of wallets: a view shows another wallet's data as this one's
\* only if a request or a form was under way when the wallet changed
\* (web/lib/useClipperWallet.ts:21).
THEOREM OldAnswersAreExplained == Spec => []OldAnswersNeedASwitch
<1>1. PagesInv => OldAnswersNeedASwitch
  BY DEF PagesInv
<1>2. QED
  BY <1>1, PagesInvariant, PTL
=============================================================================
