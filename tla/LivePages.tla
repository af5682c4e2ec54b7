------------------------------- MODULE LivePages -------------------------------
(***************************************************************************)
(* A view: a part of a page of the web frontend (web/app) that a callback  *)
(* of its own loads, the wallet the page is looked at with                 *)
(* (useClipperWallet, useOrganizerWallet), the requests the callback makes *)
(* of the API server, and what is shown of their answers.  The views of a  *)
(* page have nothing in common but the wallet, so a behaviour has one.     *)
(*                                                                         *)
(* The server builds an answer of what the database holds and, for the     *)
(* summary of a campaign, of a balance it asked the chain for before       *)
(* (server/campaigns.ts, server/clippers.ts).  Meanwhile payments are      *)
(* released and booked.  Answers come in any order: nothing cancels a      *)
(* request, and a load keeps the wallet it was called with.                *)
(***************************************************************************)
EXTENDS Naturals, Sequences, SequencesExt

CONSTANTS
    Wallets,
    Organizer,      \* whose campaign it is: one of the wallets
    Deposit,        \* what the campaign was funded with, in payments
    MaxFeed,        \* bound: rows of agent_decisions
    MaxInFlight,    \* bound: requests that are unanswered at once
    MaxMoves,       \* bound: changes of the wallet
    MaxErrors,      \* bound: requests that fail
    None

ASSUME PagesAssumption ==
    /\ IsFiniteSet(Wallets) /\ Organizer \in Wallets
    /\ None \notin Wallets
    /\ Deposit \in Nat /\ MaxFeed \in Nat
    /\ MaxInFlight \in Nat \ {0}

(* campaign: either campaign page; clips: the clipper's campaign page;     *)
(* allClips, decisions: the organizer's campaign page; profile,            *)
(* settlements: the clipper's profile; organizer: the organizer's profile; *)
(* campaigns: the list to browse.                                          *)
Views == {"campaign", "clips", "allClips", "decisions", "profile", "settlements",
          "organizer", "campaigns"}
Polled == {"campaign", "clips", "allClips", "decisions"}
OfWallet == {"clips", "profile", "settlements", "organizer"}
Summaries == {"campaign", "campaigns", "organizer"}

VARIABLES
    view,
    wallet,       \* the hook's circleWallet, showDevOverride, devOverrideWallet
    requests,     \* the unanswered requests, oldest first
    submission,   \* the form that was submitted, with the hook's state then
    shown, loading, error,              \* the view's state
    balance, unbooked, booked, feed,    \* the chain and the database
    crossed,      \* history: something was in flight as the wallet changed
    moves, errors

pageVars == <<view, wallet, requests, submission, shown, loading, error, crossed, moves, errors>>
serverVars == <<balance, unbooked, booked, feed>>
vars == <<pageVars, serverVars>>

Hook == [circle : Wallets \cup {None}, show : BOOLEAN, dev : Wallets \cup {None}]
Answer == [wallet : Wallets \cup {None}, remaining : Nat, figure : Nat]
Request == [at : {"sent", "read", "answered", "shown"}, answer : Answer, refresh : BOOLEAN]

TypeOK ==
    /\ view \in Views
    /\ wallet \in Hook
    /\ requests \in Seq(Request) /\ Len(requests) <= MaxInFlight
    /\ view \in OfWallet => \A i \in DOMAIN requests : requests[i].answer.wallet # None
    /\ submission \in Hook \cup {None}
    /\ shown \in Answer \cup {None}
    /\ loading \in BOOLEAN /\ error \in BOOLEAN /\ crossed \in BOOLEAN
    /\ balance \in 0..Deposit
    /\ unbooked \in [Wallets -> Nat] /\ booked \in [Wallets -> Nat]
    /\ feed \in 0..MaxFeed

Active(h) == IF h.show THEN h.dev ELSE h.circle
activeWallet == Active(wallet)
WalletOfLoad == IF view \in OfWallet THEN activeWallet ELSE None

NewRequest(w, refresh) ==
    [at |-> "sent", answer |-> [wallet |-> w, remaining |-> 0, figure |-> 0], refresh |-> refresh]

(* The effect of the mount loads the view, for the stored wallet.          *)
Init ==
    /\ view \in Views
    /\ wallet \in [circle : Wallets \cup {None}, show : {FALSE}, dev : {None}]
    /\ requests = IF view \in OfWallet /\ activeWallet = None THEN <<>>
                  ELSE <<NewRequest(WalletOfLoad, FALSE)>>
    /\ submission = None
    /\ shown = None
    /\ loading = (requests # <<>>)
    /\ error = FALSE
    /\ balance = Deposit
    /\ unbooked = [w \in Wallets |-> 0]
    /\ booked = [w \in Wallets |-> 0]
    /\ feed = 0
    /\ crossed = FALSE
    /\ moves = 0
    /\ errors = 0

-----------------------------------------------------------------------------
(* The wallet.                                                             *)

Underway(extra) == requests \o extra # <<>> \/ submission # None

(* The effect does not depend on the wallet.                               *)
MovesWithoutLoad(new, extra) ==
    /\ wallet' = new
    /\ requests' = requests \o extra
    /\ Len(requests') <= MaxInFlight
    /\ crossed' = (crossed \/ (Active(new) # activeWallet /\ Underway(extra)))
    /\ UNCHANGED <<loading, shown>>

(* The hook's state becomes new, and a callback may load as well, for the  *)
(* wallet it was made with (extra).  If the active wallet changes, the     *)
(* effect runs: it loads for the new one, or shows nothing without one.    *)
Moves(new, extra) ==
    LET w == Active(new)
        loads == IF w \notin {activeWallet, None} THEN <<NewRequest(w, FALSE)>> ELSE <<>>
    IN  /\ wallet' = new
        /\ requests' = requests \o extra \o loads
        /\ Len(requests') <= MaxInFlight
        /\ loading' = IF w # activeWallet THEN w # None ELSE loading
        /\ shown' = IF w # activeWallet /\ w = None THEN None ELSE shown
        /\ crossed' = (crossed \/ (w # activeWallet /\ Underway(extra)))

(* The wallet bar: preview another wallet or go back, and view the one     *)
(* typed.  A wallet was created; and on the clipper's profile, a recovered *)
(* wallet is resumed, or the wallet is forgotten.                          *)
WalletChoices ==
    LET bar == IF wallet.circle = None THEN {} ELSE {[wallet EXCEPT !.show = ~@]}
        typed == IF wallet.show THEN {[wallet EXCEPT !.dev = w] : w \in Wallets} ELSE {}
        created == IF wallet.circle = None \/ view \in {"profile", "settlements"}
                   THEN {[wallet EXCEPT !.circle = w] : w \in Wallets} ELSE {}
        forgotten == IF view \in {"profile", "settlements"} /\ ~wallet.show
                     THEN {[wallet EXCEPT !.circle = None]} ELSE {}
    IN  bar \cup typed \cup created \cup forgotten

ChangeWallet ==
    /\ view \in OfWallet
    /\ moves < MaxMoves
    /\ moves' = moves + 1
    /\ \E new \in WalletChoices : Moves(new, <<>>)
    /\ UNCHANGED <<view, submission, error, errors, serverVars>>

-----------------------------------------------------------------------------
(* Loading.                                                                *)

NoWallet == view \in OfWallet /\ activeWallet = None

(* A load does not stop when there is no wallet.                           *)
LoadAnyway(refresh) ==
    /\ Len(requests) < MaxInFlight
    /\ requests' = Append(requests, NewRequest(WalletOfLoad, refresh))
    /\ UNCHANGED <<view, wallet, submission, shown, loading, error, crossed, moves, errors, serverVars>>

Load(refresh) ==
    /\ ~NoWallet
    /\ Len(requests) < MaxInFlight
    /\ requests' = Append(requests, NewRequest(WalletOfLoad, refresh))
    /\ UNCHANGED <<view, wallet, submission, shown, loading, error, crossed, moves, errors, serverVars>>

(* A tick of the interval.  Without a wallet nothing is shown.             *)
Poll ==
    /\ view \in Polled
    /\ \/ Load(FALSE)
       \/ /\ NoWallet
          /\ shown' = None
          /\ loading' = FALSE
          /\ UNCHANGED <<view, wallet, requests, submission, error, crossed, moves, errors, serverVars>>

(* The button of the profiles is disabled while a refresh goes on, on the  *)
(* organizer's also while it loads.                                        *)
Refresh ==
    /\ view \in OfWallet \ Polled
    /\ \A i \in DOMAIN requests : ~requests[i].refresh
    /\ view = "organizer" => ~loading
    /\ Load(TRUE)

(* The clipper submits a clip, the organizer the form of a new campaign.   *)
SubmitForm ==
    /\ view \in {"clips", "organizer"}
    /\ activeWallet # None
    /\ submission = None
    /\ submission' = wallet
    /\ UNCHANGED <<view, wallet, requests, shown, loading, error, crossed, moves, errors, serverVars>>

(* The submission ends.  If it succeeded: the clips are loaded for the     *)
(* wallet of then; or the new campaign's form switches a preview of then   *)
(* off, and loads if the wallet of then is the organizer's own.            *)
FormAnswered ==
    /\ submission # None
    /\ submission' = None
    /\ LET reload == <<NewRequest(Active(submission), FALSE)>> IN
       \/ view = "clips" /\ Moves(wallet, reload)
       \/ /\ view = "organizer"
          /\ Moves([wallet EXCEPT !.show = @ /\ ~submission.show],
                   IF submission.circle = Active(submission) THEN reload ELSE <<>>)
       \/ UNCHANGED <<wallet, requests, shown, loading, crossed>>
    /\ UNCHANGED <<view, error, moves, errors, serverVars>>

-----------------------------------------------------------------------------
(* The server.                                                             *)

AllBooked == SumFunctionOnSet(booked, Wallets)

(* What the database says, and the chain for a summary.  An organizer      *)
(* without a campaign gets an empty list.                                  *)
Figure(w) ==
    CASE view = "decisions" -> feed
      [] view \in {"clips", "profile", "settlements"} -> booked[w]
      [] view = "organizer" /\ w # Organizer -> 0
      [] OTHER -> AllBooked

Remaining(w) ==
    IF view \in Summaries /\ (view = "organizer" => w = Organizer) THEN balance ELSE 0

ReadChain(i) ==
    /\ view \in Summaries
    /\ requests[i].at = "sent"
    /\ requests' = [requests EXCEPT ![i].at = "read",
                 ![i].answer.remaining = Remaining(requests[i].answer.wallet)]
    /\ UNCHANGED <<view, wallet, submission, shown, loading, error, crossed, moves, errors, serverVars>>

ReadDatabase(i) ==
    /\ requests[i].at = IF view \in Summaries THEN "read" ELSE "sent"
    /\ requests' = [requests EXCEPT ![i].at = "answered",
                 ![i].answer.figure = Figure(requests[i].answer.wallet)]
    /\ UNCHANGED <<view, wallet, submission, shown, loading, error, crossed, moves, errors, serverVars>>

EndsLoad(i) ==
    /\ loading' = FALSE
    /\ requests' = RemoveAt(requests, i)

(* The clips of a clipper are not the end of their load: the links to the  *)
(* payments are asked for.                                                 *)
AfterAnswer(i) ==
    \/ view # "clips" /\ EndsLoad(i)
    \/ /\ view = "clips"
       /\ requests' = [requests EXCEPT ![i].at = "shown"]
       /\ UNCHANGED loading

(* The error of a request before is not taken back.                        *)
ShowAnswerAndError(i) ==
    /\ requests[i].at = "answered"
    /\ shown' = requests[i].answer
    /\ AfterAnswer(i)
    /\ UNCHANGED <<view, wallet, submission, error, crossed, moves, errors, serverVars>>

(* An answer is shown whatever was asked for or shown since.               *)
ShowAnswer(i) ==
    /\ requests[i].at = "answered"
    /\ shown' = requests[i].answer
    /\ error' = FALSE
    /\ AfterAnswer(i)
    /\ UNCHANGED <<view, wallet, submission, crossed, moves, errors, serverVars>>

(* The links came, each or none of them: none of them can fail the load.   *)
ShowLinks(i) ==
    /\ requests[i].at = "shown"
    /\ EndsLoad(i)
    /\ UNCHANGED <<view, wallet, submission, shown, error, crossed, moves, errors, serverVars>>

(* Loading ends only when an answer came.                                  *)
ShowErrorLoading(i) ==
    /\ requests[i].at # "shown"
    /\ errors < MaxErrors
    /\ errors' = errors + 1
    /\ error' = TRUE
    /\ requests' = RemoveAt(requests, i)
    /\ UNCHANGED <<view, wallet, submission, shown, loading, crossed, moves, serverVars>>

ShowError(i) ==
    /\ requests[i].at # "shown"
    /\ errors < MaxErrors
    /\ errors' = errors + 1
    /\ error' = TRUE
    /\ EndsLoad(i)
    /\ UNCHANGED <<view, wallet, submission, shown, crossed, moves, serverVars>>

(* Payments are released and later booked, and the Pacing Agent decides.   *)
Release(w) ==
    /\ balance > 0
    /\ balance' = balance - 1
    /\ unbooked' = [unbooked EXCEPT ![w] = @ + 1]
    /\ UNCHANGED <<pageVars, booked, feed>>

Book(w) ==
    /\ unbooked[w] > 0
    /\ unbooked' = [unbooked EXCEPT ![w] = @ - 1]
    /\ booked' = [booked EXCEPT ![w] = @ + 1]
    /\ UNCHANGED <<pageVars, balance, feed>>

Decide ==
    /\ feed < MaxFeed
    /\ feed' = feed + 1
    /\ UNCHANGED <<pageVars, balance, unbooked, booked>>

-----------------------------------------------------------------------------
Answered(i) == ReadChain(i) \/ ReadDatabase(i) \/ ShowAnswer(i) \/ ShowLinks(i)

Next ==
    \/ ChangeWallet \/ Poll \/ Refresh \/ SubmitForm \/ FormAnswered
    \/ \E i \in DOMAIN requests : Answered(i) \/ ShowError(i)
    \/ \E w \in Wallets : Release(w) \/ Book(w)
    \/ Decide

(* The interval ticks, and the oldest request is answered in the end.      *)
Spec ==
    /\ Init /\ [][Next]_vars
    /\ WF_vars(Poll)
    /\ WF_vars(requests # <<>> /\ Answered(1))

-----------------------------------------------------------------------------
(* What is shown is the state of the chain and the database, for the       *)
(* wallet that is looked at.                                               *)
UpToDate ==
    IF NoWallet THEN shown = None
    ELSE /\ shown = [wallet |-> WalletOfLoad, remaining |-> Remaining(WalletOfLoad),
                     figure |-> Figure(WalletOfLoad)]
         /\ ~error

(* A view with an interval is right in the end, and stays so, whatever     *)
(* came out of order, failed, or was asked for another wallet; and the     *)
(* balance and the sum of a summary are then of one moment                 *)
(* (clipper/campaign/[id]/page.tsx:102-115).                               *)
ViewsCatchUp == view \in Polled => <>[]UpToDate

(* What the page says of the view.  The earnings of the clipper's profile  *)
(* and the organizer's profile look for data before they look for an       *)
(* error; without a wallet neither is there at all.                        *)
DataFirst == {"profile", "organizer"}
SaysLoading == ~NoWallet /\ (loading \/ (shown = None /\ view \in DataFirst))

(* A view that says "Loading" for ever is one of those two, and hides the  *)
(* error of a load before the first answer; every other one comes to show  *)
(* its data or its error, the ones without an interval included            *)
(* (organizer/profile/page.tsx:120-123, clipper/profile/page.tsx:210-213). *)
LoadingEndsOrHidesAnError ==
    <>[](SaysLoading => view \in DataFirst /\ shown = None /\ error)

(* A view shows what is another wallet's, as if it were this one's, without *)
(* a word of loading or of an error, only if a request or a form was under *)
(* way when the wallet changed (useClipperWallet.ts:21).                   *)
OldAnswersNeedASwitch ==
    view \in OfWallet /\ shown # None /\ shown.wallet # activeWallet =>
        loading \/ error \/ crossed
=============================================================================
