---------------------------- MODULE ClipSubmission ----------------------------
(***************************************************************************)
(* POST /clips (server/clips.ts) among the logins and signups of Accounts. *)
(* The handler looks the tweet and the wallet's X account up, asks X who   *)
(* wrote the tweet, and inserts the clip of what it found before it asked. *)
(***************************************************************************)
EXTENDS Accounts

CONSTANTS
    Tweets,    \* clips.tweet_id
    Author,    \* who wrote a tweet: an X user
    Requests   \* bound: the POST /clips requests of a behaviour

ASSUME SubmissionAssumption == Author \in [Tweets -> XUsers]

VARIABLES
    clips,        \* the rows of clips, each with the request that wrote it
    submissions   \* the handlers, by request

vars == <<accountVars, clips, submissions>>

Clip == [request : Requests, wallet : Wallets, tweet : Tweets]

(* xUser is checkClipOwnership's xAccount; before is history: the requests *)
(* whose clips were in the table when this one arrived.                    *)
Submission == [at : {"new", "author", "done"}, wallet : Wallets \cup {None},
               tweet : Tweets \cup {None}, xUser : XUsers \cup {None},
               before : SUBSET Requests]
NewSubmission == [at |-> "new", wallet |-> None, tweet |-> None, xUser |-> None, before |-> {}]

TypeOK ==
    /\ AccountsTypeOK
    /\ clips \subseteq Clip
    /\ submissions \in [Requests -> Submission]

Init ==
    /\ AccountsInit
    /\ clips = {}
    /\ submissions = [r \in Requests |-> NewSubmission]

-----------------------------------------------------------------------------
InFlight(r) == submissions[r].at = "author"

(* The tweet is not looked up.                                             *)
PostClipUnchecked(r, w, t) ==
    /\ submissions[r].at = "new"
    /\ xAccounts[w] # None
    /\ submissions' = [submissions EXCEPT ![r] =
         [at |-> "author", wallet |-> w, tweet |-> t,
          xUser |-> xAccounts[w], before |-> {c.request : c \in clips}]]
    /\ UNCHANGED <<accountVars, clips>>

(* A request that is not refused at once: no clip has the tweet (409), and *)
(* the wallet has an X account (403).  Campaigns are never deleted, and    *)
(* their status is not looked at.                                          *)
PostClip(r, w, t) ==
    /\ submissions[r].at = "new"
    /\ \A c \in clips : c.tweet # t
    /\ xAccounts[w] # None
    /\ submissions' = [submissions EXCEPT ![r] =
         [at |-> "author", wallet |-> w, tweet |-> t,
          xUser |-> xAccounts[w], before |-> {c.request : c \in clips}]]
    /\ UNCHANGED <<accountVars, clips>>

(* Any linked account will do.                                             *)
AnyAuthor(r) ==
    /\ InFlight(r)
    /\ submissions' = [submissions EXCEPT ![r] = [NewSubmission EXCEPT !.at = "done"]]
    /\ clips' = clips \cup {[request |-> r, wallet |-> submissions[r].wallet,
                             tweet |-> submissions[r].tweet]}
    /\ UNCHANGED accountVars

(* X tells the author.  If it is the X user read before, the clip is       *)
(* inserted: nothing is looked up again, and tweet_id is not UNIQUE.       *)
GetTweetAuthor(r) ==
    /\ InFlight(r)
    /\ submissions' = [submissions EXCEPT ![r] = [NewSubmission EXCEPT !.at = "done"]]
    /\ clips' = IF Author[submissions[r].tweet] = submissions[r].xUser
                THEN clips \cup {[request |-> r, wallet |-> submissions[r].wallet,
                                  tweet |-> submissions[r].tweet]}
                ELSE clips
    /\ UNCHANGED accountVars

(* X does not answer: 502.                                                 *)
OwnershipCheckFails(r) ==
    /\ InFlight(r)
    /\ submissions' = [submissions EXCEPT ![r] = [NewSubmission EXCEPT !.at = "done"]]
    /\ UNCHANGED <<accountVars, clips>>

Restart ==
    /\ ServerRestarts
    /\ submissions' = [r \in Requests |-> IF InFlight(r) THEN [NewSubmission EXCEPT !.at = "done"]
                                           ELSE submissions[r]]
    /\ UNCHANGED clips

Submit ==
    \E r \in Requests :
        \/ \E w \in Wallets, t \in Tweets : PostClip(r, w, t)
        \/ GetTweetAuthor(r)
        \/ OwnershipCheckFails(r)

Next ==
    \/ AccountsNext /\ UNCHANGED <<clips, submissions>>
    \/ Submit
    \/ Restart

Spec == Init /\ [][Next]_vars

-----------------------------------------------------------------------------
(* A clip's wallet is, or was, linked to the X account that wrote the      *)
(* tweet, though the link may have moved while X was asked who that is     *)
(* (clips.ts:31-35).                                                       *)
ClipsWereOwned == \A c \in clips : <<c.wallet, Author[c.tweet]>> \in everLinked

(* A tweet becomes two clips only when both requests were open together: a *)
(* request that arrives after the clip was stored is refused               *)
(* (clips.ts:76-78).                                                       *)
TwiceOnlyIfConcurrent ==
    \A r \in Requests : InFlight(r) =>
        \A c \in clips : c.tweet = submissions[r].tweet => c.request \notin submissions[r].before

(* A tweet is submitted as one clip (docs/FRONTEND_DATA_CONTRACT.md:325).  *)
(* Two requests that are both waiting for X when the other is inserted     *)
(* break it, and the poller then pays the same views twice.                *)
TweetIsOneClip == \A c, d \in clips : c.tweet = d.tweet => c = d
=============================================================================
