------------------------- MODULE ClipSubmissionProofs -------------------------
(***************************************************************************)
(* The properties of Accounts and ClipSubmission, for every set of users,  *)
(* wallets, X users, browsers, OAuth states, tweets and requests.          *)
(*                                                                         *)
(* The inductive invariant IInv has a part for each of them:               *)
(*   StatesInv   a state that is pending has not been exchanged yet;       *)
(*   LinkInv     a login that is to link a wallet is for a registered one, *)
(*               and the rows of x_accounts satisfy their constraints;     *)
(*   WalletInv   a wallet is registered by POST /wallets, and then has no  *)
(*               Circle user, or by the signup that got it from Circle, in *)
(*               one step with its Circle user unless that signup ends     *)
(*               without telling the browser;                              *)
(*   ClipInv     what a submission holds was true when it was read.        *)
(***************************************************************************)
EXTENDS ClipSubmission, TLAPS

StatesInv ==
    \A s \in States :
        /\ pendingStates[s] # None => s \in issued /\ exchanges[s] = 0
        /\ s \notin issued => exchanges[s] = 0
        /\ exchanges[s] <= 1

LinkInv ==
    /\ XAccountsConstraints(xAccounts)
    /\ refusedLinks = {}
    /\ \A s \in States : pendingStates[s] # None /\ pendingStates[s].mode = "link"
                           => pendingStates[s].wallet \in wallets
    /\ \A c \in callbacks :
         /\ consent[c.state] # None
         /\ c.mode = "link" => c.wallet \in wallets

\* The server knows the wallet of a session, with the session's user unless the
\* address had been posted to /wallets.
Known(session) ==
    /\ session.address \in wallets
    /\ session.address \in byHand \/ circleUsers[session.address] = session.userId

WalletInv ==
    /\ \A u, v \in Users : walletOf[u] # None /\ walletOf[u] = walletOf[v] => u = v
    /\ \A a \in wallets \ byHand :
         \E u \in Users : walletOf[u] = a /\ signup[u].at \in {"answer", "done"}
    /\ \A u \in Users : signup[u].at = "answer" => Known([userId |-> u, address |-> walletOf[u]])
    /\ \A a \in Wallets : circleUsers[a] # None => a \in wallets
    /\ \A b \in Browsers : held[b] # None => Known(held[b])
    /\ \A r \in recovered : Known(r.session)

ClipInv ==
    /\ \A a \in Wallets : xAccounts[a] # None => <<a, xAccounts[a]>> \in everLinked
    /\ \A r \in Requests : InFlight(r) =>
         /\ submissions[r].wallet \in Wallets
         /\ submissions[r].tweet \in Tweets
         /\ <<submissions[r].wallet, submissions[r].xUser>> \in everLinked
         /\ submissions[r].before \subseteq {c.request : c \in clips}
    /\ \A c \in clips : submissions[c.request].at = "done"
    /\ ClipsWereOwned
    /\ TwiceOnlyIfConcurrent

IInv == TypeOK /\ StatesInv /\ LinkInv /\ WalletInv /\ ClipInv

-----------------------------------------------------------------------------
(* Types.                                                                  *)

LEMMA InitSatisfiesIInv == Init => IInv
<1> SUFFICES ASSUME Init PROVE IInv
  OBVIOUS
<1> USE DEF Init, AccountsInit
<1>1. TypeOK
  BY DEF TypeOK, AccountsTypeOK, SignupSteps, NewSubmission, Submission
<1>2. StatesInv
  BY DEF StatesInv
<1>3. LinkInv
  BY DEF LinkInv, XAccountsConstraints
<1>4. WalletInv
  BY DEF WalletInv
<1>5. ClipInv
  BY DEF ClipInv, ClipsWereOwned, TwiceOnlyIfConcurrent, InFlight, NewSubmission
<1>6. QED
  BY <1>1, <1>2, <1>3, <1>4, <1>5 DEF IInv

\* Where a record of submissions is set it is one of these.
LEMMA NewSubmissionType ==
    /\ NewSubmission \in Submission
    /\ [NewSubmission EXCEPT !.at = "done"] \in Submission
BY DEF NewSubmission, Submission

LEMMA SignupPreservesTypes ==
    ASSUME AccountsTypeOK, WalletInv, Signup PROVE AccountsTypeOK'
<1> USE AccountsAssumption DEF AccountsTypeOK, tables, oauthVars, signupVars
<1>1. ASSUME NEW a \in Wallets, RegisterWallet(a) PROVE AccountsTypeOK'
  BY <1>1 DEF RegisterWallet
<1>2. ASSUME NEW b \in Browsers, NEW u \in Users, CreateCircleWallet(b, u) PROVE AccountsTypeOK'
  BY <1>2 DEF CreateCircleWallet, SignupSteps
<1>3. ASSUME NEW u \in Users, ExecuteChallenge(u) PROVE AccountsTypeOK'
  BY <1>3 DEF ExecuteChallenge, SignupSteps
<1>4. ASSUME NEW u \in Users, FinalizeFails(u) PROVE AccountsTypeOK'
  BY <1>4 DEF FinalizeFails, SignupSteps
<1>5. ASSUME NEW u \in Users, FinalizeRegisters(u) PROVE AccountsTypeOK'
  BY <1>5 DEF FinalizeRegisters, SignupSteps
<1>6. ASSUME NEW u \in Users, StoreWallet(u) PROVE AccountsTypeOK'
  <2>1. walletOf[u] \in Wallets
    BY <1>6 DEF StoreWallet, WalletInv, Known
  <2>2. QED
    BY <1>6, <2>1 DEF StoreWallet, SignupSteps, Session
<1>7. ASSUME NEW u \in Users, NEW a \in Wallets, CircleCreatesWallet(u, a) PROVE AccountsTypeOK'
  BY <1>7 DEF CircleCreatesWallet
<1>8. ASSUME NEW b \in Browsers, ForgetWallet(b) PROVE AccountsTypeOK'
  BY <1>8 DEF ForgetWallet
<1>9. QED
  BY <1>1, <1>2, <1>3, <1>4, <1>5, <1>6, <1>7, <1>8 DEF Signup

LEMMA SignInPreservesTypes ==
    ASSUME AccountsTypeOK, LinkInv, WalletInv, SignInWithX PROVE AccountsTypeOK'
<1> USE AccountsAssumption DEF AccountsTypeOK, tables, oauthVars, signupVars
<1>1. ASSUME NEW s \in States, NEW m \in {"link", "recover"}, NEW a \in Wallets \cup {None},
             AuthStart(s, m, a)
      PROVE  AccountsTypeOK'
  <2>1. SweptStates \in [States -> Attempt \cup {None}]
    BY DEF SweptStates
  <2>2. [mode |-> m, wallet |-> a, old |-> FALSE] \in Attempt
    BY DEF Attempt
  <2>3. pendingStates' \in [States -> Attempt \cup {None}]
    BY <1>1, <2>1, <2>2 DEF AuthStart
  <2>4. QED
    BY <1>1, <2>3 DEF AuthStart
<1>2. ASSUME NEW s \in States, StateExpires(s) PROVE AccountsTypeOK'
  <2>1. pendingStates[s] \in Attempt
    BY <1>2 DEF StateExpires
  <2>2. [pendingStates[s] EXCEPT !.old = TRUE] \in Attempt
    BY <2>1 DEF Attempt
  <2>3. pendingStates' \in [States -> Attempt \cup {None}]
    BY <1>2, <2>2 DEF StateExpires
  <2>4. QED
    BY <1>2, <2>3 DEF StateExpires
<1>3. ASSUME NEW s \in States, NEW x \in XUsers, Consent(s, x) PROVE AccountsTypeOK'
  BY <1>3 DEF Consent
<1>4. ASSUME NEW s \in States, NEW b \in Browsers, CallbackArrives(s, b) PROVE AccountsTypeOK'
  <2>1. pendingStates[s] \in Attempt
    BY <1>4 DEF CallbackArrives
  <2>2. [state |-> s, mode |-> pendingStates[s].mode, wallet |-> pendingStates[s].wallet,
         browser |-> b] \in Callback
    BY <2>1 DEF Attempt, Callback
  <2>3. callbacks' \subseteq Callback
    BY <1>4, <2>2 DEF CallbackArrives
  <2>4. pendingStates' \in [States -> Attempt \cup {None}]
    BY <1>4 DEF CallbackArrives
  <2>5. exchanges' \in [States -> Nat]
    BY <1>4 DEF CallbackArrives
  <2>6. QED
    BY <1>4, <2>3, <2>4, <2>5 DEF CallbackArrives
<1>5. ASSUME NEW c \in callbacks, CallbackFails(c) PROVE AccountsTypeOK'
  BY <1>5 DEF CallbackFails
<1>6. ASSUME NEW c \in callbacks, LinkAccount(c) PROVE AccountsTypeOK'
  <2> DEFINE x == consent[c.state]
  <2>1. c.state \in States /\ c.wallet \in Wallets
    BY <1>6 DEF Callback, LinkInv, LinkAccount
  <2>2. x \in XUsers
    BY <1>6, <2>1 DEF LinkInv
  <2>3. UpsertedXAccount(c.wallet, x) \in [Wallets -> XUsers \cup {None}]
    BY <2>2 DEF UpsertedXAccount
  <2>4. QED
    BY <1>6, <2>1, <2>2, <2>3 DEF LinkAccount
<1>7. ASSUME NEW c \in callbacks, RecoverWallet(c) PROVE AccountsTypeOK'
  <2>1. \A a \in Wallets : circleUsers[a] # None =>
          [userId |-> circleUsers[a], address |-> a] \in Session
    BY DEF WalletInv, Session
  <2>2. c.browser \in Browsers
    BY DEF Callback
  <2>3. recovered' \subseteq [browser : Browsers, session : Session]
    BY <1>7, <2>1, <2>2 DEF RecoverWallet
  <2>4. QED
    BY <1>7, <2>3 DEF RecoverWallet
<1>8. ASSUME NEW r \in recovered, ResumeRecoveredWallet(r) PROVE AccountsTypeOK'
  BY <1>8 DEF ResumeRecoveredWallet
<1>9. QED
  BY <1>1, <1>2, <1>3, <1>4, <1>5, <1>6, <1>7, <1>8 DEF SignInWithX

LEMMA StepPreservesTypes ==
    ASSUME IInv, [Next]_vars PROVE TypeOK'
<1> USE DEF IInv
<1>1. CASE AccountsNext /\ UNCHANGED <<clips, submissions>>
  <2>1. AccountsTypeOK'
    BY <1>1, SignupPreservesTypes, SignInPreservesTypes DEF AccountsNext, TypeOK
  <2>2. QED
    BY <1>1, <2>1 DEF TypeOK
<1>2. CASE Submit
  <2>1. UNCHANGED accountVars
    BY <1>2 DEF Submit, PostClip, GetTweetAuthor, OwnershipCheckFails
  <2>2. AccountsTypeOK'
    BY <2>1 DEF TypeOK, AccountsTypeOK, accountVars, tables, oauthVars, signupVars
  <2>3. ASSUME NEW r \in Requests, NEW w \in Wallets, NEW t \in Tweets, PostClip(r, w, t)
        PROVE  clips' \subseteq Clip /\ submissions' \in [Requests -> Submission]
    <3>1. {c.request : c \in clips} \subseteq Requests
      BY DEF TypeOK, Clip
    <3>2. xAccounts[w] \in XUsers
      BY <2>3 DEF PostClip, TypeOK, AccountsTypeOK
    <3>3. [at |-> "author", wallet |-> w, tweet |-> t, xUser |-> xAccounts[w],
           before |-> {c.request : c \in clips}] \in Submission
      BY <3>1, <3>2 DEF Submission
    <3>4. QED
      BY <2>3, <3>3 DEF PostClip, TypeOK
  <2>4. ASSUME NEW r \in Requests, GetTweetAuthor(r)
        PROVE  clips' \subseteq Clip /\ submissions' \in [Requests -> Submission]
    <3>1. [request |-> r, wallet |-> submissions[r].wallet, tweet |-> submissions[r].tweet] \in Clip
      BY <2>4 DEF GetTweetAuthor, ClipInv, Clip
    <3>2. QED
      BY <2>4, <3>1, NewSubmissionType DEF GetTweetAuthor, TypeOK
  <2>5. ASSUME NEW r \in Requests, OwnershipCheckFails(r)
        PROVE  clips' \subseteq Clip /\ submissions' \in [Requests -> Submission]
    BY <2>5, NewSubmissionType DEF OwnershipCheckFails, TypeOK
  <2>6. QED
    BY <1>2, <2>2, <2>3, <2>4, <2>5 DEF Submit, TypeOK
<1>3. CASE Restart
  <2>1. AccountsTypeOK'
    BY <1>3 DEF Restart, ServerRestarts, TypeOK, AccountsTypeOK, SignupSteps, tables
  <2>2. submissions' \in [Requests -> Submission]
    BY <1>3, NewSubmissionType DEF Restart, TypeOK
  <2>3. QED
    BY <1>3, <2>1, <2>2 DEF Restart, TypeOK
<1>4. CASE UNCHANGED vars
  BY <1>4 DEF vars, TypeOK, AccountsTypeOK, accountVars, tables, oauthVars, signupVars
<1>5. QED
  BY <1>1, <1>2, <1>3, <1>4 DEF Next

-----------------------------------------------------------------------------
(* States.                                                                 *)

LEMMA StepPreservesStates ==
    ASSUME IInv, [Next]_vars PROVE StatesInv'
<1> USE DEF IInv, TypeOK, AccountsTypeOK, StatesInv
<1>1. ASSUME NEW s \in States, NEW m \in {"link", "recover"}, NEW a \in Wallets \cup {None},
             AuthStart(s, m, a)
      PROVE  StatesInv'
  BY <1>1 DEF AuthStart, Fresh, SweptStates
<1>2. ASSUME NEW s \in States, StateExpires(s) PROVE StatesInv'
  BY <1>2 DEF StateExpires
<1>3. ASSUME NEW s \in States, NEW b \in Browsers, CallbackArrives(s, b) PROVE StatesInv'
  BY <1>3 DEF CallbackArrives
<1>4. CASE Restart
  BY <1>4 DEF Restart, ServerRestarts
<1>5. ASSUME UNCHANGED <<pendingStates, issued, exchanges>> PROVE StatesInv'
  BY <1>5
<1>6. CASE Signup \/ Submit \/ UNCHANGED vars
  <2>1. UNCHANGED oauthVars
    BY <1>6 DEF Signup, RegisterWallet, CreateCircleWallet, ExecuteChallenge, FinalizeFails,
       FinalizeRegisters, StoreWallet, CircleCreatesWallet, ForgetWallet,
       Submit, PostClip, GetTweetAuthor, OwnershipCheckFails, vars, accountVars
  <2>2. QED
    BY <2>1, <1>5 DEF oauthVars
<1>7. CASE SignInWithX
  <2>1. ASSUME NEW s \in States, NEW x \in XUsers, Consent(s, x) PROVE StatesInv'
    BY <2>1, <1>5 DEF Consent
  <2>2. ASSUME NEW c \in callbacks, CallbackFails(c) \/ LinkAccount(c) \/ RecoverWallet(c)
        PROVE  StatesInv'
    BY <2>2, <1>5 DEF CallbackFails, LinkAccount, RecoverWallet
  <2>3. ASSUME NEW r \in recovered, ResumeRecoveredWallet(r) PROVE StatesInv'
    BY <2>3, <1>5 DEF ResumeRecoveredWallet
  <2>4. QED
    BY <1>7, <1>1, <1>2, <1>3, <2>1, <2>2, <2>3 DEF SignInWithX
<1>8. QED
  BY <1>4, <1>6, <1>7 DEF Next, AccountsNext

-----------------------------------------------------------------------------
(* Linked accounts.                                                        *)

\* upsertXAccount keeps the constraints, for a wallet that is registered.
LEMMA UpsertKeepsConstraints ==
    ASSUME NEW a \in wallets, NEW x \in XUsers, XAccountsConstraints(xAccounts)
    PROVE  XAccountsConstraints(UpsertedXAccount(a, x))
<1> USE AccountsAssumption
<1>1. \A w \in Wallets :
        UpsertedXAccount(a, x)[w] = IF w = a THEN x
                                    ELSE IF xAccounts[w] = x THEN None ELSE xAccounts[w]
  BY DEF UpsertedXAccount
<1>2. QED
  BY <1>1 DEF XAccountsConstraints

LEMMA LinkAccountLinks ==
    ASSUME AccountsTypeOK, LinkInv, NEW c \in callbacks, LinkAccount(c)
    PROVE  /\ c.wallet \in Wallets
           /\ consent[c.state] \in XUsers
           /\ xAccounts' = UpsertedXAccount(c.wallet, consent[c.state])
           /\ XAccountsConstraints(xAccounts)'
           /\ everLinked' = everLinked \cup {<<c.wallet, consent[c.state]>>}
           /\ UNCHANGED refusedLinks
<1> DEFINE x == consent[c.state]
<1>1. c.state \in States /\ c.wallet \in wallets
  BY DEF AccountsTypeOK, Callback, LinkInv, LinkAccount
<1>2. x \in XUsers
  BY <1>1 DEF AccountsTypeOK, LinkInv
<1>3. XAccountsConstraints(UpsertedXAccount(c.wallet, x))
  BY <1>1, <1>2, UpsertKeepsConstraints DEF LinkInv
<1>4. /\ xAccounts' = UpsertedXAccount(c.wallet, x)
      /\ everLinked' = everLinked \cup {<<c.wallet, x>>}
      /\ UNCHANGED <<refusedLinks, wallets>>
  BY <1>3 DEF LinkAccount
<1>5. XAccountsConstraints(xAccounts)'
  BY <1>3, <1>4 DEF XAccountsConstraints
<1>6. QED
  BY <1>1, <1>2, <1>4, <1>5 DEF AccountsTypeOK

\* A step that leaves logins alone keeps LinkInv though wallets are registered.
LEMMA LinkInvFrame ==
    ASSUME LinkInv, UNCHANGED <<xAccounts, refusedLinks, pendingStates, consent>>,
           callbacks' \subseteq callbacks, wallets \subseteq wallets'
    PROVE  LinkInv'
BY DEF LinkInv, XAccountsConstraints

LEMMA StepPreservesLinks ==
    ASSUME IInv, [Next]_vars PROVE LinkInv'
<1> USE DEF IInv, TypeOK, AccountsTypeOK
<1>1. ASSUME NEW s \in States, NEW m \in {"link", "recover"}, NEW a \in Wallets \cup {None},
             AuthStart(s, m, a)
      PROVE  LinkInv'
  <2>1. \A t \in States : pendingStates'[t] =
          IF t = s THEN [mode |-> m, wallet |-> a, old |-> FALSE]
          ELSE IF pendingStates[t] # None /\ pendingStates[t].old THEN None ELSE pendingStates[t]
    BY <1>1 DEF AuthStart, SweptStates
  <2>2. m = "link" => a \in wallets
    BY <1>1 DEF AuthStart
  <2>3. UNCHANGED <<wallets, xAccounts, callbacks, consent, refusedLinks>>
    BY <1>1 DEF AuthStart, tables
  <2>4. QED
    BY <2>1, <2>2, <2>3 DEF LinkInv, XAccountsConstraints
<1>2. ASSUME NEW s \in States, StateExpires(s) PROVE LinkInv'
  <2>1. pendingStates[s] \in Attempt
    BY <1>2 DEF StateExpires
  <2>2. /\ pendingStates'[s].mode = pendingStates[s].mode
        /\ pendingStates'[s].wallet = pendingStates[s].wallet
        /\ \A t \in States \ {s} : pendingStates'[t] = pendingStates[t]
    BY <1>2, <2>1 DEF StateExpires, Attempt
  <2>3. UNCHANGED <<wallets, xAccounts, callbacks, consent, refusedLinks>>
    BY <1>2 DEF StateExpires, tables
  <2>4. pendingStates[s] # None
    BY <1>2 DEF StateExpires
  <2>5. \A t \in States : pendingStates'[t] # None /\ pendingStates'[t].mode = "link"
                             => pendingStates'[t].wallet \in wallets
    BY <2>2, <2>4 DEF LinkInv
  <2>6. QED
    BY <2>3, <2>5 DEF LinkInv, XAccountsConstraints
<1>3. ASSUME NEW s \in States, NEW x \in XUsers, Consent(s, x) PROVE LinkInv'
  <2>1. UNCHANGED <<wallets, xAccounts, pendingStates, callbacks, refusedLinks>>
    BY <1>3 DEF Consent, tables
  <2>2. x # None
    BY AccountsAssumption
  <2>3. \A t \in States : consent[t] # None => consent'[t] # None
    BY <1>3, <2>2 DEF Consent
  <2>4. \A c \in callbacks : c.state \in States
    BY DEF Callback
  <2>5. QED
    BY <2>1, <2>3, <2>4 DEF LinkInv, XAccountsConstraints
<1>4. ASSUME NEW s \in States, NEW b \in Browsers, CallbackArrives(s, b) PROVE LinkInv'
  <2> DEFINE new == [state |-> s, mode |-> pendingStates[s].mode,
                     wallet |-> pendingStates[s].wallet, browser |-> b]
  <2>1. /\ pendingStates[s] # None /\ consent[s] # None
        /\ pendingStates' = [pendingStates EXCEPT ![s] = None]
        /\ callbacks' \subseteq callbacks \cup {new}
        /\ UNCHANGED <<wallets, xAccounts, consent, refusedLinks>>
    BY <1>4 DEF CallbackArrives, tables
  <2>2. new.mode = "link" => new.wallet \in wallets
    BY <2>1 DEF LinkInv
  <2>3. consent[new.state] # None
    BY <2>1
  <2> HIDE DEF new
  <2>4. QED
    BY <2>1, <2>2, <2>3 DEF LinkInv, XAccountsConstraints
<1>5. ASSUME NEW c \in callbacks, LinkAccount(c) PROVE LinkInv'
  <2>1. UNCHANGED <<wallets, pendingStates, consent>> /\ callbacks' \subseteq callbacks
    BY <1>5 DEF LinkAccount
  <2>2. XAccountsConstraints(xAccounts)' /\ UNCHANGED refusedLinks
    BY <1>5, LinkAccountLinks
  <2>3. QED
    BY <2>1, <2>2 DEF LinkInv
<1>6. ASSUME NEW c \in callbacks, CallbackFails(c) \/ RecoverWallet(c) PROVE LinkInv'
  BY <1>6, LinkInvFrame DEF CallbackFails, RecoverWallet, tables
<1>7. ASSUME NEW r \in recovered, ResumeRecoveredWallet(r) PROVE LinkInv'
  BY <1>7, LinkInvFrame DEF ResumeRecoveredWallet, tables
<1>8. CASE Signup
  <2>1. UNCHANGED <<xAccounts, oauthVars>> /\ wallets \subseteq wallets'
    BY <1>8 DEF Signup, RegisterWallet, CreateCircleWallet, ExecuteChallenge, FinalizeFails,
       FinalizeRegisters, StoreWallet, CircleCreatesWallet, ForgetWallet, tables
  <2>2. QED
    BY <2>1, LinkInvFrame DEF oauthVars
<1>9. CASE Submit \/ UNCHANGED vars
  BY <1>9, LinkInvFrame DEF Submit, PostClip, GetTweetAuthor, OwnershipCheckFails,
     vars, accountVars, tables, oauthVars
<1>10. CASE Restart
  BY <1>10 DEF Restart, ServerRestarts, LinkInv, XAccountsConstraints, tables
<1>11. QED
  BY <1>1, <1>2, <1>3, <1>4, <1>5, <1>6, <1>7, <1>8, <1>9, <1>10
     DEF Next, AccountsNext, SignInWithX

-----------------------------------------------------------------------------
(* Wallets.                                                                *)

\* A step that registers nothing keeps WalletInv; logins are such steps.
LEMMA WalletInvFrame ==
    ASSUME WalletInv, UNCHANGED <<wallets, byHand, circleUsers, walletOf>>,
           \A u \in Users : signup[u].at \in {"answer", "done"} => signup'[u].at \in {"answer", "done"},
           \A u \in Users : signup'[u].at = "answer" => signup[u].at = "answer",
           \A b \in Browsers : held'[b] # None => Known(held'[b]),
           \A r \in recovered' : Known(r.session)
    PROVE  WalletInv'
<1>1. \A session : Known(session) => Known(session)'
  BY DEF Known
<1>2. QED
  BY <1>1 DEF WalletInv, Known

\* The wallet of a signup that is being finalized is not registered, unless by hand.
LEMMA FinalizedOnce ==
    ASSUME WalletInv, NEW u \in Users, signup[u].at = "finalize", walletOf[u] # None
    PROVE  walletOf[u] \notin wallets \ byHand
<1> SUFFICES ASSUME walletOf[u] \in wallets \ byHand PROVE FALSE
  OBVIOUS
<1>1. PICK v \in Users : walletOf[v] = walletOf[u] /\ signup[v].at \in {"answer", "done"}
  BY DEF WalletInv
<1>2. v = u
  BY <1>1 DEF WalletInv
<1>3. QED
  BY <1>1, <1>2

LEMMA FinalizeKeepsWallets ==
    ASSUME AccountsTypeOK, WalletInv, NEW u \in Users, FinalizeRegisters(u)
    PROVE  WalletInv'
<1> USE AccountsAssumption DEF AccountsTypeOK
<1> DEFINE a == walletOf[u]
<1>1. a \in Wallets /\ a \notin wallets \ byHand /\ signup[u].at = "finalize"
  BY FinalizedOnce DEF FinalizeRegisters
<1>2. /\ wallets' = wallets \cup {a}
      /\ UNCHANGED <<byHand, walletOf, held, recovered>>
  BY DEF FinalizeRegisters, signupVars, oauthVars
<1>3. \/ /\ circleUsers' = IF a \in wallets THEN circleUsers ELSE [circleUsers EXCEPT ![a] = u]
         /\ signup' = [signup EXCEPT ![u].at = "answer"]
      \/ /\ a \notin wallets
         /\ UNCHANGED circleUsers
         /\ signup' = [signup EXCEPT ![u].at = "done"]
  BY DEF FinalizeRegisters
<1>4. \A v \in Users : signup'[v].at = IF v = u THEN signup'[u].at ELSE signup[v].at
  BY <1>3
<1>5. /\ signup'[u].at \in {"answer", "done"}
      /\ signup'[u].at = "answer" => a \in byHand \/ circleUsers'[a] = u
  BY <1>1, <1>3 DEF SignupSteps
<1>6. \A w \in wallets : circleUsers'[w] = circleUsers[w]
  BY <1>1, <1>3
<1>7. \A session : Known(session) => Known(session)'
  BY <1>2, <1>6 DEF Known
<1>8. \A w \in (wallets \ byHand)' :
        \E v \in Users : walletOf'[v] = w /\ signup'[v].at \in {"answer", "done"}
  <2>1. ASSUME NEW w \in wallets \ byHand
        PROVE  \E v \in Users : walletOf'[v] = w /\ signup'[v].at \in {"answer", "done"}
    <3>1. PICK v \in Users : walletOf[v] = w /\ signup[v].at \in {"answer", "done"}
      BY DEF WalletInv
    <3>2. v # u
      BY <1>1, <3>1
    <3>3. QED
      BY <1>2, <1>4, <3>1, <3>2
  <2>2. walletOf'[u] = a /\ signup'[u].at \in {"answer", "done"}
    BY <1>2, <1>5
  <2>3. QED
    BY <1>2, <2>1, <2>2
<1>9. ASSUME NEW v \in Users, signup'[v].at = "answer"
      PROVE  Known([userId |-> v, address |-> walletOf[v]])'
  <2>1. CASE v = u
    BY <1>2, <1>5, <1>9, <2>1 DEF Known
  <2>2. CASE v # u
    BY <1>2, <1>4, <1>7, <1>9, <2>2 DEF WalletInv, Known
  <2>3. QED
    BY <2>1, <2>2
<1>10. \A w \in Wallets : circleUsers'[w] # None => w \in wallets'
  BY <1>1, <1>2, <1>3 DEF WalletInv
<1>11. QED
  BY <1>2, <1>7, <1>8, <1>9, <1>10 DEF WalletInv

LEMMA SignupKeepsWallets ==
    ASSUME AccountsTypeOK, WalletInv, Signup
    PROVE  WalletInv'
<1> USE AccountsAssumption DEF AccountsTypeOK
<1>1. ASSUME NEW a \in Wallets, RegisterWallet(a) PROVE WalletInv'
  <2>1. /\ wallets' = wallets \cup {a} /\ byHand' = byHand \cup {a}
        /\ UNCHANGED <<circleUsers, walletOf, signup, held, recovered>>
    BY <1>1 DEF RegisterWallet, signupVars, oauthVars
  <2>2. (wallets \ byHand)' \subseteq wallets \ byHand
    BY <2>1
  <2>3. \A session : Known(session) => Known(session)'
    BY <2>1 DEF Known
  <2>4. QED
    BY <2>1, <2>2, <2>3 DEF WalletInv
<1>2. ASSUME NEW b \in Browsers, NEW u \in Users, CreateCircleWallet(b, u) PROVE WalletInv'
  <2>1. UNCHANGED <<wallets, byHand, circleUsers, walletOf, held, recovered>> /\ signup[u].at = "none"
    BY <1>2 DEF CreateCircleWallet, tables, oauthVars
  <2>2. \A v \in Users : signup'[v].at = signup[v].at \/ (v = u /\ signup'[v].at \in {"pin", "dropped"})
    BY <1>2 DEF CreateCircleWallet
  <2>3. QED
    BY <2>1, <2>2, WalletInvFrame DEF WalletInv
<1>3. ASSUME NEW u \in Users, ExecuteChallenge(u) PROVE WalletInv'
  <2>1. UNCHANGED <<wallets, byHand, circleUsers, walletOf, held, recovered>> /\ signup[u].at = "pin"
    BY <1>3 DEF ExecuteChallenge, tables, oauthVars
  <2>2. \A v \in Users : signup'[v].at = signup[v].at \/ (v = u /\ signup'[v].at \in {"finalize", "dropped"})
    BY <1>3 DEF ExecuteChallenge
  <2>3. QED
    BY <2>1, <2>2, WalletInvFrame DEF WalletInv
<1>4. ASSUME NEW u \in Users, FinalizeFails(u) PROVE WalletInv'
  <2>1. UNCHANGED <<wallets, byHand, circleUsers, walletOf, held, recovered>>
    BY <1>4 DEF FinalizeFails, tables, oauthVars
  <2>2. \A v \in Users : signup'[v].at = signup[v].at \/ signup'[v].at = "done"
    BY <1>4 DEF FinalizeFails
  <2>3. QED
    BY <2>1, <2>2, WalletInvFrame DEF WalletInv
<1>5. ASSUME NEW u \in Users, StoreWallet(u) PROVE WalletInv'
  <2>1. UNCHANGED <<wallets, byHand, circleUsers, walletOf, recovered>> /\ signup[u].at = "answer"
    BY <1>5 DEF StoreWallet, tables, oauthVars
  <2>2. \A v \in Users : signup'[v].at = signup[v].at \/ signup'[v].at = "done"
    BY <1>5 DEF StoreWallet
  <2>3. Known([userId |-> u, address |-> walletOf[u]])
    BY <2>1 DEF WalletInv, Known
  <2>4. \A b \in Browsers : held'[b] = held[b] \/ held'[b] = [userId |-> u, address |-> walletOf[u]]
    BY <1>5 DEF StoreWallet
  <2>5. QED
    BY <2>1, <2>2, <2>3, <2>4, WalletInvFrame DEF WalletInv
<1>6. ASSUME NEW u \in Users, NEW a \in Wallets, CircleCreatesWallet(u, a) PROVE WalletInv'
  <2>1. /\ UNCHANGED <<wallets, byHand, circleUsers, signup, held, recovered>>
        /\ signup[u].at # "answer" /\ walletOf[u] = None /\ \A v \in Users : walletOf[v] # a
        /\ \A v \in Users : walletOf'[v] = IF v = u THEN a ELSE walletOf[v]
    BY <1>6 DEF CircleCreatesWallet, tables, oauthVars
  <2>2. \A session : Known(session) => Known(session)'
    BY <2>1 DEF Known
  <2>3. a # None
    OBVIOUS
  <2>4. \A w \in wallets \ byHand :
          \E v \in Users : walletOf'[v] = w /\ signup'[v].at \in {"answer", "done"}
    BY <2>1 DEF WalletInv
  <2>5. \A v, w \in Users : walletOf'[v] # None /\ walletOf'[v] = walletOf'[w] => v = w
    BY <2>1, <2>3 DEF WalletInv
  <2>6. QED
    BY <2>1, <2>2, <2>4, <2>5 DEF WalletInv
<1>7. ASSUME NEW b \in Browsers, ForgetWallet(b) PROVE WalletInv'
  BY <1>7, WalletInvFrame DEF ForgetWallet, WalletInv, tables, oauthVars, signupVars
<1>8. QED
  BY <1>1, <1>2, <1>3, <1>4, <1>5, <1>6, <1>7, FinalizeKeepsWallets DEF Signup

LEMMA StepPreservesWallets ==
    ASSUME IInv, [Next]_vars PROVE WalletInv'
<1> USE DEF IInv, TypeOK, AccountsTypeOK
<1>1. ASSUME NEW c \in callbacks, RecoverWallet(c) PROVE WalletInv'
  <2>1. UNCHANGED <<wallets, byHand, circleUsers, walletOf, signup, held>>
    BY <1>1 DEF RecoverWallet, tables, signupVars
  <2>2. \A a \in Wallets : circleUsers[a] # None =>
          Known([userId |-> circleUsers[a], address |-> a])
    BY DEF WalletInv, Known
  <2>3. \A r \in recovered' : Known(r.session)
    BY <1>1, <2>2 DEF RecoverWallet, WalletInv
  <2>4. QED
    BY <2>1, <2>3, WalletInvFrame DEF WalletInv
<1>2. ASSUME NEW r \in recovered, ResumeRecoveredWallet(r) PROVE WalletInv'
  <2>1. UNCHANGED <<wallets, byHand, circleUsers, walletOf, signup>> /\ recovered' \subseteq recovered
    BY <1>2 DEF ResumeRecoveredWallet, tables, signupVars
  <2>2. \A b \in Browsers : held'[b] = held[b] \/ held'[b] = r.session
    BY <1>2 DEF ResumeRecoveredWallet
  <2>3. QED
    BY <2>1, <2>2, WalletInvFrame DEF WalletInv
<1>3. ASSUME UNCHANGED <<wallets, byHand, circleUsers, walletOf, signup, held, recovered>>
      PROVE  WalletInv'
  BY <1>3, WalletInvFrame DEF WalletInv
<1>4. CASE SignInWithX
  <2>1. ASSUME NEW s \in States, NEW m \in {"link", "recover"}, NEW a \in Wallets \cup {None},
               AuthStart(s, m, a)
        PROVE  WalletInv'
    BY <2>1, <1>3 DEF AuthStart, tables, signupVars
  <2>2. ASSUME NEW s \in States, StateExpires(s) PROVE WalletInv'
    BY <2>2, <1>3 DEF StateExpires, tables, signupVars
  <2>3. ASSUME NEW s \in States, NEW x \in XUsers, Consent(s, x) PROVE WalletInv'
    BY <2>3, <1>3 DEF Consent, tables, signupVars
  <2>4. ASSUME NEW s \in States, NEW b \in Browsers, CallbackArrives(s, b) PROVE WalletInv'
    BY <2>4, <1>3 DEF CallbackArrives, tables, signupVars
  <2>5. ASSUME NEW c \in callbacks, CallbackFails(c) \/ LinkAccount(c) PROVE WalletInv'
    BY <2>5, <1>3 DEF CallbackFails, LinkAccount, tables, signupVars
  <2>6. QED
    BY <1>4, <1>1, <1>2, <2>1, <2>2, <2>3, <2>4, <2>5 DEF SignInWithX
<1>5. CASE Submit \/ UNCHANGED vars
  BY <1>5, <1>3 DEF Submit, PostClip, GetTweetAuthor, OwnershipCheckFails,
     vars, accountVars, tables, oauthVars, signupVars
<1>6. CASE Restart
  <2>1. UNCHANGED <<wallets, byHand, circleUsers, walletOf, held, recovered>>
    BY <1>6 DEF Restart, ServerRestarts, tables
  <2>2. \A u \in Users : signup'[u].at = IF signup[u].at = "finalize" THEN "done" ELSE signup[u].at
    BY <1>6 DEF Restart, ServerRestarts
  <2>3. QED
    BY <2>1, <2>2, WalletInvFrame DEF WalletInv
<1>7. QED
  BY <1>4, <1>5, <1>6, SignupKeepsWallets DEF Next, AccountsNext

-----------------------------------------------------------------------------
(* Clips.                                                                  *)

\* A step that leaves the submissions alone keeps ClipInv as links are made.
LEMMA ClipInvFrame ==
    ASSUME ClipInv, UNCHANGED <<clips, submissions>>, everLinked \subseteq everLinked',
           \A a \in Wallets : xAccounts'[a] # None => <<a, xAccounts'[a]>> \in everLinked'
    PROVE  ClipInv'
BY DEF ClipInv, InFlight, ClipsWereOwned, TwiceOnlyIfConcurrent

LEMMA StepPreservesClips ==
    ASSUME IInv, [Next]_vars PROVE ClipInv'
<1> USE DEF IInv, TypeOK
<1>1. ASSUME NEW c \in callbacks, LinkAccount(c), UNCHANGED <<clips, submissions>>
      PROVE  ClipInv'
  <2> DEFINE x == consent[c.state]
  <2>1. /\ c.wallet \in Wallets /\ x \in XUsers
        /\ xAccounts' = UpsertedXAccount(c.wallet, x)
        /\ everLinked' = everLinked \cup {<<c.wallet, x>>}
    BY <1>1, LinkAccountLinks
  <2>2. \A a \in Wallets : xAccounts'[a] # None => <<a, xAccounts'[a]>> \in everLinked'
    BY <2>1 DEF UpsertedXAccount, ClipInv
  <2>3. QED
    BY <1>1, <2>1, <2>2, ClipInvFrame
<1>2. ASSUME UNCHANGED <<xAccounts, everLinked, clips, submissions>> PROVE ClipInv'
  BY <1>2, ClipInvFrame DEF ClipInv
<1>3. CASE AccountsNext /\ UNCHANGED <<clips, submissions>>
  <2>1. CASE Signup
    BY <1>3, <2>1, <1>2 DEF Signup, RegisterWallet, CreateCircleWallet, ExecuteChallenge,
       FinalizeFails, FinalizeRegisters, StoreWallet, CircleCreatesWallet, ForgetWallet,
       tables, oauthVars
  <2>2. CASE SignInWithX
    BY <1>3, <2>2, <1>1, <1>2 DEF SignInWithX, AuthStart, StateExpires, Consent, CallbackArrives,
       CallbackFails, RecoverWallet, ResumeRecoveredWallet, tables
  <2>3. QED
    BY <1>3, <2>1, <2>2 DEF AccountsNext
<1>4. ASSUME NEW r \in Requests, NEW w \in Wallets, NEW t \in Tweets, PostClip(r, w, t)
      PROVE  ClipInv'
  <2>1. /\ submissions[r].at = "new" /\ \A c \in clips : c.tweet # t
        /\ xAccounts[w] # None
        /\ UNCHANGED <<xAccounts, everLinked, clips>>
    BY <1>4 DEF PostClip, accountVars, tables, oauthVars
  <2>2. /\ submissions'[r] = [at |-> "author", wallet |-> w, tweet |-> t,
                              xUser |-> xAccounts[w], before |-> {c.request : c \in clips}]
        /\ \A q \in Requests \ {r} : submissions'[q] = submissions[q]
    BY <1>4 DEF PostClip
  <2>3. <<w, xAccounts[w]>> \in everLinked
    BY <2>1 DEF ClipInv
  <2>4. \A c \in clips : c.request \in Requests /\ c.request # r
    BY <2>1 DEF Clip, ClipInv
  <2>5. \A q \in Requests : InFlight(q)' =>
          /\ submissions'[q].wallet \in Wallets
          /\ submissions'[q].tweet \in Tweets
          /\ <<submissions'[q].wallet, submissions'[q].xUser>> \in everLinked
          /\ submissions'[q].before \subseteq {c.request : c \in clips}
    BY <2>2, <2>3 DEF ClipInv, InFlight
  <2>6. TwiceOnlyIfConcurrent'
    BY <2>1, <2>2 DEF ClipInv, TwiceOnlyIfConcurrent, InFlight
  <2>7. QED
    BY <2>1, <2>2, <2>4, <2>5, <2>6 DEF ClipInv, ClipsWereOwned
<1>5. ASSUME NEW r \in Requests, GetTweetAuthor(r) PROVE ClipInv'
  <2> DEFINE new == [request |-> r, wallet |-> submissions[r].wallet, tweet |-> submissions[r].tweet]
  <2>1. InFlight(r) /\ UNCHANGED <<xAccounts, everLinked>>
    BY <1>5 DEF GetTweetAuthor, accountVars, tables, oauthVars
  <2>2. submissions'[r].at = "done" /\ \A q \in Requests \ {r} : submissions'[q] = submissions[q]
    BY <1>5 DEF GetTweetAuthor, NewSubmission
  <2>3. clips' = clips \/ (clips' = clips \cup {new} /\ <<new.wallet, Author[new.tweet]>> \in everLinked)
    BY <1>5, <2>1 DEF GetTweetAuthor, ClipInv
  <2>4. ASSUME NEW c \in clips PROVE c.request \in Requests /\ c.request # r
    BY <2>1 DEF Clip, ClipInv, InFlight
  <2>5. ASSUME NEW q \in Requests, InFlight(q)'
        PROVE  /\ q # r /\ InFlight(q) /\ submissions'[q] = submissions[q]
               /\ r \notin submissions[q].before
    <3>1. q # r /\ InFlight(q) /\ submissions'[q] = submissions[q]
      BY <2>2, <2>5 DEF InFlight
    <3>2. QED
      BY <2>4, <3>1 DEF ClipInv
  <2>6. ClipsWereOwned'
    BY <2>1, <2>3 DEF ClipInv, ClipsWereOwned
  <2>7. TwiceOnlyIfConcurrent'
    BY <2>3, <2>5 DEF ClipInv, TwiceOnlyIfConcurrent
  <2>8. \A q \in Requests : InFlight(q)' =>
          /\ submissions'[q].wallet \in Wallets
          /\ submissions'[q].tweet \in Tweets
          /\ <<submissions'[q].wallet, submissions'[q].xUser>> \in everLinked'
          /\ submissions'[q].before \subseteq {c.request : c \in clips'}
    <3>1. {c.request : c \in clips} \subseteq {c.request : c \in clips'}
      BY <2>3
    <3>2. QED
      BY <2>1, <2>5, <3>1 DEF ClipInv
  <2>9. \A c \in clips' : submissions'[c.request].at = "done"
    BY <2>2, <2>3, <2>4 DEF ClipInv
  <2>10. QED
    BY <2>1, <2>6, <2>7, <2>8, <2>9 DEF ClipInv
<1>6. ASSUME UNCHANGED <<xAccounts, everLinked, clips>>,
             \A q \in Requests : submissions'[q] = submissions[q]
                                 \/ (InFlight(q) /\ submissions'[q].at = "done")
      PROVE  ClipInv'
  <2>1. \A q \in Requests : InFlight(q)' => InFlight(q) /\ submissions'[q] = submissions[q]
    BY <1>6 DEF InFlight
  <2>2. \A c \in clips : submissions'[c.request].at = "done"
    BY <1>6 DEF ClipInv, Clip
  <2>3. TwiceOnlyIfConcurrent'
    BY <1>6, <2>1 DEF ClipInv, TwiceOnlyIfConcurrent
  <2>4. QED
    BY <1>6, <2>1, <2>2, <2>3 DEF ClipInv, ClipsWereOwned
<1>7. ASSUME NEW r \in Requests, OwnershipCheckFails(r) PROVE ClipInv'
  BY <1>7, <1>6 DEF OwnershipCheckFails, NewSubmission, accountVars, tables, oauthVars
<1>8. CASE Restart
  BY <1>8, <1>6 DEF Restart, ServerRestarts, NewSubmission, tables
<1>9. CASE UNCHANGED vars
  BY <1>9, <1>2 DEF vars, accountVars, tables, oauthVars
<1>10. QED
  BY <1>3, <1>4, <1>5, <1>7, <1>8, <1>9 DEF Next, Submit

-----------------------------------------------------------------------------
(***************************************************************************)
(* Signups, logins, recoveries and submissions keep what the server, its   *)
(* tables and the browsers know of each other consistent, through restarts *)
(* and failures at any await (oauth.ts:118-191, circleWallets.ts:122-181,  *)
(* clips.ts:60-128).                                                       *)
(***************************************************************************)
THEOREM AccountsAreConsistent == Spec => []IInv
<1>1. IInv /\ [Next]_vars => IInv'
  BY StepPreservesTypes, StepPreservesStates, StepPreservesLinks, StepPreservesWallets,
     StepPreservesClips DEF IInv
<1>2. QED
  BY InitSatisfiesIInv, <1>1, PTL DEF Spec

\* The tables, the states of logins under way and the submissions have the types the
\* schema and the handlers give them (db/schema.sql:52-90, oauth.ts:22-35).
THEOREM AccountsTypeCorrect == Spec => []TypeOK
<1>1. IInv => TypeOK
  BY DEF IInv
<1>2. QED
  BY <1>1, AccountsAreConsistent, PTL

(***************************************************************************)
(* The code of an OAuth state is exchanged at most once, however often the *)
(* redirect is repeated and whenever the server restarts                   *)
(* (oauth.ts:128-132).                                                     *)
(***************************************************************************)
THEOREM OneLoginPerState == Spec => []StatesAreUsedOnce
<1>1. IInv => StatesAreUsedOnce
  BY DEF IInv, StatesInv, StatesAreUsedOnce
<1>2. QED
  BY <1>1, AccountsAreConsistent, PTL

(***************************************************************************)
(* upsertXAccount never violates the UNIQUE and REFERENCES constraints of  *)
(* x_accounts, so no confirmed login is turned down (db.ts:267-278).       *)
(***************************************************************************)
THEOREM NoLinkIsRefused == Spec => []RelinkingNeverFails
<1>1. IInv => RelinkingNeverFails
  BY DEF IInv, LinkInv, RelinkingNeverFails
<1>2. QED
  BY <1>1, AccountsAreConsistent, PTL

(***************************************************************************)
(* The wallet a browser remembers is registered, for the Circle user the   *)
(* browser remembers, although finalize writes two tables without a        *)
(* transaction (circleWallets.ts:168-173); or its address had been posted  *)
(* to /wallets by hand before.                                             *)
(***************************************************************************)
THEOREM RememberedWalletsAreKnown == Spec => []HeldWalletsAreRecoverable
<1>1. IInv => HeldWalletsAreRecoverable
  BY DEF IInv, WalletInv, Known, HeldWalletsAreRecoverable
<1>2. QED
  BY <1>1, AccountsAreConsistent, PTL

(***************************************************************************)
(* A clip's wallet was linked to the author of its tweet, though the link  *)
(* is read before the wait for X and not again (clips.ts:36-56).           *)
(***************************************************************************)
THEOREM EveryClipWasOwned == Spec => []ClipsWereOwned
<1>1. IInv => ClipsWereOwned
  BY DEF IInv, ClipInv
<1>2. QED
  BY <1>1, AccountsAreConsistent, PTL

(***************************************************************************)
(* A request that arrives after a tweet's clip was inserted does not make  *)
(* another: only overlapping requests can (clips.ts:76-78).                *)
(***************************************************************************)
THEOREM SequentialDuplicatesAreRefused == Spec => []TwiceOnlyIfConcurrent
<1>1. IInv => TwiceOnlyIfConcurrent
  BY DEF IInv, ClipInv
<1>2. QED
  BY <1>1, AccountsAreConsistent, PTL
=============================================================================
