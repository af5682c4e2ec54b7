------------------------------- MODULE Accounts -------------------------------
(***************************************************************************)
(* Who is who: wallets created through Circle (server/circleWallets.ts,    *)
(* web/lib/circleWallets.ts), the X account linked to a wallet and the     *)
(* recovery of a wallet by its X account (server/oauth.ts), and the three  *)
(* tables they write.                                                      *)
(*                                                                         *)
(* Handlers of the API server are cut at their awaits.  What is in its     *)
(* memory, the OAuth states and the handlers in flight, is lost when it    *)
(* dies.  Circle and X answer when they like, or fail.  Signups belong to  *)
(* tabs, and the tabs of a browser share its stored wallet.                *)
(***************************************************************************)
EXTENDS Naturals, FiniteSets

CONSTANTS
    Users,            \* bound: ids of Circle users; a signup takes a fresh one
    Wallets,          \* addresses: Circle's and any others
    XUsers,           \* x_accounts.x_user_id
    States,           \* bound: values of the OAuth parameter "state"
    Browsers,
    None

ASSUME AccountsAssumption == None \notin Users \cup Wallets \cup XUsers

VARIABLES
    \* the database
    wallets,        \* the addresses in the table wallets
    byHand,         \* history: those that POST /wallets inserted
    circleUsers,    \* circle_users.circle_user_id, by wallet_address
    xAccounts,      \* x_accounts.x_user_id, by wallet_address
    \* the API server's memory
    pendingStates,  \* the Map of OAuth attempts
    callbacks,      \* the callback handlers that wait for X
    \* Circle and X
    walletOf,       \* the wallet Circle made for a user
    consent,        \* who agreed on the consent screen of a state
    \* browsers
    signup,         \* createCircleWallet, by the user it created
    recovered,      \* redirects back from a recovery, not yet resumed
    held,           \* localStorage's clipstream_circle_wallet
    \* history
    issued,         \* states that were generated
    exchanges,      \* how often a state's code was exchanged
    everLinked,     \* pairs of a wallet and an X user ever in x_accounts
    refusedLinks    \* X users whose login succeeded and was not linked

tables == <<wallets, byHand, circleUsers, xAccounts>>
oauthVars == <<pendingStates, callbacks, consent, recovered, issued, exchanges,
               everLinked, refusedLinks>>
signupVars == <<walletOf, signup>>
accountVars == <<tables, oauthVars, signupVars, held>>

Session == [userId : Users, address : Wallets]
Attempt == [mode : {"link", "recover"}, wallet : Wallets \cup {None}, old : BOOLEAN]
Callback == [state : States, mode : {"link", "recover"},
             wallet : Wallets \cup {None}, browser : Browsers]
SignupSteps == {"none", "pin", "dropped", "finalize", "answer", "done"}

AccountsTypeOK ==
    /\ wallets \subseteq Wallets
    /\ byHand \subseteq Wallets
    /\ circleUsers \in [Wallets -> Users \cup {None}]
    /\ xAccounts \in [Wallets -> XUsers \cup {None}]
    /\ pendingStates \in [States -> Attempt \cup {None}]
    /\ callbacks \subseteq Callback
    /\ walletOf \in [Users -> Wallets \cup {None}]
    /\ consent \in [States -> XUsers \cup {None}]
    /\ signup \in [Users -> [at : SignupSteps, browser : Browsers \cup {None}]]
    /\ recovered \subseteq [browser : Browsers, session : Session]
    /\ held \in [Browsers -> Session \cup {None}]
    /\ issued \subseteq States
    /\ exchanges \in [States -> Nat]
    /\ everLinked \subseteq Wallets \X XUsers
    /\ refusedLinks \subseteq XUsers

AccountsInit ==
    /\ wallets = {}
    /\ byHand = {}
    /\ circleUsers = [a \in Wallets |-> None]
    /\ xAccounts = [a \in Wallets |-> None]
    /\ pendingStates = [s \in States |-> None]
    /\ callbacks = {}
    /\ walletOf = [u \in Users |-> None]
    /\ consent = [s \in States |-> None]
    /\ signup = [u \in Users |-> [at |-> "none", browser |-> None]]
    /\ recovered = {}
    /\ held = [b \in Browsers |-> None]
    /\ issued = {}
    /\ exchanges = [s \in States |-> 0]
    /\ everLinked = {}
    /\ refusedLinks = {}

-----------------------------------------------------------------------------
(* Signing up.                                                             *)

(* POST /wallets takes any address, one that Circle gave or will give      *)
(* included; nothing happens to a wallet that is there already.            *)
RegisterWallet(a) ==
    /\ a \notin wallets
    /\ wallets' = wallets \cup {a}
    /\ byHand' = byHand \cup {a}
    /\ UNCHANGED <<circleUsers, xAccounts, oauthVars, signupVars, held>>

(* A tab creates a Circle user and a session, and starts the challenge that *)
(* asks for a PIN.  If one of the requests fails the user is of no use.     *)
CreateCircleWallet(b, u) ==
    /\ signup[u].at = "none"
    /\ \E at \in {"pin", "dropped"} : signup' = [signup EXCEPT ![u] = [at |-> at, browser |-> b]]
    /\ UNCHANGED <<tables, oauthVars, walletOf, held>>

(* The PIN was entered, and the tab asks the server to finalize; or it was *)
(* not, and the signup is over.                                            *)
ExecuteChallenge(u) ==
    /\ signup[u].at = "pin"
    /\ \E at \in {"finalize", "dropped"} : signup' = [signup EXCEPT ![u].at = at]
    /\ UNCHANGED <<tables, oauthVars, walletOf, held>>

(* Circle completes the challenge some time after the PIN was entered, even *)
(* when nobody waits for it any more.                                      *)
CircleCreatesWallet(u, a) ==
    /\ signup[u].at \in {"finalize", "done"}
    /\ walletOf[u] = None
    /\ \A v \in Users : walletOf[v] # a
    /\ walletOf' = [walletOf EXCEPT ![u] = a]
    /\ UNCHANGED <<tables, oauthVars, signup, held>>

(* The challenge failed, the polling window is over and the user has no    *)
(* wallet yet, or a request to Circle failed: 502, and the tab gives up.   *)
FinalizeFails(u) ==
    /\ signup[u].at = "finalize"
    /\ signup' = [signup EXCEPT ![u].at = "done"]
    /\ UNCHANGED <<tables, oauthVars, walletOf, held>>

(* The failure of the second write is swallowed.                           *)
FinalizeRegistersAnyway(u) ==
    /\ signup[u].at = "finalize"
    /\ walletOf[u] # None
    /\ LET a == walletOf[u] IN
       /\ wallets' = wallets \cup {a}
       /\ \E inserted \in BOOLEAN :
            /\ circleUsers' = IF inserted /\ a \notin wallets
                              THEN [circleUsers EXCEPT ![a] = u] ELSE circleUsers
            /\ signup' = [signup EXCEPT ![u].at = "answer"]
    /\ UNCHANGED <<byHand, xAccounts, oauthVars, walletOf, held>>

(* The wallet is there, as the challenge's correlation id or as the first  *)
(* of the user's wallets.  An address that is not registered is written to *)
(* two tables; the second write may fail, or the server die before it, and *)
(* then the first one stays.  One that is registered is answered with as   *)
(* it is, also when POST /wallets was first and circle_users lacks it.      *)
FinalizeRegisters(u) ==
    /\ signup[u].at = "finalize"
    /\ walletOf[u] # None
    /\ LET a == walletOf[u] IN
       /\ wallets' = wallets \cup {a}
       /\ \/ /\ circleUsers' = IF a \in wallets THEN circleUsers
                               ELSE [circleUsers EXCEPT ![a] = u]
             /\ signup' = [signup EXCEPT ![u].at = "answer"]
          \/ /\ a \notin wallets
             /\ signup' = [signup EXCEPT ![u].at = "done"]
             /\ UNCHANGED circleUsers
    /\ UNCHANGED <<byHand, xAccounts, oauthVars, walletOf, held>>

(* The tab has the 201 and stores the wallet, over one that another tab of *)
(* the browser may have stored; or the answer is lost.                     *)
StoreWallet(u) ==
    /\ signup[u].at = "answer"
    /\ signup' = [signup EXCEPT ![u].at = "done"]
    /\ \/ held' = [held EXCEPT ![signup[u].browser] = [userId |-> u, address |-> walletOf[u]]]
       \/ UNCHANGED held
    /\ UNCHANGED <<tables, oauthVars, walletOf>>

(* "Forget this wallet on this device".                                    *)
ForgetWallet(b) ==
    /\ held[b] # None
    /\ held' = [held EXCEPT ![b] = None]
    /\ UNCHANGED <<tables, oauthVars, signupVars>>

-----------------------------------------------------------------------------
(* Signing in with X, to link an account to a wallet or to find the wallet *)
(* again that it is linked to.                                             *)

Fresh(s) == s \notin issued

(* Attempts older than STATE_TTL_MS are swept whenever one begins.         *)
SweptStates ==
    [s \in States |-> IF pendingStates[s] # None /\ pendingStates[s].old
                      THEN None ELSE pendingStates[s]]

(* GET /auth/x/start.  To link, the wallet must be registered; to recover, *)
(* no wallet is named.                                                     *)
AuthStart(s, mode, a) ==
    /\ Fresh(s)
    /\ IF mode = "link" THEN a \in wallets ELSE a = None
    /\ pendingStates' = [SweptStates EXCEPT
                           ![s] = [mode |-> mode, wallet |-> a, old |-> FALSE]]
    /\ issued' = issued \cup {s}
    /\ UNCHANGED <<tables, callbacks, consent, recovered, exchanges, everLinked,
                   refusedLinks, signupVars, held>>

(* Ten minutes go by.                                                      *)
StateExpires(s) ==
    /\ pendingStates[s] # None
    /\ ~pendingStates[s].old
    /\ pendingStates' = [pendingStates EXCEPT ![s].old = TRUE]
    /\ UNCHANGED <<tables, callbacks, consent, recovered, issued, exchanges,
                   everLinked, refusedLinks, signupVars, held>>

(* Somebody agrees, logged in to X.  A denial reaches the callback without *)
(* a code and changes nothing there.                                       *)
Consent(s, x) ==
    /\ s \in issued
    /\ consent[s] = None
    /\ consent' = [consent EXCEPT ![s] = x]
    /\ UNCHANGED <<tables, pendingStates, callbacks, recovered, issued, exchanges,
                   everLinked, refusedLinks, signupVars, held>>

(* A state is forgotten only when its callback has been answered.          *)
CallbackKeepsState(s, b) ==
    /\ consent[s] # None
    /\ pendingStates[s] # None
    /\ UNCHANGED pendingStates
    /\ IF pendingStates[s].old
         THEN UNCHANGED <<callbacks, exchanges>>
         ELSE /\ callbacks' = callbacks \cup
                   {[state |-> s, mode |-> pendingStates[s].mode,
                     wallet |-> pendingStates[s].wallet, browser |-> b]}
              /\ exchanges' = [exchanges EXCEPT ![s] = @ + 1]
    /\ UNCHANGED <<tables, consent, recovered, issued, everLinked, refusedLinks,
                   signupVars, held>>

(* The redirect of a consent reaches GET /auth/x/callback, as often as the *)
(* browser repeats it.  The state is deleted before anything is awaited;   *)
(* one that is not known changes nothing, one that is too old goes no      *)
(* further.                                                                *)
CallbackArrives(s, b) ==
    /\ consent[s] # None
    /\ pendingStates[s] # None
    /\ pendingStates' = [pendingStates EXCEPT ![s] = None]
    /\ IF pendingStates[s].old
         THEN UNCHANGED <<callbacks, exchanges>>
         ELSE /\ callbacks' = callbacks \cup
                   {[state |-> s, mode |-> pendingStates[s].mode,
                     wallet |-> pendingStates[s].wallet, browser |-> b]}
              /\ exchanges' = [exchanges EXCEPT ![s] = @ + 1]
    /\ UNCHANGED <<tables, consent, recovered, issued, everLinked, refusedLinks,
                   signupVars, held>>

(* X refuses the code or does not tell the user: a redirect with an error. *)
CallbackFails(c) ==
    /\ c \in callbacks
    /\ callbacks' = callbacks \ {c}
    /\ UNCHANGED <<tables, pendingStates, consent, recovered, issued, exchanges,
                   everLinked, refusedLinks, signupVars, held>>

(* A plain upsert by wallet: the X user's row under another wallet stays.  *)
PlainXAccount(a, x) == [xAccounts EXCEPT ![a] = x]

(* x_accounts after upsertXAccount's transaction: the X user moves to this *)
(* wallet, whatever it was linked to before.                               *)
UpsertedXAccount(a, x) ==
    [w \in Wallets |-> IF w = a THEN x
                         ELSE IF xAccounts[w] = x THEN None ELSE xAccounts[w]]

(* What the schema demands of x_accounts: x_user_id is UNIQUE, and its      *)
(* wallets are in the table wallets.                                       *)
XAccountsConstraints(accounts) ==
    \A v, w \in Wallets : accounts[v] # None =>
        /\ v \in wallets
        /\ accounts[v] = accounts[w] => v = w

(* X told who logged in, in mode "link".                                   *)
LinkAccount(c) ==
    /\ c \in callbacks
    /\ c.mode = "link"
    /\ callbacks' = callbacks \ {c}
    /\ LET x == consent[c.state]
           accounts == UpsertedXAccount(c.wallet, x)
       IN  IF XAccountsConstraints(accounts)
             THEN /\ xAccounts' = accounts
                  /\ everLinked' = everLinked \cup {<<c.wallet, x>>}
                  /\ UNCHANGED refusedLinks
             ELSE /\ refusedLinks' = refusedLinks \cup {x}
                  /\ UNCHANGED <<xAccounts, everLinked>>
    /\ UNCHANGED <<wallets, byHand, circleUsers, pendingStates, consent, recovered,
                   issued, exchanges, signupVars, held>>

(* X told who logged in, in mode "recover": the wallet linked to that user, *)
(* if it is a Circle wallet, is sent back to the browser.                   *)
RecoverWallet(c) ==
    /\ c \in callbacks
    /\ c.mode = "recover"
    /\ callbacks' = callbacks \ {c}
    /\ recovered' = recovered \cup
         {[browser |-> c.browser, session |-> [userId |-> circleUsers[a], address |-> a]] :
            a \in {w \in Wallets : xAccounts[w] = consent[c.state] /\ circleUsers[w] # None}}
    /\ UNCHANGED <<tables, pendingStates, consent, issued, exchanges, everLinked,
                   refusedLinks, signupVars, held>>

(* The profile page mints a session for the recovered user, and if that    *)
(* succeeds stores the wallet.                                             *)
ResumeRecoveredWallet(r) ==
    /\ r \in recovered
    /\ recovered' = recovered \ {r}
    /\ \/ held' = [held EXCEPT ![r.browser] = r.session]
       \/ UNCHANGED held
    /\ UNCHANGED <<tables, pendingStates, callbacks, consent, issued, exchanges,
                   everLinked, refusedLinks, signupVars>>

-----------------------------------------------------------------------------
(* The server process ends and starts again: its memory is empty, and the  *)
(* requests it was handling are answered with an error.                    *)
ServerRestarts ==
    /\ pendingStates' = [s \in States |-> None]
    /\ callbacks' = {}
    /\ signup' = [u \in Users |-> IF signup[u].at = "finalize"
                                  THEN [signup[u] EXCEPT !.at = "done"] ELSE signup[u]]
    /\ UNCHANGED <<tables, walletOf, consent, recovered, held, issued, exchanges,
                   everLinked, refusedLinks>>

Signup ==
    \/ \E a \in Wallets : RegisterWallet(a)
    \/ \E b \in Browsers, u \in Users : CreateCircleWallet(b, u)
    \/ \E u \in Users : ExecuteChallenge(u) \/ FinalizeFails(u) \/ FinalizeRegisters(u) \/ StoreWallet(u)
    \/ \E u \in Users, a \in Wallets : CircleCreatesWallet(u, a)
    \/ \E b \in Browsers : ForgetWallet(b)

SignInWithX ==
    \/ \E s \in States, m \in {"link", "recover"}, a \in Wallets \cup {None} : AuthStart(s, m, a)
    \/ \E s \in States : StateExpires(s)
    \/ \E s \in States, x \in XUsers : Consent(s, x)
    \/ \E s \in States, b \in Browsers : CallbackArrives(s, b)
    \/ \E c \in callbacks : CallbackFails(c) \/ LinkAccount(c) \/ RecoverWallet(c)
    \/ \E r \in recovered : ResumeRecoveredWallet(r)

AccountsNext == Signup \/ SignInWithX

-----------------------------------------------------------------------------
(* A state is good for one login: its code is exchanged at most once,      *)
(* however often the browser repeats the callback, before and after a      *)
(* restart (oauth.ts:128-132).                                             *)
StatesAreUsedOnce == \A s \in States : exchanges[s] <= 1

(* A login that X confirmed is never turned down by the tables: an X user   *)
(* may move to another wallet and a wallet to another X user, in any order  *)
(* of overlapping logins (db.ts:267-278).                                   *)
RelinkingNeverFails == refusedLinks = {}

(* The wallet a browser remembers is known to the server, with the Circle  *)
(* user the browser remembers: it was registered completely before the     *)
(* browser heard of it, or recovered with the right user.  Excepted is an  *)
(* address that somebody had posted to /wallets before finalize came to it *)
(* (circleWallets.ts:168-173).                                             *)
HeldWalletsAreRecoverable ==
    \A b \in Browsers : held[b] # None =>
        /\ held[b].address \in wallets
        /\ held[b].address \in byHand \/ circleUsers[held[b].address] = held[b].userId
=============================================================================
