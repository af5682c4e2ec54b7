CONSTANTS
    alice = alice
    bob = bob
    Users = {u1, u2}
    Wallets = {a1, a2}
    XUsers <- MCXUsers
    States = {s1, s2, s3}
    Browsers = {b1}
    None = None
    Tweets = {t1}
    Author <- MCAuthor
    Requests = {r1, r2}

SPECIFICATION Spec

SYMMETRY Symmetry

INVARIANTS
    StatesAreUsedOnce
    RelinkingNeverFails
    HeldWalletsAreRecoverable
    ClipsWereOwned
    TwiceOnlyIfConcurrent

CHECK_DEADLOCK FALSE
