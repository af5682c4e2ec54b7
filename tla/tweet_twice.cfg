CONSTANTS
    alice = alice
    bob = bob
    Users = {u1}
    Wallets = {a1}
    XUsers <- MCXUsers
    States = {s1, s2}
    Browsers = {b1}
    None = None
    Tweets = {t1}
    Author <- MCAuthor
    Requests = {r1, r2}

SPECIFICATION Spec

SYMMETRY Symmetry

INVARIANTS
    TweetIsOneClip

CHECK_DEADLOCK FALSE
