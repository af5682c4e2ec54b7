CONSTANTS
    w1 = w1
    w2 = w2
    Wallets <- MCWallets
    Organizer = w1
    Deposit = 1
    MaxFeed = 1
    MaxInFlight = 2
    MaxMoves = 2
    MaxErrors = 1
    None = None

SPECIFICATION Spec

INVARIANTS
    TypeOK
    OldAnswersNeedASwitch

PROPERTIES
    ViewsCatchUp
    LoadingEndsOrHidesAnError

CHECK_DEADLOCK FALSE
