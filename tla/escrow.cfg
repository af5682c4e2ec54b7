CONSTANTS
    MaxCampaigns = 2
    Accounts = {org, agent}
    ZeroAddress = zero
    SettlementIds = {s1, s2}
    UintMax = 3
    Amounts <- MCAmounts
    Durations <- MCDurations
    MaxDeposit = 2
    MaxTime = 1

SPECIFICATION Spec

INVARIANTS
    Solvency
    Conservation

PROPERTIES
    ImplementsLedger

CHECK_DEADLOCK FALSE
