CONSTANTS
    k1 = k1
    k2 = k2
    org = org
    agent = agent
    wallet = wallet
    MaxCampaigns = 1
    Accounts = {org, agent, wallet}
    ZeroAddress = zero
    SettlementIds = {s1, s2}
    UintMax = 3
    Clips = {k1, k2}
    CampaignOf <- MCCampaignOf
    WalletOf <- MCWalletOf
    CapOf <- MCCapOf
    MaxCpm <- MCMaxCpm
    CpmRates <- MCCpmRates
    ViewDeltas <- MCViewDeltas
    Organizer = org
    Agent = agent
    InitialDeposit <- MCInitialDeposit
    MaxDuration = 1
    TopUps = {1}
    MaxDeposit = 3
    MaxTime = 1
    Faults <- CrashOnly
    MaxCrashes = 1

SPECIFICATION Spec

INVARIANTS
    FailedMeansUnpaid

CHECK_DEADLOCK FALSE
