CONSTANTS
    Campaigns = {1, 2}
    Clips = {1, 2}
    CampaignOf <- MCCampaignOf
    CpmRate <- MCCpmRate
    MaxCpm <- MCMaxCpm
    Velocities = {0, 1}
    Factors = {12000, 20000}
    InitialDeposit <- MCInitialDeposit
    Amounts = {9}
    TopUps = {10}
    MaxBudget <- MCMaxBudget
    MaxCrashes = 1

SPECIFICATION FairSpec

INVARIANTS
    RatesWithinMax
    FeedShowsRates
    RunwayWasReal

PROPERTIES
    CampaignsArePaced

CHECK_DEADLOCK FALSE
