CONSTANTS
    Clips = {1, 2}
    Campaigns = {1}
    CampaignOf <- MCCampaignOf
    CpmRate <- MCCpmRate
    MaxCpm <- MCMaxCpm
    EffectiveRates = {1999}
    MaxViewsPerTick = 2
    MaxViews = 1
    MaxClock = 2
    MaxSnapshots = 2
    MaxCrashes = 0
    Faults <- XErrors

SPECIFICATION FairSpec

INVARIANTS
    ApprovedDeltasAreQueued

PROPERTIES
    EveryListedClipIsPolled

CHECK_DEADLOCK FALSE
