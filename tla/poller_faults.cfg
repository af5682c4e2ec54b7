CONSTANTS
    Clips = {1}
    Campaigns = {1}
    CampaignOf <- MCCampaignOf
    CpmRate <- MCCpmRate
    MaxCpm <- MCMaxCpm
    EffectiveRates = {1999}
    MaxViewsPerTick = 1
    MaxViews = 2
    MaxClock = 2
    MaxSnapshots = 3
    MaxCrashes = 1
    Faults <- AllFaults

SPECIFICATION Spec

INVARIANTS
    ViewsQueuedOnce
    QueuedWithinPlausibleRate
    RowsPassTheCeiling
    AtMostOneStaleRow

CHECK_DEADLOCK FALSE
