CONSTANTS
    mine = mine
    again = again
    fund = fund
    Flows <- MCFlows
    Creates <- MCCreates
    ChallengePolls = 2
    TransactionPolls = 2

SPECIFICATION Spec

INVARIANTS
    TypeOK
    PricedAsEntered
    OneRowPerCampaign
    ReportsAreTrue

PROPERTIES
    FlowsEnd

CHECK_DEADLOCK FALSE
