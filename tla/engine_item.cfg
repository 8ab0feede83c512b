SPECIFICATION Spec
CONSTANTS
    Countries <- MCCountries
    Allowed <- MCAllowed
    TargetDays = 15
    SafetyDays = 4
    OrderLines <- MCOrderLines
    OrderBooks <- MCOrderBooks
    LateOrders <- MCLateOrders
    Stocks <- MCStocks
    Mappings <- MCMappings
    Locals <- MCLocals
    Leads <- MCLeads
    Eligible <- MCEligible
    RuleBooks <- MCRuleBooks
INVARIANTS SplitFollowsOrders SampleIsVelocity EveryCountryExplained
           RestockReachesTarget ComponentsConserved
