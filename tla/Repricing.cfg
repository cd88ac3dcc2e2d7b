\* Every formula under every combination of the limits, and two editors who
\* patch a strategy at once.
CONSTANTS
    NoValue = NoValue
    Editors = {e1, e2}
    Requests <- AllRequests
    Patches <- EditPatches
    Costs <- AllCosts
    MarketPrices <- Reported
    FreshPrices <- FreshOnes
    ManualPrices <- ManualLists
    Marketplace = "ozon"
SPECIFICATION Spec
INVARIANTS RepricingTypeOK LimitsAgree UndercutsHalf
PROPERTIES LimitsYieldInOrder NearestAdmissible HitExplainsPrice
ACTION_CONSTRAINT OneQuestion
CHECK_DEADLOCK FALSE
