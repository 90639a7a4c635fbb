SPECIFICATION FairSpec
CONSTANTS
    a1 = a1
    NoDate = NoDate
    Admins <- OneAdmin
    PlanSettings <- SomePlans
    Extensions <- OneExtension
    Prices <- SomePrices
    BillingDates <- SomeBillingDates
    FirstWarning = 2
    LastWarning = 1
    BillingWarning = 1
    BillingGrace = 1
    AbandonedAfter = 2
    Horizon = 3
    MaxEvents = 3
INVARIANTS
    TypeOK
    LimitedHasEnd
    OneFreeTrial
    EndsInTime
PROPERTIES
    SuspensionEnds
