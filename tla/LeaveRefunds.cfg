SPECIFICATION Spec
CONSTANTS
    d1 = d1
    a1 = a1
    Devices <- OneDevice
    Admins <- OneAdmin
    YearLength = 1
    LastDay = 1
    MaxLeaves = 2
    Policies <- SomePolicies
    Cap = 3
    Adjustments <- SomeAdjustments
    Faults = TRUE
PROPERTIES
    RefundsOnlyApproved
