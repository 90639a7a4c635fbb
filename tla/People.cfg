SPECIFICATION PeopleSpec
CONSTANTS
    u1 = u1
    u2 = u2
    u3 = u3
    u4 = u4
    u5 = u5
    b1 = b1
    b2 = b2
    s1 = s1
    s2 = s2
    NoMember = NoMember
    NoBranch = NoBranch
    Keep = Keep
    Users <- FiveUsers
    Founder = u1
    Staff <- OneHired
    Edits <- SingleEdits
    Branches <- TwoBranches
    Sessions <- TwoSessions
    EmployeeCap = 1
    MaxRequests = 6
    d1 = d1
    a1 = a1
    Devices <- OneDevice
    Admins <- OneAdmin
    YearLength = 1
    LastDay = 1
    MaxLeaves = 2
    Policies <- SomePolicies
    Cap = 3
    Adjustments <- SomeAdjustments
    Faults = TRUE
CONSTRAINT Bound
INVARIANTS
    MemberTypeOK
    MainStays
    OvershootBounded
    TypeOK
    NoOverlap
    NeverChargedTwice
    CarriedWithinCap
PROPERTIES
    LastAdminKept
    StrandedOnlyByReturn
CHECK_DEADLOCK FALSE
