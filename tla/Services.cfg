SPECIFICATION Spec
CONSTANTS
    c1 = c1
    c2 = c2
    m1 = m1
    l1 = l1
    AuthSlots <- TwoClients
    MaxAuthWrites = 4
    Clients <- TwoClients
    MaxAttempts = 3
    Admins <- TwoClients
    MaxCodes = 5
    Uploaders <- TwoClients
    MaxFileSize = 2
    MaxTotalSize = 3
    MaxFiles = 3
    Scopes <- OneMember
    OrgWide = OrgWide
    Shifts <- ThreeShifts
    LastDate = 2
    Planners <- TwoClients
    MaxSchedules = 3
    Orgs <- TwoOrgs
    SuperAdmin = SuperAdmin
    Dates = {1, 2}
    Listed = {1}
    Lists <- OneList
    MaxHolidays = 2
    WorkingDays <- SundayToFriday
    HolidayDates <- Every13Days
    Behind = 1
    WorkShifts <- DayAndNight
    EarlyGrace = 1
    LateGrace = 2
    FirstDay = 3
    MonthEnd = 6
    DayOfLeave <- DaysAround
    Ahead = 1
    TaxConfigs <- SomeConfigs
    PaySettings <- SomePay
    MonthDays = {25, 32}
    OrgBonus = 100
    NoBonus = NoBonus
    Step = 100000
    MaxIncome = 60
    MaxLeave = 7
    NoPlace = NoPlace
    NoBranch = NoBranch
    NoRadius = NoRadius
    OrgRows <- SomeOrgs
    BranchRows <- SomeBranches
    Readings <- SomeReadings
SYMMETRY Swapped
INVARIANTS
    ServicesTypeOK
    OldSessionsEnd
    OneLivePerLine
    ResetOnce
    GuessesBounded
    CodesBounded
    QuotaBounded
    StoresAgree
    ResolvesToOne
    CalendarRight
    FiguresCounted
    ScansJudged
PROPERTIES
    OthersUnaffected
CHECK_DEADLOCK FALSE
