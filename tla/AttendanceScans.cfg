SPECIFICATION Spec
CONSTANTS
    t1 = t1
    t2 = t2
    r1 = r1
    Tasks <- TwoTasks
    Runs <- OneRun
    Ops <- Scans
    Day = 7
    Shift <- NightShift
    RosterShift <- DayShift
    Grace = 1
    Cooldown = 2
    DailyLimit = 2
    MaxTime = 14
    MaxRecords = 3
    Faults = TRUE
SYMMETRY TaskSymmetry
INVARIANTS
    TypeOK
    OneOpenRecord
    NoDoubleCounting
    DailyLimitKept
    ScansSpaced
