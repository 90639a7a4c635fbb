SPECIFICATION FairSpec
CONSTANTS
    t1 = t1
    t2 = t2
    r1 = r1
    Tasks <- OneTask
    Runs <- OneRun
    Ops <- Everything
    Day = 3
    Shift <- ShortShift
    RosterShift <- ShortShift
    Grace = 1
    Cooldown = 1
    DailyLimit = 2
    MaxTime = 6
    MaxRecords = 1
    Faults = FALSE
PROPERTIES
    OriginalKept
    ForgottenClosed
