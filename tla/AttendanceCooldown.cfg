SPECIFICATION Spec
CONSTANTS
    t1 = t1
    t2 = t2
    r1 = r1
    Tasks <- OneTask
    Runs <- OneRun
    Ops <- Scans
    Day = 7
    Shift <- NightShift
    RosterShift <- DayShift
    Grace = 1
    Cooldown = 2
    DailyLimit = 2
    MaxTime = 12
    MaxRecords = 3
    Faults = TRUE
INVARIANTS
    CheckInsSpaced
