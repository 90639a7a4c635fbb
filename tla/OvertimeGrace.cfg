SPECIFICATION FigureSpec
CONSTANTS
    WorkShifts <- DayAndNight
    EarlyGrace = 1
    LateGrace = 2
    FirstDay = 3
    MonthEnd = 6
    DayOfLeave <- DaysAround
    Ahead = 1
    TaxConfigs <- SomeConfigs
    PaySettings <- SomePay
    MonthDays = {25, 32}
    OrgBonus = 100
    NoBonus = NoBonus
    Step = 100000
    MaxIncome = 60
    MaxLeave = 7
INVARIANTS
    OvertimeAsDocumented
CHECK_DEADLOCK FALSE
