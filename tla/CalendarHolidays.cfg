SPECIFICATION CalendarSpec
CONSTANTS
    WorkingDays <- SundayToFriday
    HolidayDates <- Every13Days
    Behind = 1
INVARIANTS
    MonthCounted
CHECK_DEADLOCK FALSE
