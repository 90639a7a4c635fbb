----------------------------- MODULE BSCalendar -----------------------------
(***************************************************************************)
(* The Bikram Sambat calendar of lib/nepali-date.ts.                       *)
(*                                                                         *)
(* A date of the common calendar is the number of days since AD_REFERENCE, *)
(* 14 April 2013, a Sunday.  A conversion that throws is the empty set, a  *)
(* result the set of it.  The state machine is not of the code: it goes    *)
(* through the years day by day and counts as somebody with a wall         *)
(* calendar does, and the conversions, which start from the reference date *)
(* whenever they are called, are compared with it.                         *)
(***************************************************************************)
EXTENDS Naturals, Sequences, FiniteSetsExt

CONSTANTS
    WorkingDays,    \* days of the week an organization works, 0 is Sunday
    HolidayDates,   \* the dates of its holidays
    Behind          \* the days by which toISOString is behind at midnight:
                    \* 0 on a server in UTC, 1 on one in Asia/Kathmandu
ASSUME CalendarAssumption == WorkingDays \subseteq 0..6 /\ Behind \in 0..1

VARIABLES ad, bs, worked   \* today, twice, and the days worked this month
calendarVars == <<ad, bs, worked>>

-----------------------------------------------------------------------------
FirstYear == 2070
BS_CALENDAR_DATA == <<
    <<31, 31, 32, 31, 31, 31, 30, 29, 30, 29, 30, 30>>,
    <<31, 31, 32, 31, 32, 30, 30, 29, 30, 29, 30, 30>>,
    <<31, 32, 31, 32, 31, 30, 30, 30, 29, 29, 30, 31>>,
    <<30, 32, 31, 32, 31, 30, 30, 30, 29, 30, 29, 31>>,
    <<31, 31, 32, 31, 31, 31, 30, 29, 30, 29, 30, 30>>,
    <<31, 31, 32, 32, 31, 30, 30, 29, 30, 29, 30, 30>>,
    <<31, 32, 31, 32, 31, 30, 30, 30, 29, 29, 30, 31>>,
    <<30, 32, 31, 32, 31, 31, 29, 30, 30, 29, 29, 31>>,
    <<31, 31, 32, 31, 31, 31, 30, 29, 30, 29, 30, 30>>,
    <<31, 31, 32, 32, 31, 30, 30, 29, 30, 29, 30, 30>>,
    <<31, 32, 31, 32, 31, 30, 30, 30, 29, 29, 30, 31>>,
    <<31, 31, 31, 32, 31, 31, 29, 30, 30, 29, 30, 30>>,
    <<31, 31, 32, 31, 31, 31, 30, 29, 30, 29, 30, 30>>,
    <<31, 31, 32, 32, 31, 30, 30, 29, 30, 29, 30, 30>>,
    <<31, 32, 31, 32, 31, 30, 30, 30, 29, 29, 30, 31>>,
    <<31, 31, 31, 32, 31, 31, 29, 30, 30, 29, 30, 30>>,
    <<31, 31, 32, 31, 31, 31, 30, 29, 30, 29, 30, 30>>,
    <<31, 32, 31, 32, 31, 30, 30, 29, 30, 29, 30, 30>>,
    <<31, 32, 31, 32, 31, 30, 30, 30, 29, 29, 30, 31>>,
    <<31, 31, 31, 32, 31, 31, 30, 29, 30, 29, 30, 30>>,
    <<31, 31, 32, 31, 31, 31, 30, 29, 30, 29, 30, 30>> >>
Months == 0..12 * Len(BS_CALENDAR_DATA) - 1   \* of all years in one row

MonthOf(d) == 12 * (d.year - FirstYear) + d.month - 1
DaysInBSMonth(i) == BS_CALENDAR_DATA[1 + i \div 12][1 + (i % 12)]
Date(i, day) == [year |-> FirstYear + i \div 12, month |-> 1 + (i % 12),
                 day |-> day]
IsValidBSDate(d) ==
    /\ MonthOf(d) \in Months
    /\ d.day \in 1..DaysInBSMonth(MonthOf(d))

\* adToBS: whole months are taken off until the rest is inside one.  The
\* mutant keeps a date in the month that ended the day before.
AdToBS_Late(date) ==
    LET walk[at \in Nat \X Nat] ==
          LET i == at[1]
              left == at[2]
          IN  IF i \notin Months THEN {}
              ELSE IF left <= DaysInBSMonth(i) THEN {Date(i, left + 1)}
              ELSE walk[<<i + 1, left - DaysInBSMonth(i)>>]
    IN  walk[<<0, date>>]
AdToBS(date) ==
    LET walk[at \in Nat \X Nat] ==
          LET i == at[1]
              left == at[2]
          IN  IF i \notin Months THEN {}
              ELSE IF left < DaysInBSMonth(i) THEN {Date(i, left + 1)}
              ELSE walk[<<i + 1, left - DaysInBSMonth(i)>>]
    IN  walk[<<0, date>>]

\* bsToAD: the whole years, the whole months and the days before the date.
WholeMonths == [i \in Months |-> MapThenSumSet(DaysInBSMonth, 0..i - 1)]
BsToAD(d) ==
    IF IsValidBSDate(d) THEN {WholeMonths[MonthOf(d)] + d.day - 1} ELSE {}

\* getBSMonthADRange, and the dates getEffectiveWorkingDays looks at.
BSMonthADRange(i) ==
    UNION {first..first + DaysInBSMonth(i) - 1 : first \in BsToAD(Date(i, 1))}
WorkingDaysInBSMonth(i) == {d \in BSMonthADRange(i) : d % 7 \in WorkingDays}

\* Holidays are compared as text: a row's date is a midnight in UTC, a day
\* of the month one of the server.  The mutant leaves the first day out.
EffectiveWorkingDays_Rest(i) ==
    {d \in WorkingDaysInBSMonth(i) :
        d - Behind \notin HolidayDates /\ {d} # BsToAD(Date(i, 1))}
EffectiveWorkingDays(i) ==
    {d \in WorkingDaysInBSMonth(i) : d - Behind \notin HolidayDates}

-----------------------------------------------------------------------------
\* One more day on the wall calendar, worked or not.
Worked(date) ==
    IF date % 7 \in WorkingDays /\ date \notin HolidayDates THEN 1 ELSE 0
CalendarInit == ad = 0 /\ bs = Date(0, 1) /\ worked = Worked(0)
NextDay ==
    /\ ad' = ad + 1
    /\ bs' = [bs EXCEPT !.day = @ + 1]
    /\ worked' = worked + Worked(ad')
NextMonth ==
    /\ ad' = ad + 1
    /\ bs' = [bs EXCEPT !.month = @ + 1, !.day = 1]
    /\ worked' = Worked(ad')
NextYear ==
    /\ ad' = ad + 1
    /\ bs' = [year |-> bs.year + 1, month |-> 1, day |-> 1]
    /\ worked' = Worked(ad')
CalendarNext ==
    \/ bs.day < DaysInBSMonth(MonthOf(bs)) /\ NextDay
    \/ bs.day = DaysInBSMonth(MonthOf(bs)) /\ bs.month < 12 /\ NextMonth
    \/ /\ bs.day = DaysInBSMonth(MonthOf(bs)) /\ bs.month = 12
       /\ bs.year < FirstYear + Len(BS_CALENDAR_DATA) - 1
       /\ NextYear
CalendarSpec == CalendarInit /\ [][CalendarNext]_calendarVars

-----------------------------------------------------------------------------
\* Both conversions agree with the wall calendar on every date of the table,
\* and so with each other.
CalendarAgrees == AdToBS(ad) = {bs} /\ BsToAD(bs) = {ad}

\* What payroll divides by, the effective working days of a month, are the
\* days of the week worked that were no holiday (getEffectiveWorkingDays).
MonthCounted ==
    bs.day = DaysInBSMonth(MonthOf(bs)) =>
        worked = Cardinality(EffectiveWorkingDays(MonthOf(bs)))

\* In every time zone the effective working days differ from those worked
\* by the holidays that go on counting, as no holiday was on the day before,
\* and the working days lost to a holiday before them; with toISOString not
\* behind there is neither, and the month is counted as above.
MonthShifted ==
    LET i == MonthOf(bs)
        WasHoliday(d) == d - Behind \in HolidayDates
        kept == {d \in WorkingDaysInBSMonth(i) :
                    d \in HolidayDates /\ ~WasHoliday(d)}
        lost == {d \in WorkingDaysInBSMonth(i) :
                    d \notin HolidayDates /\ WasHoliday(d)}
    IN  bs.day = DaysInBSMonth(i) =>
          /\ worked + Cardinality(kept)
               = Cardinality(EffectiveWorkingDays(i)) + Cardinality(lost)
          /\ Behind = 0 => MonthCounted

\* Dates are those of the wall calendar, and months too but for the holidays
\* that are a day late (lib/nepali-date.ts).
CalendarRight == CalendarAgrees /\ MonthShifted
=============================================================================
