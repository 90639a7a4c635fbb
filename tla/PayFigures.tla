----------------------------- MODULE PayFigures -----------------------------
(***************************************************************************)
(* Four computations of payroll.service.ts: the overtime of one attendance *)
(* record (getDaysPresent), the days of one approved leave in a month      *)
(* (getApprovedLeaves), the monthly tax (calculateNepalTDS) and a payslip  *)
(* (calculateEmployeePayroll).                                             *)
(*                                                                         *)
(* The state machine is not of the code: it lets a stay go on hour by      *)
(* hour, a leave and the days present of a month day by day and an income  *)
(* rise step by step, and what the computation finds is compared at every  *)
(* step with a count, or with the step before.  Hours stand for minutes    *)
(* and rupees for paisa.                                                   *)
(***************************************************************************)
EXTENDS Integers, Sequences

CONSTANTS
    WorkShifts,             \* [start, end: hours of the day] of a record
    EarlyGrace, LateGrace,  \* of the organization
    FirstDay, MonthEnd,     \* the dates of the month
    DayOfLeave,             \* dates on which a leave may begin
    Ahead,                  \* quarters of a day by which the server's
                            \* midnight precedes that of UTC: 0, or 1 for
                            \* Asia/Kathmandu (5:45 hours)
    TaxConfigs,             \* rows of SystemConfig "tds_slabs"
    PaySettings,            \* rows of EmployeePaySettings
    MonthDays,              \* working days a month may have
    OrgBonus, NoBonus,      \* dashainBonusPercent: the organization's, null
    Step,                   \* by which an income rises, in rupees
    MaxIncome, MaxLeave     \* bounds on the walks
ASSUME DaysAssumption ==
    /\ WorkShifts \subseteq [start: 0..23, end: 0..23]
    /\ EarlyGrace \in Nat /\ LateGrace \in Nat
    /\ FirstDay \in Int /\ MonthEnd \in Int /\ FirstDay <= MonthEnd
    /\ DayOfLeave \subseteq Int
    /\ Ahead \in 0..1

VARIABLE figure   \* the walk, with what it has counted
figureVars == <<figure>>

-----------------------------------------------------------------------------
(* Overtime *)

\* The start of the shift is on the day of the check-in, its end on the next
\* one if that is earlier.
ShiftEnds(shift) == IF shift.end < shift.start THEN shift.end + 24 ELSE shift.end
\* Within the grace nothing counts, beyond it everything.
Beyond(hours, grace) == IF hours > grace THEN hours ELSE 0
Overtime(shift, in, out) ==
    Beyond(shift.start - in, EarlyGrace) + Beyond(out - ShiftEnds(shift), LateGrace)

-----------------------------------------------------------------------------
(* Leaves, in quarters of a day: those of a row are midnights in UTC, the  *)
(* first instant and the last one of the month are of the server.          *)

MonthStarts == 4 * FirstDay - Ahead
MonthStops == 4 * (MonthEnd + 1) - Ahead - 1
LeaveDays(from, to) ==
    LET start == IF 4 * from > MonthStarts THEN 4 * from ELSE MonthStarts
        end == IF 4 * to < MonthStops THEN 4 * to ELSE MonthStops
    IN  (end - start + 3) \div 4 + 1
OnLeave(from, to) == 4 * from <= MonthStops /\ 4 * to >= MonthStarts

-----------------------------------------------------------------------------
(* Tax: a limit of 0 is none. *)

Lakh == 100000
Slab(limit, rate) == [limit |-> limit, rate |-> rate]
DefaultConfig ==
    [firstSlabRate |-> 1, unmarried |-> 5 * Lakh, married |-> 6 * Lakh,
     slabs |-> <<Slab(2 * Lakh, 10), Slab(3 * Lakh, 20), Slab(10 * Lakh, 30),
                 Slab(30 * Lakh, 36), Slab(0, 39)>>]

\* An income that rises by steps does not step over the end of a slab.
InSteps(amount) == \E n \in 0..amount : amount = n * Step
ASSUME TaxAssumption ==
    /\ Step \in Nat \ {0} /\ InSteps(Lakh)
    /\ \A row \in TaxConfigs :
          /\ row.firstSlabRate \in Nat
          /\ \A first \in {row.unmarried, row.married} :
                first \in Nat \ {0} /\ InSteps(first)
          /\ row.slabs \in Seq([limit: Nat, rate: Nat])
          /\ \A i \in DOMAIN row.slabs : InSteps(row.slabs[i].limit)

ValidConfig(config) ==
    /\ config.firstSlabRate <= 50
    /\ \A i \in DOMAIN config.slabs : config.slabs[i].rate <= 50

\* validateTDSConfig, and who pays what in the first slab.
SlabsFor(row, isMarried, ssf) ==
    LET config == IF ValidConfig(row) THEN row ELSE DefaultConfig IN
    <<Slab(IF isMarried THEN config.married ELSE config.unmarried,
           IF ssf THEN 0 ELSE config.firstSlabRate)>> \o config.slabs

Taxable(remaining, slab) ==
    IF slab.limit = 0 \/ remaining < slab.limit THEN remaining ELSE slab.limit
\* A twelfth of a sum of percents, rounded.
Monthly(tax) == (tax + 600) \div 1200
CalculateNepalTDS(annual, slabs) ==
    LET tax[at \in (1..Len(slabs) + 1) \X Int] ==
          LET i == at[1]
              remaining == at[2]
          IN  IF i > Len(slabs) \/ remaining <= 0 THEN 0
              ELSE LET part == Taxable(remaining, slabs[i]) IN
                   part * slabs[i].rate + tax[<<i + 1, remaining - part>>]
    IN  Monthly(tax[<<1, annual>>])

-----------------------------------------------------------------------------
(* A payslip *)

AtLeast0(n) == IF n > 0 THEN n ELSE 0
Percent(n, rate) == (n * rate + 50) \div 100
DailyRate(basic) == (basic + 15) \div 30

Deductions == {"ssf", "pf", "cit", "tds"}
ASSUME PayAssumption ==
    /\ PaySettings \subseteq
          [basic: Nat, allowances: Nat, overtime: Nat, ssfRate: 0..100,
           pfRate: 0..100, cit: Nat, advance: Nat, bonus: Nat \cup {NoBonus},
           optedIn: SUBSET Deductions, isMarried: BOOLEAN]
    /\ MonthDays \subseteq Nat /\ OrgBonus \in Nat /\ NoBonus \notin Nat

\* row: the configuration of the slabs; offers: the deductions the
\* organization has enabled.  One is made if the employee's row has it too.
\* The mutant waives the tax of the first slab for every row with SSF.
WaivesFirstSlab_Raw(pay, offers) == "ssf" \in pay.optedIn
WaivesFirstSlab(pay, offers) == "ssf" \in offers \cap pay.optedIn

CalculateEmployeePayroll(pay, row, offers, workingDays, present, bonusMonth) ==
    LET made == offers \cap pay.optedIn
        absence == DailyRate(pay.basic) * (workingDays - present)
        gross == pay.basic + pay.allowances + pay.overtime - absence
        effectiveBasic == AtLeast0(pay.basic - absence)
        Deducted(d, amount) == IF d \in made /\ gross > 0 THEN amount ELSE 0
        ssf == Deducted("ssf", Percent(effectiveBasic, pay.ssfRate))
        pf == Deducted("pf", Percent(effectiveBasic, pay.pfRate))
        cit == Deducted("cit", pay.cit)
        advance == IF gross > 0 THEN pay.advance ELSE 0
        bonus == IF ~bonusMonth THEN 0
                 ELSE Percent(pay.basic, IF pay.bonus = NoBonus THEN OrgBonus
                                         ELSE pay.bonus)
        tds == Deducted("tds", CalculateNepalTDS(
                 12 * (gross + bonus - ssf - pf - cit),
                 SlabsFor(row, pay.isMarried, WaivesFirstSlab(pay, offers))))
        raw == ssf + pf + cit + advance + tds
        total == IF raw < gross + bonus THEN raw ELSE gross + bonus
    IN  IF present = 0 THEN [gross |-> 0, bonus |-> 0, total |-> 0, net |-> 0]
        ELSE [gross |-> gross, bonus |-> bonus, total |-> total,
              net |-> AtLeast0(gross + bonus - total)]

-----------------------------------------------------------------------------
(* The walks *)

Stays == [of: {"stay"}, shift: WorkShifts, in: 0..23, hours: {0},
          early: {0}, late: {0}, begun: {FALSE}]
Leaves == {[of |-> "leave", from |-> d, to |-> d,
            days |-> IF d \in FirstDay..MonthEnd THEN 1 ELSE 0] :
              d \in DayOfLeave}
Incomes == {[of |-> "income", slabs |-> SlabsFor(row, isMarried, ssf),
             annual |-> 0, tax |-> 0, slab |-> 1, within |-> 0] :
              row \in TaxConfigs, isMarried \in BOOLEAN, ssf \in BOOLEAN}
PaidMonths == [of: {"month"}, pay: PaySettings, row: TaxConfigs,
               offers: SUBSET Deductions, workingDays: MonthDays,
               bonusMonth: BOOLEAN, present: {0}]
FigureInit == figure \in Stays \cup Leaves \cup Incomes \cup PaidMonths

AtWork(shift, hour) ==
    IF shift.start <= shift.end THEN shift.start <= hour /\ hour < shift.end
    ELSE shift.start <= hour \/ hour < shift.end
\* An hour outside of the shift is early before its first hour, late after.
AnHour ==
    LET on == AtWork(figure.shift, (figure.in + figure.hours) % 24) IN
    /\ figure.of = "stay" /\ figure.hours < 23
    /\ figure' = [figure EXCEPT
         !.hours = @ + 1, !.begun = @ \/ on,
         !.early = IF on \/ figure.begun THEN @ ELSE @ + 1,
         !.late = IF ~on /\ figure.begun THEN @ + 1 ELSE @]
ADay ==
    /\ figure.of = "leave" /\ figure.to < figure.from + MaxLeave
    /\ figure' = [figure EXCEPT
         !.to = @ + 1,
         !.days = IF figure.to + 1 \in FirstDay..MonthEnd THEN @ + 1 ELSE @]
\* One step more, taxed at the rate of the slab that has room for it.
AStep ==
    /\ figure.of = "income" /\ figure.annual < MaxIncome * Step
    /\ LET full == figure.slab <= Len(figure.slabs)
                   /\ figure.slabs[figure.slab].limit = figure.within
                   /\ figure.within > 0
           slab == IF full THEN figure.slab + 1 ELSE figure.slab
           rate == IF slab <= Len(figure.slabs) THEN figure.slabs[slab].rate
                   ELSE 0
       IN  figure' = [figure EXCEPT !.annual = @ + Step,
                        !.tax = @ + Step * rate,
                        !.slab = slab,
                        !.within = IF full THEN Step ELSE @ + Step]
ADayPresent ==
    /\ figure.of = "month" /\ figure.present < figure.workingDays
    /\ figure' = [figure EXCEPT !.present = @ + 1]
FigureNext == AnHour \/ ADay \/ AStep \/ ADayPresent
FigureSpec == FigureInit /\ [][FigureNext]_figureVars

-----------------------------------------------------------------------------
\* A stay that reaches its shift, and does not begin on the second day of
\* one that crosses midnight: the stays that overtime is counted for.
ReachesShift ==
    /\ figure.of = "stay" /\ figure.begun
    /\ figure.in + figure.hours <= 24 + figure.shift.start
    /\ figure.shift.end < figure.shift.start => figure.in >= figure.shift.end
OvertimeOfStay == Overtime(figure.shift, figure.in, figure.in + figure.hours)

\* No hours before or after the shift are paid within the grace of their
\* side.  Beyond it, all that exceed the grace are, and no others but those
\* of the grace itself (getDaysPresent).  Whether those are paid the code
\* and its comment see differently: OvertimeAsDocumented.
OvertimeCounted ==
    ReachesShift =>
        /\ OvertimeOfStay >= AtLeast0(figure.early - EarlyGrace)
                             + AtLeast0(figure.late - LateGrace)
        /\ OvertimeOfStay <= (IF figure.early > EarlyGrace THEN figure.early ELSE 0)
                             + (IF figure.late > LateGrace THEN figure.late ELSE 0)

\* "60 min late - 30 grace = 30 min OT": the grace of each side is taken off
\* its hours (the comment on getDaysPresent, payroll.service.ts:1346-1353).
OvertimeAsDocumented ==
    ReachesShift =>
        OvertimeOfStay = AtLeast0(figure.early - EarlyGrace)
                         + AtLeast0(figure.late - LateGrace)

\* A leave counts its days in the month, and one too many exactly if it goes
\* on into the next month or, where the server is ahead of UTC, began in the
\* last one (getApprovedLeaves).
LeaveCounted ==
    figure.of = "leave" /\ OnLeave(figure.from, figure.to) =>
        LeaveDays(figure.from, figure.to) - figure.days =
          IF figure.to > MonthEnd \/ (figure.from < FirstDay /\ Ahead > 0)
          THEN 1 ELSE 0

\* The tax of an income is what its steps pay one by one, each at the rate
\* of the slab it falls into (calculateNepalTDS).
TaxCounted ==
    figure.of = "income" =>
        CalculateNepalTDS(figure.annual, figure.slabs) = Monthly(figure.tax)

\* A day is worth something, and SSF and PF leave a fifth of it: their rates
\* may be up to 100 percent each (paySettingsSchema).
LeavesAFifth(pay) == DailyRate(pay.basic) >= 5 /\ pay.ssfRate + pay.pfRate <= 80

\* Net pay and deductions make up gross pay and bonus.  A day more at work
\* never pays less, as long as anything was earned before and SSF and PF
\* leave enough of it, nor does an organization that stops a deduction,
\* whatever that does to the tax; but without SSF the first slab is taxed.
\* What an employee has opted in to makes no difference unless the
\* organization offers it (calculateEmployeePayroll).
PayslipFair ==
    LET Slip(offers, present) ==
          CalculateEmployeePayroll(figure.pay, figure.row, offers,
                                   figure.workingDays, present,
                                   figure.bonusMonth)
        slip == Slip(figure.offers, figure.present)
        before == Slip(figure.offers, figure.present - 1)
    IN  figure.of = "month" =>
          /\ slip.net >= 0
          /\ slip.gross + slip.bonus >= 0 =>
               slip.net + slip.total = slip.gross + slip.bonus
          /\ figure.present > 0 /\ before.gross > 0 /\ LeavesAFifth(figure.pay)
               => slip.net >= before.net
          /\ slip = CalculateEmployeePayroll(
                      [figure.pay EXCEPT !.optedIn = @ \cap figure.offers],
                      figure.row, figure.offers, figure.workingDays,
                      figure.present, figure.bonusMonth)
          /\ \A d \in figure.offers \ {"ssf"} :
               Slip(figure.offers \ {d}, figure.present).net >= slip.net

\* The figures are those somebody finds who counts (payroll.service.ts), as
\* far as said above.
FiguresCounted == OvertimeCounted /\ LeaveCounted /\ TaxCounted /\ PayslipFair
=============================================================================
