# Verification of the Attend-Xpress backend

TLA+ modules for the parts of the backend that carry its own logic, TLC
configurations that check them on small instances, and TLAPS proofs of what
matters most for every instance.  Paths are relative to the repository; `A`,
`P`, `L`, `B` and `J` stand for `src/src/services/attendance.service.ts`,
`payroll.service.ts`, `leave.service.ts`, `leaveBalance.service.ts` (same
directory) and `src/src/jobs/midnight-autoclose.job.ts`.

## The system

An Express server on PostgreSQL (through Prisma) and Redis.  A request runs in
one Node process as a chain of awaited queries, so any two requests interleave
at every `await`; several server processes may run.  Most handlers check what
they have read and write by primary key in a later statement.  A few use a
transaction: `runSerializable` (retried, payroll status changes), a Serializable
transaction without a retry (scans), or the default READ COMMITTED level
(payroll generation, QR rotation), which does not make a check and a write
atomic.  Side effects are often *detached promises*: started and not awaited,
their failure only logged.  Cron jobs run in the same process.

| Component | State | Operations | What is hard, and what makes it correct |
|---|---|---|---|
| Payroll workflow (`P`) | `PayrollRecord` per employee and month: status, figures, `approvedAt`, `paidAt`, override mark | generate (loop over employees), regenerate one, single and bulk status changes, flag after a correction | two handlers on one payslip; READ COMMITTED guards; three tables of transitions. Paid means approved content, by somebody entitled |
| Attendance clock (`A`, `J`) | `AttendanceRecord`: check-in, check-out, status, original check-in, review mark | scan (QR, PIN, mobile), manual clock, edit, acknowledge, mark present, auto-close | devices and the job racing; wall-clock shift ends. One open record, no time counted twice, forgotten records closed |
| Geofence and the way to the clock (`A`, `geofence.ts`) | settings of the organization and the branch, code, scan | four entry points, settings changes, revocation | several queries per scan. A scan is judged by settings that were in force |
| Leave and balances (`L`, `B`) | `Leave`, `LeaveBalance` per year | request, cancel, decide, detached balance update, initialize year, adjust | check-then-create, late balance updates. No overlap, no double charge |
| Subscriptions (`superadmin.subscription.service.ts`, five jobs) | `OrgSubscription`: status, dates, reminders | assign tier, price, suspend, expire, extend, reactivate, daily jobs | jobs list rows and write them later while admins act. Trials and grace periods end, on time |
| Members and branches (`user.service.ts`, `branch.service.ts`) | `OrgMembership`, `Branch`, employee count | join, return, edit, remove, recount, branch edits | last-admin guard and seat limit are check-then-write. An admin stays, the cap is overshot by little |
| Sessions and credentials (`auth.service.ts`, `jwt.ts`) | `Session` rows, password, reset tokens | login, refresh with rotation, logout, change, reset, cleanup | two refreshes of one token; several statements per reset. Old sessions end, a mail works once |
| Lockout (`lockout.ts`, `scan-lockout.ts`) | failure counters, in Redis or memory | check, count, clear, expiry, sweep | a count is a get and a set; Redis fails. Guesses stay bounded |
| QR codes (`qr.service.ts`) | `QRCode`: active, expiry | generate, static, regenerate, revoke | two rotations leave two active codes |
| Documents (`documents.service.ts`) | rows and S3 objects, quota | upload, delete | two stores, no common transaction |
| Roster (`roster.service.ts`) | schedules with dates and weekdays | create, update, delete, resolve for a date | overlap rule and resolution disagree |
| Holidays (`holiday.service.ts`) | master and own holidays, overrides | sync, import, create, edit | lists gone through row by row. An organization's days off are its own |
| BS calendar, payroll figures | tables and pure functions | convert, count, compute | month and year ends, local midnight against UTC, caps and slabs |
| Field tracking, notifications, reports, PDFs, email, settings, plumbing | | | I/O, reads, or independent updates |

How they interact: a scan passes the lockout, the code and the fence
(`Lockout`, `QRCodes`, `ScanRequests`) on its way to the clock
(`AttendanceClock`); scans, edits and marked days write the records payroll
computes from; an edit under a settled payslip starts a detached flag
(`flagAttendanceEdit`, `A`:1494); leave decisions start a detached balance
update; payroll divides by the working days of the BS calendar without the
holidays; feature guards read the subscription; every admin operation is
filtered by `getBranchScope` (`src/src/lib/branch-scope.ts`).

`PROJECT.json` lists every component with its sources, the hazards at their
lines with the properties that cover them, and for every definition the lines it
stands for.

## The modules

### PayrollWorkflow

One organization, one BS month.  `slip[e]` is the `PayrollRecord` row of an
employee, `att[e]` the version of the attendance a computation reads, and
`task[t]` the local variables of a handler between two awaits.  Money is
abstracted: a payslip remembers the *version* (`basis`) it was computed from,
which is all its safety depends on.  `approved` stands for `approvedAt` with who
approved what.

| Action | Code |
|---|---|
| `GenerateStart`, `GenerateCompute`, `GenerateRead`, `GenerateWrite` | `generatePayroll`: the loop; per employee the computation, then the status read and the upsert of one READ COMMITTED transaction |
| `RegenerateRead`, `RegenerateCompute`, `RegenerateWrite` | `regenerateForEmployee`: status check, computation, upsert |
| `UpdateStatus`, `BulkUpdateStatus` | serializable and retried, hence one step each |
| `CorrectAttendance`, `FlagRead`, `FlagWrite` | an edit and its detached `flagPayrollNeedsRecalculation` |
| `ClockEvent` | clock-ins and clock-outs, which never flag |
| `TaskFails` | a failing statement, a refusal in the loop, a restart |

`PayslipLifecycle` is the abstract specification: every payslip walks one graph
(draft, processed, approved, paid; a flag from anywhere; back to draft by a
computation only) and an approval is of the content at hand.  `Lifecycle` in
PayrollWorkflow is the refinement mapping.

### AttendanceClock

The records of one membership.  Time is in units, `Day` units to a day, so that
shift ends, grace windows and calendar days are arithmetic, as in the code.
`rec` is the sequence of rows, `task[t]` a request between its read and its
write, `run[r]` a run of the auto-close job with the records it listed.

| Action | Code |
|---|---|
| `ScanRead`, `ScanCommit`, `ScanAbort` | `performClockActionSafe`: a Serializable transaction that is not retried.  The read decides to check in, to check out, or to close a forgotten record and check in; the commit makes other scans in flight abort, and a scan aborts if its row was updated |
| `ManualRead`, `ManualWrite` | `manualAttendance`, two statements |
| `EditRead`, `EditWrite` | `editAttendance`, with the accountant's restrictions |
| `AcknowledgeRead`, `AcknowledgeWrite`; `MarkRead`, `MarkWrite` | `acknowledgeAttendance`; `markPresent` |
| `RunStart`, `RunRecord`, `RunEnd`, `RecordFails` | `runAutoClose`, record by record, updating by id |
| `Tick`, `TaskFails`, `Restart` | time, failures, death of the process |

The job resolves the shift through the roster while a scan uses the shift of the
membership or organization: `RosterShift` and `Shift` are different constants.

### LeaveManagement

The leaves of one membership and one balance bucket (annual, sick and casual
never meet).  A deleted row stays with status `DELETED`; `approved` and
`adjusted` are history.

| Action | Code |
|---|---|
| `RequestRead`, `RequestCreate`; `CancelRead`, `CancelDelete` | `requestLeave`; `cancelLeave` |
| `DecideRead`, `DecideWrite` | `updateLeaveStatus`, which starts a hook |
| `HookFlag`, `HookBalance`, `HookWrite`, `HookFails` | the detached `handleLeaveDecision` |
| `InitializeStart`, `InitializeRead`, `InitializeCreate` | `initializeYear`, with the carry-over |
| `Adjust`, `ChangePolicy` | `adjustBalance`; the organization's settings |

### SubscriptionLifecycle

The subscription of one organization.  Dates are days relative to today: a
`NextDay` moves them all, and a date `Horizon` days back stays there.

| Action | Code |
|---|---|
| `AdminRead`, `AdminWrite` | the handlers of the super admin: read and check the row; write by organization in a later transaction (`assignTier`, `overridePricing`, `suspendSubscription`, `markAsExpired`, `extendTrial`, `reactivateSubscription`) |
| `ChangePlan`, `SetBillingDate` | the plan's trial and grace days; a billing date entered in the database, since no code writes `nextBillingDate` |
| `JobStart`, then `TrialFirst`, `TrialFinal`; `GraceReminder`, `GraceEnd`; `BillingReminder` .. `BillingSuspend`; `PriceExpiry`; `Abandon` | the five jobs: what a run lists at its start, and one step for each update or further query |
| `JobFails`, `NextDay` | a failed or missed run; the date changes after the day's runs |

### Membership

The members and branches of one organization.  A request (`task[s]`) holds what
its guards have concluded until it writes; the role and branch it acts with are
those in the token of the login (`token[s]`), however stale.  `Begin` has the
reads of `createUser`, `addExisting`, `updateUser`, `updateStatus`, the self
update and `removeUser`; `Write` / `WriteConflict` the transaction; `Recount`,
`Store`, `SyncFails` the two statements of the seat count whose failure is only
logged; `BranchCreate`, `BranchUpdate`, `BranchDeleteRead`, `BranchDelete` the
super admin's branches.

### The services

Each of these is a specification of its own; `Services` puts them side by side,
since they share no rows, and `MCServices` explores that in one run.

- `SessionTokens`: login, refresh (look-up, rotation, and the wipe when a rotated
  token comes back), logout, cleanup, password change and reset, statement by
  statement, for one user.  A row stands for its access and its refresh token.
- `Lockout`: the login and the scan lock for one key: `CheckLockout`, then a
  failure as `ReadRecord` and `StoreRecord` in Redis or one step in memory;
  Redis goes down and up, records run out.
- `QRCodes`: rotating and static codes with READ COMMITTED transactions, i.e.
  the revocation finds the rows committed so far and takes effect with the new
  row.
- `ScanRequests`: one scan query by query from each of the four entry points to
  the clock, with the decision of `lib/geofence.ts`, while settings, branch and
  code change.
- `Documents`: quota check, S3 and row of uploads and deletions.
- `Roster`: the overlap check and the write of schedules, and what a resolution
  may find (`Found`).
- `Holidays`: sync and import row by row, own and national holidays, overrides,
  and the days off of a month (`DaysOff`).
- `BSCalendar`: the table of `nepali-date.ts`, both conversions and the effective
  working days as operators; the state machine walks the 21 years of the table
  day by day as a reference.  The loop of `adToBS` is a recursive function of its
  two variables, the month it has reached and the days left.
- `PayFigures`: overtime, leave days, tax and payslip as operators, each against
  a reference that counts hour by hour, day by day or step by step.  The loop of
  `calculateNepalTDS` is a recursive function of the slab and the income left.

## The runs

| Run | Instance | Shows |
|---|---|---|
| `payroll` | races: one employee, two tasks of an accountant and a branch admin, two attendance changes; scopes: two employees of two branches, one task, admins with and without a branch; failures of computations, fairness | types; approved and paid payslips carry what was approved (`ApprovedContent`); the override mark follows a payment; the workflow implements `PayslipLifecycle`; an admin with a branch never writes outside of it; a correction under a settled payslip is followed by its flag or a recomputation |
| `payroll_regenerate_locked` | (violated) | a regeneration replaces a payslip approved meanwhile |
| `attendance_scans` | two devices and the job over two days, a night shift with a day roster, a cooldown of two units, failures and restarts | one open record; no time counted twice; daily limit; cooldown, but after a record that the job has backdated |
| `attendance_cooldown` | (violated) | a close by the job, dated before a fresh check-in, hides it from the cooldown |
| `attendance_corrections` | all operations, one request at a time, and the job on one record, over two days, with fairness | the original check-in survives; every forgotten record is closed |
| `leave_refunds` | (violated) | rejecting a pending leave gives back days it never took |
| `subscriptions` | one super admin, all jobs, three decisions or failures, fairness | trials and grace periods have an end and last a day longer for each failed run at most; one free trial; a dated suspension ends |
| `people` | two sessions of members with tokens of an earlier login, five users, two branches; or the leaves of one employee | the only ways to lose the last admin or strand a member; by how much the cap is overshot; active leaves apart, charged once, carry-over capped |
| `services` | two requests at once in each service, failures and expiry; all 21 years of the calendar, on a server in Asia/Kathmandu; all cases of the figures | what each service keeps, and the pure functions against their references |
| `calendar_holidays` | (violated) | with the server in the time zone the code asks for, a holiday takes out the next day |
| `duplicate_codes` | (violated) | two admins who rotate the code at once leave two active rotating codes |
| `overtime_grace` | (violated) | overtime beyond the grace is paid with the grace, which the comment takes off |

The violated properties are sentences of the code's own messages and comments,
quoted in `PROJECT.json` under "findings".  Every property of a passing run has a
mutant of the code (an operator beside its original, such as
`AbortOtherScans_ReadCommitted`) under which TLC finds it violated.

`people` and `services` put independent specifications into one run: the
variable `people` or `service` picks one, the others keep their initial values.
This is sound because they share no variable (for the services it is the lemma
`ServicesApart`), and every behaviour of each of them within its bounds is
explored.  `payroll` picks one of two sets of restrictions on one specification
in the same way.  Such runs do not check deadlock: a service may be
left alone, and the walk through the calendar ends.

### Bounds

- Payroll: races on a payslip need one employee and two tasks; scopes, the loop
  and bulk changes need two employees and one task.  `MaxVersion` = 2 lets a
  payslip be computed, outdated, computed again and outdated again, in a race.
- Attendance: two devices are enough for a race of scans (a third would abort
  with the second); seven units to a day put units before, in and after a shift
  and its grace window, and a cooldown of two of them has a time at which a scan
  is too early and the previous check-in is not in the same unit; fourteen units
  and three records cover a forgotten record, its close and the next ones, over
  a midnight.  Corrections take pairs of times as input and use smaller days, one
  record and one request at a time; `OriginalSurvives` proves what they keep for
  any number of requests that race.
- Leave: two years of one day, leaves of one or two days (so that one crosses
  the year), two leaves; entitlements below and at the cap, a disabled policy;
  an adjustment to a negative number, which nothing validates.  The state
  constraint `Bound` of MCLeaveManagement keeps the settings still once there are
  two leaves and adjusts one year at most; every action is reached within it.
- Subscriptions: `MaxEvents` = 3 decisions, plan changes and failed runs
  together (assign, then two that interfere); trials and periods of one or two
  days; `Horizon` = 3 keeps every threshold distinguishable.
- Membership: three requests by two sessions, each an edit of one field; a cap
  of one seat, so that two joins meet at it; two branches.  The largest overshoot
  takes more requests (recounts that are old when they are stored, with joins
  before, between and after them): in the behaviours of `people` named "seats"
  there are six, which only hire and remove employees, and there the cap is
  overshot by the two that `OvershootBounded` allows.
- Services: two clients, which every check-then-write race needs; `MaxAttempts` =
  3, so that a late set can undo a count twice; quota for three files; three
  schedules whose ranges and weekdays overlap, touch or are apart; two dates of
  which the public list has one.  Symmetry of the two clients is sound: no
  definition names one.
- Codes: two admins and five codes, so that one may be made after another was
  revoked on either side; a static code that lives a day, longer or without end
  (`staticQRExpiryDays` is set in the database only).
- Holidays: all four types, national ones included.
- Calendar and figures have no bound but their tables: all 7670 days; shifts of
  a day and of a night with every stay of up to a day, leaves of up to a week
  around a month, incomes over all slabs, and payslips over the combinations of
  deductions for three pay levels and two tax configurations.  An income rises by
  `Step` = 100,000 rupees, of which all limits of slabs are multiples, sixty
  times; the proof has any step of which they are, one rupee included.

### Fairness

- `PayrollWorkflow!FairSpec`, which `PayrollSpec` of the run narrows to its two
  kinds of behaviour: weak fairness of each task.  The event loop runs every
  continuation whose query has answered.  Computations may fail;
  failures of the flag itself are switched off (`FailingOps`), because nothing in
  the code repeats a flag that failed.
- `AttendanceClock!FairSpec`: time passes, cron starts a run at midnight (within
  the time unit in which the date changes), and a run that has begun goes on.
  Nothing is assumed of the employees.
- `SubscriptionLifecycle!FairSpec`: cron starts every job every day, runs and
  requests go on, days pass.  Runs may fail or be missed, `MaxEvents` times.

## The proofs

TLAPS checks the following for all values of the constants (any number of
employees, tasks, devices, sessions and admins, any shift, period and bound),
under each module's named assumption; where a theorem needs more, it says so in
its statement and here.  None of the invariants of the runs is inductive as it
stands; the strengthenings were checked by TLC before they were proved.

The assumptions on constants are what the code or the deployment has: numbers
are naturals (adjustments integers), sets of clients are finite where they are
counted, shifts lie within a day, rates are percentages as `payroll.schema.ts`
has them, limits of slabs are multiples of the step of the reference. Three
exclude instances in which nothing can happen or the bound would not be one:
somebody uploads (`SizesAssumption`), somebody is logged in
(`FounderAssumption`), and the organization starts within its cap
(`BoundsAssumption`).

**PayrollWorkflowProofs** - `TypeCorrect`, `ApprovalSafety`, `BranchSafety`,
`OverrideSafety` and `Refinement` (Spec implies `PayslipLifecycle`). The status
machine alone does not exclude a task that has read PAID and is about to mark a
payslip that was never paid, or a branch admin's loop that still holds an
employee of another branch. A branch admin whose token names no branch, to whom
`getBranchScope` gives the whole organization, is a role of its own
(`BRANCHLESS_ADMIN`) that `BranchSafety` says nothing about. `IInv` adds what
each task in flight knows (`TaskInv`) and, for each row, that PAID has its time
stamp (`RowInv`); it survives the other tasks' steps because rows and `paidAt`
are never undone (`RowKept`). The refinement maps each action to one disjunct of
`PayslipStep` for the rows it moves and to a stutter for the rest.

**AttendanceClockProofs**
- `TypeCorrect`, whose content is that no automatic close lies in the future, and
  `OneOpen`: if only scans check in, there is at most one open record.
  `KnownRecords` adds what a request knows for good (its record exists, the shift
  it is about to close has ended); `ScansClaim` adds that every scan in flight
  still has the truth about the open records.  The difficult step is the commit
  of a scan, which falsifies the claims of the others, and also aborts them.
- `CooldownHolds`, `LimitHolds`, `CountedOnce`: the cooldown, the daily limit and
  that no time is in two records.  They assume that employees scan and nobody
  corrects (`Ops \subseteq {"scan", "acknowledge"}`): a manual clock-in looks at
  neither the cooldown nor the limit, and an edit may set any times.  `ClockInv`
  relates the rows to the clock and to everybody under way: records follow each
  other in time and only the last may be open (`Ordered`); a run of the job has
  seen the check-in of what it will close, and whatever came later came after the
  run began (`Remembers`), so that a late close does not reach into the next
  record; and a scan in flight has waited long enough after every record and
  found room under the limit, which stays so until it commits, over midnight and
  while the job closes records, because another commit would abort it
  (`Readies`).  `Moves` says what a step may do to the rows; each conjunct of the
  invariant follows from it without looking at the actions again.
- `OriginalSurvives`, an action property, for all operations: the first edit
  keeps the check-in the record was created with.  `Originals` adds that an edit
  that read a record without an original still knows its check-in or finds the
  same one kept by another edit.

**LeaveManagementProofs**
- `LeaveTypeCorrect` (decisions and hooks find their leave; the days carried and
  used of a year are never negative unless an adjustment was entered by hand)
  and `CarryOverCapped`. `LeaveInv` needs room for every create under way, the
  first day of a leave before its last (or its length would not be a number of
  days to add), and the cap of the row an initialization is about to create,
  since the policy may have changed.
- `LeavesApart` assumes one request at a time and one admin (`OneAtATime`) and
  adds that a create under way has nothing active to overlap (`RoomToCreate`) and
  that a decision under way cannot revive a rejected leave (`NoRevival`).
- `ChargedOnce` assumes one admin (`OneAdmin`; with two, a leave is charged
  twice).  `ChargeInv` says of each year that the days used and the days that
  hooks are still to add do not exceed the approved ones.  Hooks read and write a
  balance in separate statements, so it also says which of the hooks that have
  read a balance read the one that is there (`Books`), and what a write replaces.

**SubscriptionLifecycleProofs**
- `SubTypeCorrect` and `TrialsHaveEnds`.  `SubInv` adds that whoever is about to
  write has found the row and that an admin about to give a trial holds a number
  of days; the row lemmas show what each write does to a row that is not the one
  read.
- `OneTrialEach` assumes one super admin: then what was read of the trial is
  still so at the write (`ReadIsFresh`), because jobs and days never touch it.
- `TrialsEndInTime`, for any number of super admins.  `EndInv` distinguishes, for
  each of the two jobs, whether today's run has seen to the row (`TrialSeen`,
  `GraceSeen`): until then an end may be late by a day for each failed run, and
  afterwards by one day less, which the next day uses up.  It is the row that the
  run has listed that decides; whatever others write meanwhile leaves the end
  alone or gives a day at least (`EndKept`, `DaysGiven`).

**MembershipProofs**
- `MemberTypeCorrect`, `MainBranchStays`, `LastAdminStays` and `StrandedByReturn`
  (the last two are action properties).  `MemberInv` adds that main branches are
  active, that there is one at most, and what the guard of a removal under way
  still guarantees unless another write has made it stale; `OrderInv` adds what a
  request carries and that a branch about to be deleted has been found empty.
- `CapOvershootBounded`: `SeatInv` bounds the employees by the cap, the joins
  that have passed the check (`Adding`) and those that old recounts will let in
  (`Holding`).  Each old recount that is stored opens the check for one session
  fewer than the one before, hence `2 * (E - cap - unchecked) <= (n - 1) * (n + 2)`
  with `n` sessions.  The bound of n - 1, which two sessions and three requests
  do not exceed, is wrong in general: the proof failed at a recount stored late,
  and TLC reaches the bound above.

**LoginProofs**
- `SessionTypeCorrect`, `OldSessionsGone`, `ResetsOnce` and `RotationKeepsOne`.
  `ResetsOnce` needs to know, for every reset under way, whether a second request
  holds the same token, and that a used token is marked, shared or cut short.
  `RotationKeepsOne` counts the live rows of a login together with the requests
  that will still make one (`LinesInv`).
- `GuessesStayBounded`, in both stores.  In memory, as long as there is no lock
  the record has counted every failure and is below the limit, so that only those
  past the check when it locks come on top (`MemoryInv`).  In Redis a late write
  may put back a lower count, so no count is an invariant.  `RedisInv` gives every
  client a level, the highest count it can still put back, and looks at how many
  clients are at each level or below it (`Profile`).  A wrong guess makes this
  profile smaller in the order that compares the lowest levels first, and nothing
  but the end of the record makes it greater; the failures and the profiles still
  left (`Left`) therefore do not exceed all profiles, and with `n` clients and a
  limit of `m` there are C(m + n, n) of those (`ChooseCountsStairs`).

**ServicesProofs**, one part for each service
- `CodesStayBounded` counts by owners: every active rotating code can be given
  an admin of its own such that a request of that admin under way, if it will
  make a rotating code, revokes the one he owns; and likewise every static code
  with more than a day left.  It assumes an admin.  Static codes in their last
  day have no bound: nothing but a rotation revokes them before they expire.
- `RightlyJudged`: the invariant says of every point of a scan which settings it
  has read and that a moment is remembered at which they were in force.
- `StoresOnlyDriftWhenCut` (the database and S3 agree on a file nobody is working
  on, unless a request on it was cut short) and `QuotaOvershootBounded` (the files
  and the uploads under way exceed the quota by one file for each other request).
- `DatesResolveToOne`: what a planner has compared it has compared with every
  schedule that was not written side by side with its own.
- `HolidayTypes` and `OrganizationsApart` (an action property): an organization's
  admin changes nobody else's days off, but by listing a national holiday.
- `ConversionsAgree` and `CalendarIsRight`.  The invariant says what the wall
  calendar shows in terms of the table alone: today is so many days into a month,
  the days of the months before have passed, and the days worked are those of the
  month up to today (`WallCalendar`).  That the walk of `adToBS` ends in the month
  that holds a date and `bsToAD` leads back from there (`AdToBSFinds`,
  `BsToADFinds`) rests on the months lying one after the other without a gap
  (`OneMonth`).  `CalendarIsRight` is for any time zone: the effective working
  days differ from the days worked by the holidays that still count and the days
  that are lost after one (`MonthShifted`).  In UTC there are none of either; on
  a server in Asia/Kathmandu the plain claim `MonthCounted` is wrong, which the
  run `calendar_holidays` shows.
- `FiguresAreCounted`.  Each walk has an invariant of its own.  The hours of a
  stay are early, at work or late according to where it began (`StayInv`); the
  days of a leave are those it shares with the month (`LeaveInv`).  Of overtime
  the theorem says what the code and its comment agree on: nothing within the
  grace, and beyond it at least what exceeds it; that the grace is paid as well
  is the run `overtime_grace`.  Of leaves it says exactly when a day too many is
  counted.  An income
  (`IncomeInv`) has been billed the slabs that are full, and what comes beyond is
  taxed by the rest of the slabs as on its own (`Billed`), so that one step more
  adds its own rate, because no step crosses a limit.  Payslips are fair because
  the tax rises with the income, by no more than the income (`MonthlyTaxRises`),
  and a percentage by no more than a share of what it is taken of
  (`PercentRises`); the rows of the tax configuration are arbitrary, and
  `validateTDSConfig` is what keeps their rates at a half at most
  (`ConfiguredSlabs`).  That a day more never pays less holds if SSF and PF leave
  a fifth of a day's pay and this is at least five rupees (`LeavesAFifth`): the
  schema accepts rates of 100 percent each, and each deduction is rounded.
- `ServicesTypes`, from `ServicesApart`: a behaviour of the services side by
  side is one of each, so that every theorem above holds of the composition that
  the run `services` explores.

**Counting** holds what those proofs count with.  The sums of the models are
those of the community modules, defined by a fold, the binomial coefficient is
defined by factorials, and the provers cannot use the library's induction
theorems.  Both are therefore shown to be cardinalities: `SumCountsUnits` that a
sum of numbers over a finite set is the size of its set of units, by a subset of
least size at which it would not be; `ChooseCountsStairs` that C(a + b, b) counts
staircases of `a` steps up to `b`, by way of the functions that a factorial
counts, and by a least number at which it would not.

Only model-checked: liveness (`CorrectionFlagged`, `ForgottenClosed`,
`SuspensionEnds`); the prover has no rules for fairness and ENABLED.  Every
invariant and action property of the passing runs is proved, under the premises
above.

## What the models showed

Besides the findings with runs of their own, the models exhibit the following.
No text of the repository promises otherwise, unless one is named.

Payroll and attendance
- `generatePayroll` by an accountant overwrites a payslip paid between the status
  read and the upsert (`P`:586), against the message at `P`:596.
- The flag of a correction takes a paid payslip out of PAID (`P`:1142), against
  "Paid payroll records cannot be modified" (`P`:895); a bulk change to PROCESSED
  takes flagged payslips along that nobody regenerated (`P`:998, against `P`:888).
- An edit that moves a check-in to another month flags the new month only
  (`A`:704).
- A run of the auto-close job at start-up or through the API closes records of
  the same day once the grace window is over (`J`:141), against `J`:11; it
  overwrites a check-out made after it listed the record (`J`:152, against `J`:3).
- A manual clock-in races with a scan and leaves two open records (`A`:545,
  against `A`:540); one after the end of the shift is closed at that end, before
  its check-in (`J`:131), and is then no longer seen by the cooldown (`A`:1229,
  the run `attendance_cooldown`).
- An accountant's edit lands on a record acknowledged meanwhile (`A`:689, against
  the message at `A`:653).
- The organization's settings and the branch of a scan are read one after the
  other and may never have been in force together; `scanCount` is neither an
  upper nor a lower bound of the clock actions; only `mobileCheckin` looks at
  `attendanceMode`; a radius of 0 means 100.
- Overtime: a night shift's check-in after midnight counts from the evening of
  that date.  A leave that crosses the end of the month
  counts a day too many, and so does one that crosses its start in
  Asia/Kathmandu.
- Payslip: with more days away than the divisor allows, gross pay is negative;
  no day present forfeits the bonus; the itemised deductions, capped, do not sum
  to the total; enabling SSF can raise the net pay; a tax configuration without
  an open last slab leaves the rest untaxed.

Leaves and people
- Two devices create overlapping leaves; two admins decide one leave twice, and
  two approvals charge it twice (`L`:29, `L`:166).
- The last admin can be switched off; removals of two admins pass their guards
  together; a BRANCH_ADMIN can end without a branch, and then has the payroll of
  the whole organization (branch-scope.ts:41); a change of role does not
  recount the seats; a member who returns keeps a deleted branch; removal is not
  scoped to a branch.

Subscriptions
- Nothing writes `nextBillingDate` or reads `currentPeriodEnd`; a suspension by
  the billing job has no `suspendedAt`, so the abandoned job never expires it; a
  reactivation with an old date is suspended again.
- The trial job updates by id (trial-expiry.job.ts:74, against line 7) and may
  put a subscription that was paid for meanwhile into its grace period.
- `assignTier` keeps the reminders of an earlier trial, `billingReminderSentAt`
  is never reset, the price expiry ignores `isPriceLockedForever`.  Two super
  admins can give two free trials.

Sessions, codes, roster, holidays
- Two refreshes with one token can both succeed; a login racing a reset survives
  it; a reset cut short changes the password and leaves the sessions.
- A late `set` in Redis can undo a lock (hence the binomial bound of
  `RedisGuessesBounded`).
- `generate` revokes dated static codes too, although qr.service.ts:44 says
  non-static; a static code in its last day no longer counts as static, with
  `staticQRExpiryDays` = 1 from the start, and every request for one makes
  another.
- A super admin's national holiday may have any type: an ORGANIZATION_HOLIDAY
  without an organization is a day off for all, a WORKING_DAY_OVERRIDE has no
  effect until an organization imports it.
- Schedules that split a week resolve to one half on all its days; payroll
  resolves the roster once, without a date.
- A sync by any organization adds national holidays for all; an import stops at a
  date the organization already has, and one that has imported cannot override
  that date.  The built-in table of lib/nepal-holidays.ts covers three years and
  many of its BS and AD dates disagree with the calendar.

## What is not modelled

- Formatting, emails, notifications, audit logs, PDFs, reports, field tracking
  and the API description: no state another part reads, or I/O.
- Of organizations and settings, the creation of an organization and the fields
  no other component depends on; rate limiting and sanitising.
- Of sessions, the attendance PINs of `auth.service.ts` and `getMe`; of members,
  profile fields, shifts, employee ids, and two super admins at once; of leave,
  the branch scope of the decider and the dry run; of payroll, pay settings.
- Of the figures, days present by UTC date, the employer's contributions and the
  rounding to paisa; distances on the sphere are distances on a line.
- The SQL of the library and its isolation levels beyond what is said above.
- The months of payroll: PayrollWorkflow has one, so an edit across months is
  outside it; its composition with AttendanceClock would need both state spaces
  at once, beyond what TLC finishes in minutes.
