------------------------ MODULE SubscriptionLifecycle ------------------------
(***************************************************************************)
(* The subscription of one organization: superadmin.subscription.service.ts *)
(* and the five daily jobs of src/jobs that act on subscriptions.          *)
(*                                                                         *)
(* A handler of the super admin reads the row, checks it, and updates it   *)
(* by organization in a later transaction.  A job lists the rows of one    *)
(* status at its start and updates them one by one by id, between emails   *)
(* to other organizations: what it has listed may be out of date.  The     *)
(* rows of different organizations never meet, so there is one here.       *)
(*                                                                         *)
(* Dates are days relative to today; a date long past stays at -Horizon.   *)
(* The billing log, notes, fees and emails are left out.                   *)
(***************************************************************************)
EXTENDS Integers, FiniteSets

CONSTANTS
    Admins,         \* super admins, each handling one request at a time
    PlanSettings,   \* [trialDays: Nat, graceDays: Nat \ {0}] of the plan
    Extensions,     \* the days by which a trial may be extended
    Prices,         \* expiries of a custom price: days from now, or NoDate
    BillingDates,   \* billing dates set in the database, days from now
    FirstWarning, LastWarning,  \* days before the end of a trial
    BillingWarning, BillingGrace, AbandonedAfter,
    Horizon,        \* bound: how many days back a date is distinguished
    MaxEvents,      \* bound on decisions of admins and failures of jobs
    NoDate          \* a date column that is null

ASSUME ConstantsAssumption ==
    /\ PlanSettings \subseteq [trialDays: Nat, graceDays: Nat \ {0}]
    /\ Extensions \subseteq Nat \ {0}
    /\ Prices \ {NoDate} \subseteq Nat
    /\ BillingDates \subseteq Nat
    /\ {FirstWarning, LastWarning, BillingWarning, BillingGrace, AbandonedAfter,
        Horizon, MaxEvents} \subseteq Nat
    /\ BillingGrace < Horizon /\ AbandonedAfter <= Horizon
    /\ MaxEvents <= Horizon
    /\ \A p \in PlanSettings : p.graceDays <= Horizon
    /\ NoDate \notin Int

VARIABLES
    sub,        \* the OrgSubscription row, or NoSub
    plan,       \* trialDays and graceDays of the plan
    job,        \* local state of each job
    due,        \* the jobs whose cron time of today is still to come
    admin,      \* local state of each admin's request
    decisions,  \* how many writes of admins there were
    failures,   \* how many runs of jobs failed or were missed
    freeTrials  \* history: trials given without forceTrial
vars == <<sub, plan, job, due, admin, decisions, failures, freeTrials>>

-----------------------------------------------------------------------------

Statuses ==
    {"TRIALING", "GRACE_PERIOD", "ACTIVE", "PAST_DUE", "SUSPENDED", "EXPIRED"}
Dates == Int \cup {NoDate}

Row == [status: Statuses, trialEnds: Dates, trialUsed: BOOLEAN,
        graceEnds: Dates, suspendedAt: Dates, nextBilling: Dates,
        trialReminder: BOOLEAN, finalReminder: BOOLEAN,
        graceReminder: BOOLEAN, billingReminder: BOOLEAN,
        price: BOOLEAN, priceEnds: Dates]
NoSub == [status |-> "NO_SUBSCRIPTION"]

Jobs == {"trial", "billing", "grace", "price", "abandoned"}
JobPcs == {"idle", "listed", "reminded", "list_overdue", "overdue",
           "list_past_due", "past_due"}
\* row, graceDays: what the run has listed, of the subscription and its plan.
IdleJob == [pc |-> "idle", row |-> NoSub, graceDays |-> 0]

\* The jobs in the order of their cron expressions.
CronTime == [trial |-> 1, billing |-> 2, grace |-> 2, price |-> 3,
             abandoned |-> 4]

Ops == {"assign", "force_trial", "price", "suspend", "expire", "extend",
        "reactivate"}
\* row, trial: what the handler has read and concluded; arg: its input.
IdleAdmin == [op |-> "idle", row |-> NoSub, trial |-> FALSE, arg |-> 0]

Passed(d) == d # NoDate /\ d <= 0
Overdue(d, days) == d # NoDate /\ d < -days

\* A day later; Horizon is as far back as anything is told apart.
DayLater(d) == IF d = NoDate \/ d = -Horizon THEN d ELSE d - 1
Older(r) ==
    IF r = NoSub THEN r
    ELSE [r EXCEPT !.trialEnds = DayLater(@), !.graceEnds = DayLater(@),
                   !.suspendedAt = DayLater(@), !.nextBilling = DayLater(@),
                   !.priceEnds = DayLater(@)]

Init ==
    /\ sub = NoSub
    /\ plan \in PlanSettings
    /\ job = [j \in Jobs |-> IdleJob]
    /\ due = Jobs
    /\ admin = [a \in Admins |-> IdleAdmin]
    /\ decisions = 0
    /\ failures = 0
    /\ freeTrials = 0

-----------------------------------------------------------------------------
(* The super admin *)

\* What a handler checks of the row it has read.
Allowed(op, r) ==
    CASE op \in {"assign", "force_trial"} -> TRUE
      [] op = "price" -> r # NoSub
      [] op = "suspend" -> r # NoSub /\ r.status # "SUSPENDED"
      [] op = "expire" -> r.status = "SUSPENDED"
      [] op = "extend" -> r.status \in {"TRIALING", "GRACE_PERIOD"}
      [] op = "reactivate" -> r # NoSub /\ r.status # "ACTIVE"

\* The mutant forgets that a trial was used.
CanUseTrial_Again(op, existing) == plan.trialDays > 0
CanUseTrial(op, existing) ==
    /\ plan.trialDays > 0
    /\ op = "force_trial" \/ existing = NoSub \/ ~existing.trialUsed

NewSub == [status |-> "ACTIVE", trialEnds |-> NoDate, trialUsed |-> FALSE,
           graceEnds |-> NoDate, suspendedAt |-> NoDate,
           nextBilling |-> NoDate, trialReminder |-> FALSE,
           finalReminder |-> FALSE, graceReminder |-> FALSE,
           billingReminder |-> FALSE, price |-> FALSE, priceEnds |-> NoDate]

\* assignTier: the columns it writes over those of r.
Assigned(r, existing, trial, days) ==
    [r EXCEPT !.status = IF trial THEN "TRIALING" ELSE "ACTIVE",
              !.trialEnds = IF trial THEN days ELSE NoDate,
              !.trialUsed = trial \/ (existing # NoSub /\ existing.trialUsed),
              !.graceEnds = NoDate, !.graceReminder = FALSE,
              !.suspendedAt = NoDate]

Extended(r, existing, days) ==
    LET base == IF existing.trialEnds # NoDate /\ existing.trialEnds > 0
                THEN existing.trialEnds ELSE 0
    IN [r EXCEPT !.status = "TRIALING", !.trialEnds = base + days,
                 !.graceEnds = NoDate, !.graceReminder = FALSE,
                 !.trialReminder = FALSE, !.finalReminder = FALSE]

Suspended(r) == [r EXCEPT !.status = "SUSPENDED", !.suspendedAt = 0]

Reactivated(r) == [r EXCEPT !.status = "ACTIVE", !.suspendedAt = NoDate,
                            !.graceEnds = NoDate, !.graceReminder = FALSE]

\* The mutant uses the status of the enum that no code handles.
Expired_Cancelled(r) == [r EXCEPT !.status = "CANCELLED"]
Expired(r) == [r EXCEPT !.status = "EXPIRED"]

\* overridePricing: arg is the expiry, NoDate keeps the one that was read.
Repriced(r, existing, arg) ==
    [r EXCEPT !.price = TRUE,
              !.priceEnds = IF arg # NoDate THEN arg ELSE existing.priceEnds]

Args(op) == CASE op = "extend" -> Extensions
              [] op = "price" -> Prices
              [] op \in {"assign", "force_trial"} -> {plan.trialDays}
              [] OTHER -> {0}

\* Cap: a request is only started if its write is within MaxEvents.
AdminRead(a, op) ==
    /\ admin[a] = IdleAdmin
    /\ decisions + failures
         + Cardinality({b \in Admins : admin[b] # IdleAdmin}) < MaxEvents
    /\ Allowed(op, sub)
    /\ \E arg \in Args(op) :
          admin' = [admin EXCEPT ![a] =
                      [op |-> op, row |-> sub, arg |-> arg,
                       trial |-> /\ op \in {"assign", "force_trial"}
                                 /\ CanUseTrial(op, sub)]]
    /\ UNCHANGED <<sub, plan, job, due, decisions, failures, freeTrials>>

\* Creating the row fails if another admin has created it.
AdminWrite(a) ==
    LET op == admin[a].op
        existing == admin[a].row
        assigns == op \in {"assign", "force_trial"}
        fails == assigns /\ existing = NoSub /\ sub # NoSub
        target == IF sub = NoSub THEN NewSub ELSE sub
    IN /\ admin[a] # IdleAdmin
       /\ sub' = CASE fails -> sub
                   [] assigns /\ ~fails -> Assigned(target, existing, admin[a].trial,
                                                     admin[a].arg)
                   [] op = "price" -> Repriced(sub, existing, admin[a].arg)
                   [] op = "suspend" -> Suspended(sub)
                   [] op = "expire" -> Expired(sub)
                   [] op = "extend" -> Extended(sub, existing, admin[a].arg)
                   [] op = "reactivate" -> Reactivated(sub)
       /\ freeTrials' = IF op = "assign" /\ ~fails /\ admin[a].trial
                        THEN freeTrials + 1 ELSE freeTrials
       /\ decisions' = decisions + 1
       /\ admin' = [admin EXCEPT ![a] = IdleAdmin]
       /\ UNCHANGED <<plan, job, due, failures>>

\* PATCH /plans/:tier/trial-days and /grace-period.
ChangePlan(p) ==
    /\ decisions + failures < MaxEvents
    /\ \A a \in Admins : admin[a] = IdleAdmin
    /\ plan' = p
    /\ decisions' = decisions + 1
    /\ UNCHANGED <<sub, job, due, admin, failures, freeTrials>>

\* No code writes nextBillingDate: the billing job sees dates that were set
\* in the database by hand.
SetBillingDate(d) ==
    /\ decisions + failures < MaxEvents
    /\ sub # NoSub
    /\ \A a \in Admins : admin[a] = IdleAdmin
    /\ sub' = [sub EXCEPT !.nextBilling = d]
    /\ decisions' = decisions + 1
    /\ UNCHANGED <<plan, job, due, admin, failures, freeTrials>>

-----------------------------------------------------------------------------
(* The jobs *)

\* The mutant looks for the very day on which the threshold is reached.
LongSuspended_ExactDay(r) == r.suspendedAt = -AbandonedAfter
LongSuspended(r) == r.suspendedAt # NoDate /\ r.suspendedAt <= -AbandonedAfter

\* The rows the first query of each job returns.
Listed(j, r) ==
    CASE j = "trial" -> r.status = "TRIALING"
      [] j = "grace" -> r.status = "GRACE_PERIOD"
      [] j = "billing" -> /\ r.status = "ACTIVE" /\ ~r.billingReminder
                          /\ r.nextBilling # NoDate
                          /\ r.nextBilling \in 0 .. BillingWarning
      [] j = "price" -> r # NoSub /\ r.price /\ Passed(r.priceEnds)
      [] j = "abandoned" -> /\ r.status = "SUSPENDED" /\ LongSuspended(r)

At(j, pc) == job[j].pc = pc
Goes(j, pc) == job' = [job EXCEPT ![j].pc = pc]
Ends(j) == job' = [job EXCEPT ![j] = IdleJob]
Lists(j) == job' = [job EXCEPT ![j] = [pc |-> "listed", row |-> sub,
                                       graceDays |-> plan.graceDays]]
InOrder(j) == \A k \in due : CronTime[j] <= CronTime[k]

\* The first query of a run; only trial and grace use the rows they listed
\* for more than their id.  The billing job goes on with its other queries.
JobStart(j) ==
    /\ j \in due /\ InOrder(j)
    /\ At(j, "idle")
    /\ due' = due \ {j}
    /\ CASE Listed(j, sub) /\ j \in {"trial", "grace"} -> Lists(j)
         [] Listed(j, sub) /\ j \notin {"trial", "grace"} -> Goes(j, "listed")
         [] ~Listed(j, sub) /\ j = "billing" -> Goes(j, "list_overdue")
         [] ~Listed(j, sub) /\ j # "billing" -> Ends(j)
    /\ UNCHANGED <<sub, plan, admin, decisions, failures, freeTrials>>

Untouched == UNCHANGED <<plan, due, admin, decisions, failures, freeTrials>>

\* The mutant waits until the trial's last day is over.
TrialOver_NextDay(r) == r.trialEnds < 0
TrialOver(r) == r.trialEnds <= 0

\* The mutant forgets graceEndsAt.
InGrace_Undated(r, days) == [r EXCEPT !.status = "GRACE_PERIOD"]
InGrace(r, days) == [r EXCEPT !.status = "GRACE_PERIOD", !.graceEnds = days]

\* One iteration of runTrialExpiryJob, between its two reminders.
TrialFirst ==
    LET r == job["trial"].row
        warn == r.trialEnds <= FirstWarning /\ ~r.trialReminder
    IN /\ At("trial", "listed")
       /\ CASE r.trialEnds = NoDate -> Ends("trial") /\ UNCHANGED sub
            [] r.trialEnds # NoDate /\ TrialOver(r) ->
                  Ends("trial") /\ sub' = InGrace(sub, job["trial"].graceDays)
            [] OTHER -> /\ Goes("trial", "reminded")
                        /\ sub' = IF warn THEN [sub EXCEPT !.trialReminder = TRUE]
                                  ELSE sub
       /\ Untouched

TrialFinal ==
    LET r == job["trial"].row
    IN /\ At("trial", "reminded")
       /\ sub' = IF r.trialEnds <= LastWarning /\ ~r.finalReminder
                 THEN [sub EXCEPT !.finalReminder = TRUE] ELSE sub
       /\ Ends("trial")
       /\ Untouched

\* runGracePeriodJob: the reminder once half of the grace period is over ...
GraceReminder ==
    LET r == job["grace"].row
        trialEnded == IF r.trialEnds = NoDate THEN 0 ELSE r.trialEnds
        halfway == r.graceEnds # NoDate /\ trialEnded + r.graceEnds <= 0
    IN /\ At("grace", "listed")
       /\ sub' = IF ~r.graceReminder /\ halfway
                 THEN [sub EXCEPT !.graceReminder = TRUE] ELSE sub
       /\ Goes("grace", "reminded")
       /\ Untouched

\* ... and the suspension at its end.
GraceEnd ==
    /\ At("grace", "reminded")
    /\ sub' = IF Passed(job["grace"].row.graceEnds)
              THEN [Suspended(sub) EXCEPT !.graceEnds = NoDate,
                                          !.graceReminder = FALSE]
              ELSE sub
    /\ Ends("grace")
    /\ Untouched

\* runBillingJob: reminder, ACTIVE to PAST_DUE, PAST_DUE to SUSPENDED; each
\* with a query of its own.  The last update writes no suspendedAt.
BillingReminder ==
    /\ At("billing", "listed")
    /\ sub' = [sub EXCEPT !.billingReminder = TRUE]
    /\ Goes("billing", "list_overdue")
    /\ Untouched

BillingListOverdue ==
    /\ At("billing", "list_overdue")
    /\ IF sub.status = "ACTIVE" /\ Overdue(sub.nextBilling, 0)
       THEN Goes("billing", "overdue")
       ELSE Goes("billing", "list_past_due")
    /\ Untouched /\ UNCHANGED sub

BillingPastDue ==
    /\ At("billing", "overdue")
    /\ sub' = [sub EXCEPT !.status = "PAST_DUE"]
    /\ Goes("billing", "list_past_due")
    /\ Untouched

BillingListPastDue ==
    /\ At("billing", "list_past_due")
    /\ IF sub.status = "PAST_DUE" /\ Overdue(sub.nextBilling, BillingGrace)
       THEN Goes("billing", "past_due")
       ELSE Ends("billing")
    /\ Untouched /\ UNCHANGED sub

BillingSuspend ==
    /\ At("billing", "past_due")
    /\ sub' = [sub EXCEPT !.status = "SUSPENDED"]
    /\ Ends("billing")
    /\ Untouched

\* runPriceExpiryJob and runAbandonedJob.
PriceExpiry ==
    /\ At("price", "listed")
    /\ sub' = [sub EXCEPT !.price = FALSE, !.priceEnds = NoDate]
    /\ Ends("price")
    /\ Untouched

Abandon ==
    /\ At("abandoned", "listed")
    /\ sub' = Expired(sub)
    /\ Ends("abandoned")
    /\ Untouched

JobStep(j) ==
    \/ j = "trial" /\ (TrialFirst \/ TrialFinal)
    \/ j = "grace" /\ (GraceReminder \/ GraceEnd)
    \/ /\ j = "billing"
       /\ \/ BillingReminder
          \/ BillingListOverdue
          \/ BillingPastDue
          \/ BillingListPastDue
          \/ BillingSuspend
    \/ j = "price" /\ PriceExpiry
    \/ j = "abandoned" /\ Abandon

\* An email or a statement fails, the process dies, or it is down at the time
\* of the run.
JobFails(j) ==
    /\ decisions + failures
         + Cardinality({b \in Admins : admin[b] # IdleAdmin}) < MaxEvents
    /\ (j \in due /\ InOrder(j)) \/ ~At(j, "idle")
    /\ failures' = failures + 1
    /\ due' = due \ {j}
    /\ Ends(j)
    /\ UNCHANGED <<sub, plan, admin, decisions, freeTrials>>

\* A run does not take a day.
NextDay ==
    /\ due = {}
    /\ \A j \in Jobs : At(j, "idle")
    /\ sub' = Older(sub)
    /\ admin' = [a \in Admins |-> [admin[a] EXCEPT !.row = Older(@)]]
    /\ due' = Jobs
    /\ UNCHANGED <<plan, job, decisions, failures, freeTrials>>

Next ==
    \/ \E a \in Admins : AdminWrite(a) \/ \E op \in Ops : AdminRead(a, op)
    \/ \E p \in PlanSettings : ChangePlan(p)
    \/ \E d \in BillingDates : SetBillingDate(d)
    \/ \E j \in Jobs : JobStart(j) \/ JobStep(j) \/ JobFails(j)
    \/ NextDay

Spec == Init /\ [][Next]_vars

\* Cron starts every job every day and the runs go on; days pass; a request
\* ends.
FairSpec ==
    /\ Spec
    /\ \A j \in Jobs : WF_vars(JobStart(j)) /\ WF_vars(JobStep(j))
    /\ WF_vars(NextDay)
    /\ \A a \in Admins : WF_vars(AdminWrite(a))

-----------------------------------------------------------------------------
(* Properties *)

AdminTask == [op: Ops \cup {"idle"}, row: Row \cup {NoSub}, trial: BOOLEAN,
              arg: Nat \cup {NoDate}]
JobTask == [pc: JobPcs, row: Row \cup {NoSub}, graceDays: Nat]

\* Types; of the statuses of the schema, CANCELLED is never used.
TypeOK ==
    /\ sub \in Row \cup {NoSub}
    /\ plan \in PlanSettings
    /\ job \in [Jobs -> JobTask]
    /\ due \subseteq Jobs
    /\ admin \in [Admins -> AdminTask]
    /\ {decisions, failures, freeTrials} \subseteq Nat

\* Whatever the admins and the jobs overwrite of each other's work, a trial
\* and a grace period have an end: without one the jobs skip the row (the
\* "continue" of both loops) and the state would last for ever.
LimitedHasEnd ==
    /\ sub.status = "TRIALING" => sub.trialEnds # NoDate
    /\ sub.status = "GRACE_PERIOD" => sub.graceEnds # NoDate

\* An organization gets one trial; a second one takes forceTrial
\* (assignTier's "auto -- respect isTrialUsed").
OneFreeTrial == freeTrials <= 1

\* Every run that fails or is missed costs a day, and no other event keeps a
\* trial or a grace period beyond its end: when a day's runs are over, what
\* has run out the day before has been seen to.
EndsInTime ==
    /\ sub.status = "TRIALING" => sub.trialEnds >= -failures
    /\ sub.status = "GRACE_PERIOD" => sub.graceEnds >= -failures

\* A dated suspension is lifted by an admin or expires (abandoned.job.ts).
SuspensionEnds ==
    sub.status = "SUSPENDED" /\ sub.suspendedAt # NoDate
        ~> sub.status # "SUSPENDED"
=============================================================================
