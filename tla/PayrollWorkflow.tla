--------------------------- MODULE PayrollWorkflow ---------------------------
(***************************************************************************)
(* The payslips of one organization for one BS month, as                   *)
(* src/services/payroll.service.ts moves them: generation for everybody in *)
(* scope, regeneration of one payslip, single and bulk status changes, and *)
(* the flag an attendance correction raises.                               *)
(*                                                                         *)
(* A status change runs in a Serializable transaction that is retried, so  *)
(* it is one step.  Generation, regeneration and the flag read and write   *)
(* in separate statements (or in a READ COMMITTED transaction), with other *)
(* handlers running in between: each of their awaited reads and writes is  *)
(* a step of a task of its own.                                            *)
(*                                                                         *)
(* A salary computation is represented by its input: att[e] counts the     *)
(* changes to the attendance of e, and the payslip remembers the version   *)
(* (basis) it was computed from.  Version 0 is a month with neither        *)
(* attendance nor overtime.                                                *)
(***************************************************************************)
EXTENDS Naturals

CONSTANTS
    Employees,     \* active memberships with pay settings
    BranchStaff,   \* those in the branch that the token of BRANCH_ADMIN names
    Actors,        \* the roles of the users who send requests
    Tasks,         \* handlers and detached promises that may be in flight
    MaxVersion,    \* bound on the attendance changes per employee
    FailingOps     \* what a failing statement or a restart may cut short

\* A BRANCH_ADMIN whose token names no branch (branchId is null) has a name of
\* its own, BRANCHLESS_ADMIN: the rights are the same, the scope is not.
AdminRoles ==
    {"ORG_ADMIN", "BRANCH_ADMIN", "BRANCHLESS_ADMIN", "SUPER_ADMIN"}
Roles == AdminRoles \cup {"ORG_ACCOUNTANT"}

ASSUME ConstantsAssumption ==
    /\ Employees # {}
    /\ BranchStaff \subseteq Employees
    /\ Actors \subseteq Roles
    /\ MaxVersion \in Nat
    /\ FailingOps \subseteq {"generate", "regenerate", "flag"}

VARIABLES
    att,    \* version of the attendance rows of each employee
    slip,   \* the PayrollRecord row of each employee
    task    \* local state of each task
vars == <<att, slip, task>>

-----------------------------------------------------------------------------
(* Statuses and rows *)

RowStatuses ==
    {"DRAFT", "PROCESSED", "APPROVED", "PAID", "NEEDS_RECALCULATION"}
Statuses == RowStatuses \cup {"NONE"}      \* "NONE": there is no row
Settled == {"PROCESSED", "APPROVED", "PAID"}

Versions == 0 .. MaxVersion

\* getBranchScope and branchWhere: a branch admin with a branch sees that one,
\* everybody else, a branch admin without a branch too, the organization.  The
\* mutant forgets the filter.
Scope_Unfiltered(role) == Employees
Scope(role) == IF role = "BRANCH_ADMIN" THEN BranchStaff ELSE Employees

(***************************************************************************)
(* approved is what approvedAt stands for: who approved and which content. *)
(* Like approvedAt and paidAt, it is not cleared when the row is           *)
(* recomputed.  writer is the role behind the last write of the row.       *)
(***************************************************************************)
Slip == [status: Statuses, basis: Versions, paidAt: BOOLEAN,
         regeneratedFromPaid: BOOLEAN,
         approved: [role: Roles \cup {"NOBODY"}, basis: Versions],
         writer: Roles \cup {"NOBODY", "SYSTEM"}]

NoSlip == [status |-> "NONE", basis |-> 0, paidAt |-> FALSE,
           regeneratedFromPaid |-> FALSE,
           approved |-> [role |-> "NOBODY", basis |-> 0],
           writer |-> "NOBODY"]

Task == [op: {"idle", "generate", "regenerate", "flag"},
         pc: {"next", "compute", "read", "write"},
         role: Roles \cup {"SYSTEM"},
         reason: BOOLEAN,              \* a reason of at least 10 words
         todo: SUBSET Employees,       \* memberships still to be generated
         emp: Employees,               \* the one at hand
         basis: Versions,              \* what payrollData was computed from
         seen: Statuses]               \* the status the guard saw

IdleTask == [op |-> "idle", pc |-> "next", role |-> "SYSTEM",
             reason |-> FALSE, todo |-> {},
             emp |-> CHOOSE e \in Employees : TRUE,
             basis |-> 0, seen |-> "NONE"]

At(t, op, pc) == task[t].op = op /\ task[t].pc = pc
Idle(t) == task[t].op = "idle"

Init ==
    /\ att = [e \in Employees |-> 0]
    /\ slip = [e \in Employees |-> NoSlip]
    /\ task = [t \in Tasks |-> IdleTask]

-----------------------------------------------------------------------------
(* Writes to a row *)

\* The upsert of payrollData with status DRAFT.  The mutants keep the status of
\* an existing row, and add to its content instead of replacing it.
Upsert_Increment(e, basis, role, fromPaid) ==
    slip' = [slip EXCEPT ![e] =
        [@ EXCEPT !.status = "DRAFT", !.basis = @ + basis, !.writer = role,
                  !.regeneratedFromPaid = fromPaid]]
Upsert_KeepStatus(e, basis, role, fromPaid) ==
    slip' = [slip EXCEPT ![e] =
        [@ EXCEPT !.status = IF @ = "NONE" THEN "DRAFT" ELSE @,
                  !.basis = basis, !.writer = role,
                  !.regeneratedFromPaid = fromPaid]]
Upsert(e, basis, role, fromPaid) ==
    slip' = [slip EXCEPT ![e] =
        [@ EXCEPT !.status = "DRAFT", !.basis = basis, !.writer = role,
                  !.regeneratedFromPaid = fromPaid]]

\* updateData: the status and the time stamp that goes with it.
Stamped(row, to, role) ==
    [row EXCEPT !.status = to,
                !.paidAt = @ \/ to = "PAID",
                !.approved = IF to = "APPROVED"
                               THEN [role |-> role, basis |-> row.basis]
                               ELSE @,
                !.writer = role]

-----------------------------------------------------------------------------
(* generatePayroll: one pass over the memberships in scope *)

GenerateStart(t, role, reason) ==
    /\ Idle(t)
    /\ Scope(role) # {}
    /\ task' = [task EXCEPT ![t] =
                  [IdleTask EXCEPT !.op = "generate", !.role = role,
                                   !.reason = reason, !.todo = Scope(role)]]
    /\ UNCHANGED <<att, slip>>

\* The loop takes the next membership, or the handler returns.
AfterEmployee(t, rest) ==
    task' = [task EXCEPT ![t] =
               IF rest = {} THEN IdleTask
               ELSE [@ EXCEPT !.pc = "next", !.todo = rest]]

\* calculateEmployeePayroll reads the attendance outside the transaction; a
\* month without attendance and overtime is skipped.
GenerateCompute(t, e) ==
    /\ At(t, "generate", "next")
    /\ e \in task[t].todo
    /\ IF att[e] = 0
         THEN AfterEmployee(t, task[t].todo \ {e})
         ELSE task' = [task EXCEPT ![t] =
                         [@ EXCEPT !.pc = "read", !.emp = e, !.basis = att[e],
                                   !.todo = task[t].todo \ {e}]]
    /\ UNCHANGED <<att, slip>>

\* The guard on a paid month: not for accountants, and never without a reason.
OverrideRefused(tk, status) ==
    status = "PAID" /\ (tk.role = "ORG_ACCOUNTANT" \/ ~tk.reason)

\* findUnique in the transaction; a refusal abandons the remaining employees.
GenerateRead(t) ==
    /\ At(t, "generate", "read")
    /\ LET status == slip[task[t].emp].status IN
         task' = [task EXCEPT ![t] =
                    IF OverrideRefused(@, status) THEN IdleTask
                    ELSE [@ EXCEPT !.pc = "write", !.seen = status]]
    /\ UNCHANGED <<att, slip>>

\* overrideFields: set when a paid net salary changes, cleared when a paid
\* month is regenerated to the same net salary, left alone otherwise.  The
\* mutant does not ask whether the month was paid.
OverrideField_AnyStatus(tk, netChanged) == netChanged
OverrideField(tk, netChanged) ==
    IF tk.seen = "PAID" THEN netChanged ELSE slip[tk.emp].regeneratedFromPaid

GenerateWrite(t) ==
    /\ At(t, "generate", "write")
    /\ \E netChanged \in BOOLEAN :
         Upsert(task[t].emp, task[t].basis, task[t].role,
                OverrideField(task[t], netChanged))
    /\ AfterEmployee(t, task[t].todo)
    /\ UNCHANGED att

-----------------------------------------------------------------------------
(* regenerateForEmployee: the status is checked before the computation *)

RegenerateRead(t, role, e) ==
    /\ Idle(t)
    /\ e \in Scope(role)
    /\ slip[e].status \notin {"APPROVED", "PAID"}
    /\ task' = [task EXCEPT ![t] =
                  [IdleTask EXCEPT !.op = "regenerate", !.pc = "compute",
                                   !.role = role, !.reason = TRUE, !.emp = e]]
    /\ UNCHANGED <<att, slip>>

RegenerateCompute(t) ==
    /\ At(t, "regenerate", "compute")
    /\ task' = [task EXCEPT ![t] =
                  [@ EXCEPT !.pc = "write", !.basis = att[task[t].emp]]]
    /\ UNCHANGED <<att, slip>>

RegenerateWrite(t) ==
    /\ At(t, "regenerate", "write")
    /\ LET e == task[t].emp IN
         Upsert(e, task[t].basis, task[t].role, slip[e].regeneratedFromPaid)
    /\ task' = [task EXCEPT ![t] = IdleTask]
    /\ UNCHANGED att

-----------------------------------------------------------------------------
(* updateStatus and bulkUpdateStatus: Serializable, hence one step each *)

\* ROLE_TRANSITIONS; a paid or flagged record is in no row of the table.
RoleTransitions(role, from) ==
    IF role = "ORG_ACCOUNTANT"
      THEN CASE from = "DRAFT"    -> {"PROCESSED"}
             [] from = "APPROVED" -> {"PAID"}
             [] OTHER             -> {}
      ELSE CASE from = "DRAFT"     -> {"PROCESSED"}
             [] from = "PROCESSED" -> {"APPROVED"}
             [] from = "APPROVED"  -> {"PROCESSED", "PAID"}
             [] OTHER              -> {}

UpdateStatus(role, e, to) ==
    /\ e \in Scope(role)
    /\ to \in RoleTransitions(role, slip[e].status)
    /\ slip' = [slip EXCEPT ![e] = Stamped(@, to, role)]
    /\ UNCHANGED <<att, task>>

\* BULK_ROLE_TRANSITIONS
BulkTargets(role) ==
    IF role = "ORG_ACCOUNTANT" THEN {"PROCESSED", "PAID"}
    ELSE {"PROCESSED", "APPROVED", "PAID"}

\* BULK_FROM_STATES; it also implies the NEEDS_RECALCULATION precheck.  The
\* mutant lets a bulk payment skip the approval.
BulkFromStates_PayProcessed(to) ==
    CASE to = "PROCESSED" -> {"DRAFT", "NEEDS_RECALCULATION"}
      [] to = "APPROVED"  -> {"PROCESSED"}
      [] to = "PAID"      -> {"PROCESSED", "APPROVED"}
BulkFromStates(to) ==
    CASE to = "PROCESSED" -> {"DRAFT", "NEEDS_RECALCULATION"}
      [] to = "APPROVED"  -> {"PROCESSED"}
      [] to = "PAID"      -> {"APPROVED"}

\* The rows the where clause selects.
RowsInScope(role) == {e \in Scope(role) : slip[e].status # "NONE"}

BulkUpdateStatus(role, to) ==
    /\ to \in BulkTargets(role)
    /\ RowsInScope(role) # {}
    /\ \A e \in RowsInScope(role) : slip[e].status \in BulkFromStates(to)
    /\ slip' = [e \in Employees |->
                  IF e \in RowsInScope(role) THEN Stamped(slip[e], to, role)
                  ELSE slip[e]]
    /\ UNCHANGED <<att, task>>

-----------------------------------------------------------------------------
(* Attendance changes and flagPayrollNeedsRecalculation *)

\* A scan, a manual clock action or an automatic close: payroll is not told.
ClockEvent(e) ==
    /\ att[e] < MaxVersion
    /\ att' = [att EXCEPT ![e] = @ + 1]
    /\ UNCHANGED <<slip, task>>

\* editAttendance and markPresent commit, then start the flag.
CorrectAttendance(t, e) ==
    /\ Idle(t)
    /\ att[e] < MaxVersion
    /\ att' = [att EXCEPT ![e] = @ + 1]
    /\ task' = [task EXCEPT ![t] =
                  [IdleTask EXCEPT !.op = "flag", !.pc = "read", !.emp = e]]
    /\ UNCHANGED slip

\* A draft is not flagged.  The mutant leaves paid payslips alone as well.
Flaggable_NotPaid == {"PROCESSED", "APPROVED"}
Flaggable == Settled

FlagRead(t) ==
    /\ At(t, "flag", "read")
    /\ task' = [task EXCEPT ![t] =
                  IF slip[task[t].emp].status \in Flaggable
                    THEN [@ EXCEPT !.pc = "write"]
                    ELSE IdleTask]
    /\ UNCHANGED <<att, slip>>

\* The update is by id: it does not look at the status again.
FlagWrite(t) ==
    /\ At(t, "flag", "write")
    /\ slip' = [slip EXCEPT ![task[t].emp] =
                  [@ EXCEPT !.status = "NEEDS_RECALCULATION",
                            !.writer = "SYSTEM"]]
    /\ task' = [task EXCEPT ![t] = IdleTask]
    /\ UNCHANGED att

-----------------------------------------------------------------------------

\* A query fails, the unique key of a concurrent create is hit, or the
\* process restarts: what the task has committed stays, the rest is lost.
TaskFails(t) ==
    /\ task[t].op \in FailingOps
    /\ task' = [task EXCEPT ![t] = IdleTask]
    /\ UNCHANGED <<att, slip>>

\* The steps a task takes on its own once it has been started.
TaskStep(t) ==
    \/ \E e \in Employees : GenerateCompute(t, e)
    \/ GenerateRead(t)
    \/ GenerateWrite(t)
    \/ RegenerateCompute(t)
    \/ RegenerateWrite(t)
    \/ FlagRead(t)
    \/ FlagWrite(t)

Next ==
    \/ \E t \in Tasks : TaskStep(t)
    \/ \E t \in Tasks : TaskFails(t)
    \/ \E t \in Tasks, role \in Actors, reason \in BOOLEAN :
         GenerateStart(t, role, reason)
    \/ \E t \in Tasks, role \in Actors \cap AdminRoles, e \in Employees :
         RegenerateRead(t, role, e)
    \/ \E role \in Actors, e \in Employees, to \in RowStatuses :
         UpdateStatus(role, e, to)
    \/ \E role \in Actors, to \in Settled : BulkUpdateStatus(role, to)
    \/ \E e \in Employees : ClockEvent(e)
    \/ \E t \in Tasks, e \in Employees : CorrectAttendance(t, e)

Spec == Init /\ [][Next]_vars

\* The event loop runs every continuation whose awaited query has answered.
FairSpec == Spec /\ \A t \in Tasks : WF_vars(TaskStep(t))

-----------------------------------------------------------------------------
(* Properties *)

\* Every variable has its type.
TypeOK ==
    /\ att \in [Employees -> Versions]
    /\ slip \in [Employees -> Slip]
    /\ task \in [Tasks -> Task]

\* A payslip that is approved or paid carries the very content somebody
\* entitled to approve it approved: never an accountant, never an admin who
\* has another branch, and never a content computed after the approval.
ApprovedContent ==
    \A e \in Employees :
        slip[e].status \in {"APPROVED", "PAID"} =>
            /\ slip[e].approved.basis = slip[e].basis
            /\ slip[e].approved.role \in AdminRoles
            /\ e \in Scope(slip[e].approved.role)

\* No request of a branch admin who has a branch, whatever it interleaves
\* with, writes the payslip of an employee of another branch.  Of one without
\* a branch nothing of the kind holds: there is no filter (getBranchScope).
BranchIsolation ==
    \A e \in Employees \ BranchStaff : slip[e].writer # "BRANCH_ADMIN"

\* A payslip marked as regenerated from a paid one has indeed been paid once.
OverrideFollowsPayment ==
    \A e \in Employees : slip[e].regeneratedFromPaid => slip[e].paidAt

\* Unless the flag's statements fail, a correction of attendance under a
\* settled payslip is followed by its flag or by a recomputation.
CorrectionFlagged ==
    \A e \in Employees :
        (slip[e].status \in Settled
           /\ \E t \in Tasks : At(t, "flag", "read") /\ task[t].emp = e)
        ~> slip[e].status \in {"NEEDS_RECALCULATION", "DRAFT"}

\* Whatever interleaves, each payslip lives the life PayslipLifecycle
\* describes: paid from approved only, approved from processed only, and no
\* new content except as a draft.
Lifecycle ==
    INSTANCE PayslipLifecycle WITH
        Contents <- Versions,
        status <- [e \in Employees |-> slip[e].status],
        content <- [e \in Employees |-> slip[e].basis],
        approved <- [e \in Employees |->
                       IF slip[e].approved.role = "NOBODY" THEN "NOTHING"
                       ELSE slip[e].approved.basis]

LifecycleSpec == Lifecycle!Spec

(***************************************************************************)
(* What the service's own messages and comments say of it.                 *)
(***************************************************************************)

\* "This payslip has attendance corrections and must be regenerated before
\* changing status": a flagged payslip leaves its status only as a new draft.
FlaggedUntilRegenerated ==
    [][\A e \in Employees :
         (slip[e].status = "NEEDS_RECALCULATION" /\ slip'[e] # slip[e])
         => slip'[e].status \in {"NEEDS_RECALCULATION", "DRAFT"}]_vars

\* "Cannot regenerate a payslip with status APPROVED or PAID.  Void it
\* first": a regeneration does not replace an approved or paid payslip.
RegenerationSparesLocked ==
    [][\A t \in Tasks :
         (RegenerateWrite(t) /\ slip[task[t].emp].status # "NONE")
         => slip[task[t].emp].status \notin {"APPROVED", "PAID"}]_vars
=============================================================================
