------------------------ MODULE PayrollWorkflowProofs ------------------------
(***************************************************************************)
(* Proofs about PayrollWorkflow, for any number of employees and tasks,    *)
(* any branch and any number of attendance changes.                        *)
(***************************************************************************)
EXTENDS PayrollWorkflow, TLAPS

-----------------------------------------------------------------------------
(* The inductive invariant *)

\* What holds of the row of e whenever no statement is running.  The third
\* conjunct is OverrideFollowsPayment; the fourth is what makes it inductive.
RowInv(e, row) ==
    /\ row.status \in {"APPROVED", "PAID"} =>
         /\ row.approved.basis = row.basis
         /\ row.approved.role \in AdminRoles
         /\ e \in Scope(row.approved.role)
    /\ e \notin BranchStaff => row.writer # "BRANCH_ADMIN"
    /\ row.regeneratedFromPaid => row.paidAt
    /\ row.status = "PAID" => row.paidAt

\* What a branch admin's task has still to write is in the branch; what a
\* generation saw paid has its time stamp; and what a flag saw is still there.
TaskInv(rows, tk) ==
    /\ tk.role = "BRANCH_ADMIN" =>
         /\ tk.todo \subseteq BranchStaff
         /\ tk.pc # "next" => tk.emp \in BranchStaff
    /\ (tk.op = "generate" /\ tk.pc = "write" /\ tk.seen = "PAID")
         => rows[tk.emp].paidAt
    /\ (tk.op = "flag" /\ tk.pc = "write") => rows[tk.emp].status # "NONE"

\* What nothing ever undoes: a row stays, and so does its paidAt.
RowKept(old, new) ==
    /\ old.paidAt => new.paidAt
    /\ old.status # "NONE" => new.status # "NONE"

IInv ==
    /\ TypeOK
    /\ \A e \in Employees : RowInv(e, slip[e])
    /\ \A t \in Tasks : TaskInv(slip, task[t])

-----------------------------------------------------------------------------
(* The helpers *)

\* The local state of a task that has ended, or not begun, has its type.
LEMMA IdleTaskType ==
    /\ IdleTask \in Task
    /\ IdleTask.op = "idle" /\ IdleTask.pc = "next"
    /\ IdleTask.role = "SYSTEM" /\ IdleTask.todo = {}
    /\ IdleTask.seen = "NONE"
<1>1. (CHOOSE e \in Employees : TRUE) \in Employees
  BY ConstantsAssumption
<1>2. 0 \in Versions
  BY ConstantsAssumption DEF Versions
<1> QED BY <1>1, <1>2 DEF IdleTask, Task, Statuses

\* getBranchScope: everybody's scope is a set of employees.
LEMMA ScopeType == \A role : Scope(role) \subseteq Employees
BY ConstantsAssumption DEF Scope

\* The stamped row keeps its content, and its approval unless it is renewed.
LEMMA StampedRow ==
    ASSUME NEW row \in Slip, NEW to \in RowStatuses, NEW role \in Roles
    PROVE  LET new == Stamped(row, to, role) IN
             /\ new \in Slip
             /\ new.status = to
             /\ new.basis = row.basis
             /\ new.writer = role
             /\ new.regeneratedFromPaid = row.regeneratedFromPaid
             /\ new.paidAt = (row.paidAt \/ to = "PAID")
             /\ to # "APPROVED" => new.approved = row.approved
             /\ to = "APPROVED" => new.approved = [role |-> role, basis |-> row.basis]
BY DEF Stamped, Slip, Statuses

\* A flag changes the status and leaves the content and the history.
LEMMA FlaggedRow ==
    ASSUME NEW row \in Slip
    PROVE  LET new == [row EXCEPT !.status = "NEEDS_RECALCULATION",
                                  !.writer = "SYSTEM"] IN
             /\ new \in Slip
             /\ new.status = "NEEDS_RECALCULATION" /\ new.writer = "SYSTEM"
             /\ new.basis = row.basis /\ new.approved = row.approved
             /\ new.regeneratedFromPaid = row.regeneratedFromPaid
             /\ new.paidAt = row.paidAt
BY DEF Slip, Statuses, RowStatuses

\* An upsert makes a draft of one row and leaves the others.
LEMMA UpsertRows ==
    ASSUME slip \in [Employees -> Slip],
           NEW e \in Employees, NEW basis \in Versions,
           NEW role \in Roles \cup {"SYSTEM"}, NEW fromPaid \in BOOLEAN,
           Upsert(e, basis, role, fromPaid)
    PROVE  /\ slip' \in [Employees -> Slip]
           /\ \A f \in Employees : f # e => slip'[f] = slip[f]
           /\ slip'[e].status = "DRAFT"
           /\ slip'[e].basis = basis
           /\ slip'[e].writer = role
           /\ slip'[e].regeneratedFromPaid = fromPaid
           /\ slip'[e].paidAt = slip[e].paidAt
           /\ slip'[e].approved = slip[e].approved
<1> DEFINE new == [slip[e] EXCEPT !.status = "DRAFT", !.basis = basis,
                                  !.writer = role,
                                  !.regeneratedFromPaid = fromPaid]
<1>1. slip[e] \in Slip
  OBVIOUS
<1>2. /\ new \in Slip
      /\ new.status = "DRAFT" /\ new.basis = basis /\ new.writer = role
      /\ new.regeneratedFromPaid = fromPaid
      /\ new.paidAt = slip[e].paidAt
      /\ new.approved = slip[e].approved
  BY <1>1 DEF Slip, Statuses, RowStatuses
<1>3. slip' = [slip EXCEPT ![e] = new]
  BY DEF Upsert
<1> HIDE DEF new
<1> QED BY <1>2, <1>3

-----------------------------------------------------------------------------
(* Type correctness *)

\* The types hold initially.
LEMMA TypeInit == Init => TypeOK
<1> SUFFICES ASSUME Init PROVE TypeOK
  OBVIOUS
<1>1. 0 \in Versions
  BY ConstantsAssumption DEF Versions
<1>2. NoSlip \in Slip
  BY <1>1 DEF NoSlip, Slip, Statuses
<1> QED BY <1>1, <1>2, IdleTaskType DEF Init, TypeOK

\* Going on to the next employee, or returning, keeps the type of the tasks.
LEMMA AfterEmployeeType ==
    ASSUME TypeOK, NEW t \in Tasks, NEW rest \in SUBSET Employees,
           AfterEmployee(t, rest)
    PROVE  task' \in [Tasks -> Task]
<1>1. [task[t] EXCEPT !.pc = "next", !.todo = rest] \in Task
  BY DEF TypeOK, Task
<1>2. CASE rest = {}
  BY <1>2, IdleTaskType DEF AfterEmployee, TypeOK
<1>3. CASE rest # {}
  BY <1>1, <1>3 DEF AfterEmployee, TypeOK
<1> QED BY <1>2, <1>3

\* Every step keeps the types.
LEMMA TypeStep == TypeOK /\ [Next]_vars => TypeOK'
<1> SUFFICES ASSUME TypeOK, [Next]_vars PROVE TypeOK'
  OBVIOUS
<1> USE DEF TypeOK
<1>1. ASSUME NEW t \in Tasks, NEW role \in Actors, NEW reason \in BOOLEAN,
             GenerateStart(t, role, reason)
      PROVE  TypeOK'
  <2>1. [IdleTask EXCEPT !.op = "generate", !.role = role,
                         !.reason = reason, !.todo = Scope(role)] \in Task
    BY IdleTaskType, ScopeType, ConstantsAssumption DEF Task
  <2> QED BY <1>1, <2>1 DEF GenerateStart
<1>2. ASSUME NEW t \in Tasks, NEW e \in Employees, GenerateCompute(t, e)
      PROVE  TypeOK'
  <2>1. task[t].todo \ {e} \in SUBSET Employees
    BY DEF Task
  <2>2. CASE att[e] = 0
    BY <1>2, <2>1, <2>2, AfterEmployeeType DEF GenerateCompute
  <2>3. CASE att[e] # 0
    <3> DEFINE new == [task[t] EXCEPT !.pc = "read", !.emp = e,
                                      !.basis = att[e],
                                      !.todo = task[t].todo \ {e}]
    <3>1. new \in Task
      BY DEF Task
    <3>2. task' = [task EXCEPT ![t] = new] /\ UNCHANGED <<att, slip>>
      BY <1>2, <2>3 DEF GenerateCompute
    <3> HIDE DEF new
    <3> QED BY <3>1, <3>2
  <2> QED BY <2>2, <2>3
<1>3. ASSUME NEW t \in Tasks, GenerateRead(t)
      PROVE  TypeOK'
  <2> DEFINE new == [task[t] EXCEPT !.pc = "write",
                                    !.seen = slip[task[t].emp].status]
  <2>1. new \in Task
    BY DEF Task, Slip
  <2>2. /\ task' = [task EXCEPT ![t] = IdleTask] \/ task' = [task EXCEPT ![t] = new]
        /\ UNCHANGED <<att, slip>>
    BY <1>3 DEF GenerateRead
  <2> HIDE DEF new
  <2> QED BY <2>1, <2>2, IdleTaskType
<1>4. ASSUME NEW t \in Tasks, GenerateWrite(t)
      PROVE  TypeOK'
  <2>1. /\ task[t].emp \in Employees
        /\ task[t].basis \in Versions
        /\ task[t].role \in Roles \cup {"SYSTEM"}
        /\ task[t].todo \in SUBSET Employees
    BY DEF Task
  <2>2. \A netChanged \in BOOLEAN : OverrideField(task[t], netChanged) \in BOOLEAN
    BY <2>1 DEF OverrideField, Slip
  <2>3. PICK netChanged \in BOOLEAN :
          Upsert(task[t].emp, task[t].basis, task[t].role,
                 OverrideField(task[t], netChanged))
    BY <1>4 DEF GenerateWrite
  <2>4. slip' \in [Employees -> Slip]
    <3>1. OverrideField(task[t], netChanged) \in BOOLEAN
      BY <2>2
    <3>2. slip \in [Employees -> Slip]
      OBVIOUS
    <3> HIDE DEF TypeOK
    <3> QED BY <2>1, <2>3, <3>1, <3>2, UpsertRows
  <2> QED BY <1>4, <2>1, <2>4, AfterEmployeeType DEF GenerateWrite
<1>5. ASSUME NEW t \in Tasks, NEW role \in Actors \cap AdminRoles,
             NEW e \in Employees, RegenerateRead(t, role, e)
      PROVE  TypeOK'
  <2>1. [IdleTask EXCEPT !.op = "regenerate", !.pc = "compute",
                         !.role = role, !.reason = TRUE, !.emp = e] \in Task
    BY IdleTaskType, ConstantsAssumption DEF Task
  <2> QED BY <1>5, <2>1 DEF RegenerateRead
<1>6. ASSUME NEW t \in Tasks, RegenerateCompute(t)
      PROVE  TypeOK'
  <2>1. [task[t] EXCEPT !.pc = "write", !.basis = att[task[t].emp]] \in Task
    BY DEF Task
  <2> QED BY <1>6, <2>1 DEF RegenerateCompute
<1>7. ASSUME NEW t \in Tasks, RegenerateWrite(t)
      PROVE  TypeOK'
  <2>1. /\ task[t].emp \in Employees
        /\ task[t].basis \in Versions
        /\ task[t].role \in Roles \cup {"SYSTEM"}
        /\ slip[task[t].emp].regeneratedFromPaid \in BOOLEAN
    BY DEF Task, Slip
  <2>2. slip' \in [Employees -> Slip]
    BY <1>7, <2>1, UpsertRows DEF RegenerateWrite
  <2> QED BY <1>7, <2>2, IdleTaskType DEF RegenerateWrite
<1>8. ASSUME NEW role \in Actors, NEW e \in Employees, NEW to \in RowStatuses,
             UpdateStatus(role, e, to)
      PROVE  TypeOK'
  <2>1. Stamped(slip[e], to, role) \in Slip
    BY StampedRow, ConstantsAssumption
  <2> QED BY <1>8, <2>1 DEF UpdateStatus
<1>9. ASSUME NEW role \in Actors, NEW to \in Settled, BulkUpdateStatus(role, to)
      PROVE  TypeOK'
  <2>1. \A e \in Employees : Stamped(slip[e], to, role) \in Slip
    BY StampedRow, ConstantsAssumption DEF Settled, RowStatuses
  <2> QED BY <1>9, <2>1 DEF BulkUpdateStatus
<1>10. ASSUME NEW e \in Employees, ClockEvent(e)
       PROVE  TypeOK'
  BY <1>10, ConstantsAssumption DEF ClockEvent, Versions
<1>11. ASSUME NEW t \in Tasks, NEW e \in Employees, CorrectAttendance(t, e)
       PROVE  TypeOK'
  <2>1. [IdleTask EXCEPT !.op = "flag", !.pc = "read", !.emp = e] \in Task
    BY IdleTaskType DEF Task
  <2>2. att' \in [Employees -> Versions]
    BY <1>11, ConstantsAssumption DEF CorrectAttendance, Versions
  <2> QED BY <1>11, <2>1, <2>2 DEF CorrectAttendance
<1>12. ASSUME NEW t \in Tasks, FlagRead(t)
       PROVE  TypeOK'
  <2> DEFINE new == [task[t] EXCEPT !.pc = "write"]
  <2>1. new \in Task
    BY DEF Task
  <2>2. /\ task' = [task EXCEPT ![t] = IdleTask] \/ task' = [task EXCEPT ![t] = new]
        /\ UNCHANGED <<att, slip>>
    BY <1>12 DEF FlagRead
  <2> HIDE DEF new
  <2> QED BY <2>1, <2>2, IdleTaskType
<1>13. ASSUME NEW t \in Tasks, FlagWrite(t)
       PROVE  TypeOK'
  <2> DEFINE new == [slip[task[t].emp] EXCEPT !.status = "NEEDS_RECALCULATION",
                                              !.writer = "SYSTEM"]
  <2>1. task[t].emp \in Employees
    BY DEF Task
  <2>2. new \in Slip
    BY <2>1, FlaggedRow
  <2>3. /\ slip' = [slip EXCEPT ![task[t].emp] = new]
        /\ task' = [task EXCEPT ![t] = IdleTask] /\ UNCHANGED att
    BY <1>13 DEF FlagWrite
  <2> HIDE DEF new
  <2> QED BY <2>1, <2>2, <2>3, IdleTaskType
<1>14. ASSUME NEW t \in Tasks, TaskFails(t)
       PROVE  TypeOK'
  BY <1>14, IdleTaskType DEF TaskFails
<1>15. CASE UNCHANGED vars
  BY <1>15 DEF vars
<1> QED
  BY <1>1, <1>2, <1>3, <1>4, <1>5, <1>6, <1>7, <1>8, <1>9, <1>10, <1>11,
     <1>12, <1>13, <1>14, <1>15
  DEF Next, TaskStep

\* Type correctness of the payroll workflow.
THEOREM TypeCorrect == Spec => []TypeOK
BY TypeInit, TypeStep, PTL DEF Spec

-----------------------------------------------------------------------------
(* The rows *)

\* Stamping a row keeps its invariant when the approval, if it is one, comes
\* from an admin with the employee in scope and the payment, if it is one,
\* from an approved row.
LEMMA StampedRowInv ==
    ASSUME NEW e \in Employees, NEW row \in Slip, RowInv(e, row),
           NEW role \in Roles, e \in Scope(role), NEW to \in RowStatuses,
           to = "APPROVED" => role \in AdminRoles,
           to = "PAID" => row.status = "APPROVED"
    PROVE  /\ RowInv(e, Stamped(row, to, role))
           /\ RowKept(row, Stamped(row, to, role))
<1> DEFINE new == Stamped(row, to, role)
<1>1. /\ new.status = to /\ new.basis = row.basis /\ new.writer = role
      /\ new.regeneratedFromPaid = row.regeneratedFromPaid
      /\ new.paidAt = (row.paidAt \/ to = "PAID")
      /\ to # "APPROVED" => new.approved = row.approved
      /\ to = "APPROVED" => new.approved = [role |-> role, basis |-> row.basis]
  BY StampedRow
<1>2. row.paidAt \in BOOLEAN /\ new.paidAt \in BOOLEAN
  BY StampedRow DEF Slip
<1> HIDE DEF new
<1>3. new.status \in {"APPROVED", "PAID"} =>
        /\ new.approved.basis = new.basis
        /\ new.approved.role \in AdminRoles
        /\ e \in Scope(new.approved.role)
  BY <1>1 DEF RowInv
<1>4. e \notin BranchStaff => new.writer # "BRANCH_ADMIN"
  BY <1>1 DEF Scope
<1>5. new.regeneratedFromPaid => new.paidAt
  BY <1>1, <1>2 DEF RowInv
<1>6. new.status = "PAID" => new.paidAt
  BY <1>1, <1>2
<1>7. RowKept(row, new)
  BY <1>1, <1>2 DEF RowKept, RowStatuses
<1> QED BY <1>3, <1>4, <1>5, <1>6, <1>7 DEF RowInv, new

\* Computing a draft keeps the invariant of the rows when a branch admin
\* computes inside the branch and the override field is set on paid rows only.
LEMMA UpsertRowInv ==
    ASSUME slip \in [Employees -> Slip],
           \A f \in Employees : RowInv(f, slip[f]),
           NEW e \in Employees, NEW basis \in Versions,
           NEW role \in Roles \cup {"SYSTEM"}, NEW fromPaid \in BOOLEAN,
           Upsert(e, basis, role, fromPaid),
           role = "BRANCH_ADMIN" => e \in BranchStaff,
           fromPaid => slip[e].paidAt
    PROVE  /\ \A f \in Employees : RowInv(f, slip'[f])
           /\ \A f \in Employees : RowKept(slip[f], slip'[f])
<1>1. /\ \A f \in Employees : f # e => slip'[f] = slip[f]
      /\ slip'[e].status = "DRAFT"
      /\ slip'[e].writer = role
      /\ slip'[e].regeneratedFromPaid = fromPaid
      /\ slip'[e].paidAt = slip[e].paidAt
  BY UpsertRows
<1>2. RowInv(e, slip'[e])
  BY <1>1 DEF RowInv
<1> QED BY <1>1, <1>2 DEF RowKept

\* An idle task has nothing to answer for.
LEMMA IdleTaskInv == TaskInv(slip, IdleTask) /\ TaskInv(slip', IdleTask)
BY IdleTaskType DEF TaskInv

\* A task keeps its invariant as long as the rows are kept.
LEMMA TaskInvKept ==
    ASSUME NEW tk \in Task, TaskInv(slip, tk),
           \A f \in Employees : RowKept(slip[f], slip'[f])
    PROVE  TaskInv(slip', tk)
BY DEF TaskInv, Task, RowKept

\* When one task changes and the rows are kept, the tasks keep theirs.
LEMMA TasksInvKept ==
    ASSUME TypeOK, \A t \in Tasks : TaskInv(slip, task[t]),
           \A f \in Employees : RowKept(slip[f], slip'[f]),
           NEW t \in Tasks, NEW new, TaskInv(slip', new),
           task' = [task EXCEPT ![t] = new]
    PROVE  \A u \in Tasks : TaskInv(slip', task'[u])
<1>1. task'[t] = new /\ \A u \in Tasks \ {t} : task'[u] = task[u]
  BY DEF TypeOK
<1>2. \A u \in Tasks : task[u] \in Task
  BY DEF TypeOK
<1> SUFFICES ASSUME NEW u \in Tasks PROVE TaskInv(slip', task'[u])
  OBVIOUS
<1>3. CASE u = t
  BY <1>1, <1>3 DEF TaskInv
<1>4. CASE u # t
  BY <1>1, <1>2, <1>4, TaskInvKept
<1> QED BY <1>3, <1>4

\* So do they when a generation goes on or returns.
LEMMA AfterEmployeeInv ==
    ASSUME TypeOK, \A t \in Tasks : TaskInv(slip, task[t]),
           \A f \in Employees : RowKept(slip[f], slip'[f]),
           NEW t \in Tasks, NEW rest \in SUBSET task[t].todo,
           AfterEmployee(t, rest)
    PROVE  \A u \in Tasks : TaskInv(slip', task'[u])
<1> DEFINE new == [task[t] EXCEPT !.pc = "next", !.todo = rest]
<1>1. task[t] \in Task /\ TaskInv(slip, task[t])
  BY DEF TypeOK
<1>2. new.pc = "next" /\ new.todo = rest /\ new.role = task[t].role
  BY <1>1 DEF Task
<1>3. task' = [task EXCEPT ![t] = IdleTask] \/ task' = [task EXCEPT ![t] = new]
  BY DEF AfterEmployee
<1> HIDE DEF new
<1>4. TaskInv(slip', new)
  BY <1>1, <1>2 DEF TaskInv
<1> QED BY <1>3, <1>4, IdleTaskInv, TasksInvKept

-----------------------------------------------------------------------------
(* The invariant is inductive *)

LEMMA InvInit == Init => IInv
<1> SUFFICES ASSUME Init PROVE IInv
  OBVIOUS
<1>1. \A e \in Employees : RowInv(e, slip[e])
  BY DEF Init, RowInv, NoSlip
<1>2. \A t \in Tasks : TaskInv(slip, task[t])
  BY IdleTaskInv DEF Init, TaskInv
<1> QED BY <1>1, <1>2, TypeInit DEF IInv

\* A step that leaves the rows alone and moves one task.
LEMMA TaskOnlyStep ==
    ASSUME IInv, UNCHANGED slip, NEW t \in Tasks, NEW new, TaskInv(slip', new),
           task' = [task EXCEPT ![t] = new]
    PROVE  /\ \A e \in Employees : RowInv(e, slip'[e])
           /\ \A u \in Tasks : TaskInv(slip', task'[u])
<1>1. \A f \in Employees : RowKept(slip[f], slip'[f])
  BY DEF RowKept
<1>2. \A u \in Tasks : TaskInv(slip', task'[u])
  BY <1>1, TasksInvKept DEF IInv
<1>3. \A e \in Employees : RowInv(e, slip'[e])
  BY DEF IInv, RowInv
<1> QED BY <1>2, <1>3

LEMMA InvStep == IInv /\ [Next]_vars => IInv'
<1> SUFFICES ASSUME IInv, [Next]_vars
             PROVE  /\ \A e \in Employees : RowInv(e, slip'[e])
                    /\ \A t \in Tasks : TaskInv(slip', task'[t])
  BY TypeStep DEF IInv
<1> DEFINE Goal == /\ \A e \in Employees : RowInv(e, slip'[e])
                   /\ \A t \in Tasks : TaskInv(slip', task'[t])
<1>0. /\ slip \in [Employees -> Slip]
      /\ task \in [Tasks -> Task]
      /\ \A e \in Employees : slip[e] \in Slip
      /\ \A t \in Tasks : task[t] \in Task
  BY DEF IInv, TypeOK
<1>1. ASSUME NEW t \in Tasks, NEW role \in Actors, NEW reason \in BOOLEAN,
             GenerateStart(t, role, reason)
      PROVE  Goal
  <2> DEFINE new == [IdleTask EXCEPT !.op = "generate", !.role = role,
                                     !.reason = reason, !.todo = Scope(role)]
  <2>1. /\ new.op = "generate" /\ new.pc = "next"
        /\ new.role = role /\ new.todo = Scope(role)
    BY IdleTaskType DEF Task
  <2>2. task' = [task EXCEPT ![t] = new] /\ UNCHANGED slip
    BY <1>1 DEF GenerateStart
  <2> HIDE DEF new
  <2>3. TaskInv(slip', new)
    BY <2>1 DEF TaskInv, Scope
  <2> QED BY <2>2, <2>3, TaskOnlyStep
<1>2. ASSUME NEW t \in Tasks, NEW e \in Employees, GenerateCompute(t, e)
      PROVE  Goal
  <2>1. UNCHANGED slip /\ e \in task[t].todo
    BY <1>2 DEF GenerateCompute
  <2>2. CASE att[e] = 0
    <3>1. AfterEmployee(t, task[t].todo \ {e})
      BY <1>2, <2>2 DEF GenerateCompute
    <3>2. \A u \in Tasks : TaskInv(slip', task'[u])
      BY <2>1, <3>1, AfterEmployeeInv DEF IInv, RowKept
    <3>3. \A f \in Employees : RowInv(f, slip'[f])
      BY <2>1 DEF IInv, RowInv
    <3> QED BY <3>2, <3>3
  <2>3. CASE att[e] # 0
    <3> DEFINE new == [task[t] EXCEPT !.pc = "read", !.emp = e,
                                      !.basis = att[e],
                                      !.todo = task[t].todo \ {e}]
    <3>1. /\ new.pc = "read" /\ new.emp = e
          /\ new.todo = task[t].todo \ {e}
          /\ new.role = task[t].role
      BY <1>0 DEF Task
    <3>2. task' = [task EXCEPT ![t] = new]
      BY <1>2, <2>3 DEF GenerateCompute
    <3> HIDE DEF new
    <3>3. TaskInv(slip, task[t])
      BY DEF IInv
    <3>4. TaskInv(slip', new)
      BY <2>1, <3>1, <3>3 DEF TaskInv
    <3> QED BY <2>1, <3>2, <3>4, TaskOnlyStep
  <2> QED BY <2>2, <2>3
<1>3. ASSUME NEW t \in Tasks, GenerateRead(t)
      PROVE  Goal
  <2> DEFINE new == [task[t] EXCEPT !.pc = "write",
                                    !.seen = slip[task[t].emp].status]
  <2>1. /\ new.op = task[t].op /\ new.seen = slip[task[t].emp].status
        /\ new.role = task[t].role /\ new.todo = task[t].todo
        /\ new.emp = task[t].emp
    BY <1>0 DEF Task
  <2>2. /\ task' = [task EXCEPT ![t] = IdleTask] \/ task' = [task EXCEPT ![t] = new]
        /\ UNCHANGED slip
        /\ task[t].op = "generate" /\ task[t].pc = "read"
    BY <1>3 DEF GenerateRead, At
  <2> HIDE DEF new
  <2>3. TaskInv(slip, task[t]) /\ task[t].emp \in Employees
    BY <1>0 DEF IInv, Task
  <2>4. new.seen = "PAID" => slip[new.emp].paidAt
    BY <2>1, <2>3 DEF IInv, RowInv
  <2>5. TaskInv(slip', new)
    BY <2>1, <2>2, <2>3, <2>4 DEF TaskInv
  <2> QED BY <2>2, <2>5, IdleTaskInv, TaskOnlyStep
<1>4. ASSUME NEW t \in Tasks, GenerateWrite(t)
      PROVE  Goal
  <2> DEFINE e == task[t].emp
  <2>1. /\ e \in Employees
        /\ task[t].basis \in Versions
        /\ task[t].role \in Roles \cup {"SYSTEM"}
        /\ slip[e].regeneratedFromPaid \in BOOLEAN
    BY <1>0 DEF Task, Slip
  <2>2. task[t].op = "generate" /\ task[t].pc = "write" /\ TaskInv(slip, task[t])
    BY <1>4 DEF GenerateWrite, At, IInv
  <2>3. RowInv(e, slip[e])
    BY <2>1 DEF IInv
  <2>4. PICK netChanged \in BOOLEAN :
          Upsert(e, task[t].basis, task[t].role, OverrideField(task[t], netChanged))
    BY <1>4 DEF GenerateWrite
  <2>5. /\ OverrideField(task[t], netChanged) \in BOOLEAN
        /\ OverrideField(task[t], netChanged) => slip[e].paidAt
    BY <2>1, <2>2, <2>3 DEF OverrideField, TaskInv, RowInv
  <2>6. task[t].role = "BRANCH_ADMIN" => e \in BranchStaff
    BY <2>2 DEF TaskInv
  <2>7. /\ \A f \in Employees : RowInv(f, slip'[f])
        /\ \A f \in Employees : RowKept(slip[f], slip'[f])
    BY <1>0, <2>1, <2>4, <2>5, <2>6, UpsertRowInv DEF IInv
  <2>8. \A u \in Tasks : TaskInv(slip', task'[u])
    BY <1>4, <2>7, AfterEmployeeInv DEF GenerateWrite, IInv
  <2> QED BY <2>7, <2>8 DEF RowInv
<1>5. ASSUME NEW t \in Tasks, NEW role \in Actors \cap AdminRoles,
             NEW e \in Employees, RegenerateRead(t, role, e)
      PROVE  Goal
  <2> DEFINE new == [IdleTask EXCEPT !.op = "regenerate", !.pc = "compute",
                                     !.role = role, !.reason = TRUE, !.emp = e]
  <2>1. /\ new.op = "regenerate" /\ new.role = role /\ new.emp = e
        /\ new.todo = {}
    BY IdleTaskType DEF Task
  <2>2. task' = [task EXCEPT ![t] = new] /\ UNCHANGED slip /\ e \in Scope(role)
    BY <1>5 DEF RegenerateRead
  <2> HIDE DEF new
  <2>3. TaskInv(slip', new)
    BY <2>1, <2>2 DEF TaskInv, Scope
  <2> QED BY <2>2, <2>3, TaskOnlyStep
<1>6. ASSUME NEW t \in Tasks, RegenerateCompute(t)
      PROVE  Goal
  <2> DEFINE new == [task[t] EXCEPT !.pc = "write", !.basis = att[task[t].emp]]
  <2>1. /\ new.op = task[t].op /\ new.role = task[t].role
        /\ new.todo = task[t].todo /\ new.emp = task[t].emp
    BY <1>0 DEF Task
  <2>2. /\ task' = [task EXCEPT ![t] = new] /\ UNCHANGED slip
        /\ task[t].op = "regenerate" /\ task[t].pc = "compute"
        /\ TaskInv(slip, task[t])
    BY <1>6 DEF RegenerateCompute, At, IInv
  <2> HIDE DEF new
  <2>3. TaskInv(slip', new)
    BY <2>1, <2>2 DEF TaskInv
  <2> QED BY <2>2, <2>3, TaskOnlyStep
<1>7. ASSUME NEW t \in Tasks, RegenerateWrite(t)
      PROVE  Goal
  <2> DEFINE e == task[t].emp
  <2>1. /\ e \in Employees
        /\ task[t].basis \in Versions
        /\ task[t].role \in Roles \cup {"SYSTEM"}
        /\ slip[e].regeneratedFromPaid \in BOOLEAN
    BY <1>0 DEF Task, Slip
  <2>2. task[t].pc = "write" /\ TaskInv(slip, task[t]) /\ RowInv(e, slip[e])
    BY <1>7, <2>1 DEF RegenerateWrite, At, IInv
  <2>3. task[t].role = "BRANCH_ADMIN" => e \in BranchStaff
    BY <2>2 DEF TaskInv
  <2>4. slip[e].regeneratedFromPaid => slip[e].paidAt
    BY <2>2 DEF RowInv
  <2>5. /\ \A f \in Employees : RowInv(f, slip'[f])
        /\ \A f \in Employees : RowKept(slip[f], slip'[f])
    BY <1>0, <1>7, <2>1, <2>3, <2>4, UpsertRowInv DEF RegenerateWrite, IInv
  <2>6. \A u \in Tasks : TaskInv(slip', task'[u])
    BY <1>7, <2>5, IdleTaskInv, TasksInvKept DEF RegenerateWrite, IInv
  <2> QED BY <2>5, <2>6 DEF RowInv
<1>8. ASSUME NEW role \in Actors, NEW e \in Employees, NEW to \in RowStatuses,
             UpdateStatus(role, e, to)
      PROVE  Goal
  <2>1. /\ role \in Roles /\ e \in Scope(role) /\ RowInv(e, slip[e])
        /\ to \in RoleTransitions(role, slip[e].status)
    BY <1>8, ConstantsAssumption DEF UpdateStatus, IInv
  <2>2. /\ to = "APPROVED" => role \in AdminRoles
        /\ to = "PAID" => slip[e].status = "APPROVED"
    BY <2>1 DEF RoleTransitions, Roles
  <2>3. /\ RowInv(e, Stamped(slip[e], to, role))
        /\ RowKept(slip[e], Stamped(slip[e], to, role))
    BY <1>0, <2>1, <2>2, StampedRowInv
  <2>4. /\ slip'[e] = Stamped(slip[e], to, role)
        /\ \A f \in Employees \ {e} : slip'[f] = slip[f]
        /\ UNCHANGED task
    BY <1>0, <1>8 DEF UpdateStatus
  <2>5. \A f \in Employees : RowInv(f, slip'[f])
    BY <2>3, <2>4 DEF IInv, RowInv
  <2>6. \A f \in Employees : RowKept(slip[f], slip'[f])
    BY <2>3, <2>4 DEF RowKept
  <2>7. \A u \in Tasks : TaskInv(slip', task'[u])
    BY <1>0, <2>4, <2>6, TaskInvKept DEF IInv
  <2> QED BY <2>5, <2>7
<1>9. ASSUME NEW role \in Actors, NEW to \in Settled, BulkUpdateStatus(role, to)
      PROVE  Goal
  <2>1. /\ role \in Roles /\ to \in RowStatuses
        /\ to = "APPROVED" => role \in AdminRoles
    BY <1>9, ConstantsAssumption
    DEF BulkUpdateStatus, BulkTargets, Settled, RowStatuses, Roles
  <2>2. /\ \A f \in Employees \cap RowsInScope(role) :
              /\ slip'[f] = Stamped(slip[f], to, role)
              /\ slip[f].status \in BulkFromStates(to)
        /\ \A f \in Employees \ RowsInScope(role) : slip'[f] = slip[f]
        /\ UNCHANGED task
    BY <1>9 DEF BulkUpdateStatus
  <2>3. \A f \in Employees :
          RowInv(f, slip'[f]) /\ RowKept(slip[f], slip'[f])
    <3> SUFFICES ASSUME NEW f \in Employees
                 PROVE  RowInv(f, slip'[f]) /\ RowKept(slip[f], slip'[f])
      OBVIOUS
    <3>1. RowInv(f, slip[f])
      BY DEF IInv
    <3>2. CASE f \notin RowsInScope(role)
      BY <2>2, <3>1, <3>2 DEF RowKept
    <3>3. CASE f \in RowsInScope(role)
      <4>1. f \in Scope(role)
        BY <3>3 DEF RowsInScope
      <4>2. to = "PAID" => slip[f].status = "APPROVED"
        BY <2>2, <3>3 DEF BulkFromStates
      <4> QED BY <1>0, <2>1, <2>2, <3>1, <3>3, <4>1, <4>2, StampedRowInv
    <3> QED BY <3>2, <3>3
  <2>4. \A u \in Tasks : TaskInv(slip', task'[u])
    BY <1>0, <2>2, <2>3, TaskInvKept DEF IInv
  <2> QED BY <2>3, <2>4 DEF RowInv
<1>10. ASSUME NEW e \in Employees, ClockEvent(e)
       PROVE  Goal
  BY <1>10 DEF ClockEvent, IInv, RowInv, TaskInv
<1>11. ASSUME NEW t \in Tasks, NEW e \in Employees, CorrectAttendance(t, e)
       PROVE  Goal
  <2> DEFINE new == [IdleTask EXCEPT !.op = "flag", !.pc = "read", !.emp = e]
  <2>1. new.op = "flag" /\ new.pc = "read" /\ new.role = "SYSTEM"
    BY IdleTaskType DEF Task
  <2>2. task' = [task EXCEPT ![t] = new] /\ UNCHANGED slip
    BY <1>11 DEF CorrectAttendance
  <2> HIDE DEF new
  <2>3. TaskInv(slip', new)
    BY <2>1 DEF TaskInv
  <2> QED BY <2>2, <2>3, TaskOnlyStep
<1>12. ASSUME NEW t \in Tasks, FlagRead(t)
       PROVE  Goal
  <2> DEFINE new == [task[t] EXCEPT !.pc = "write"]
  <2>1. /\ new.op = task[t].op /\ new.role = task[t].role
        /\ new.todo = task[t].todo /\ new.emp = task[t].emp
    BY <1>0 DEF Task
  <2>2. /\ task' = [task EXCEPT ![t] = IdleTask] \/ task' = [task EXCEPT ![t] = new]
        /\ UNCHANGED slip
        /\ task[t].op = "flag" /\ task[t].pc = "read" /\ TaskInv(slip, task[t])
        /\ task' # [task EXCEPT ![t] = IdleTask] =>
             slip[task[t].emp].status # "NONE"
    BY <1>12 DEF FlagRead, At, IInv, Flaggable, Settled
  <2> HIDE DEF new
  <2>3. task' # [task EXCEPT ![t] = IdleTask] => TaskInv(slip', new)
    BY <2>1, <2>2 DEF TaskInv
  <2> QED BY <2>2, <2>3, IdleTaskInv, TaskOnlyStep
<1>13. ASSUME NEW t \in Tasks, FlagWrite(t)
       PROVE  Goal
  <2> DEFINE e == task[t].emp
             new == [slip[e] EXCEPT !.status = "NEEDS_RECALCULATION",
                                    !.writer = "SYSTEM"]
  <2>1. e \in Employees
    BY <1>0 DEF Task
  <2>2. /\ new.status = "NEEDS_RECALCULATION" /\ new.writer = "SYSTEM"
        /\ new.regeneratedFromPaid = slip[e].regeneratedFromPaid
        /\ new.paidAt = slip[e].paidAt
    BY <1>0, <2>1, FlaggedRow
  <2>3. /\ slip' = [slip EXCEPT ![e] = new]
        /\ task' = [task EXCEPT ![t] = IdleTask]
    BY <1>13 DEF FlagWrite
  <2> HIDE DEF new
  <2>4. slip'[e] = new /\ \A f \in Employees \ {e} : slip'[f] = slip[f]
    BY <1>0, <2>1, <2>3
  <2>5. \A f \in Employees : RowInv(f, slip'[f])
    BY <2>1, <2>2, <2>4 DEF IInv, RowInv
  <2>6. \A f \in Employees : RowKept(slip[f], slip'[f])
    BY <2>2, <2>4 DEF RowKept
  <2>7. \A u \in Tasks : TaskInv(slip', task'[u])
    BY <2>3, <2>6, IdleTaskInv, TasksInvKept DEF IInv
  <2> QED BY <2>5, <2>7
<1>14. ASSUME NEW t \in Tasks, TaskFails(t)
       PROVE  Goal
  BY <1>14, IdleTaskInv, TaskOnlyStep DEF TaskFails
<1>15. CASE UNCHANGED vars
  BY <1>15 DEF vars, IInv, RowInv, TaskInv
<1> QED
  BY <1>1, <1>2, <1>3, <1>4, <1>5, <1>6, <1>7, <1>8, <1>9, <1>10, <1>11,
     <1>12, <1>13, <1>14, <1>15
  DEF Next, TaskStep

LEMMA InvAlways == Spec => []IInv
BY InvInit, InvStep, PTL DEF Spec

-----------------------------------------------------------------------------
(* The safety of the payslips *)

\* An approved or paid payslip carries the content that an admin with the
\* employee in scope approved, however requests interleave and fail.
THEOREM ApprovalSafety == Spec => []ApprovedContent
<1>1. IInv => ApprovedContent
  BY DEF IInv, RowInv, ApprovedContent
<1> QED BY <1>1, InvAlways, PTL

\* No request of an admin whose token names a branch writes a payslip of
\* another branch.
THEOREM BranchSafety == Spec => []BranchIsolation
<1>1. IInv => BranchIsolation
  BY DEF IInv, RowInv, BranchIsolation
<1> QED BY <1>1, InvAlways, PTL

\* The override mark is only ever on payslips that have been paid.
THEOREM OverrideSafety == Spec => []OverrideFollowsPayment
<1>1. IInv => OverrideFollowsPayment
  BY DEF IInv, RowInv, OverrideFollowsPayment
<1> QED BY <1>1, InvAlways, PTL

-----------------------------------------------------------------------------
(* The workflow implements the life of a payslip *)

\* A draft of any content, at any moment, is a step of the lifecycle.
LEMMA UpsertIsDraft ==
    ASSUME TypeOK, NEW e \in Employees, NEW basis \in Versions,
           NEW role \in Roles \cup {"SYSTEM"}, NEW fromPaid \in BOOLEAN,
           Upsert(e, basis, role, fromPaid)
    PROVE  \A f \in Employees : Lifecycle!PayslipStep(f)
<1>1. /\ \A f \in Employees : f # e => slip'[f] = slip[f]
      /\ slip'[e].status = "DRAFT"
      /\ slip'[e].basis \in Versions
      /\ slip'[e].approved = slip[e].approved
  BY UpsertRows DEF TypeOK
<1> SUFFICES ASSUME NEW f \in Employees PROVE Lifecycle!PayslipStep(f)
  OBVIOUS
<1>2. CASE f = e
  BY <1>1, <1>2 DEF Lifecycle!PayslipStep, Lifecycle!Drafted
<1>3. CASE f # e
  BY <1>1, <1>3 DEF Lifecycle!PayslipStep, Lifecycle!Kept
<1> QED BY <1>2, <1>3

\* So is a stamped row, when the transition is one of the tables'.
LEMMA StampIsStep ==
    ASSUME TypeOK, NEW f \in Employees, NEW role \in Roles,
           NEW to \in RowStatuses, slip'[f] = Stamped(slip[f], to, role),
           \/ <<slip[f].status, to>> \in Lifecycle!Forward
           \/ slip[f].status = "PROCESSED" /\ to = "APPROVED"
    PROVE  Lifecycle!PayslipStep(f)
<1>1. /\ slip'[f].status = to /\ slip'[f].basis = slip[f].basis
      /\ to # "APPROVED" => slip'[f].approved = slip[f].approved
      /\ to = "APPROVED" =>
           slip'[f].approved = [role |-> role, basis |-> slip[f].basis]
  BY StampedRow DEF TypeOK
<1>2. CASE to # "APPROVED"
  <2>1. <<slip[f].status, slip'[f].status>> \in Lifecycle!Forward
    BY <1>1, <1>2
  <2> QED
    BY <1>1, <1>2, <2>1 DEF Lifecycle!PayslipStep, Lifecycle!Moved
<1>3. CASE to = "APPROVED"
  <2>1. slip[f].status = "PROCESSED"
    BY <1>3 DEF Lifecycle!Forward
  <2>2. role # "NOBODY"
    BY DEF Roles, AdminRoles
  <2> QED
    BY <1>1, <1>3, <2>1, <2>2 DEF Lifecycle!PayslipStep, Lifecycle!Approved
<1> QED BY <1>2, <1>3

LEMMA LifecycleInit == Init => Lifecycle!Init
<1>1. 0 \in Versions
  BY ConstantsAssumption DEF Versions
<1> QED BY <1>1 DEF Init, NoSlip, Lifecycle!Init

LEMMA LifecycleStep == IInv /\ [Next]_vars => [Lifecycle!Next]_(Lifecycle!vars)
<1> SUFFICES ASSUME IInv, [Next]_vars
             PROVE  (\A f \in Employees : Lifecycle!PayslipStep(f)) \/ UNCHANGED slip
  BY DEF Lifecycle!Next, Lifecycle!vars
<1> DEFINE Goal == (\A f \in Employees : Lifecycle!PayslipStep(f)) \/ UNCHANGED slip
<1>0. /\ TypeOK
      /\ slip \in [Employees -> Slip]
      /\ \A t \in Tasks : task[t] \in Task
  BY DEF IInv, TypeOK
<1>1. ASSUME NEW t \in Tasks, TaskStep(t)
      PROVE  Goal
  <2>1. /\ task[t].emp \in Employees
        /\ task[t].basis \in Versions
        /\ task[t].role \in Roles \cup {"SYSTEM"}
        /\ slip[task[t].emp].regeneratedFromPaid \in BOOLEAN
    BY <1>0 DEF Task, Slip
  <2>2. CASE GenerateWrite(t)
    <3>1. \A netChanged \in BOOLEAN : OverrideField(task[t], netChanged) \in BOOLEAN
      BY <2>1 DEF OverrideField
    <3> QED BY <1>0, <2>1, <2>2, <3>1, UpsertIsDraft DEF GenerateWrite
  <2>3. CASE RegenerateWrite(t)
    BY <1>0, <2>1, <2>3, UpsertIsDraft DEF RegenerateWrite
  <2>4. CASE FlagWrite(t)
    <3> DEFINE e == task[t].emp
               new == [slip[e] EXCEPT !.status = "NEEDS_RECALCULATION",
                                      !.writer = "SYSTEM"]
    <3>1. slip[e].status # "NONE"
      BY <2>4 DEF FlagWrite, At, IInv, TaskInv
    <3>2. /\ new.status = "NEEDS_RECALCULATION" /\ new.basis = slip[e].basis
          /\ new.approved = slip[e].approved
      BY <1>0, <2>1, FlaggedRow
    <3>3. slip' = [slip EXCEPT ![e] = new]
      BY <2>4 DEF FlagWrite
    <3> HIDE DEF new
    <3>4. slip'[e] = new /\ \A f \in Employees \ {e} : slip'[f] = slip[f]
      BY <1>0, <2>1, <3>3
    <3>5. \A f \in Employees : Lifecycle!PayslipStep(f)
      <4> SUFFICES ASSUME NEW f \in Employees PROVE Lifecycle!PayslipStep(f)
        OBVIOUS
      <4>1. CASE f = e
        BY <2>1, <3>1, <3>2, <3>4, <4>1
        DEF Lifecycle!PayslipStep, Lifecycle!Flagged
      <4>2. CASE f # e
        BY <3>4, <4>2 DEF Lifecycle!PayslipStep, Lifecycle!Kept
      <4> QED BY <4>1, <4>2
    <3> QED BY <3>5
  <2>5. CASE ~(GenerateWrite(t) \/ RegenerateWrite(t) \/ FlagWrite(t))
    BY <1>1, <2>5
    DEF TaskStep, GenerateCompute, GenerateRead, RegenerateCompute, FlagRead
  <2> QED BY <2>2, <2>3, <2>4, <2>5
<1>2. ASSUME NEW role \in Actors, NEW e \in Employees, NEW to \in RowStatuses,
             UpdateStatus(role, e, to)
      PROVE  Goal
  <2>1. /\ role \in Roles
        /\ to \in RoleTransitions(role, slip[e].status)
        /\ slip'[e] = Stamped(slip[e], to, role)
        /\ \A f \in Employees \ {e} : slip'[f] = slip[f]
    BY <1>0, <1>2, ConstantsAssumption DEF UpdateStatus
  <2>2. \/ <<slip[e].status, to>> \in Lifecycle!Forward
        \/ slip[e].status = "PROCESSED" /\ to = "APPROVED"
    BY <2>1 DEF RoleTransitions, Lifecycle!Forward
  <2>3. Lifecycle!PayslipStep(e)
    BY <1>0, <2>1, <2>2, StampIsStep
  <2>4. \A f \in Employees \ {e} : Lifecycle!PayslipStep(f)
    BY <2>1 DEF Lifecycle!PayslipStep, Lifecycle!Kept
  <2> QED BY <2>3, <2>4
<1>3. ASSUME NEW role \in Actors, NEW to \in Settled, BulkUpdateStatus(role, to)
      PROVE  Goal
  <2> SUFFICES ASSUME NEW f \in Employees PROVE Lifecycle!PayslipStep(f)
    OBVIOUS
  <2>1. CASE f \notin RowsInScope(role)
    <3>1. slip'[f] = slip[f]
      BY <1>3, <2>1 DEF BulkUpdateStatus
    <3> QED BY <3>1 DEF Lifecycle!PayslipStep, Lifecycle!Kept
  <2>2. CASE f \in RowsInScope(role)
    <3>1. /\ slip'[f] = Stamped(slip[f], to, role)
          /\ slip[f].status \in BulkFromStates(to)
          /\ role \in Roles /\ to \in RowStatuses
      BY <1>3, <2>2, ConstantsAssumption DEF BulkUpdateStatus, Settled, RowStatuses
    <3>2. \/ <<slip[f].status, to>> \in Lifecycle!Forward
          \/ slip[f].status = "PROCESSED" /\ to = "APPROVED"
      BY <3>1 DEF BulkFromStates, Lifecycle!Forward, Settled
    <3> QED BY <1>0, <3>1, <3>2, StampIsStep
  <2> QED BY <2>1, <2>2
<1>4. CASE UNCHANGED slip
  BY <1>4
<1> QED
  BY <1>1, <1>2, <1>3, <1>4
  DEF Next, vars, TaskFails, GenerateStart, RegenerateRead, ClockEvent,
      CorrectAttendance

\* Every behaviour of the workflow, projected on its payslips, is a behaviour
\* of PayslipLifecycle.
THEOREM Refinement == Spec => LifecycleSpec
BY LifecycleInit, LifecycleStep, InvAlways, PTL DEF Spec, LifecycleSpec, Lifecycle!Spec
=============================================================================
