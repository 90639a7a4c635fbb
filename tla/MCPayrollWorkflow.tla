------------------------- MODULE MCPayrollWorkflow -------------------------
(***************************************************************************)
(* An instance of PayrollWorkflow for TLC, in which a behaviour is one of  *)
(* two: two tasks of an accountant and an admin race on the payslip of e1  *)
(* (races), or one task of admins with and without a branch, and their     *)
(* status changes, meet on the payslips of e1, who is in the branch, and   *)
(* of e2, who is not (scopes).                                             *)
(*                                                                         *)
(* ORG_ADMIN and SUPER_ADMIN have the table and, in one organization, the  *)
(* scope of an admin without a branch.  The reason an accountant gives     *)
(* makes no difference.  In a race the loop skips e2, who has no           *)
(* attendance, before it gets to e1: it always has some step to take.      *)
(***************************************************************************)
EXTENDS PayrollWorkflow, TLC

CONSTANTS e1, e2, t1, t2

TwoEmployees == {e1, e2}
OneOfThem == {e1}
TwoTasks == {t1, t2}
InBranch == {"ORG_ACCOUNTANT", "BRANCH_ADMIN"}
BranchAdmins == {"BRANCH_ADMIN", "BRANCHLESS_ADMIN"}
Everybody == InBranch \cup BranchAdmins
Computations == {"generate", "regenerate"}

VARIABLE behaviour   \* "races" or "scopes"

\* Whoever acts in this step is one of them.
Only(roles) ==
    /\ \A t \in Tasks : task'[t].role \in roles \cup {"SYSTEM"}
    /\ \A e \in Employees : slip'[e].writer \in roles \cup {"NOBODY", "SYSTEM"}
Races ==
    /\ Only(InBranch)
    /\ att'[e2] = 0
    /\ \A t \in Tasks :
         /\ task'[t].op = "regenerate" => task'[t].emp = e1
         /\ task'[t].pc # "next" => e2 \notin task'[t].todo
         /\ task'[t].role = "ORG_ACCOUNTANT" => task'[t].reason
Scopes ==
    /\ Only(BranchAdmins)
    /\ \A e \in Employees : att'[e] <= 1
    /\ \A t \in Tasks : task'[t].op # "flag"
    /\ Idle(t2)'

PayrollInit == Init /\ behaviour \in {"races", "scopes"}
PayrollNext ==
    /\ Next
    /\ behaviour = "races" => Races
    /\ behaviour = "scopes" => Scopes
    /\ UNCHANGED behaviour
\* FairSpec, narrowed to these behaviours.
PayrollSpec ==
    /\ PayrollInit /\ [][PayrollNext]_<<vars, behaviour>>
    /\ \A t \in Tasks : WF_vars(TaskStep(t))
=============================================================================
