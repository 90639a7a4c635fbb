-------------------------- MODULE PayslipLifecycle --------------------------
(***************************************************************************)
(* What the payroll service promises of its payslips, whoever asks for     *)
(* what and however the requests interleave: the life of each payslip is a *)
(* walk in one graph, and money is paid for approved content only.         *)
(*                                                                         *)
(* One step may move several payslips: a bulk change moves a whole month.  *)
(***************************************************************************)
CONSTANTS
    Employees,
    Contents       \* what a payslip may have been computed from

VARIABLES
    status,        \* status of the payslip of each employee
    content,       \* what it says
    approved       \* the content last approved, "NOTHING" before the first
vars == <<status, content, approved>>

Init ==
    /\ status = [e \in Employees |-> "NONE"]
    /\ content \in [Employees -> Contents]
    /\ approved = [e \in Employees |-> "NOTHING"]

\* A computation makes a draft of whatever there was.
Drafted(e) ==
    /\ status'[e] = "DRAFT"
    /\ content'[e] \in Contents
    /\ approved'[e] = approved[e]

\* The steps of a payslip whose content stays.
Forward == {<<"DRAFT", "PROCESSED">>, <<"NEEDS_RECALCULATION", "PROCESSED">>,
            <<"APPROVED", "PROCESSED">>, <<"APPROVED", "PAID">>}

Moved(e) ==
    /\ <<status[e], status'[e]>> \in Forward
    /\ content'[e] = content[e]
    /\ approved'[e] = approved[e]

Approved(e) ==
    /\ status[e] = "PROCESSED"
    /\ status'[e] = "APPROVED"
    /\ content'[e] = content[e]
    /\ approved'[e] = content[e]

\* A flag; it may be raised late, on what has become a draft.
Flagged(e) ==
    /\ status[e] # "NONE"
    /\ status'[e] = "NEEDS_RECALCULATION"
    /\ content'[e] = content[e]
    /\ approved'[e] = approved[e]

Kept(e) ==
    /\ status'[e] = status[e]
    /\ content'[e] = content[e]
    /\ approved'[e] = approved[e]

PayslipStep(e) ==
    Drafted(e) \/ Moved(e) \/ Approved(e) \/ Flagged(e) \/ Kept(e)

Next ==
    /\ DOMAIN status' = Employees
    /\ DOMAIN content' = Employees
    /\ DOMAIN approved' = Employees
    /\ \A e \in Employees : PayslipStep(e)

Spec == Init /\ [][Next]_vars
=============================================================================
