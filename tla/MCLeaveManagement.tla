-------------------------- MODULE MCLeaveManagement --------------------------
(***************************************************************************)
(* Instances of LeaveManagement for TLC: two years of two days.            *)
(***************************************************************************)
EXTENDS LeaveManagement, TLC

CONSTANTS d1, a1

OneDevice == {d1}
OneAdmin == {a1}
Policy(enabled, entitlement) ==
    [enabled |-> enabled, entitlement |-> entitlement]
SomePolicies == {Policy(TRUE, 1), Policy(TRUE, 3), Policy(FALSE, 3)}
SomeAdjustments == {-1}

\* One year is adjusted at most.  With two leaves the settings stay as they
\* are, and only the first year is initialized.
Bound ==
    /\ \A y, z \in Years : balance[y].adjusted /\ balance[z].adjusted => y = z
    /\ Len(leave) = 2 =>
         /\ policy = Policy(TRUE, 3)
         /\ \A a \in Admins : admin[a].pc \in {"idle", "decide"}
         /\ balance[0].exists => balance[0].entitlement = 3
         /\ \A y \in Years : ~balance[y].adjusted /\ (balance[y].exists => y = 0)
=============================================================================
