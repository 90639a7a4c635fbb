---------------------------- MODULE MCMembership ----------------------------
(***************************************************************************)
(* Instances of Membership for TLC.                                        *)
(***************************************************************************)
EXTENDS Membership, TLC

CONSTANTS u1, u2, u3, u4, u5, b1, b2, s1, s2

FiveUsers == {u1, u2, u3, u4, u5}
OneHired == {u2}
TwoBranches == {b1, b2}
TwoSessions == {s1, s2}

\* One field at a time: a role, on or off, a branch or none.
SingleEdits ==
    {[NoChange EXCEPT !.role = r] : r \in Roles}
        \cup {[NoChange EXCEPT !.active = a] : a \in BOOLEAN}
        \cup {[NoChange EXCEPT !.branch = b] : b \in TwoBranches \cup {NoBranch}}
=============================================================================
