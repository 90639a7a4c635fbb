----------------------------- MODULE MCServices -----------------------------
(***************************************************************************)
(* An instance of Services for TLC: requests of every service come from    *)
(* the same two clients, and the two organizations of Holidays are their   *)
(* admins' own.                                                            *)
(***************************************************************************)
EXTENDS Services, MCCalendar, MCFigures, TLC

CONSTANTS c1, c2, m1, l1

TwoClients == {c1, c2}
TwoOrgs == {c1, c2}
OneMember == {m1}
OneList == {l1}
Swapped == Permutations(TwoClients)

\* Overlapping ranges and weekdays, and ones that only touch.
ThreeShifts ==
    {[from |-> 1, to |-> 3, days |-> {0, 1}], [from |-> 1, to |-> 3, days |-> {0}],
     [from |-> 1, to |-> 1, days |-> {1}]}

\* The organization's office, at 0, is 300 metres from the branch.
OrgFence(enabled, at, radius, qrOnly) ==
    [enabled |-> enabled, at |-> at, radius |-> radius, qrOnly |-> qrOnly]
SomeOrgs ==
    {OrgFence(FALSE, 0, 0, FALSE), OrgFence(TRUE, 0, 0, FALSE),
     OrgFence(TRUE, NoPlace, 200, FALSE), OrgFence(TRUE, 0, 200, TRUE)}
SomeBranches ==
    {[at |-> 300, radius |-> NoRadius], [at |-> 300, radius |-> 50],
     [at |-> NoPlace, radius |-> 50]}
SomeReadings == [at: {0, 110, 300, NoPlace}, accuracy: {0, 180, 500}]
=============================================================================
