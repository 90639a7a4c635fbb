--------------------------- MODULE LeaveManagement ---------------------------
(***************************************************************************)
(* The leaves and the leave balances of one membership:                    *)
(* src/services/leave.service.ts and leaveBalance.service.ts.              *)
(*                                                                         *)
(* An employee requests and cancels leaves from some devices, and admins   *)
(* decide on them; each handler checks what it has read and writes in a    *)
(* later statement.  A decision starts a detached promise, the hook, that  *)
(* updates the balance of the year the leave starts in.  Admins also       *)
(* initialize years, adjust balances and change the organization's policy. *)
(*                                                                         *)
(* The three buckets (annual, sick, casual) never meet: there is one here, *)
(* for leaves of type "TRACKED".  Emails, reads and the branch scope of    *)
(* the admins are left out.                                                *)
(***************************************************************************)
EXTENDS Integers, Sequences, FiniteSets, FiniteSetsExt, Functions

CONSTANTS
    Devices,       \* where the employee sends requests from
    Admins,        \* admins, each handling one request at a time
    YearLength,    \* days in a year
    LastDay,       \* bound on the days: 0 .. LastDay
    MaxLeaves,     \* bound on the leaves
    Policies,      \* the policies: [enabled: BOOLEAN, entitlement: Nat]
    Cap,           \* the bucket's ACCUMULATION_CAP
    Adjustments,   \* the numbers an adjustment enters: nothing validates them
    Faults         \* TRUE: a hook may fail

ASSUME ConstantsAssumption ==
    /\ IsFiniteSet(Devices)
    /\ YearLength \in Nat \ {0}
    /\ {LastDay, MaxLeaves, Cap} \subseteq Nat
    /\ Policies \subseteq [enabled: BOOLEAN, entitlement: Nat]
    /\ Adjustments \subseteq Int
    /\ Faults \in BOOLEAN

VARIABLES
    leave,      \* the Leave rows, deleted ones included
    balance,    \* the LeaveBalance row of each year
    policy,     \* [enabled, entitlement] of the organization
    device,     \* local state of each device's request
    admin,      \* local state of each admin's request
    hooks       \* the balance updates that have not ended
vars == <<leave, balance, policy, device, admin, hooks>>

-----------------------------------------------------------------------------

DayRange == 0 .. LastDay
Years == 0 .. LastDay \div YearLength
Ids == 1 .. MaxLeaves
None == 0
Types == {"TRACKED", "UNTRACKED"}
Verdicts == {"APPROVED", "REJECTED"}

\* approved is history: whether the leave has ever been approved.
Leave == [from: DayRange, to: DayRange, type: Types, approved: BOOLEAN,
          status: {"PENDING", "DELETED"} \cup Verdicts]

\* exists: there is a row; adjusted: it has been adjusted by hand.
Balance == [exists: BOOLEAN, adjusted: BOOLEAN,
            entitlement: Int, carried: Int, used: Int]
NoBalance == [exists |-> FALSE, adjusted |-> FALSE,
              entitlement |-> 0, carried |-> 0, used |-> 0]

DurationDays(l) == l.to - l.from + 1
\* bsStartYear: the whole leave belongs to the year of its first day.
StartYear(l) == l.from \div YearLength

DeviceTask == [pc: {"idle", "create", "delete"}, id: Ids \cup {None},
               from: DayRange, to: DayRange, type: Types]
IdleDevice == [pc |-> "idle", id |-> None, from |-> 0, to |-> 0,
               type |-> "TRACKED"]

AdminTask == [pc: {"idle", "decide", "read", "create"}, id: Ids \cup {None},
              verdict: Verdicts, year: Years, row: Balance]
IdleAdmin == [pc |-> "idle", id |-> None, verdict |-> "APPROVED", year |-> 0,
              row |-> NoBalance]

Hook == [id: Ids, by: Admins, verdict: Verdicts,
         pc: {"flag", "balance", "write"}, seen: Int]

Init ==
    /\ leave = <<>>
    /\ balance = [y \in Years |-> NoBalance]
    /\ policy \in Policies
    /\ device = [d \in Devices |-> IdleDevice]
    /\ admin = [a \in Admins |-> IdleAdmin]
    /\ hooks = {}

-----------------------------------------------------------------------------
(* requestLeave and cancelLeave *)

Active(l) == l.status \in {"PENDING", "APPROVED"}

\* The mutant takes the bounds to be exclusive.
Overlaps_Exclusive(l, from, to) == l.from < to /\ l.to > from
Overlaps(l, from, to) == l.from <= to /\ l.to >= from

\* The creates that are under way count towards the bound on leaves.
RequestRead(d, from, to, type) ==
    /\ device[d].pc = "idle"
    /\ Len(leave) + Cardinality({c \in Devices : device[c].pc = "create"})
         < MaxLeaves
    /\ from <= to
    /\ ~\E i \in DOMAIN leave : Active(leave[i]) /\ Overlaps(leave[i], from, to)
    /\ device' = [device EXCEPT ![d] = [pc |-> "create", id |-> None,
                                        from |-> from, to |-> to, type |-> type]]
    /\ UNCHANGED <<leave, balance, policy, admin, hooks>>

RequestCreate(d) ==
    /\ device[d].pc = "create"
    /\ leave' = Append(leave,
                  [from |-> device[d].from, to |-> device[d].to,
                   type |-> device[d].type, status |-> "PENDING",
                   approved |-> FALSE])
    /\ device' = [device EXCEPT ![d] = IdleDevice]
    /\ UNCHANGED <<balance, policy, admin, hooks>>

CancelRead(d, i) ==
    /\ device[d].pc = "idle"
    /\ leave[i].status = "PENDING"
    /\ device' = [device EXCEPT ![d].pc = "delete", ![d].id = i]
    /\ UNCHANGED <<leave, balance, policy, admin, hooks>>

\* The row is deleted whatever its status; without it the statement fails.
CancelDelete(d) ==
    /\ device[d].pc = "delete"
    /\ leave' = [leave EXCEPT ![device[d].id].status = "DELETED"]
    /\ device' = [device EXCEPT ![d] = IdleDevice]
    /\ UNCHANGED <<balance, policy, admin, hooks>>

-----------------------------------------------------------------------------
(* updateLeaveStatus and the hook, handleLeaveDecision *)

\* The mutant lets a decision be taken again.
Decidable_NotRejected(l) == l.status \in {"PENDING", "APPROVED"}
Decidable(l) == l.status = "PENDING"

DecideRead(a, i, verdict) ==
    /\ admin[a].pc = "idle"
    /\ Decidable(leave[i])
    /\ admin' = [admin EXCEPT ![a].pc = "decide", ![a].id = i,
                              ![a].verdict = verdict]
    /\ UNCHANGED <<leave, balance, policy, device, hooks>>

DecideWrite(a) ==
    LET i == admin[a].id IN
    /\ admin[a].pc = "decide"
    /\ admin' = [admin EXCEPT ![a] = IdleAdmin]
    /\ IF leave[i].status = "DELETED"
         THEN UNCHANGED <<leave, hooks>>
         ELSE /\ leave' = [leave EXCEPT
                   ![i].status = admin[a].verdict,
                   ![i].approved = @ \/ admin[a].verdict = "APPROVED"]
              /\ hooks' = hooks \cup
                   {[id |-> i, by |-> a, verdict |-> admin[a].verdict,
                     pc |-> "flag", seen |-> 0]}
    /\ UNCHANGED <<balance, policy, device>>

HookEnds(h) == hooks' = hooks \ {h}

HookFlag(h) ==
    /\ h.pc = "flag"
    /\ IF leave[h.id].type = "TRACKED" /\ policy.enabled
         THEN hooks' = (hooks \ {h}) \cup {[h EXCEPT !.pc = "balance"]}
         ELSE HookEnds(h)
    /\ UNCHANGED <<leave, balance, policy, device, admin>>

\* The look-up of the leave and of its year's balance.
HookBalance(h) ==
    LET row == balance[StartYear(leave[h.id])] IN
    /\ h.pc = "balance"
    /\ IF leave[h.id].status # "DELETED" /\ row.exists
         THEN hooks' = (hooks \ {h}) \cup
                         {[h EXCEPT !.pc = "write", !.seen = row.used]}
         ELSE HookEnds(h)
    /\ UNCHANGED <<leave, balance, policy, device, admin>>

\* An approval increments the row; a rejection writes what it had read, less
\* the days.
\* The mutant does not stop at zero.
UsedAfter_Unfloored(h, used) ==
    LET days == DurationDays(leave[h.id]) IN
    IF h.verdict = "APPROVED" THEN used + days ELSE h.seen - days
UsedAfter(h, used) ==
    LET days == DurationDays(leave[h.id]) IN
    IF h.verdict = "APPROVED" THEN used + days ELSE Max({0, h.seen - days})

HookWrite(h) ==
    /\ h.pc = "write"
    /\ balance' = [balance EXCEPT
                     ![StartYear(leave[h.id])].used = UsedAfter(h, @)]
    /\ HookEnds(h)
    /\ UNCHANGED <<leave, policy, device, admin>>

HookFails(h) ==
    /\ Faults
    /\ HookEnds(h)
    /\ UNCHANGED <<leave, balance, policy, device, admin>>

-----------------------------------------------------------------------------
(* initializeYear *)

\* The policy, then the balances of the year and of the year before.
InitializeStart(a, y) ==
    /\ admin[a].pc = "idle"
    /\ policy.enabled
    /\ admin' = [admin EXCEPT ![a].pc = "read", ![a].year = y,
                   ![a].row = [NoBalance EXCEPT
                                 !.exists = TRUE,
                                 !.entitlement = policy.entitlement]]
    /\ UNCHANGED <<leave, balance, policy, device, hooks>>

Available(row) == row.entitlement + row.carried - row.used

\* What of the year before is carried over, given the new entitlement.
\* The mutant caps what is carried over without counting the entitlement.
CarriedOver_PlainCap(prev, entitlement) ==
    Min({Max({0, Available(prev)}), Cap})
CarriedOver(prev, entitlement) ==
    Min({Max({0, Available(prev)}), Max({0, Cap - entitlement})})

InitializeRead(a) ==
    LET y == admin[a].year
        prev == IF y - 1 \in Years THEN balance[y - 1] ELSE NoBalance IN
    /\ admin[a].pc = "read"
    /\ admin' = [admin EXCEPT ![a] =
         IF balance[y].exists THEN IdleAdmin
         ELSE [@ EXCEPT !.pc = "create",
                        !.row.carried = IF prev.exists
                          THEN CarriedOver(prev, admin[a].row.entitlement)
                          ELSE 0]]
    /\ UNCHANGED <<leave, balance, policy, device, hooks>>

\* The row is unique for its year: a second create fails.
InitializeCreate(a) ==
    LET y == admin[a].year IN
    /\ admin[a].pc = "create"
    /\ balance' = [balance EXCEPT ![y] = IF @.exists THEN @ ELSE admin[a].row]
    /\ admin' = [admin EXCEPT ![a] = IdleAdmin]
    /\ UNCHANGED <<leave, policy, device, hooks>>

-----------------------------------------------------------------------------
(* adjustBalance, one field at a time, and the settings of the organization *)

Adjust(y, field, number) ==
    /\ balance[y].exists
    /\ balance' = [balance EXCEPT ![y].adjusted = TRUE, ![y][field] = number]
    /\ UNCHANGED <<leave, policy, device, admin, hooks>>

ChangePolicy(new) ==
    /\ policy' = new
    /\ UNCHANGED <<leave, balance, device, admin, hooks>>

-----------------------------------------------------------------------------

DeviceStep(d) ==
    \/ \E from, to \in DayRange, type \in Types : RequestRead(d, from, to, type)
    \/ RequestCreate(d)
    \/ \E i \in DOMAIN leave : CancelRead(d, i)
    \/ CancelDelete(d)

AdminStep(a) ==
    \/ \E i \in DOMAIN leave, verdict \in Verdicts : DecideRead(a, i, verdict)
    \/ DecideWrite(a)
    \/ \E y \in Years : InitializeStart(a, y)
    \/ InitializeRead(a)
    \/ InitializeCreate(a)

HookStep(h) == HookFlag(h) \/ HookBalance(h) \/ HookWrite(h)

Next ==
    \/ \E d \in Devices : DeviceStep(d)
    \/ \E a \in Admins : AdminStep(a)
    \/ \E h \in hooks : HookStep(h) \/ HookFails(h)
    \/ \E y \in Years, field \in {"entitlement", "carried", "used"},
          number \in Adjustments : Adjust(y, field, number)
    \/ \E new \in Policies : ChangePolicy(new)

Spec == Init /\ [][Next]_vars

-----------------------------------------------------------------------------
(* Properties *)

\* Every variable has its type.  Unless somebody has entered other numbers by
\* hand, no days of a year are negative: neither those a year carries over,
\* nor those used, whatever rejections take back.
TypeOK ==
    /\ leave \in Seq(Leave)
    /\ balance \in [Years -> Balance]
    /\ \A y \in Years :
          balance[y].adjusted \/ {balance[y].carried, balance[y].used} \subseteq Nat
    /\ policy \in Policies
    /\ device \in [Devices -> DeviceTask]
    /\ admin \in [Admins -> AdminTask]
    /\ hooks \subseteq Hook

\* As long as the employee sends one request at a time and one admin works, no
\* day belongs to two leaves of the employee that are pending or approved,
\* whatever is decided and cancelled between the check and the create.
NoOverlap ==
    \A i, j \in DOMAIN leave :
        (i # j /\ Active(leave[i]) /\ Active(leave[j]))
        => (leave[i].from .. leave[i].to) \cap (leave[j].from .. leave[j].to) = {}

\* The leaves of a year that have been approved and the hooks that have still
\* to add theirs, and their days.
ApprovedIn(y) == {i \in DOMAIN leave : /\ leave[i].approved
                                       /\ leave[i].type = "TRACKED"
                                       /\ StartYear(leave[i]) = y}
ToAddIn(y) == {h \in hooks : /\ h.verdict = "APPROVED"
                             /\ leave[h.id].type = "TRACKED"
                             /\ StartYear(leave[h.id]) = y}
ApprovedDays(y) ==
    SumFunctionOnSet([i \in DOMAIN leave |-> DurationDays(leave[i])], ApprovedIn(y))
DaysToAdd(y) ==
    SumFunctionOnSet([h \in hooks |-> DurationDays(leave[h.id])], ToAddIn(y))

\* As long as one admin works, no leave is charged twice: what is used up in a
\* year, with what hooks have still to add, is at most the length of the leaves
\* that have been approved, however the hooks interleave.
NeverChargedTwice ==
    \A y \in Years :
        ~balance[y].adjusted => balance[y].used + DaysToAdd(y) <= ApprovedDays(y)

\* What a year carries over never takes its total above the cap, whatever the
\* policy was when the year before was initialized and is changed to meanwhile.
CarriedWithinCap ==
    \A y \in Years :
        (~balance[y].adjusted /\ balance[y].carried > 0)
        => balance[y].entitlement + balance[y].carried <= Cap

\* "Refund days back (in case it was previously approved and is now being
\* reversed)": days are only given back for a leave that had been approved.
RefundsOnlyApproved ==
    [][\A h \in hooks :
         (HookWrite(h) /\ h.verdict = "REJECTED" /\ ~leave[h.id].approved)
         => balance'[StartYear(leave[h.id])].used
              = balance[StartYear(leave[h.id])].used]_vars
=============================================================================
