------------------------------- MODULE Roster -------------------------------
(***************************************************************************)
(* The shift schedules of one organization: roster.service.ts.             *)
(*                                                                         *)
(* A schedule is of one member or of the whole organization (OrgWide), and *)
(* gives shifts to some weekdays over a range of dates.  Creating and      *)
(* updating compare it with the other schedules of its scope, and write it *)
(* in a later statement.  Two schedules of a scope may share dates when    *)
(* they share no weekday.  The times of a shift and the label are left     *)
(* out, and so is who may write which scope (lib/branch-scope.ts).         *)
(***************************************************************************)
EXTENDS Naturals, FiniteSets

CONSTANTS
    Scopes, OrgWide,  \* members with schedules of their own, and "no member"
    Shifts,           \* the dates and weekdays a request may ask for
    LastDate,         \* dates are 1..LastDate; LastDate + 1 stands for no end
    Planners,         \* requests in progress at once
    MaxSchedules      \* bound on schedules ever created

VARIABLES
    schedules,   \* the RosterSchedule rows that are not deleted
    created,     \* how many have been created
    planning     \* the create or update of each planner: none or one
rosterVars == <<schedules, created, planning>>

-----------------------------------------------------------------------------
ShiftType == [from: 1..LastDate, to: 1..(LastDate + 1), days: SUBSET (0..6)]
ASSUME RosterAssumption ==
    /\ Shifts \subseteq ShiftType
    /\ OrgWide \notin Scopes
    /\ MaxSchedules \in Nat

AnyScope == Scopes \cup {OrgWide}
\* unseen: when it was written, the scope's schedules were no longer those
\* it had been compared with.  A soft-deleted row is out of the set.
Schedule == [id: 1..MaxSchedules, scope: AnyScope, shift: Shifts,
             unseen: BOOLEAN]
Plan == [id: 1..MaxSchedules, scope: AnyScope, shift: Shifts,
         creates: BOOLEAN, late: BOOLEAN]

\* The mutant takes ranges that meet in one date for apart.
RangesOverlap_Touch(a, b) == a.from < b.to /\ b.from < a.to
RangesOverlap(a, b) == a.from <= b.to /\ b.from <= a.to
Conflict(a, b) == RangesOverlap(a, b) /\ a.days \cap b.days # {}
AssertNoOverlap(scope, shift, id) ==
    \A x \in schedules :
        x.scope = scope /\ x.id # id => ~Conflict(shift, x.shift)

\* Requests that have compared with this scope will write unseen.
Outdated(scope) ==
    [q \in Planners |-> {[x EXCEPT !.late = @ \/ x.scope = scope] :
                            x \in planning[q]}]

RosterInit ==
    /\ schedules = {}
    /\ created = 0
    /\ planning = [p \in Planners |-> {}]

CreateRead(p, scope, shift) ==
    /\ planning[p] = {} /\ created < MaxSchedules
    /\ AssertNoOverlap(scope, shift, 0)
    /\ created' = created + 1
    /\ planning' = [planning EXCEPT ![p] =
         {[id |-> created', scope |-> scope, shift |-> shift,
           creates |-> TRUE, late |-> FALSE]}]
    /\ UNCHANGED schedules
\* The scope of a schedule cannot be changed.
UpdateRead(p, x, shift) ==
    /\ planning[p] = {}
    /\ AssertNoOverlap(x.scope, shift, x.id)
    /\ planning' = [planning EXCEPT ![p] =
         {[id |-> x.id, scope |-> x.scope, shift |-> shift,
           creates |-> FALSE, late |-> FALSE]}]
    /\ UNCHANGED <<schedules, created>>
\* An update of a row that was deleted meanwhile leaves it deleted.
Write(p) ==
    \E plan \in planning[p] :
        LET old == {x \in schedules : x.id = plan.id} IN
        /\ schedules' = IF plan.creates \/ old # {}
                        THEN (schedules \ old) \cup
                             {[id |-> plan.id, scope |-> plan.scope,
                               shift |-> plan.shift, unseen |-> plan.late]}
                        ELSE schedules
        /\ planning' = [Outdated(plan.scope) EXCEPT ![p] = {}]
        /\ UNCHANGED created
DeleteSchedule(x) ==
    /\ schedules' = schedules \ {x}
    /\ UNCHANGED <<created, planning>>

RosterNext ==
    \/ \E p \in Planners :
        \/ \E scope \in AnyScope, shift \in Shifts : CreateRead(p, scope, shift)
        \/ \E x \in schedules, shift \in Shifts : UpdateRead(p, x, shift)
        \/ Write(p)
    \/ \E x \in schedules : DeleteSchedule(x)
RosterSpec == RosterInit /\ [][RosterNext]_rosterVars

-----------------------------------------------------------------------------
\* What a resolution may find: any schedule of the member whose range has
\* the date, whatever its weekdays; or else any of the organization's; or
\* else the working days in the rows of the member and the organization.
InForce(scope, date) ==
    {x \in schedules : /\ x.scope = scope
                       /\ x.shift.from <= date /\ date <= x.shift.to}
Found(member, date) ==
    IF InForce(member, date) # {} THEN InForce(member, date)
    ELSE InForce(OrgWide, date)

\* Schedules, their count and the requests have their types.
RosterTypeOK ==
    /\ schedules \subseteq Schedule
    /\ created \in 0..MaxSchedules
    /\ planning \in [Planners -> SUBSET Plan]

\* A member's date resolves to one schedule, whichever row the database
\* returns first, unless the schedules that compete for it split the week
\* between them or were written side by side.
ResolvesToOne ==
    \A member \in Scopes, date \in 1..LastDate :
        \A x, y \in Found(member, date) :
            x # y => \/ x.shift.days \cap y.shift.days = {}
                     \/ x.unseen \/ y.unseen
=============================================================================
