----------------------------- MODULE Membership -----------------------------
(***************************************************************************)
(* The members and branches of one organization: user.service.ts,          *)
(* branch.service.ts and the guards of routes/users.ts.                    *)
(*                                                                         *)
(* A request of a member reads what its guards need, awaits password       *)
(* hashes and the transaction, and then writes; the reads before the first *)
(* write are one step here.  What the caller may do is decided by the role *)
(* and branch in the token of the session, which stay those of the login.  *)
(* The count of employees is recounted after the write by two statements   *)
(* whose failure is only logged.  Names, shifts, PINs and employee ids are *)
(* left out; "EMPLOYEE" stands for accountants too, who count alike.       *)
(***************************************************************************)
EXTENDS Integers, FiniteSets

CONSTANTS
    Users,        \* people who may be members
    Founder,      \* the ORG_ADMIN created with the organization
    Staff,        \* employees who have joined before the behaviour starts
    Branches,
    Sessions,     \* logged-in clients, each with one request at a time
    EmployeeCap,  \* employees the plan allows
    Edits,        \* what an admin may ask an update to set
    MaxRequests,  \* bound on logins, requests, branch edits and failures
    NoMember, NoBranch, Keep  \* no row; a null; a field not given

ASSUME FounderAssumption ==
    /\ Founder \in Users /\ Staff \subseteq Users \ {Founder}
    /\ IsFiniteSet(Users) /\ IsFiniteSet(Sessions) /\ Sessions # {}
ASSUME BoundsAssumption ==
    /\ EmployeeCap \in Nat \ {0} /\ MaxRequests \in Nat
    /\ Cardinality(Staff) <= EmployeeCap
ASSUME NullAssumption == NoBranch \notin Branches

VARIABLES
    member,     \* the OrgMembership row of each user, or NoMember
    branch,     \* the Branch rows
    count,      \* OrgSubscription.currentEmployeeCount
    token,      \* the JWT of each session
    task,       \* the request in progress of each session
    deleting,   \* the branch the super admin is about to delete
    requests,   \* how many of those there were
    unchecked   \* history: seats taken or recounts lost without a check
memberVars == <<member, branch, count, token, task, deleting, requests, unchecked>>

-----------------------------------------------------------------------------

Roles == {"ORG_ADMIN", "BRANCH_ADMIN", "EMPLOYEE"}
Row == [role: Roles, active: BOOLEAN, left: BOOLEAN,
        branch: Branches \cup {NoBranch}]
ASSUME MemberAssumption == NoMember \notin Row
BranchStates == {"none", "active", "inactive", "deleted"}

\* The fields an update sets; Keep leaves a field alone.
Change == [role: Roles \cup {Keep}, active: BOOLEAN \cup {Keep},
           left: BOOLEAN \cup {Keep}, branch: Branches \cup {NoBranch, Keep}]
NoChange == [role |-> Keep, active |-> Keep, left |-> Keep, branch |-> Keep]
ASSUME EditsAssumption == \A e \in Edits : e \in Change /\ e.left = Keep

\* stale: members or branches were written since this request read them.
\* counted: what its recount has found.
Task == [pc: {"idle", "write", "recount", "store"},
         op: {"none", "join", "update", "remove"},
         user: Users, change: Change, stale: BOOLEAN, sync: BOOLEAN,
         counted: Nat]
IdleTask == [pc |-> "idle", op |-> "none", user |-> Founder,
             change |-> NoChange, stale |-> FALSE, sync |-> FALSE,
             counted |-> 0]

\* The mutant writes a field that was not given.
Given_Always(new, old) == new
Given(new, old) == IF new = Keep THEN old ELSE new
Applied(row, c) ==
    [role |-> Given(c.role, row.role), active |-> Given(c.active, row.active),
     left |-> Given(c.left, row.left), branch |-> Given(c.branch, row.branch)]
NewRow == [role |-> "EMPLOYEE", active |-> TRUE, left |-> FALSE,
           branch |-> NoBranch]

IsMember(u) == member[u] # NoMember
Present(u) == IsMember(u) /\ member[u].active /\ ~member[u].left
OrgAdmins == {u \in Users : Present(u) /\ member[u].role = "ORG_ADMIN"}
Employees == {u \in Users : Present(u) /\ member[u].role = "EMPLOYEE"}

Mains == {b \in Branches : branch[b].main /\ branch[b].state # "deleted"}
Usable(b) == b \in Branches /\ branch[b].state = "active"

-----------------------------------------------------------------------------
(* Sessions and the start of requests *)

\* The role and the branch of the membership go into the token at login.
Login(s, u) ==
    /\ task[s].pc = "idle"
    /\ Present(u)
    /\ requests < MaxRequests
    /\ requests' = requests + 1
    /\ token' = [token EXCEPT ![s] = [user |-> u, role |-> member[u].role,
                                      branch |-> member[u].branch]]
    /\ UNCHANGED <<member, branch, count, task, deleting, unchecked>>

Start(s, op, u, change, sync) ==
    /\ task[s].pc = "idle"
    /\ requests < MaxRequests
    /\ requests' = requests + 1
    /\ task' = [task EXCEPT ![s] = [pc |-> "write", op |-> op, user |-> u,
                                    change |-> change, stale |-> FALSE,
                                    sync |-> sync, counted |-> 0]]
    /\ UNCHANGED <<member, branch, count, token, deleting, unchecked>>

IsOrgAdmin(s) == token[s].role = "ORG_ADMIN"
IsBranchAdmin(s) == token[s].role = "BRANCH_ADMIN"
\* A branch admin gives no administrative role and only its own branch.
MayGive(s, role) == IsBranchAdmin(s) => role \notin {"ORG_ADMIN", "BRANCH_ADMIN"}
Asked(s, b) == IF IsBranchAdmin(s) THEN token[s].branch ELSE b

\* The branch asked for if it can be used, else the main one, else none.
Resolved(b) ==
    IF b # NoBranch THEN {x \in {b} : Usable(x)}
    ELSE IF \E m \in Mains : Usable(m) THEN {m \in Mains : Usable(m)}
    ELSE {NoBranch}

\* The mutant lets one more in.
SeatFree_OneMore == count <= EmployeeCap
SeatFree == count < EmployeeCap

\* The checks that createUser and addExistingUserByPlatformId share.
MayAdd(s, role) ==
    /\ IsOrgAdmin(s) \/ IsBranchAdmin(s)
    /\ MayGive(s, role)
    /\ IsBranchAdmin(s) => token[s].branch # NoBranch
    /\ SeatFree

\* Someone who has no row yet: a new user, or one known by a platform id.
JoinRead(s, u, role, b) ==
    /\ MayAdd(s, role)
    /\ ~IsMember(u)
    /\ \E at \in Resolved(Asked(s, b)) :
        /\ role = "BRANCH_ADMIN" => at # NoBranch
        /\ Start(s, "join", u, [role |-> role, active |-> TRUE,
                                left |-> FALSE, branch |-> at], TRUE)

\* Someone who left, or was switched off: the branch stays what it was.
RejoinRead(s, u, role) ==
    /\ MayAdd(s, role)
    /\ IsMember(u) /\ ~Present(u)
    /\ Start(s, "join", u, [role |-> role, active |-> TRUE, left |-> FALSE,
                            branch |-> Keep], TRUE)

\* The mutant counts the admin in question as another one.
OtherAdmin_Any(u) == OrgAdmins # {}
OtherAdmin(u) == OrgAdmins \ {u} # {}

\* updateUser recounts only if it switches the member on or off.
Switches(u, change) ==
    change.active # Keep /\ change.active # member[u].active

\* An admin edits a member, who may have left.
UpdateRead(s, u, change) ==
    /\ IsOrgAdmin(s)
    /\ IsMember(u)
    /\ change.role \notin {Keep, "ORG_ADMIN"} /\ member[u].role = "ORG_ADMIN"
        => OtherAdmin(u)
    /\ change.branch \in Branches => Usable(change.branch)
    /\ Start(s, "update", u, change, Switches(u, change))

\* PATCH status by a branch admin, within the branch.
StatusRead(s, u, active) ==
    /\ IsBranchAdmin(s) /\ token[s].branch # NoBranch
    /\ IsMember(u) /\ member[u].branch = token[s].branch
    /\ LET change == [NoChange EXCEPT !.active = active]
       IN  Start(s, "update", u, change, Switches(u, change))

\* Anyone else may edit only their own row; the branch is not taken out of
\* the body, and a branch admin can only repeat its own.
SelfRead(s, b) ==
    LET u == token[s].user
    IN  /\ ~IsOrgAdmin(s)
        /\ IsMember(u)
        /\ IsBranchAdmin(s) => /\ token[s].branch = b /\ b # NoBranch
                               /\ member[u].branch = b
        /\ b # NoBranch => Usable(b)
        /\ Start(s, "update", u, [NoChange EXCEPT !.branch = b], FALSE)

RemoveRead(s, u) ==
    /\ IsOrgAdmin(s) \/ IsBranchAdmin(s)
    /\ u # token[s].user
    /\ IsMember(u)
    /\ member[u].role = "ORG_ADMIN" => OtherAdmin(u)
    /\ Start(s, "remove", u, [NoChange EXCEPT !.active = FALSE, !.left = TRUE],
             TRUE)

-----------------------------------------------------------------------------
(* The write of a request and its recount *)

\* The row after the write; a join without a row inserts one.
Written(s) ==
    LET old == IF IsMember(task[s].user) THEN member[task[s].user] ELSE NewRow
    IN  Applied(old, task[s].change)

Inserts(s) == task[s].op = "join" /\ task[s].change.branch # Keep

\* All other requests in progress have read what is no longer so.
Outdated(ts, s) ==
    [t \in Sessions |-> IF t # s /\ ts[t].pc = "write"
                        THEN [ts[t] EXCEPT !.stale = TRUE] ELSE ts[t]]

Write(s) ==
    LET u == task[s].user
        seated == member'[u].role = "EMPLOYEE" /\ member'[u].active
                    /\ ~member'[u].left
    IN  /\ task[s].pc = "write"
        /\ Inserts(s) => ~IsMember(u)
        /\ member' = [member EXCEPT ![u] = Written(s)]
        /\ unchecked' = IF task[s].op = "update" /\ seated /\ u \notin Employees
                        THEN unchecked + 1 ELSE unchecked
        /\ task' = Outdated([task EXCEPT ![s] = [IdleTask EXCEPT !.pc =
                                 IF task[s].sync THEN "recount" ELSE "idle"]], s)
        /\ deleting' = [deleting EXCEPT !.stale = @ \/ deleting.branch # NoBranch]
        /\ UNCHANGED <<branch, count, token, requests>>

\* The row was inserted meanwhile: the unique email, or user and
\* organization, refuse a second one.
WriteConflict(s) ==
    /\ task[s].pc = "write" /\ Inserts(s) /\ IsMember(task[s].user)
    /\ task' = [task EXCEPT ![s] = IdleTask]
    /\ UNCHANGED <<member, branch, count, token, deleting, requests, unchecked>>

\* syncEmployeeCount: a count and then an update of the subscription.
Recount(s) ==
    /\ task[s].pc = "recount"
    /\ task' = [task EXCEPT ![s].pc = "store",
                            ![s].counted = Cardinality(Employees)]
    /\ UNCHANGED <<member, branch, count, token, deleting, requests, unchecked>>

Store(s) ==
    /\ task[s].pc = "store"
    /\ count' = task[s].counted
    /\ task' = [task EXCEPT ![s] = IdleTask]
    /\ UNCHANGED <<member, branch, token, deleting, requests, unchecked>>

\* A failed recount is logged and the request succeeds.
SyncFails(s) ==
    /\ task[s].pc \in {"recount", "store"}
    /\ requests < MaxRequests
    /\ requests' = requests + 1
    /\ unchecked' = unchecked + 1
    /\ task' = [task EXCEPT ![s] = IdleTask]
    /\ UNCHANGED <<member, branch, count, token, deleting>>

-----------------------------------------------------------------------------
(* The super admin, whose requests come one at a time *)

BranchCreate(b, main) ==
    /\ branch[b].state = "none"
    /\ main => Mains = {}
    /\ requests < MaxRequests
    /\ requests' = requests + 1
    /\ branch' = [branch EXCEPT ![b] = [state |-> "active", main |-> main]]
    /\ UNCHANGED <<member, count, token, task, deleting, unchecked>>

\* The mutant forgets to protect the main branch.
MayDeactivate_Any(b) == TRUE
MayDeactivate(b) == ~branch[b].main

BranchUpdate(b, active) ==
    /\ branch[b].state \in {"active", "inactive"}
    /\ ~active => MayDeactivate(b)
    /\ requests < MaxRequests
    /\ requests' = requests + 1
    /\ branch' = [branch EXCEPT ![b].state =
                      IF active THEN "active" ELSE "inactive"]
    /\ UNCHANGED <<member, count, token, task, deleting, unchecked>>

Assigned(b) == {u \in Users : IsMember(u) /\ member[u].active
                                /\ member[u].branch = b}

\* The mutant counts no one.
HasMembers_Never(b) == FALSE
HasMembers(b) == Assigned(b) # {}

BranchDeleteRead(b) ==
    /\ deleting.branch = NoBranch
    /\ branch[b].state \in {"active", "inactive"}
    /\ ~branch[b].main
    /\ ~HasMembers(b)
    /\ deleting' = [branch |-> b, stale |-> FALSE]
    /\ UNCHANGED <<member, branch, count, token, task, requests, unchecked>>

BranchDelete ==
    /\ deleting.branch # NoBranch
    /\ branch' = [branch EXCEPT ![deleting.branch].state = "deleted"]
    /\ deleting' = [branch |-> NoBranch, stale |-> FALSE]
    /\ task' = [s \in Sessions |-> IF task[s].pc = "write"
                                   THEN [task[s] EXCEPT !.stale = TRUE]
                                   ELSE task[s]]
    /\ UNCHANGED <<member, count, token, requests, unchecked>>

-----------------------------------------------------------------------------

MemberInit ==
    /\ member = [u \in Users |->
                    IF u = Founder THEN [NewRow EXCEPT !.role = "ORG_ADMIN"]
                    ELSE IF u \in Staff THEN NewRow ELSE NoMember]
    /\ branch = [b \in Branches |-> [state |-> "none", main |-> FALSE]]
    /\ count = Cardinality(Staff)
    /\ token = [s \in Sessions |-> [user |-> Founder, role |-> "ORG_ADMIN",
                                    branch |-> NoBranch]]
    /\ task = [s \in Sessions |-> IdleTask]
    /\ deleting = [branch |-> NoBranch, stale |-> FALSE]
    /\ requests = 0
    /\ unchecked = 0

Begin(s) ==
    \/ \E u \in Users : Login(s, u)
    \/ \E u \in Users, role \in Roles, b \in Branches \cup {NoBranch} :
        JoinRead(s, u, role, b)
    \/ \E u \in Users, role \in Roles : RejoinRead(s, u, role)
    \/ \E u \in Users, edit \in Edits : UpdateRead(s, u, edit)
    \/ \E u \in Users, active \in BOOLEAN : StatusRead(s, u, active)
    \/ \E b \in Branches \cup {NoBranch} : SelfRead(s, b)
    \/ \E u \in Users : RemoveRead(s, u)

Proceed(s) ==
    \/ Write(s) \/ WriteConflict(s)
    \/ Recount(s) \/ Store(s) \/ SyncFails(s)

SuperAdmin ==
    \/ \E b \in Branches, main \in BOOLEAN : BranchCreate(b, main)
    \/ \E b \in Branches, active \in BOOLEAN : BranchUpdate(b, active)
    \/ \E b \in Branches : BranchDeleteRead(b)
    \/ BranchDelete

MemberNext == SuperAdmin \/ \E s \in Sessions : Begin(s) \/ Proceed(s)
MemberSpec == MemberInit /\ [][MemberNext]_memberVars

-----------------------------------------------------------------------------

\* The type of every variable: user.service.ts and branch.service.ts write
\* rows of this shape only.
MemberTypeOK ==
    /\ member \in [Users -> Row \cup {NoMember}]
    /\ branch \in [Branches -> [state: BranchStates, main: BOOLEAN]]
    /\ count \in Nat
    /\ token \in [Sessions -> [user: Users, role: Roles,
                               branch: Branches \cup {NoBranch}]]
    /\ task \in [Sessions -> Task]
    /\ deleting \in [branch: Branches \cup {NoBranch}, stale: BOOLEAN]
    /\ requests \in Nat /\ unchecked \in Nat

\* Requests that pass the check of the cap together overshoot it, each by one
\* employee, and an old recount that is stored late opens the check again, to
\* all requests but those that still hold an old recount: with n sessions by
\* (n - 1) + (n - 1) + (n - 2) + ... + 2, half of (n - 1) * (n + 2), employees
\* at most.  What an edit or a failed recount lets in is counted apart.
OvershootBounded ==
    LET n == Cardinality(Sessions)
    IN  2 * (Cardinality(Employees) - EmployeeCap - unchecked) <= (n - 1) * (n + 2)

\* An organization loses its last ORG_ADMIN only if one is switched off,
\* which nothing guards, or if the guard of the request was out of date.
LastAdminKept ==
    [][OrgAdmins' = {} /\ OrgAdmins # {}
        => \E s \in Sessions : /\ task[s].pc = "write"
                               /\ \/ task[s].stale
                                  \/ task[s].op = "update"
                                     /\ task[s].change.active = FALSE]_memberVars

Stranded(u) ==
    /\ IsMember(u) /\ member[u].active
    /\ member[u].branch \in Branches
    /\ branch[member[u].branch].state = "deleted"

\* An active member is on a deleted branch only if switched on again after
\* the branch was deleted, or if the deletion and an edit overlapped.
StrandedOnlyByReturn ==
    [][\A u \in Users : Stranded(u)' /\ ~Stranded(u) =>
        \/ deleting.stale
        \/ \E s \in Sessions :
            /\ task[s].pc = "write" /\ task[s].user = u
            /\ \/ task[s].stale
               \/ task[s].change.active = TRUE /\ task[s].change.branch = Keep
      ]_memberVars

\* An organization that has a main branch keeps it usable: joining members
\* always get a branch.
MainStays ==
    /\ Cardinality(Mains) <= 1
    /\ \A b \in Branches : branch[b].main => branch[b].state = "active"
=============================================================================
