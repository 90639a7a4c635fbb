--------------------------- MODULE MembershipProofs ---------------------------
(***************************************************************************)
(* Proofs about Membership, for any number of users, branches and sessions *)
(* and any bound on what they do.                                          *)
(***************************************************************************)
EXTENDS Membership, FiniteSetTheorems, TLAPS

\* A request that is about to write and has not been overtaken still has the
\* truth about the member it is going to change.
Guarded(t) ==
    t.pc = "write" =>
        /\ t.op = "update" => t.change.left = Keep
        /\ t.op # "none"
        /\ ~t.stale =>
            /\ t.op = "join" => ~Present(t.user)
            /\ /\ \/ t.op = "remove"
                  \/ t.op = "update" /\ t.change.role \notin {Keep, "ORG_ADMIN"}
               /\ member[t.user].role = "ORG_ADMIN"
               => OtherAdmin(t.user)
Guards == \A s \in Sessions : Guarded(task[s])

\* A main branch is active, there is one at most, and nobody deletes it.
MainsActive ==
    /\ \A b \in Branches : branch[b].main => branch[b].state = "active"
    /\ \A b, c \in Mains : b = c
    /\ deleting.branch \in Branches =>
           ~branch[deleting.branch].main /\ branch[deleting.branch].state # "none"

-----------------------------------------------------------------------------
(* Types *)

\* A member has a row with its types.
LEMMA Known ==
    ASSUME MemberTypeOK, NEW u \in Users, IsMember(u)
    PROVE  /\ member[u] \in Row /\ member[u].role \in Roles
           /\ member[u].active \in BOOLEAN /\ member[u].left \in BOOLEAN
           /\ member[u].branch \in Branches \cup {NoBranch}
<1>1. member[u] \in Row
  BY DEF MemberTypeOK, IsMember
<1> QED BY <1>1 DEF Row

\* An update of a row of the right type.
LEMMA AppliedType ==
    ASSUME NEW row \in Row, NEW c \in Change
    PROVE  Applied(row, c) \in Row
<1>1. /\ c.role \in Roles \cup {Keep} /\ c.active \in BOOLEAN \cup {Keep}
      /\ c.left \in BOOLEAN \cup {Keep}
      /\ c.branch \in Branches \cup {NoBranch, Keep}
  BY DEF Change
<1>2. /\ row.role \in Roles /\ row.active \in BOOLEAN /\ row.left \in BOOLEAN
      /\ row.branch \in Branches \cup {NoBranch}
  BY DEF Row
<1>3. Given(c.role, row.role) \in Roles
  BY <1>1, <1>2 DEF Given
<1>4. Given(c.active, row.active) \in BOOLEAN
  BY <1>1, <1>2, Zenon DEF Given
<1>5. Given(c.left, row.left) \in BOOLEAN
  BY <1>1, <1>2, Zenon DEF Given
<1>6. Given(c.branch, row.branch) \in Branches \cup {NoBranch}
  BY <1>1, <1>2 DEF Given
<1> QED BY <1>3, <1>4, <1>5, <1>6, Zenon DEF Applied, Row

\* The rows and requests that begin have their types.
LEMMA NewTypes ==
    /\ NewRow \in Row /\ NoChange \in Change
    /\ IdleTask \in Task /\ IdleTask.pc = "idle" /\ ~IdleTask.stale
    /\ IdleTask.sync \in BOOLEAN
<1>1. NewRow \in Row
  BY Zenon DEF NewRow, Row, Roles
<1>2. NoChange \in Change
  BY Zenon DEF NoChange, Change
<1>3. Founder \in Users
  BY FounderAssumption
<1>4. IdleTask \in Task
  BY <1>2, <1>3 DEF IdleTask, Task
<1> QED BY <1>1, <1>2, <1>4 DEF IdleTask

LEMMA EmployeesCounted == Cardinality(Employees) \in Nat
BY FounderAssumption, FS_Subset, FS_CardinalityType DEF Employees

\* A request that begins changes itself only.
LEMMA Started ==
    ASSUME MemberTypeOK, NEW s \in Sessions, NEW op \in {"join", "update", "remove"},
           NEW u \in Users, NEW c \in Change, NEW sync \in BOOLEAN,
           Start(s, op, u, c, sync)
    PROVE  /\ MemberTypeOK'
           /\ task'[s].pc = "write" /\ task'[s].op = op /\ task'[s].user = u
           /\ task'[s].change = c /\ ~task'[s].stale
           /\ \A r \in Sessions : r # s => task'[r] = task[r]
           /\ UNCHANGED <<member, branch, deleting>>
<1> DEFINE t == [pc |-> "write", op |-> op, user |-> u, change |-> c,
                 stale |-> FALSE, sync |-> sync, counted |-> 0]
<1>1. t \in Task
  BY DEF Task
<1>2. /\ t.pc = "write" /\ t.op = op /\ t.user = u /\ t.change = c /\ ~t.stale
  OBVIOUS
<1>3. /\ task' = [task EXCEPT ![s] = t] /\ requests' = requests + 1
      /\ UNCHANGED <<member, branch, count, token, deleting, unchecked>>
  BY DEF Start
<1> HIDE DEF t
<1>4. task \in [Sessions -> Task]
  BY DEF MemberTypeOK
<1>5. /\ task' \in [Sessions -> Task] /\ task'[s] = t
      /\ \A r \in Sessions : r # s => task'[r] = task[r]
  BY <1>1, <1>3, <1>4
<1> QED BY <1>2, <1>3, <1>5 DEF MemberTypeOK

-----------------------------------------------------------------------------
(* What a request checks before it is about to write *)

Checked(op, u, c) ==
    /\ op = "update" => c.left = Keep
    /\ op = "join" => ~Present(u)
    /\ /\ op = "remove" \/ (op = "update" /\ c.role \notin {Keep, "ORG_ADMIN"})
       /\ member[u].role = "ORG_ADMIN"
       => OtherAdmin(u)

\* It keeps the guards if it has been checked.
LEMMA StartStep ==
    ASSUME MemberTypeOK, Guards, MainsActive, NEW s \in Sessions,
           NEW op \in {"join", "update", "remove"}, NEW u \in Users,
           NEW c \in Change, NEW sync \in BOOLEAN,
           Start(s, op, u, c, sync), Checked(op, u, c)
    PROVE  MemberTypeOK' /\ Guards' /\ MainsActive'
<1>1. /\ MemberTypeOK'
      /\ task'[s].pc = "write" /\ task'[s].op = op /\ task'[s].user = u
      /\ task'[s].change = c /\ ~task'[s].stale
      /\ \A r \in Sessions : r # s => task'[r] = task[r]
      /\ UNCHANGED <<member, branch, deleting>>
  BY Started
<1>2. /\ \A v \in Users : OtherAdmin(v)' <=> OtherAdmin(v)
      /\ \A v : Present(v)' <=> Present(v)
  BY <1>1 DEF OtherAdmin, OrgAdmins, Present, IsMember
<1>3. ASSUME NEW r \in Sessions PROVE Guarded(task[r])'
  <2>0. task[r].user \in Users
    BY DEF MemberTypeOK, Task
  <2>1. CASE r = s
    BY <1>1, <1>2, <2>1 DEF Guarded, Checked
  <2>2. CASE r # s
    BY <1>1, <1>2, <2>0, <2>2 DEF Guarded, Guards
  <2> QED BY <2>1, <2>2
<1>4. MainsActive'
  BY <1>1 DEF MainsActive, Mains
<1> QED BY <1>1, <1>3, <1>4 DEF Guards

LEMMA BeginStep ==
    ASSUME MemberTypeOK, Guards, MainsActive, NEW s \in Sessions, Begin(s)
    PROVE  MemberTypeOK' /\ Guards' /\ MainsActive'
<1>1. /\ token[s].user \in Users /\ token[s].branch \in Branches \cup {NoBranch}
      /\ NoChange \in Change
  BY NewTypes DEF MemberTypeOK
<1>2. ASSUME NEW u \in Users, Login(s, u)
      PROVE  MemberTypeOK' /\ Guards' /\ MainsActive'
  <2>1. UNCHANGED <<member, branch, count, task, deleting, unchecked>>
    BY <1>2 DEF Login
  <2> DEFINE t == [user |-> u, role |-> member[u].role, branch |-> member[u].branch]
  <2>2. t \in [user: Users, role: Roles, branch: Branches \cup {NoBranch}]
    BY <1>2, Known DEF Login, Present
  <2>3. token' = [token EXCEPT ![s] = t] /\ requests' = requests + 1
    BY <1>2 DEF Login
  <2> HIDE DEF t
  <2>4. MemberTypeOK'
    BY <2>1, <2>2, <2>3 DEF MemberTypeOK
  <2>5. \A v \in Users : (OtherAdmin(v)' <=> OtherAdmin(v)) /\ (Present(v)' <=> Present(v))
    BY <2>1 DEF OtherAdmin, OrgAdmins, Present, IsMember
  <2>6. \A r \in Sessions : task[r].user \in Users
    BY DEF MemberTypeOK, Task
  <2>7. Guards'
    BY <2>1, <2>5, <2>6 DEF Guards, Guarded
  <2> QED BY <2>1, <2>4, <2>7 DEF MainsActive, Mains
<1>3. ASSUME NEW u \in Users, NEW role \in Roles,
             NEW b \in Branches \cup {NoBranch}, JoinRead(s, u, role, b)
      PROVE  MemberTypeOK' /\ Guards' /\ MainsActive'
  <2>1. PICK at \in Resolved(Asked(s, b)) :
          Start(s, "join", u, [role |-> role, active |-> TRUE,
                               left |-> FALSE, branch |-> at], TRUE)
    BY <1>3 DEF JoinRead
  <2>2. at \in Branches \cup {NoBranch}
    BY <1>1 DEF Resolved, Asked, Mains, Usable
  <2> DEFINE c == [role |-> role, active |-> TRUE, left |-> FALSE, branch |-> at]
  <2>3. c \in Change
    BY <2>2 DEF Change
  <2>4. Checked("join", u, c)
    BY <1>3 DEF Checked, JoinRead, Present
  <2> HIDE DEF c
  <2> QED BY <2>1, <2>3, <2>4, StartStep DEF c
<1>4. ASSUME NEW u \in Users, NEW role \in Roles, RejoinRead(s, u, role)
      PROVE  MemberTypeOK' /\ Guards' /\ MainsActive'
  <2> DEFINE c == [role |-> role, active |-> TRUE, left |-> FALSE, branch |-> Keep]
  <2>1. c \in Change
    BY DEF Change
  <2>2. Checked("join", u, c)
    BY <1>4 DEF Checked, RejoinRead
  <2>3. Start(s, "join", u, c, TRUE)
    BY <1>4 DEF RejoinRead
  <2> HIDE DEF c
  <2> QED BY <2>1, <2>2, <2>3, StartStep
<1>5. ASSUME NEW u \in Users, NEW change \in Edits, UpdateRead(s, u, change)
      PROVE  MemberTypeOK' /\ Guards' /\ MainsActive'
  <2>1. change \in Change /\ change.left = Keep
    BY EditsAssumption
  <2>2. Switches(u, change) \in BOOLEAN
    BY DEF Switches
  <2>3. Checked("update", u, change)
    BY <1>5, <2>1 DEF Checked, UpdateRead
  <2>4. Start(s, "update", u, change, Switches(u, change))
    BY <1>5 DEF UpdateRead
  <2> QED BY <2>1, <2>2, <2>3, <2>4, StartStep
<1>6. ASSUME NEW u \in Users, NEW active \in BOOLEAN, StatusRead(s, u, active)
      PROVE  MemberTypeOK' /\ Guards' /\ MainsActive'
  <2> DEFINE c == [NoChange EXCEPT !.active = active]
  <2>1. c \in Change /\ c.left = Keep /\ c.role = Keep
    BY DEF Change, NoChange
  <2>2. Switches(u, c) \in BOOLEAN
    BY DEF Switches
  <2>3. Start(s, "update", u, c, Switches(u, c))
    BY <1>6 DEF StatusRead
  <2> HIDE DEF c
  <2>4. Checked("update", u, c)
    BY <2>1 DEF Checked
  <2> QED BY <2>1, <2>2, <2>3, <2>4, StartStep
<1>7. ASSUME NEW b \in Branches \cup {NoBranch}, SelfRead(s, b)
      PROVE  MemberTypeOK' /\ Guards' /\ MainsActive'
  <2> DEFINE c == [NoChange EXCEPT !.branch = b]
             u == token[s].user
  <2>1. c \in Change /\ c.left = Keep /\ c.role = Keep
    BY DEF Change, NoChange
  <2>2. Start(s, "update", u, c, FALSE)
    BY <1>7 DEF SelfRead
  <2> HIDE DEF c
  <2>3. Checked("update", u, c)
    BY <2>1 DEF Checked
  <2> QED BY <1>1, <2>1, <2>2, <2>3, StartStep
<1>8. ASSUME NEW u \in Users, RemoveRead(s, u)
      PROVE  MemberTypeOK' /\ Guards' /\ MainsActive'
  <2> DEFINE c == [NoChange EXCEPT !.active = FALSE, !.left = TRUE]
  <2>1. c \in Change
    BY DEF Change, NoChange
  <2>2. Start(s, "remove", u, c, TRUE)
    BY <1>8 DEF RemoveRead
  <2>3. Checked("remove", u, c)
    BY <1>8 DEF Checked, RemoveRead
  <2> HIDE DEF c
  <2> QED BY <2>1, <2>2, <2>3, StartStep
<1> QED BY <1>2, <1>3, <1>4, <1>5, <1>6, <1>7, <1>8 DEF Begin

-----------------------------------------------------------------------------
(* What a write does to the others *)

\* A task that has been overtaken has nothing to keep but its request.
LEMMA Overtaken ==
    ASSUME NEW t \in Task, NEW new, new = t \/ new = [t EXCEPT !.stale = TRUE],
           Guarded(t)
    PROVE  /\ new \in Task /\ new.pc = t.pc
           /\ new.op = t.op /\ new.user = t.user /\ new.change = t.change
           /\ t.stale => new.stale
           /\ new # t => new.stale
BY DEF Task

LEMMA WriteStep ==
    ASSUME MemberTypeOK, Guards, MainsActive, NEW s \in Sessions, Write(s)
    PROVE  MemberTypeOK' /\ Guards' /\ MainsActive'
<1> DEFINE u == task[s].user
           pc == IF task[s].sync THEN "recount" ELSE "idle"
           done == [IdleTask EXCEPT !.pc = pc]
           ts == [task EXCEPT ![s] = done]
<1>1. task[s] \in Task /\ u \in Users /\ task[s].change \in Change
  BY DEF MemberTypeOK, Task
<1>2. Written(s) \in Row
  <2>1. IsMember(u) => member[u] \in Row
    BY <1>1 DEF MemberTypeOK, IsMember
  <2> QED BY <1>1, <2>1, NewTypes, AppliedType DEF Written
<1>3. member' = [member EXCEPT ![u] = Written(s)]
  BY DEF Write
<1>4. member' \in [Users -> Row \cup {NoMember}]
  BY <1>1, <1>2, <1>3 DEF MemberTypeOK
<1>5. unchecked' \in Nat
  <2>1. unchecked \in Nat
    BY DEF MemberTypeOK
  <2>2. unchecked' = unchecked + 1 \/ unchecked' = unchecked
    BY DEF Write
  <2> QED BY <2>1, <2>2
<1>6. done \in Task /\ done.pc # "write"
  BY NewTypes DEF Task
<1>7. task' = [r \in Sessions |-> IF r # s /\ ts[r].pc = "write"
                                  THEN [ts[r] EXCEPT !.stale = TRUE] ELSE ts[r]]
  BY DEF Write, Outdated
<1> HIDE DEF done
<1>8. task \in [Sessions -> Task]
  BY DEF MemberTypeOK
<1>9. ASSUME NEW r \in Sessions
      PROVE  /\ task'[r] \in Task
             /\ r = s => task'[r] = done
             /\ r # s /\ task[r].pc = "write" =>
                   task'[r] = [task[r] EXCEPT !.stale = TRUE]
             /\ r # s /\ task[r].pc # "write" => task'[r] = task[r]
  <2>1. ts[r] = IF r = s THEN done ELSE task[r]
    BY <1>8
  <2> HIDE DEF ts
  <2>2. task[r] \in Task
    BY <1>8
  <2>3. task'[r] = IF r # s /\ ts[r].pc = "write"
                   THEN [ts[r] EXCEPT !.stale = TRUE] ELSE ts[r]
    BY <1>7
  <2>4. [task[r] EXCEPT !.stale = TRUE] \in Task
    BY <2>2 DEF Task
  <2> QED BY <1>6, <2>1, <2>2, <2>3, <2>4
<1>10. task' \in [Sessions -> Task]
  BY <1>7, <1>9
<1>11. /\ deleting' \in [branch: Branches \cup {NoBranch}, stale: BOOLEAN]
       /\ deleting'.branch = deleting.branch
  <2>1. deleting \in [branch: Branches \cup {NoBranch}, stale: BOOLEAN]
    BY DEF MemberTypeOK
  <2> DEFINE stale == deleting.stale \/ deleting.branch # NoBranch
  <2>2. deleting' = [deleting EXCEPT !.stale = stale]
    BY DEF Write
  <2>3. stale \in BOOLEAN
    OBVIOUS
  <2> HIDE DEF stale
  <2> QED BY <2>1, <2>2, <2>3
<1>12. UNCHANGED <<branch, count, token, requests>>
  BY DEF Write
<1>13. MemberTypeOK'
  BY <1>4, <1>5, <1>10, <1>11, <1>12 DEF MemberTypeOK
<1>14. ASSUME NEW r \in Sessions PROVE Guarded(task[r])'
  <2>1. CASE r = s
    BY <1>6, <1>9, <2>1 DEF Guarded
  <2>2. CASE r # s /\ task[r].pc = "write"
    <3>1. /\ task'[r].stale /\ task'[r].op = task[r].op
          /\ task'[r].change = task[r].change
      BY <1>8, <1>9, <2>2 DEF Task
    <3> QED BY <2>2, <3>1 DEF Guarded, Guards
  <2>3. CASE r # s /\ task[r].pc # "write"
    BY <1>9, <2>3 DEF Guarded
  <2> QED BY <2>1, <2>2, <2>3
<1>15. MainsActive'
  BY <1>11, <1>12 DEF MainsActive, Mains
<1> QED BY <1>13, <1>14, <1>15 DEF Guards

\* The recount and its failures change no member and no request that writes.
LEMMA RecountStep ==
    ASSUME MemberTypeOK, Guards, MainsActive, NEW s \in Sessions,
           WriteConflict(s) \/ Recount(s) \/ Store(s) \/ SyncFails(s)
    PROVE  MemberTypeOK' /\ Guards' /\ MainsActive'
<1>1. task[s] \in Task /\ task[s].counted \in Nat
  BY DEF MemberTypeOK, Task
<1>2. UNCHANGED <<member, branch, token, deleting>>
  BY DEF WriteConflict, Recount, Store, SyncFails
<1>3. count' \in Nat /\ requests' \in Nat /\ unchecked' \in Nat
  <2>1. count \in Nat /\ requests \in Nat /\ unchecked \in Nat
    BY DEF MemberTypeOK
  <2> QED BY <1>1, <2>1 DEF WriteConflict, Recount, Store, SyncFails
<1>4. PICK new \in Task : task' = [task EXCEPT ![s] = new] /\ new.pc # "write"
  <2>1. CASE Recount(s)
    <3> DEFINE t == [task[s] EXCEPT !.pc = "store"]
               new == [t EXCEPT !.counted = Cardinality(Employees)]
    <3>1. t \in Task /\ t.pc = "store"
      BY <1>1 DEF Task
    <3>2. new \in Task /\ new.pc = "store"
      BY <3>1, EmployeesCounted DEF Task
    <3>3. task' = [task EXCEPT ![s] = new]
      BY <2>1 DEF Recount
    <3> HIDE DEF new
    <3> QED BY <3>2, <3>3
  <2>2. CASE WriteConflict(s) \/ Store(s) \/ SyncFails(s)
    BY <2>2, NewTypes DEF WriteConflict, Store, SyncFails
  <2> QED BY <2>1, <2>2
<1>5. /\ task' \in [Sessions -> Task]
      /\ \A r \in Sessions : task'[r] = IF r = s THEN new ELSE task[r]
  BY <1>4 DEF MemberTypeOK
<1>6. \A v : (OtherAdmin(v)' <=> OtherAdmin(v)) /\ (Present(v)' <=> Present(v))
  BY <1>2 DEF OtherAdmin, OrgAdmins, Present, IsMember
<1>7. ASSUME NEW r \in Sessions PROVE Guarded(task[r])'
  BY <1>2, <1>4, <1>5, <1>6 DEF Guarded, Guards
<1>8. MemberTypeOK'
  BY <1>2, <1>3, <1>5 DEF MemberTypeOK
<1> QED BY <1>2, <1>7, <1>8 DEF Guards, MainsActive, Mains

-----------------------------------------------------------------------------
(* The super admin *)

LEMMA BranchUpdated ==
    ASSUME MemberTypeOK, NEW b \in Branches, NEW state \in BranchStates,
           branch' = [branch EXCEPT ![b].state = state]
    PROVE  /\ branch' \in [Branches -> [state: BranchStates, main: BOOLEAN]]
           /\ branch'[b].state = state
           /\ \A c \in Branches : branch'[c].main <=> branch[c].main
           /\ \A c \in Branches \ {b} : branch'[c] = branch[c]
<1> DEFINE new == [branch[b] EXCEPT !.state = state]
<1>1. branch[b] \in [state: BranchStates, main: BOOLEAN]
  BY DEF MemberTypeOK
<1>2. /\ new \in [state: BranchStates, main: BOOLEAN] /\ new.state = state
      /\ new.main <=> branch[b].main
  BY <1>1
<1>3. branch' = [branch EXCEPT ![b] = new]
  OBVIOUS
<1> HIDE DEF new
<1> QED BY <1>2, <1>3 DEF MemberTypeOK

LEMMA SameRequests ==
    ASSUME MemberTypeOK, Guards, UNCHANGED <<member, task>>
    PROVE  Guards'
<1>1. \A v : (OtherAdmin(v)' <=> OtherAdmin(v)) /\ (Present(v)' <=> Present(v))
  BY DEF OtherAdmin, OrgAdmins, Present, IsMember
<1> QED BY <1>1 DEF Guards, Guarded

LEMMA SuperAdminStep ==
    ASSUME MemberTypeOK, Guards, MainsActive, SuperAdmin
    PROVE  MemberTypeOK' /\ Guards' /\ MainsActive'
<1>1. UNCHANGED <<member, count, token, unchecked>>
  BY DEF SuperAdmin, BranchCreate, BranchUpdate, BranchDeleteRead, BranchDelete
<1>2. /\ branch \in [Branches -> [state: BranchStates, main: BOOLEAN]]
      /\ requests \in Nat /\ NoBranch \notin Branches
      /\ deleting.branch \in Branches \cup {NoBranch}
  BY NullAssumption DEF MemberTypeOK
<1>3. ASSUME NEW b \in Branches, NEW main \in BOOLEAN, BranchCreate(b, main)
      PROVE  MemberTypeOK' /\ Guards' /\ MainsActive'
  <2> DEFINE new == [state |-> "active", main |-> main]
  <2>1. /\ branch' = [branch EXCEPT ![b] = new] /\ requests' = requests + 1
        /\ UNCHANGED <<task, deleting>> /\ branch[b].state = "none"
        /\ main => Mains = {}
    BY <1>3 DEF BranchCreate
  <2>2. /\ new \in [state: BranchStates, main: BOOLEAN]
        /\ new.state = "active" /\ (new.main <=> main)
    BY DEF BranchStates
  <2> HIDE DEF new
  <2>3. /\ branch' \in [Branches -> [state: BranchStates, main: BOOLEAN]]
        /\ \A c \in Branches : branch'[c] = IF c = b THEN new ELSE branch[c]
    BY <1>2, <2>1, <2>2
  <2>4. MemberTypeOK'
    BY <1>1, <1>2, <2>1, <2>3 DEF MemberTypeOK
  <2>5. \A c \in Mains' : c \in Mains \/ (c = b /\ main)
    BY <2>2, <2>3 DEF Mains
  <2>6. MainsActive'
    BY <1>2, <2>1, <2>2, <2>3, <2>5 DEF MainsActive
  <2> QED BY <1>1, <2>1, <2>4, <2>6, SameRequests
<1>4. ASSUME NEW b \in Branches, NEW active \in BOOLEAN, BranchUpdate(b, active)
      PROVE  MemberTypeOK' /\ Guards' /\ MainsActive'
  <2> DEFINE state == IF active THEN "active" ELSE "inactive"
  <2>1. /\ branch' = [branch EXCEPT ![b].state = state] /\ requests' = requests + 1
        /\ UNCHANGED <<task, deleting>> /\ branch[b].state # "deleted"
        /\ ~active => ~branch[b].main
    BY <1>4 DEF BranchUpdate, MayDeactivate
  <2>2. /\ state \in BranchStates /\ state \notin {"none", "deleted"}
        /\ active <=> state = "active"
    BY DEF BranchStates
  <2> HIDE DEF state
  <2>3. /\ branch' \in [Branches -> [state: BranchStates, main: BOOLEAN]]
        /\ branch'[b].state = state
        /\ \A c \in Branches : branch'[c].main <=> branch[c].main
        /\ \A c \in Branches \ {b} : branch'[c] = branch[c]
    BY <2>1, <2>2, BranchUpdated
  <2>4. MemberTypeOK'
    BY <1>1, <1>2, <2>1, <2>3 DEF MemberTypeOK
  <2>5. \A c \in Mains' : c \in Mains
    BY <2>1, <2>3 DEF Mains
  <2>6. MainsActive'
    BY <1>2, <2>1, <2>2, <2>3, <2>5 DEF MainsActive
  <2> QED BY <1>1, <2>1, <2>4, <2>6, SameRequests
<1>5. ASSUME NEW b \in Branches, BranchDeleteRead(b)
      PROVE  MemberTypeOK' /\ Guards' /\ MainsActive'
  <2>1. /\ deleting' = [branch |-> b, stale |-> FALSE]
        /\ UNCHANGED <<branch, task, requests>>
        /\ ~branch[b].main /\ branch[b].state \in {"active", "inactive"}
    BY <1>5 DEF BranchDeleteRead
  <2>2. deleting' \in [branch: Branches \cup {NoBranch}, stale: BOOLEAN]
    BY <2>1
  <2>3. MemberTypeOK'
    BY <1>1, <2>1, <2>2 DEF MemberTypeOK
  <2>4. MainsActive'
    BY <2>1 DEF MainsActive, Mains
  <2> QED BY <1>1, <2>1, <2>3, <2>4, SameRequests
<1>6. CASE BranchDelete
  <2> DEFINE b == deleting.branch
  <2>1. /\ branch' = [branch EXCEPT ![b].state = "deleted"] /\ b \in Branches
        /\ deleting' = [branch |-> NoBranch, stale |-> FALSE]
        /\ requests' = requests
        /\ task' = [s \in Sessions |-> IF task[s].pc = "write"
                                       THEN [task[s] EXCEPT !.stale = TRUE]
                                       ELSE task[s]]
    BY <1>2, <1>6 DEF BranchDelete
  <2> HIDE DEF b
  <2>2. "deleted" \in BranchStates
    BY DEF BranchStates
  <2>3. /\ branch' \in [Branches -> [state: BranchStates, main: BOOLEAN]]
        /\ branch'[b].state = "deleted"
        /\ \A c \in Branches : branch'[c].main <=> branch[c].main
        /\ \A c \in Branches \ {b} : branch'[c] = branch[c]
    BY <2>1, <2>2, BranchUpdated
  <2>4. ASSUME NEW s \in Sessions
        PROVE  /\ task'[s] \in Task /\ task'[s].pc = task[s].pc
               /\ task'[s].op = task[s].op /\ task'[s].change = task[s].change
               /\ task[s].pc = "write" => task'[s].stale
    <3>1. task[s] \in Task
      BY DEF MemberTypeOK
    <3>2. task'[s] = IF task[s].pc = "write" THEN [task[s] EXCEPT !.stale = TRUE]
                     ELSE task[s]
      BY <2>1
    <3> QED BY <3>1, <3>2 DEF Task
  <2>5. task' \in [Sessions -> Task]
    BY <2>1, <2>4
  <2>6. Guards'
    BY <2>4 DEF Guards, Guarded
  <2>7. deleting' \in [branch: Branches \cup {NoBranch}, stale: BOOLEAN]
    BY <2>1
  <2>8. MemberTypeOK'
    BY <1>1, <1>2, <2>1, <2>3, <2>5, <2>7 DEF MemberTypeOK
  <2>9. ~branch[b].main
    BY <2>1 DEF MainsActive, b
  <2>10. ASSUME NEW c \in Mains' PROVE c \in Mains /\ c # b
    <3>1. c \in Branches /\ branch'[c].main /\ branch'[c].state # "deleted"
      BY DEF Mains
    <3>2. c # b
      BY <2>3, <3>1
    <3>3. branch'[c] = branch[c]
      BY <2>3, <3>1, <3>2
    <3> QED BY <3>1, <3>2, <3>3 DEF Mains
  <2>11. deleting'.branch \notin Branches
    BY <1>2, <2>1
  <2>12. MainsActive'
    <3>1. \A c, d \in Mains' : c = d
      BY <2>10 DEF MainsActive
    <3>2. ASSUME NEW c \in Branches, branch'[c].main
          PROVE  branch'[c].state = "active"
      BY <2>1, <2>3, <2>9, <3>2 DEF MainsActive
    <3> QED BY <2>11, <3>1, <3>2 DEF MainsActive
  <2> QED BY <2>6, <2>8, <2>12
<1> QED BY <1>3, <1>4, <1>5, <1>6 DEF SuperAdmin

-----------------------------------------------------------------------------
(* The invariant *)

MemberInv == MemberTypeOK /\ Guards /\ MainsActive

LEMMA Start0 == ASSUME MemberInit PROVE MemberInv
<1>1. [NewRow EXCEPT !.role = "ORG_ADMIN"] \in Row
  BY NewTypes DEF Row, Roles
<1>2. member \in [Users -> Row \cup {NoMember}]
  BY <1>1, NewTypes DEF MemberInit
<1>3. /\ branch \in [Branches -> [state: BranchStates, main: BOOLEAN]]
      /\ \A b \in Branches : ~branch[b].main
  BY DEF MemberInit, BranchStates
<1>4. Cardinality(Staff) \in Nat
  BY FounderAssumption, FS_Subset, FS_CardinalityType
<1>5. token \in [Sessions -> [user: Users, role: Roles,
                              branch: Branches \cup {NoBranch}]]
  BY FounderAssumption DEF MemberInit, Roles
<1>6. /\ task \in [Sessions -> Task]
      /\ \A s \in Sessions : task[s].pc = "idle"
  BY NewTypes DEF MemberInit
<1>7. /\ deleting \in [branch: Branches \cup {NoBranch}, stale: BOOLEAN]
      /\ deleting.branch \notin Branches
  BY NullAssumption DEF MemberInit
<1>8. count \in Nat /\ requests \in Nat /\ unchecked \in Nat
  BY <1>4 DEF MemberInit
<1>9. Guards
  BY <1>6 DEF Guards, Guarded
<1>10. MainsActive
  BY <1>3, <1>7 DEF MainsActive, Mains
<1> QED BY <1>2, <1>3, <1>5, <1>6, <1>7, <1>8, <1>9, <1>10
        DEF MemberInv, MemberTypeOK

LEMMA InvStep == ASSUME MemberInv, [MemberNext]_memberVars PROVE MemberInv'
<1>1. CASE MemberNext
  <2>1. CASE SuperAdmin
    BY <2>1, SuperAdminStep DEF MemberInv
  <2>2. ASSUME NEW s \in Sessions, Begin(s) PROVE MemberInv'
    BY <2>2, BeginStep DEF MemberInv
  <2>3. ASSUME NEW s \in Sessions, Proceed(s) PROVE MemberInv'
    BY <2>3, WriteStep, RecountStep DEF MemberInv, Proceed
  <2> QED BY <1>1, <2>1, <2>2, <2>3 DEF MemberNext
<1>2. CASE UNCHANGED memberVars
  <2>1. Guards'
    BY <1>2, SameRequests DEF MemberInv, memberVars
  <2> QED BY <1>2, <2>1 DEF MemberInv, memberVars, MemberTypeOK, MainsActive, Mains
<1> QED BY <1>1, <1>2

\* The types, the checks that requests carry, and that main branches are
\* active, hold always.
THEOREM MemberInvariant == MemberSpec => []MemberInv
<1>1. MemberInit => MemberInv
  BY Start0
<1>2. MemberInv /\ [MemberNext]_memberVars => MemberInv'
  BY InvStep
<1> QED BY <1>1, <1>2, PTL DEF MemberSpec

\* Every row, token and request of an organization has its type, however its
\* sessions and the super admin interleave.
THEOREM MemberTypeCorrect == MemberSpec => []MemberTypeOK
<1>1. MemberInv => MemberTypeOK
  BY DEF MemberInv
<1> QED BY <1>1, MemberInvariant, PTL

\* There is one main branch at most and it stays active, although deletions
\* have counted its members long before they write.
THEOREM MainBranchStays == MemberSpec => []MainStays
<1>1. MemberInv => MainStays
  <2> SUFFICES ASSUME MemberInv PROVE Cardinality(Mains) <= 1
    BY DEF MemberInv, MainsActive, MainStays
  <2>1. CASE Mains = {}
    BY <2>1, FS_EmptySet
  <2>2. ASSUME NEW b \in Mains PROVE Cardinality(Mains) <= 1
    <3>1. Mains = {b}
      BY DEF MemberInv, MainsActive
    <3> QED BY <3>1, FS_Singleton
  <2> QED BY <2>1, <2>2
<1> QED BY <1>1, MemberInvariant, PTL

\* The organization loses its last admin only by a switch that nothing guards
\* or by a request whose guard another write has overtaken.
THEOREM LastAdminStays == MemberSpec => LastAdminKept
<1> DEFINE Unguarded ==
        \E s \in Sessions : /\ task[s].pc = "write"
                            /\ \/ task[s].stale
                               \/ task[s].op = "update"
                                  /\ task[s].change.active = FALSE
<1>1. ASSUME MemberInv, [MemberNext]_memberVars, OrgAdmins' = {}, OrgAdmins # {}
      PROVE  Unguarded
  <2>1. PICK s \in Sessions : Write(s)
    <3>1. member' # member
      BY <1>1 DEF OrgAdmins, Present, IsMember
    <3>2. ASSUME NEW s \in Sessions, Begin(s) PROVE member' = member
      BY <3>2 DEF Begin, Login, JoinRead, RejoinRead, UpdateRead, StatusRead,
                  SelfRead, RemoveRead, Start
    <3>3. ASSUME SuperAdmin PROVE member' = member
      BY <3>3 DEF SuperAdmin, BranchCreate, BranchUpdate, BranchDeleteRead,
                  BranchDelete
    <3>4. ASSUME NEW s \in Sessions, Proceed(s), ~Write(s) PROVE member' = member
      BY <3>4 DEF Proceed, WriteConflict, Recount, Store, SyncFails
    <3> QED BY <1>1, <3>1, <3>2, <3>3, <3>4 DEF MemberNext, memberVars
  <2> DEFINE u == task[s].user
             c == task[s].change
  <2>2. PICK a \in Users : Present(a) /\ member[a].role = "ORG_ADMIN"
    BY <1>1 DEF OrgAdmins
  <2>3. /\ member' = [member EXCEPT ![u] = Written(s)] /\ task[s].pc = "write"
        /\ u \in Users /\ task[s].op \in {"none", "join", "update", "remove"}
    BY <1>1, <2>1 DEF Write, MemberInv, MemberTypeOK, Task
  <2>4. \A v \in Users : v # u => member'[v] = member[v]
    BY <1>1, <2>3 DEF MemberInv, MemberTypeOK
  <2>5. \A v \in OrgAdmins : v = u
    BY <1>1, <2>4 DEF OrgAdmins, Present, IsMember
  <2>6. a = u /\ ~OtherAdmin(u) /\ Present(u) /\ member[u].role = "ORG_ADMIN"
    BY <2>2, <2>5 DEF OrgAdmins, OtherAdmin
  <2>7. Guarded(task[s])
    BY <1>1 DEF MemberInv, Guards
  <2>8. CASE task[s].stale
    BY <2>3, <2>8
  <2>9. CASE ~task[s].stale
    <3>1. /\ task[s].op = "update" /\ c.left = Keep
          /\ c.role \in {Keep, "ORG_ADMIN"}
      BY <2>3, <2>6, <2>7, <2>9 DEF Guarded
    <3>2. /\ Written(s) = Applied(member[u], c) /\ member'[u] = Written(s)
      BY <1>1, <2>3, <2>6 DEF Written, Present, MemberInv, MemberTypeOK
    <3>3. /\ member'[u].role = "ORG_ADMIN" /\ member'[u].left = member[u].left
          /\ member'[u].active = Given(c.active, member[u].active)
      BY <2>6, <3>1, <3>2 DEF Applied, Given
    <3>4. member'[u] # NoMember
      <4>1. member[u] \in Row /\ c \in Change
        BY <1>1, <2>6 DEF MemberInv, MemberTypeOK, Present, IsMember, Task
      <4> QED BY <3>2, <4>1, AppliedType, MemberAssumption
    <3>5. ~member'[u].active
      BY <1>1, <2>3, <2>6, <3>3, <3>4 DEF OrgAdmins, Present, IsMember
    <3>6. member[u].active
      BY <2>6 DEF Present
    <3>7. c \in Change /\ c.active \in BOOLEAN \cup {Keep}
      BY <1>1 DEF MemberInv, MemberTypeOK, Task, Change
    <3>8. c.active = FALSE
      BY <3>3, <3>5, <3>6, <3>7 DEF Given
    <3> QED BY <2>3, <3>1, <3>8
  <2> QED BY <2>8, <2>9
<1>2. ASSUME MemberInv, [MemberNext]_memberVars
      PROVE  OrgAdmins' = {} /\ OrgAdmins # {} => Unguarded
  BY <1>1, <1>2
<1>3. MemberInv /\ [MemberNext]_memberVars
        => [OrgAdmins' = {} /\ OrgAdmins # {} => Unguarded]_memberVars
  BY <1>2
<1> QED BY <1>3, MemberInvariant, PTL DEF MemberSpec, LastAdminKept

-----------------------------------------------------------------------------
(* What requests are started with, and what they carry *)

\* A join recounts, a removal switches off, and the branch of a request that
\* nobody has overtaken is not deleted.
Carries(t) ==
    t.pc = "write" =>
        /\ t.op \in {"join", "update", "remove"}
        /\ t.op = "join" => t.sync
        /\ t.op = "remove" => t.change.active = FALSE /\ t.change.left = TRUE
        /\ ~t.stale /\ t.change.branch \in Branches \ {Keep} =>
             branch[t.change.branch].state # "deleted"
Orders == \A s \in Sessions : Carries(task[s])

\* What a request asks for when it starts.
Asks(op, c, sync) ==
    /\ op = "join" => sync /\ SeatFree
    /\ op = "remove" => c.active = FALSE /\ c.left = TRUE
    /\ c.branch \in Branches \ {Keep} => branch[c.branch].state # "deleted"

\* A request begins with what it asks for, or nothing happens.
LEMMA BeginStarts ==
    ASSUME MemberTypeOK, NEW s \in Sessions, Begin(s)
    PROVE  \/ UNCHANGED <<member, branch, count, task, deleting, unchecked>>
           \/ \E op \in {"join", "update", "remove"}, u \in Users, c \in Change,
                 sync \in BOOLEAN : Start(s, op, u, c, sync) /\ Asks(op, c, sync)
<1>1. /\ token[s].user \in Users /\ token[s].branch \in Branches \cup {NoBranch}
      /\ NoChange \in Change /\ NoBranch \notin Branches
  BY NewTypes, NullAssumption DEF MemberTypeOK
<1>2. ASSUME NEW u \in Users, Login(s, u)
      PROVE  UNCHANGED <<member, branch, count, task, deleting, unchecked>>
  BY <1>2 DEF Login
<1>3. ASSUME NEW u \in Users, NEW role \in Roles,
             NEW b \in Branches \cup {NoBranch}, JoinRead(s, u, role, b)
      PROVE  \E c \in Change : Start(s, "join", u, c, TRUE) /\ Asks("join", c, TRUE)
  <2>1. PICK at \in Resolved(Asked(s, b)) :
          Start(s, "join", u, [role |-> role, active |-> TRUE,
                               left |-> FALSE, branch |-> at], TRUE)
    BY <1>3 DEF JoinRead
  <2>2. /\ at \in Branches \cup {NoBranch}
        /\ at \in Branches => branch[at].state # "deleted"
    BY <1>1 DEF Resolved, Asked, Mains, Usable
  <2> DEFINE c == [role |-> role, active |-> TRUE, left |-> FALSE, branch |-> at]
  <2>3. c \in Change /\ c.branch = at
    BY <2>2 DEF Change
  <2>4. SeatFree
    BY <1>3 DEF JoinRead, MayAdd
  <2> HIDE DEF c
  <2>5. Asks("join", c, TRUE)
    BY <2>2, <2>3, <2>4 DEF Asks
  <2> QED BY <2>1, <2>3, <2>5 DEF c
<1>4. ASSUME NEW u \in Users, NEW role \in Roles, RejoinRead(s, u, role)
      PROVE  \E c \in Change : Start(s, "join", u, c, TRUE) /\ Asks("join", c, TRUE)
  <2> DEFINE c == [role |-> role, active |-> TRUE, left |-> FALSE, branch |-> Keep]
  <2>1. c \in Change /\ c.branch = Keep
    BY DEF Change
  <2>2. SeatFree /\ Start(s, "join", u, c, TRUE)
    BY <1>4 DEF RejoinRead, MayAdd
  <2> HIDE DEF c
  <2> QED BY <2>1, <2>2 DEF Asks
<1>5. ASSUME NEW u \in Users, NEW change \in Edits, UpdateRead(s, u, change)
      PROVE  \E sync \in BOOLEAN : /\ Start(s, "update", u, change, sync)
                                   /\ change \in Change /\ Asks("update", change, sync)
  <2>1. change \in Change
    BY EditsAssumption
  <2>2. Switches(u, change) \in BOOLEAN
    BY DEF Switches
  <2>3. Start(s, "update", u, change, Switches(u, change))
    BY <1>5 DEF UpdateRead
  <2>4. Asks("update", change, Switches(u, change))
    BY <1>5 DEF UpdateRead, Asks, Usable
  <2> QED BY <2>1, <2>2, <2>3, <2>4
<1>6. ASSUME NEW u \in Users, NEW active \in BOOLEAN, StatusRead(s, u, active)
      PROVE  \E c \in Change, sync \in BOOLEAN :
               Start(s, "update", u, c, sync) /\ Asks("update", c, sync)
  <2> DEFINE c == [NoChange EXCEPT !.active = active]
  <2>1. c \in Change /\ c.branch = Keep
    BY DEF Change, NoChange
  <2>2. Switches(u, c) \in BOOLEAN
    BY DEF Switches
  <2>3. Start(s, "update", u, c, Switches(u, c))
    BY <1>6 DEF StatusRead
  <2> HIDE DEF c
  <2> QED BY <2>1, <2>2, <2>3 DEF Asks
<1>7. ASSUME NEW b \in Branches \cup {NoBranch}, SelfRead(s, b)
      PROVE  \E u \in Users, c \in Change :
               Start(s, "update", u, c, FALSE) /\ Asks("update", c, FALSE)
  <2> DEFINE c == [NoChange EXCEPT !.branch = b]
             u == token[s].user
  <2>1. c \in Change /\ c.branch = b
    BY DEF Change, NoChange
  <2>2. Start(s, "update", u, c, FALSE)
    BY <1>7 DEF SelfRead
  <2>3. b \in Branches => branch[b].state # "deleted"
    BY <1>1, <1>7 DEF SelfRead, Usable
  <2> HIDE DEF c
  <2> QED BY <1>1, <2>1, <2>2, <2>3 DEF Asks
<1>8. ASSUME NEW u \in Users, RemoveRead(s, u)
      PROVE  \E c \in Change : Start(s, "remove", u, c, TRUE) /\ Asks("remove", c, TRUE)
  <2> DEFINE d == [NoChange EXCEPT !.active = FALSE]
             c == [d EXCEPT !.left = TRUE]
  <2>1. c \in Change /\ c.branch = Keep /\ c.active = FALSE /\ c.left = TRUE
    BY DEF Change, NoChange
  <2>2. Start(s, "remove", u, c, TRUE)
    BY <1>8 DEF RemoveRead, NoChange
  <2> HIDE DEF c
  <2> QED BY <2>1, <2>2 DEF Asks
<1> QED BY <1>2, <1>3, <1>4, <1>5, <1>6, <1>7, <1>8 DEF Begin

\* A request that another writes past keeps what it carries.
Alike(new, old) ==
    /\ new.pc = old.pc /\ new.op = old.op /\ new.user = old.user
    /\ new.change = old.change /\ new.sync = old.sync /\ new.counted = old.counted
    /\ old.pc = "write" => new.stale

\* A write goes on to the recount, and makes others of its member stale.
LEMMA WriteTasks ==
    ASSUME MemberTypeOK, NEW s \in Sessions, Write(s)
    PROVE  /\ task'[s].pc = IF task[s].sync THEN "recount" ELSE "idle"
           /\ \A r \in Sessions \ {s} : Alike(task'[r], task[r])
<1> DEFINE pc == IF task[s].sync THEN "recount" ELSE "idle"
           done == [IdleTask EXCEPT !.pc = pc]
           ts == [task EXCEPT ![s] = done]
<1>1. done.pc = pc /\ done.pc # "write"
  BY NewTypes DEF Task
<1>2. task' = [r \in Sessions |-> IF r # s /\ ts[r].pc = "write"
                                  THEN [ts[r] EXCEPT !.stale = TRUE] ELSE ts[r]]
  BY DEF Write, Outdated
<1>3. task \in [Sessions -> Task]
  BY DEF MemberTypeOK
<1> HIDE DEF done
<1>4. task'[s] = done
  BY <1>2, <1>3
<1>5. ASSUME NEW r \in Sessions \ {s} PROVE Alike(task'[r], task[r])
  <2>1. ts[r] = task[r] /\ task[r] \in Task
    BY <1>3
  <2>2. task'[r] = IF task[r].pc = "write" THEN [task[r] EXCEPT !.stale = TRUE]
                   ELSE task[r]
    BY <1>2, <2>1
  <2> QED BY <2>1, <2>2 DEF Alike, Task
<1> QED BY <1>1, <1>4, <1>5

\* The deletion of a branch only makes requests stale.
LEMMA DeleteTasks ==
    ASSUME MemberTypeOK, BranchDelete, NEW r \in Sessions
    PROVE  Alike(task'[r], task[r])
<1>1. task[r] \in Task
  BY DEF MemberTypeOK
<1>2. task'[r] = IF task[r].pc = "write" THEN [task[r] EXCEPT !.stale = TRUE]
                 ELSE task[r]
  BY DEF BranchDelete
<1> QED BY <1>1, <1>2 DEF Alike, Task

\* The last statements of a request, and what others see of them.
LEMMA LastTasks ==
    ASSUME MemberTypeOK, NEW s \in Sessions,
           WriteConflict(s) \/ Recount(s) \/ Store(s) \/ SyncFails(s)
    PROVE  /\ IF Recount(s) THEN /\ task'[s].pc = "store"
                                 /\ task'[s].counted = Cardinality(Employees)
                            ELSE task'[s].pc = "idle"
           /\ \A r \in Sessions \ {s} : task'[r] = task[r]
           /\ UNCHANGED <<member, branch, deleting>>
<1>1. task \in [Sessions -> Task] /\ task[s] \in Task
  BY DEF MemberTypeOK
<1>2. CASE Recount(s)
  BY <1>1, <1>2 DEF Recount, Task
<1>3. CASE ~Recount(s)
  BY <1>1, <1>3, NewTypes DEF WriteConflict, Store, SyncFails
<1> QED BY <1>2, <1>3

\* What a write does to the deletion of a branch.
LEMMA WriteOutdates ==
    ASSUME MemberTypeOK, NEW s \in Sessions, Write(s), deleting.branch \in Branches
    PROVE  deleting'.stale
<1> DEFINE stale == deleting.stale \/ deleting.branch # NoBranch
<1>1. deleting \in [branch: Branches \cup {NoBranch}, stale: BOOLEAN]
  BY DEF MemberTypeOK
<1>2. deleting' = [deleting EXCEPT !.stale = stale]
  BY DEF Write
<1>3. stale
  BY NullAssumption
<1> HIDE DEF stale
<1>4. deleting'.stale = stale
  BY <1>1, <1>2
<1> QED BY <1>3, <1>4

\* Of the super admin's requests, a deletion alone makes a branch deleted, and
\* no other changes the members or the requests in progress.
LEMMA BranchSteps ==
    ASSUME MemberTypeOK, SuperAdmin
    PROVE  /\ UNCHANGED <<member, count, unchecked>>
           /\ \/ /\ BranchDelete /\ deleting.branch \in Branches
                 /\ deleting'.branch \notin Branches
                 /\ \A c \in Branches \ {deleting.branch} : branch'[c] = branch[c]
              \/ /\ UNCHANGED task
                 /\ \A c \in Branches : branch'[c].state = "deleted"
                                        => branch[c].state = "deleted"
                 /\ \/ UNCHANGED deleting
                    \/ deleting'.branch \in Branches /\ ~HasMembers(deleting'.branch)
<1>1. branch \in [Branches -> [state: BranchStates, main: BOOLEAN]]
  BY DEF MemberTypeOK
<1>2. UNCHANGED <<member, count, unchecked>>
  BY DEF SuperAdmin, BranchCreate, BranchUpdate, BranchDeleteRead, BranchDelete
<1>3. ASSUME NEW b \in Branches, NEW main \in BOOLEAN, BranchCreate(b, main)
      PROVE  /\ UNCHANGED <<task, deleting>>
             /\ \A c \in Branches : branch'[c].state = "deleted"
                                    => branch[c].state = "deleted"
  BY <1>1, <1>3 DEF BranchCreate
<1>4. ASSUME NEW b \in Branches, NEW active \in BOOLEAN, BranchUpdate(b, active)
      PROVE  /\ UNCHANGED <<task, deleting>>
             /\ \A c \in Branches : branch'[c].state = "deleted"
                                    => branch[c].state = "deleted"
  <2> DEFINE state == IF active THEN "active" ELSE "inactive"
  <2>1. /\ branch' = [branch EXCEPT ![b].state = state]
        /\ UNCHANGED <<task, deleting>>
    BY <1>4 DEF BranchUpdate
  <2>2. state \in BranchStates /\ state # "deleted"
    BY DEF BranchStates
  <2> HIDE DEF state
  <2> QED BY <2>1, <2>2, BranchUpdated
<1>5. ASSUME NEW b \in Branches, BranchDeleteRead(b)
      PROVE  /\ UNCHANGED <<task, branch>>
             /\ deleting'.branch \in Branches /\ ~HasMembers(deleting'.branch)
  BY <1>5 DEF BranchDeleteRead
<1>6. ASSUME BranchDelete
      PROVE  /\ deleting.branch \in Branches /\ deleting'.branch \notin Branches
             /\ \A c \in Branches \ {deleting.branch} : branch'[c] = branch[c]
  BY <1>1, <1>6, NullAssumption DEF BranchDelete, MemberTypeOK
<1> QED BY <1>2, <1>3, <1>4, <1>5, <1>6 DEF SuperAdmin

\* What requests carry is what they have been asked.
LEMMA OrdersStep ==
    ASSUME MemberInv, Orders, [MemberNext]_memberVars PROVE Orders'
<1>1. MemberTypeOK /\ \A r \in Sessions : Carries(task[r])
  BY DEF MemberInv, Orders
<1>2. CASE UNCHANGED <<task, branch>>
  BY <1>1, <1>2 DEF Orders, Carries
<1>3. ASSUME NEW s \in Sessions, Begin(s) PROVE Orders'
  <2>1. CASE UNCHANGED <<member, branch, count, task, deleting, unchecked>>
    BY <1>2, <2>1
  <2>2. ASSUME NEW op \in {"join", "update", "remove"}, NEW u \in Users,
               NEW c \in Change, NEW sync \in BOOLEAN,
               Start(s, op, u, c, sync), Asks(op, c, sync)
        PROVE  Orders'
    <3>1. /\ task'[s].op = op /\ task'[s].change = c
          /\ \A r \in Sessions : r # s => task'[r] = task[r]
          /\ UNCHANGED branch
      BY <1>1, <2>2, Started
    <3>2. task'[s].sync <=> sync
      BY <1>1, <2>2 DEF Start, MemberTypeOK
    <3> QED BY <1>1, <2>2, <3>1, <3>2 DEF Orders, Carries, Asks
  <2> QED BY <1>1, <1>3, <2>1, <2>2, BeginStarts
<1>4. ASSUME NEW s \in Sessions, Write(s) PROVE Orders'
  <2>1. task'[s].pc # "write" /\ \A r \in Sessions \ {s} : Alike(task'[r], task[r])
    BY <1>1, <1>4, WriteTasks
  <2> QED BY <1>1, <2>1 DEF Orders, Carries, Alike
<1>5. ASSUME NEW s \in Sessions,
             WriteConflict(s) \/ Recount(s) \/ Store(s) \/ SyncFails(s)
      PROVE  Orders'
  <2>1. /\ task'[s].pc # "write" /\ UNCHANGED branch
        /\ \A r \in Sessions \ {s} : task'[r] = task[r]
    BY <1>1, <1>5, LastTasks
  <2> QED BY <1>1, <2>1 DEF Orders, Carries
<1>6. CASE SuperAdmin
  <2>1. CASE BranchDelete
    BY <1>1, <2>1, DeleteTasks DEF Orders, Carries, Alike
  <2>2. CASE ~BranchDelete
    <3>1. /\ UNCHANGED task
          /\ \A c \in Branches : branch'[c].state = "deleted"
                                 => branch[c].state = "deleted"
      BY <1>1, <1>6, <2>2, BranchSteps
    <3> QED BY <1>1, <3>1 DEF Orders, Carries
  <2> QED BY <2>1, <2>2
<1> QED BY <1>2, <1>3, <1>4, <1>5, <1>6 DEF MemberNext, Proceed, memberVars

\* The branch that the super admin is about to delete has no members, as long
\* as nobody wrote since.
Emptied ==
    deleting.branch \in Branches /\ ~deleting.stale => Assigned(deleting.branch) = {}

\* A branch that is deleted without anybody having come in between is empty.
LEMMA EmptiedStep ==
    ASSUME MemberInv, Emptied, [MemberNext]_memberVars PROVE Emptied'
<1>1. MemberTypeOK
  BY DEF MemberInv
<1>2. CASE UNCHANGED <<member, deleting>>
  BY <1>2 DEF Emptied, Assigned, IsMember
<1>3. ASSUME NEW s \in Sessions, Begin(s) PROVE UNCHANGED <<member, deleting>>
  BY <1>1, <1>3, BeginStarts DEF Start
<1>4. ASSUME NEW s \in Sessions, Write(s) PROVE Emptied'
  <2>1. deleting'.branch = deleting.branch
    BY <1>1, <1>4 DEF Write, MemberTypeOK
  <2> QED BY <1>1, <1>4, <2>1, WriteOutdates DEF Emptied
<1>5. ASSUME NEW s \in Sessions,
             WriteConflict(s) \/ Recount(s) \/ Store(s) \/ SyncFails(s)
      PROVE  UNCHANGED <<member, deleting>>
  BY <1>1, <1>5, LastTasks
<1>6. CASE SuperAdmin
  <2>1. UNCHANGED member /\ \/ deleting'.branch \notin Branches
                            \/ UNCHANGED deleting
                            \/ ~HasMembers(deleting'.branch)
    BY <1>1, <1>6, BranchSteps
  <2> QED BY <2>1 DEF Emptied, HasMembers, Assigned, IsMember
<1> QED BY <1>2, <1>3, <1>4, <1>5, <1>6 DEF MemberNext, Proceed, memberVars

\* What both theorems rest on.
OrderInv == MemberInv /\ Orders /\ Emptied
\* Both hold always.
LEMMA OrderInvariant == MemberSpec => []OrderInv
<1>1. MemberInit => OrderInv
  <2> SUFFICES ASSUME MemberInit PROVE OrderInv
    OBVIOUS
  <2>1. \A s \in Sessions : task[s].pc # "write"
    BY NewTypes DEF MemberInit
  <2>2. deleting.branch \notin Branches
    BY NullAssumption DEF MemberInit
  <2> QED BY <2>1, <2>2, Start0 DEF OrderInv, Orders, Carries, Emptied
<1>2. OrderInv /\ [MemberNext]_memberVars => OrderInv'
  BY InvStep, OrdersStep, EmptiedStep DEF OrderInv
<1> QED BY <1>1, <1>2, PTL DEF MemberSpec

\* An active member gets onto a deleted branch only by being switched on again
\* there, or when a deletion or another write came between what a request read
\* and what it wrote, for any number of members, branches and sessions.
THEOREM StrandedByReturn == MemberSpec => StrandedOnlyByReturn
<1> DEFINE Excused(u) ==
        \/ deleting.stale
        \/ \E s \in Sessions :
            /\ task[s].pc = "write" /\ task[s].user = u
            /\ \/ task[s].stale
               \/ task[s].change.active = TRUE /\ task[s].change.branch = Keep
<1>1. ASSUME OrderInv, [MemberNext]_memberVars, NEW u \in Users,
             Stranded(u)', ~Stranded(u)
      PROVE  Excused(u)
  <2>1. MemberTypeOK /\ Emptied /\ \A s \in Sessions : Carries(task[s])
    BY <1>1 DEF OrderInv, MemberInv, Orders
  <2>2. ~UNCHANGED <<member, branch>>
    BY <1>1 DEF Stranded, IsMember
  <2>3. ASSUME NEW s \in Sessions, Write(s) PROVE Excused(u)
    <3> DEFINE v == task[s].user
               c == task[s].change
               old == IF IsMember(v) THEN member[v] ELSE NewRow
    <3>1. /\ v \in Users /\ c \in Change /\ UNCHANGED branch
          /\ member' = [member EXCEPT ![v] = Applied(old, c)]
          /\ task[s].pc = "write"
      BY <2>1, <2>3 DEF Write, Written, MemberTypeOK, Task
    <3>2. u = v
      BY <1>1, <2>1, <3>1 DEF MemberTypeOK, Stranded, IsMember
    <3>3. /\ member'[u].active = Given(c.active, old.active)
          /\ member'[u].branch = Given(c.branch, old.branch)
      BY <2>1, <3>1, <3>2 DEF MemberTypeOK, Applied
    <3>4. /\ member'[u].active /\ member'[u].branch \in Branches
          /\ branch[member'[u].branch].state = "deleted"
      BY <1>1, <3>1 DEF Stranded
    <3>5. CASE task[s].stale
      BY <3>1, <3>2, <3>5
    <3>6. CASE ~task[s].stale
      <4>1. c.branch = Keep
        BY <2>1, <3>1, <3>3, <3>4, <3>6 DEF Carries, Given
      <4>2. old.branch \in Branches /\ branch[old.branch].state = "deleted"
        BY <3>3, <3>4, <4>1 DEF Given
      <4>3. IsMember(u) /\ old = member[u]
        BY <3>2, <4>2, NullAssumption DEF NewRow
      <4>4. ~member[u].active
        BY <1>1, <4>2, <4>3 DEF Stranded
      <4>5. c.active \in BOOLEAN \cup {Keep} /\ member[u].active \in BOOLEAN
        BY <2>1, <3>1, <4>3, Known DEF Change
      <4>6. c.active = TRUE
        BY <3>3, <3>4, <4>3, <4>4, <4>5 DEF Given
      <4> QED BY <3>1, <3>2, <4>1, <4>6
    <3> QED BY <3>5, <3>6
  <2>4. ASSUME NEW s \in Sessions, Begin(s) PROVE UNCHANGED <<member, branch>>
    BY <2>1, <2>4, BeginStarts DEF Start
  <2>5. ASSUME NEW s \in Sessions,
               WriteConflict(s) \/ Recount(s) \/ Store(s) \/ SyncFails(s)
        PROVE  UNCHANGED <<member, branch>>
    BY <2>1, <2>5, LastTasks
  <2>6. CASE SuperAdmin
    <3> DEFINE b == member[u].branch
    <3>1. UNCHANGED member
      BY <2>1, <2>6, BranchSteps
    <3>2. /\ IsMember(u) /\ member[u].active /\ b \in Branches
          /\ branch'[b].state = "deleted" /\ branch[b].state # "deleted"
      BY <1>1, <3>1 DEF Stranded, IsMember
    <3>3. /\ b = deleting.branch
      BY <2>1, <2>6, <3>2, BranchSteps
    <3>4. u \in Assigned(deleting.branch)
      BY <3>2, <3>3 DEF Assigned
    <3> QED BY <2>1, <3>2, <3>3, <3>4 DEF Emptied
  <2> QED BY <1>1, <2>2, <2>3, <2>4, <2>5, <2>6 DEF MemberNext, Proceed, memberVars
<1>2. OrderInv /\ [MemberNext]_memberVars
        => [\A u \in Users : Stranded(u)' /\ ~Stranded(u) => Excused(u)]_memberVars
  BY <1>1
<1> QED BY <1>2, OrderInvariant, PTL DEF MemberSpec, StrandedOnlyByReturn

-----------------------------------------------------------------------------
(* How far the cap is overshot *)

Joining == {s \in Sessions : task[s].pc = "write" /\ task[s].op = "join"}
Waiting == {s \in Sessions : task[s].pc = "idle"
                              \/ (task[s].pc = "write" /\ task[s].op # "join")}
\* The sessions whose request may yet add an employee, unless the count is
\* stored first.
Adding == IF SeatFree THEN Joining \cup Waiting ELSE Joining
\* Those that still hold an old recount, which would open the check again; what
\* h of them let in among n sessions, doubled, when their counts come one after
\* the other: 2n + 2(n - 1) + ... + 2(n - h + 1).
Holding == {s \in Sessions : task[s].pc = "store" /\ task[s].counted < EmployeeCap}
LetIn(n, h) == h * (2 * n - h + 1)
\* Once there are as many employees as the plan allows, those who may still
\* come in are counted: e employees, u of them unchecked, a requests that add
\* one, and h old recounts.
Fits(n, e, u, a, h) ==
    e >= EmployeeCap =>
        2 * (e - EmployeeCap - u + a) + LetIn(n, h) <= (n - 1) * (n + 2)
SeatInv == Fits(Cardinality(Sessions), Cardinality(Employees), unchecked,
                Cardinality(Adding), Cardinality(Holding))

\* Each old recount lets in fewer than the one before.
LEMMA LetInSteps ==
    ASSUME NEW n \in Nat, NEW h \in 0..n
    PROVE  /\ LetIn(n, h) \in Nat
           /\ h > 0 => LetIn(n, h) = LetIn(n, h - 1) + 2 * (n - h + 1)
           /\ \A g \in 0..h : LetIn(n, g) <= LetIn(n, h)
           /\ LetIn(n, 0) = 0
           /\ h < n => 2 * (n - 1 - h) + LetIn(n, h) <= (n - 1) * (n + 2)
<1>1. LetIn(n, h) = h * (2 * n - h + 1) /\ LetIn(n, 0) = 0
  BY DEF LetIn
<1>2. 2 * n - h + 1 \in Nat
  OBVIOUS
<1>3. LetIn(n, h) \in Nat
  BY <1>1, <1>2
<1>4. h > 0 => LetIn(n, h) = LetIn(n, h - 1) + 2 * (n - h + 1)
  BY DEF LetIn
<1>5. ASSUME NEW g \in 0..h PROVE LetIn(n, g) <= LetIn(n, h)
  <2>1. PICK d \in Nat : h = g + d
    <3>1. h - g \in Nat /\ h = g + (h - g)
      OBVIOUS
    <3> QED BY <3>1
  <2>2. PICK e \in Nat : e = 2 * n - h - g + 1
    OBVIOUS
  <2>3. d * e \in Nat
    BY <2>1, <2>2
  <2>4. LetIn(n, h) - LetIn(n, g) = d * e
    BY <2>1, <2>2 DEF LetIn
  <2> QED BY <2>3, <2>4 DEF LetIn
<1>6. ASSUME h < n PROVE 2 * (n - 1 - h) + LetIn(n, h) <= (n - 1) * (n + 2)
  <2>1. PICK d \in Nat : n = h + 1 + d
    <3>1. n - h - 1 \in Nat /\ n = h + 1 + (n - h - 1)
      BY <1>6
    <3> QED BY <3>1
  <2>2. (n - 1) * (n + 2) - (2 * (n - 1 - h) + LetIn(n, h)) = (d + 1) * d
    BY <2>1 DEF LetIn
  <2>3. (d + 1) * d \in Nat
    BY <2>1
  <2> QED BY <1>3, <2>2, <2>3
<1> QED BY <1>1, <1>3, <1>4, <1>5, <1>6

\* Sessions in one of two sets.
LEMMA PartSizes ==
    ASSUME NEW A \in SUBSET Sessions, NEW H \in SUBSET Sessions, A \cap H = {}
    PROVE  /\ Cardinality(Sessions) \in Nat \ {0}
           /\ IsFiniteSet(A) /\ IsFiniteSet(H)
           /\ Cardinality(A) \in Nat /\ Cardinality(H) \in Nat
           /\ Cardinality(A) + Cardinality(H) <= Cardinality(Sessions)
           /\ \A s \in Sessions : s \notin A \cup H =>
                 Cardinality(A) + Cardinality(H) < Cardinality(Sessions)
<1>1. IsFiniteSet(Sessions) /\ Sessions # {}
  BY FounderAssumption
<1>2. Cardinality(Sessions) \in Nat \ {0}
  BY <1>1, FS_CardinalityType, FS_EmptySet
<1>3. /\ IsFiniteSet(A) /\ IsFiniteSet(H)
      /\ Cardinality(A) \in Nat /\ Cardinality(H) \in Nat
  BY <1>1, FS_Subset, FS_CardinalityType
<1>4. /\ IsFiniteSet(A \cup H)
      /\ Cardinality(A \cup H) = Cardinality(A) + Cardinality(H)
  <2>1. /\ IsFiniteSet(A \cup H)
        /\ Cardinality(A \cup H)
             = Cardinality(A) + Cardinality(H) - Cardinality(A \cap H)
    BY <1>3, FS_Union
  <2>2. Cardinality(A \cap H) = 0
    BY FS_EmptySet
  <2> QED BY <1>3, <2>1, <2>2
<1>5. Cardinality(A \cup H) <= Cardinality(Sessions)
  <2>1. A \cup H \subseteq Sessions
    OBVIOUS
  <2> QED BY <1>1, <2>1, FS_Subset
<1>6. ASSUME NEW s \in Sessions, s \notin A \cup H
      PROVE  Cardinality(A \cup H) < Cardinality(Sessions)
  <2>1. A \cup H \subseteq Sessions \ {s}
    BY <1>6
  <2>2. /\ IsFiniteSet(Sessions \ {s})
        /\ Cardinality(Sessions \ {s}) = Cardinality(Sessions) - 1
    BY <1>1, FS_RemoveElement
  <2>3. Cardinality(A \cup H) <= Cardinality(Sessions \ {s})
    BY <2>1, <2>2, FS_Subset
  <2> QED BY <1>2, <1>3, <1>4, <2>2, <2>3
<1> QED BY <1>2, <1>3, <1>4, <1>5, <1>6

\* A session may add an employee or holds an old recount, never both.
LEMMA Parts ==
    /\ Adding \in SUBSET Sessions /\ Holding \in SUBSET Sessions
    /\ Adding \cap Holding = {}
    /\ Adding' \in SUBSET Sessions /\ Holding' \in SUBSET Sessions
    /\ Adding' \cap Holding' = {}
<1>1. /\ Adding \in SUBSET Sessions /\ Holding \in SUBSET Sessions
      /\ Adding \cap Holding = {}
  BY DEF Adding, Holding, Joining, Waiting
<1>2. /\ Adding' \in SUBSET Sessions /\ Holding' \in SUBSET Sessions
      /\ Adding' \cap Holding' = {}
  BY DEF Adding, Holding, Joining, Waiting
<1> QED BY <1>1, <1>2

\* The three ways in which a step keeps the bound.
LEMMA FitsAfter ==
    ASSUME NEW n \in Nat \ {0},
           NEW e \in Nat, NEW u \in Nat, NEW a \in Nat, NEW h \in 0..n,
           NEW f \in Nat, NEW v \in Nat, NEW b \in Nat, NEW g \in 0..n,
           Fits(n, e, u, a, h), b + g <= n,
           \* nobody comes in who was not counted
           \/ f <= e /\ f + b + u <= e + a + v /\ g <= h
           \/ f = e + 1 /\ f + b + u <= e + a + v /\ g <= h
                        /\ (b + g < n \/ (v > 0 /\ g < n))
           \* an old recount opens the check
           \/ f = e /\ v = u /\ g = h - 1
    PROVE  Fits(n, f, v, b, g)
<1> SUFFICES ASSUME f >= EmployeeCap
             PROVE  2 * (f - EmployeeCap - v + b) + LetIn(n, g) <= (n - 1) * (n + 2)
  BY DEF Fits
<1>1. EmployeeCap \in Nat
  BY BoundsAssumption
<1>2. /\ LetIn(n, h) \in Nat /\ LetIn(n, g) \in Nat
      /\ h > 0 => LetIn(n, h) = LetIn(n, h - 1) + 2 * (n - h + 1)
      /\ g <= h => LetIn(n, g) <= LetIn(n, h)
      /\ g < n => 2 * (n - 1 - g) + LetIn(n, g) <= (n - 1) * (n + 2)
  <2>1. n \in Nat
    OBVIOUS
  <2>2. /\ LetIn(n, h) \in Nat
        /\ h > 0 => LetIn(n, h) = LetIn(n, h - 1) + 2 * (n - h + 1)
        /\ \A i \in 0..h : LetIn(n, i) <= LetIn(n, h)
    BY <2>1, LetInSteps
  <2>3. /\ LetIn(n, g) \in Nat
        /\ g < n => 2 * (n - 1 - g) + LetIn(n, g) <= (n - 1) * (n + 2)
    BY <2>1, LetInSteps
  <2>4. g <= h => g \in 0..h
    OBVIOUS
  <2> QED BY <2>2, <2>3, <2>4
<1>3. PICK k \in Int : k = (n - 1) * (n + 2)
  OBVIOUS
<1>4. PICK x \in Nat : x = LetIn(n, h)
  BY <1>2
<1>5. PICK z \in Nat : z = LetIn(n, g)
  BY <1>2
<1>6. e >= EmployeeCap => 2 * (e - EmployeeCap - u + a) + x <= k
  BY <1>3, <1>4 DEF Fits
<1>7. 2 * (f - EmployeeCap - v + b) + z <= k
  <2>1. CASE e >= EmployeeCap /\ f + b + u <= e + a + v /\ g <= h
    <3>1. z <= x
      BY <1>2, <1>4, <1>5, <2>1
    <3> QED BY <1>1, <1>6, <2>1, <3>1
  <2>2. CASE e < EmployeeCap /\ f = e + 1 /\ (b + g < n \/ (v > 0 /\ g < n))
    <3>1. 2 * (n - 1 - g) + z <= k
      BY <1>2, <1>3, <1>5, <2>2
    <3>2. f = EmployeeCap
      BY <1>1, <2>2
    <3> QED BY <2>2, <3>1, <3>2
  <2>3. CASE f = e /\ v = u /\ g = h - 1
    <3>1. x = z + 2 * (n - h + 1)
      BY <1>2, <1>4, <1>5, <2>3
    <3> QED BY <1>1, <1>6, <2>3, <3>1
  <2> QED BY <1>1, <2>1, <2>2, <2>3
<1> QED BY <1>3, <1>5, <1>7

\* The same for the sets of a step.
LEMMA SeatStep ==
    ASSUME MemberTypeOK, MemberTypeOK', SeatInv,
           LET e == Cardinality(Employees)
               f == Cardinality(Employees')
               a == Cardinality(Adding)
               b == Cardinality(Adding')
               g == Cardinality(Holding')
               h == Cardinality(Holding)
           IN  \/ f < EmployeeCap
               \/ f <= e /\ f + b + unchecked <= e + a + unchecked' /\ g <= h
               \/ /\ f = e + 1 /\ f + b + unchecked <= e + a + unchecked' /\ g <= h
                  /\ \/ b + g < Cardinality(Sessions)
                     \/ unchecked' > 0 /\ g < Cardinality(Sessions)
               \/ f = e /\ unchecked' = unchecked /\ g = h - 1
    PROVE  SeatInv'
<1>1. PICK n : n = Cardinality(Sessions)
  OBVIOUS
<1>2. PICK e, u, a, h :
          /\ e = Cardinality(Employees) /\ u = unchecked
          /\ a = Cardinality(Adding) /\ h = Cardinality(Holding)
  OBVIOUS
<1>3. PICK f, v, b, g :
          /\ f = Cardinality(Employees') /\ v = unchecked'
          /\ b = Cardinality(Adding') /\ g = Cardinality(Holding')
  OBVIOUS
<1>4. /\ n \in Nat \ {0} /\ a \in Nat /\ h \in Nat /\ a + h <= n
  BY <1>1, <1>2, Parts, PartSizes
<1>5. b \in Nat /\ g \in Nat /\ b + g <= n
  BY <1>1, <1>3, Parts, PartSizes
<1>6. e \in Nat /\ u \in Nat
  BY <1>2, EmployeesCounted DEF MemberTypeOK
<1>7. f \in Nat /\ v \in Nat
  <2>1. Employees' \subseteq Users
    BY DEF Employees
  <2>2. f \in Nat
    BY <1>3, <2>1, FounderAssumption, FS_Subset, FS_CardinalityType
  <2> QED BY <1>3, <2>2 DEF MemberTypeOK
<1>8. h \in 0..n /\ g \in 0..n
  BY <1>4, <1>5
<1>9. Fits(n, e, u, a, h)
  BY <1>1, <1>2 DEF SeatInv
<1>10. \/ f < EmployeeCap
       \/ f <= e /\ f + b + u <= e + a + v /\ g <= h
       \/ f = e + 1 /\ f + b + u <= e + a + v /\ g <= h
                    /\ (b + g < n \/ (v > 0 /\ g < n))
       \/ f = e /\ v = u /\ g = h - 1
  BY <1>1, <1>2, <1>3
<1>11. Fits(n, f, v, b, g)
  <2>1. CASE f < EmployeeCap
    BY <1>7, <2>1, BoundsAssumption DEF Fits
  <2>2. CASE ~(f < EmployeeCap)
    BY <1>4, <1>5, <1>6, <1>7, <1>8, <1>9, <1>10, <2>2, FitsAfter
  <2> QED BY <2>1, <2>2
<1> QED BY <1>1, <1>3, <1>11 DEF SeatInv

\* Sets that lose or gain an element.
LEMMA Smaller ==
    ASSUME NEW S, NEW T, IsFiniteSet(S), NEW s
    PROVE  /\ Cardinality(S) \in Nat
           /\ T \subseteq S => Cardinality(T) \in Nat /\ Cardinality(T) <= Cardinality(S)
           /\ T \subseteq S \cup {s} =>
                 Cardinality(T) \in Nat /\ Cardinality(T) <= Cardinality(S) + 1
           /\ T \subseteq S \ {s} /\ s \in S =>
                 Cardinality(T) \in Nat /\ Cardinality(T) <= Cardinality(S) - 1
<1>1. Cardinality(S) \in Nat
  BY FS_CardinalityType
<1>2. /\ IsFiniteSet(S \cup {s}) /\ Cardinality(S \cup {s}) \in Nat
      /\ Cardinality(S \cup {s}) <= Cardinality(S) + 1
  BY <1>1, FS_AddElement, FS_CardinalityType
<1>3. /\ IsFiniteSet(S \ {s}) /\ Cardinality(S \ {s}) \in Nat
      /\ s \in S => Cardinality(S \ {s}) = Cardinality(S) - 1
  BY <1>1, FS_RemoveElement, FS_CardinalityType
<1>4. T \subseteq S => Cardinality(T) \in Nat /\ Cardinality(T) <= Cardinality(S)
  BY FS_Subset, FS_CardinalityType
<1>5. T \subseteq S \cup {s} =>
        Cardinality(T) \in Nat /\ Cardinality(T) <= Cardinality(S \cup {s})
  BY <1>2, FS_Subset, FS_CardinalityType
<1>6. T \subseteq S \ {s} =>
        Cardinality(T) \in Nat /\ Cardinality(T) <= Cardinality(S \ {s})
  BY <1>3, FS_Subset, FS_CardinalityType
<1> QED BY <1>1, <1>2, <1>3, <1>4, <1>5, <1>6

\* A step that changes no member and no history, and adds nothing to either set.
LEMMA QuietSeats ==
    ASSUME MemberTypeOK, MemberTypeOK', SeatInv, UNCHANGED <<member, unchecked>>,
           Cardinality(Employees) >= EmployeeCap =>
              Adding' \subseteq Adding /\ Holding' \subseteq Holding
    PROVE  SeatInv'
<1>1. Employees' = Employees
  BY DEF Employees, Present, IsMember
<1>2. Cardinality(Employees') = Cardinality(Employees)
  BY <1>1, Zenon
<1>3. Cardinality(Employees) \in Nat /\ unchecked \in Nat /\ EmployeeCap \in Nat
  BY EmployeesCounted, BoundsAssumption DEF MemberTypeOK
<1>4. CASE Cardinality(Employees) < EmployeeCap
  BY <1>2, <1>4, SeatStep
<1>5. CASE Cardinality(Employees) >= EmployeeCap
  <2>1. IsFiniteSet(Adding) /\ IsFiniteSet(Holding)
    BY Parts, PartSizes
  <2>2. /\ Cardinality(Adding') \in Nat /\ Cardinality(Adding') <= Cardinality(Adding)
        /\ Cardinality(Adding) \in Nat
    BY <1>5, <2>1, Smaller
  <2>3. Cardinality(Holding') <= Cardinality(Holding)
    BY <1>5, <2>1, Smaller
  <2> QED BY <1>2, <1>3, <2>2, <2>3, SeatStep
<1> QED BY <1>3, <1>4, <1>5

\* Where one session stands in the sets that are counted.
LEMMA Places ==
    ASSUME NEW r \in Sessions
    PROVE  /\ r \in Joining <=> task[r].pc = "write" /\ task[r].op = "join"
           /\ r \in Adding <=>
                \/ task[r].pc = "write" /\ task[r].op = "join"
                \/ SeatFree /\ (task[r].pc = "idle" \/ task[r].pc = "write")
           /\ r \in Holding <=> task[r].pc = "store" /\ task[r].counted < EmployeeCap
           /\ r \in Adding' <=>
                \/ task'[r].pc = "write" /\ task'[r].op = "join"
                \/ SeatFree' /\ (task'[r].pc = "idle" \/ task'[r].pc = "write")
           /\ r \in Holding' <=>
                task'[r].pc = "store" /\ task'[r].counted < EmployeeCap
<1>1. r \in Joining <=> task[r].pc = "write" /\ task[r].op = "join"
  BY DEF Joining
<1>2. /\ r \in Adding <=>
           \/ task[r].pc = "write" /\ task[r].op = "join"
           \/ SeatFree /\ (task[r].pc = "idle" \/ task[r].pc = "write")
      /\ r \in Holding <=> task[r].pc = "store" /\ task[r].counted < EmployeeCap
  BY DEF Adding, Holding, Joining, Waiting
<1>3. /\ r \in Adding' <=>
           \/ task'[r].pc = "write" /\ task'[r].op = "join"
           \/ SeatFree' /\ (task'[r].pc = "idle" \/ task'[r].pc = "write")
      /\ r \in Holding' <=>
           task'[r].pc = "store" /\ task'[r].counted < EmployeeCap
  BY DEF Adding, Holding, Joining, Waiting
<1> QED BY <1>1, <1>2, <1>3

\* Sessions whose requests did not move.
LEMMA Still ==
    ASSUME NEW r \in Sessions, Alike(task'[r], task[r]), UNCHANGED count
    PROVE  (r \in Adding' => r \in Adding) /\ (r \in Holding' => r \in Holding)
<1>1. SeatFree' <=> SeatFree
  BY DEF SeatFree
<1> QED BY <1>1, Places DEF Alike

LEMMA Same ==
    ASSUME NEW r \in Sessions, task'[r] = task[r], UNCHANGED count
    PROVE  (r \in Adding' => r \in Adding) /\ (r \in Holding' => r \in Holding)
<1>1. SeatFree' <=> SeatFree
  BY DEF SeatFree
<1> QED BY <1>1, Places

LEMMA BeginSeats ==
    ASSUME MemberTypeOK, MemberTypeOK', SeatInv, NEW s \in Sessions, Begin(s)
    PROVE  SeatInv'
<1>1. CASE UNCHANGED <<member, branch, count, task, deleting, unchecked>>
  <2>1. Adding' \subseteq Adding /\ Holding' \subseteq Holding
    BY <1>1, Same DEF Adding, Holding, Joining, Waiting
  <2> QED BY <1>1, <2>1, QuietSeats
<1>2. ASSUME NEW op \in {"join", "update", "remove"}, NEW u \in Users,
             NEW c \in Change, NEW sync \in BOOLEAN,
             Start(s, op, u, c, sync), Asks(op, c, sync)
      PROVE  SeatInv'
  <2>1. /\ task'[s].pc = "write" /\ task'[s].op = op /\ task[s].pc = "idle"
        /\ \A r \in Sessions : r # s => task'[r] = task[r]
        /\ UNCHANGED <<member, count, unchecked>>
    BY <1>2, Started DEF Start
  <2>2. SeatFree' <=> SeatFree
    BY <2>1 DEF SeatFree
  <2>3. (s \in Adding' => s \in Adding) /\ s \notin Holding'
    BY <1>2, <2>1, <2>2, Places DEF Asks
  <2>4. \A r \in Sessions : r # s =>
          (r \in Adding' => r \in Adding) /\ (r \in Holding' => r \in Holding)
    BY <2>1, Same
  <2>5. Adding' \subseteq Adding /\ Holding' \subseteq Holding
    BY <2>3, <2>4, Parts
  <2> QED BY <2>1, <2>5, QuietSeats
<1> QED BY <1>1, <1>2, BeginStarts

LEMMA SuperAdminSeats ==
    ASSUME MemberTypeOK, MemberTypeOK', SeatInv, SuperAdmin
    PROVE  SeatInv'
<1>1. UNCHANGED <<member, count, unchecked>>
  BY BranchSteps
<1>2. \A r \in Sessions :
        (r \in Adding' => r \in Adding) /\ (r \in Holding' => r \in Holding)
  <2>1. CASE BranchDelete
    BY <1>1, <2>1, DeleteTasks, Still
  <2>2. CASE UNCHANGED task
    BY <1>1, <2>2, Same
  <2> QED BY <2>1, <2>2, BranchSteps
<1>3. Adding' \subseteq Adding /\ Holding' \subseteq Holding
  BY <1>2, Parts
<1> QED BY <1>1, <1>3, QuietSeats

LEMMA LastSeats ==
    ASSUME MemberTypeOK, MemberTypeOK', SeatInv, NEW s \in Sessions,
           WriteConflict(s) \/ Recount(s) \/ Store(s) \/ SyncFails(s)
    PROVE  SeatInv'
<1>1. /\ UNCHANGED member
      /\ \A r \in Sessions : r # s => task'[r] = task[r]
  BY LastTasks
<1>2. task[s] \in Task /\ EmployeeCap \in Nat
  BY BoundsAssumption DEF MemberTypeOK
<1>3. Cardinality(Employees') = Cardinality(Employees)
  <2>1. Employees' = Employees
    BY <1>1 DEF Employees, Present, IsMember
  <2> QED BY <2>1, Zenon
<1>4. /\ Cardinality(Employees) \in Nat /\ unchecked \in Nat
      /\ IsFiniteSet(Adding) /\ IsFiniteSet(Holding)
      /\ Cardinality(Adding) \in Nat /\ Cardinality(Holding) \in Nat
  BY EmployeesCounted, Parts, PartSizes DEF MemberTypeOK
<1>5. CASE WriteConflict(s)
  <2>1. task[s].pc = "write" /\ task'[s].pc = "idle" /\ UNCHANGED <<count, unchecked>>
    BY <1>5, LastTasks DEF WriteConflict, Recount
  <2>2. SeatFree' <=> SeatFree
    BY <2>1 DEF SeatFree
  <2>3. (s \in Adding' => s \in Adding) /\ s \notin Holding'
    BY <2>1, <2>2, Places
  <2>4. \A r \in Sessions : r # s =>
          (r \in Adding' => r \in Adding) /\ (r \in Holding' => r \in Holding)
    BY <1>1, <2>1, Same
  <2>5. Adding' \subseteq Adding /\ Holding' \subseteq Holding
    BY <2>3, <2>4, Parts
  <2> QED BY <1>1, <2>1, <2>5, QuietSeats
<1>6. CASE Recount(s)
  <2>1. /\ task'[s].pc = "store" /\ task'[s].counted = Cardinality(Employees)
        /\ UNCHANGED <<count, unchecked>>
    BY <1>6, LastTasks DEF Recount
  <2>2. s \notin Adding'
    BY <2>1, Places
  <2>3. Cardinality(Employees) >= EmployeeCap => s \notin Holding'
    BY <1>2, <1>4, <2>1, Places
  <2>4. \A r \in Sessions : r # s =>
          (r \in Adding' => r \in Adding) /\ (r \in Holding' => r \in Holding)
    BY <1>1, <2>1, Same
  <2>5. Cardinality(Employees) >= EmployeeCap =>
          Adding' \subseteq Adding /\ Holding' \subseteq Holding
    BY <2>2, <2>3, <2>4, Parts
  <2> QED BY <1>1, <2>1, <2>5, QuietSeats
<1>7. ASSUME Store(s) PROVE SeatInv'
  <2>1. /\ task[s].pc = "store" /\ task'[s].pc = "idle"
        /\ count' = task[s].counted /\ UNCHANGED unchecked
    BY <1>7, LastTasks DEF Store, Recount
  <2>2. \A r \in Sessions : r # s => (r \in Holding' <=> r \in Holding)
    BY <1>1, Places
  <2>3. s \notin Holding'
    BY <2>1, Places
  <2>4. CASE task[s].counted < EmployeeCap
    <3>1. s \in Holding
      BY <2>1, <2>4, Places
    <3>2. Holding' = Holding \ {s}
      BY <2>2, <2>3, Parts
    <3>3. Cardinality(Holding \ {s}) = Cardinality(Holding) - 1
      BY <1>4, <3>1, FS_RemoveElement
    <3>4. Cardinality(Holding') = Cardinality(Holding \ {s})
      BY <3>2, Zenon
    <3> QED BY <1>3, <2>1, <3>3, <3>4, SeatStep
  <2>5. CASE ~(task[s].counted < EmployeeCap)
    <3>1. ~SeatFree'
      BY <2>1, <2>5 DEF SeatFree
    <3>2. \A r \in Sessions : r \in Adding' => r \in Adding
      <4>1. s \notin Adding'
        BY <2>1, <3>1, Places
      <4>2. \A r \in Sessions : r # s => (r \in Adding' => r \in Adding)
        BY <1>1, <3>1, Places
      <4> QED BY <4>1, <4>2
    <3>3. Adding' \subseteq Adding /\ Holding' \subseteq Holding
      BY <2>2, <2>3, <3>2, Parts
    <3> QED BY <1>1, <2>1, <3>3, QuietSeats
  <2> QED BY <2>4, <2>5
<1>8. ASSUME SyncFails(s) PROVE SeatInv'
  <2>1. /\ task'[s].pc = "idle" /\ UNCHANGED count /\ unchecked' = unchecked + 1
    <3>1. UNCHANGED count /\ unchecked' = unchecked + 1
      BY <1>8 DEF SyncFails
    <3>2. ~Recount(s)
      BY <1>4, <3>1 DEF Recount
    <3> QED BY <1>8, <3>1, <3>2, LastTasks
  <2>2. s \notin Holding'
    BY <2>1, Places
  <2>3. \A r \in Sessions : r # s =>
          (r \in Adding' => r \in Adding) /\ (r \in Holding' => r \in Holding)
    BY <1>1, <2>1, Same
  <2>4. Adding' \subseteq Adding \cup {s} /\ Holding' \subseteq Holding
    BY <2>2, <2>3, Parts
  <2>5. Cardinality(Adding') \in Nat /\ Cardinality(Adding') <= Cardinality(Adding) + 1
    BY <1>4, <2>4, Smaller
  <2>6. Cardinality(Holding') <= Cardinality(Holding)
    BY <1>4, <2>4, Smaller
  <2> QED BY <1>3, <1>4, <2>1, <2>5, <2>6, SeatStep
<1> QED BY <1>5, <1>6, <1>7, <1>8

\* Whom a write can make an employee.
LEMMA Hired ==
    ASSUME MemberTypeOK, MemberTypeOK', NEW s \in Sessions, Write(s), Carries(task[s])
    PROVE  /\ Employees' \subseteq Employees \cup {task[s].user}
           /\ task[s].op = "remove" => Employees' \subseteq Employees
           /\ task[s].op = "update" =>
                \/ Employees' \subseteq Employees /\ unchecked' = unchecked
                \/ unchecked' = unchecked + 1
           /\ task[s].op = "join" => unchecked' = unchecked
           /\ task[s].op = "remove" => unchecked' = unchecked
<1> DEFINE u == task[s].user
           c == task[s].change
           old == IF IsMember(u) THEN member[u] ELSE NewRow
           seated == member'[u].role = "EMPLOYEE" /\ member'[u].active
                       /\ ~member'[u].left
<1>1. /\ u \in Users /\ c \in Change /\ task[s].pc = "write"
      /\ member' = [member EXCEPT ![u] = Applied(old, c)]
  BY DEF Write, Written, MemberTypeOK, Task
<1>2. \A v \in Users : v # u => (v \in Employees' <=> v \in Employees)
  <2>1. \A v \in Users : v # u => member'[v] = member[v]
    BY <1>1 DEF MemberTypeOK
  <2> QED BY <2>1 DEF Employees, Present, IsMember
<1>3. Employees' \subseteq Users /\ Employees \subseteq Users
  BY DEF Employees
<1>4. Employees' \subseteq Employees \cup {u}
  BY <1>2, <1>3
<1>5. u \in Employees' => seated
  BY DEF Employees, Present
<1>6. unchecked' = IF task[s].op = "update" /\ seated /\ u \notin Employees
                   THEN unchecked + 1 ELSE unchecked
  BY DEF Write
<1>7. ASSUME task[s].op = "remove" PROVE u \notin Employees'
  <2>1. c.active = FALSE /\ c.left = TRUE
    BY <1>1, <1>7 DEF Carries
  <2>2. member'[u] = Applied(old, c)
    BY <1>1 DEF MemberTypeOK
  <2>3. /\ member'[u].active = Given(c.active, old.active)
        /\ member'[u].left = Given(c.left, old.left)
    BY <2>2 DEF Applied
  <2>4. member'[u].active = FALSE \/ member'[u].left = TRUE
    BY <2>1, <2>3 DEF Given
  <2> QED BY <2>4 DEF Employees, Present
<1>8. task[s].op = "remove" => Employees' \subseteq Employees
  BY <1>4, <1>7
<1>9. ~seated \/ u \in Employees => Employees' \subseteq Employees
  BY <1>4, <1>5
<1> HIDE DEF seated
<1> QED BY <1>4, <1>6, <1>8, <1>9

LEMMA WriteSeats ==
    ASSUME MemberTypeOK, MemberTypeOK', SeatInv, NEW s \in Sessions, Write(s),
           Carries(task[s])
    PROVE  SeatInv'
<1>1. /\ task[s].pc = "write" /\ UNCHANGED count
      /\ task[s].op \in {"join", "update", "remove"}
      /\ task[s].op = "join" => task[s].sync
      /\ task'[s].pc = IF task[s].sync THEN "recount" ELSE "idle"
      /\ \A r \in Sessions : r # s => Alike(task'[r], task[r])
  BY WriteTasks DEF Write, Carries
<1>2. SeatFree' <=> SeatFree
  BY <1>1 DEF SeatFree
<1>3. /\ s \notin Holding'
      /\ s \in Adding' => s \in Adding /\ task[s].op # "join"
      /\ task[s].op = "join" => s \in Adding
  BY <1>1, <1>2, Places
<1>4. \A r \in Sessions : r # s =>
        (r \in Adding' => r \in Adding) /\ (r \in Holding' => r \in Holding)
  BY <1>1, Still
<1>5. /\ Adding' \subseteq Adding /\ Holding' \subseteq Holding
      /\ task[s].op = "join" => Adding' \subseteq Adding \ {s}
  BY <1>3, <1>4, Parts
<1>6. PICK e : e = Cardinality(Employees)
  OBVIOUS
<1>7. PICK f : f = Cardinality(Employees')
  OBVIOUS
<1>8. PICK a, b, g, h, n :
        /\ a = Cardinality(Adding) /\ b = Cardinality(Adding')
        /\ h = Cardinality(Holding) /\ g = Cardinality(Holding')
        /\ n = Cardinality(Sessions)
  OBVIOUS
<1>9. /\ IsFiniteSet(Adding) /\ IsFiniteSet(Holding)
      /\ a \in Nat /\ h \in Nat
  BY <1>8, Parts, PartSizes
<1>10. /\ b \in Nat /\ g \in Nat /\ n \in Nat
       /\ s \notin Adding' => b + g < n
  BY <1>3, <1>8, Parts, PartSizes
<1>11. g < n
  <2>1. {} \in SUBSET Sessions /\ {} \cap Holding' = {} /\ s \notin {} \cup Holding'
    BY <1>3
  <2>2. Cardinality({}) + Cardinality(Holding') < Cardinality(Sessions)
    BY <2>1, Parts, PartSizes
  <2>3. Cardinality({}) = 0
    BY FS_EmptySet
  <2> QED BY <1>8, <1>10, <2>2, <2>3
<1>12. b <= a /\ g <= h /\ (task[s].op = "join" => b <= a - 1)
  <2>1. b <= a
    BY <1>5, <1>8, <1>9, Smaller
  <2>2. g <= h
    BY <1>5, <1>8, <1>9, Smaller
  <2>3. task[s].op = "join" => b <= a - 1
    BY <1>3, <1>5, <1>8, <1>9, Smaller
  <2> QED BY <2>1, <2>2, <2>3
<1>13. e \in Nat /\ f \in Nat /\ unchecked \in Nat /\ f <= e + 1
       /\ (Employees' \subseteq Employees => f <= e)
  <2>1. IsFiniteSet(Employees)
    BY FounderAssumption, FS_Subset DEF Employees
  <2>2. Employees' \subseteq Employees \cup {task[s].user}
    BY Hired
  <2>3. e \in Nat /\ f \in Nat /\ f <= e + 1
    BY <1>6, <1>7, <2>1, <2>2, Smaller
  <2>4. Employees' \subseteq Employees => f <= e
    BY <1>6, <1>7, <2>1, Smaller
  <2> QED BY <2>3, <2>4 DEF MemberTypeOK
<1>14. CASE task[s].op = "join"
  <2>1. unchecked' = unchecked /\ b + g < n
    BY <1>3, <1>10, <1>14, Hired
  <2>2. \/ f <= e /\ f + b + unchecked <= e + a + unchecked' /\ g <= h
        \/ /\ f = e + 1 /\ f + b + unchecked <= e + a + unchecked' /\ g <= h
           /\ b + g < n \/ (unchecked' > 0 /\ g < n)
    BY <1>9, <1>10, <1>12, <1>13, <1>14, <2>1
  <2> QED BY <1>6, <1>7, <1>8, <2>2, SeatStep
<1>15. CASE task[s].op # "join"
  <2>1. \/ Employees' \subseteq Employees /\ unchecked' = unchecked
        \/ unchecked' = unchecked + 1
    BY <1>1, <1>15, Hired
  <2>2. \/ f <= e /\ f + b + unchecked <= e + a + unchecked' /\ g <= h
        \/ /\ f = e + 1 /\ f + b + unchecked <= e + a + unchecked' /\ g <= h
           /\ b + g < n \/ (unchecked' > 0 /\ g < n)
    BY <1>9, <1>10, <1>11, <1>12, <1>13, <2>1
  <2> QED BY <1>6, <1>7, <1>8, <2>2, SeatStep
<1> QED BY <1>14, <1>15

LEMMA SeatsNext ==
    ASSUME OrderInv, OrderInv', SeatInv, [MemberNext]_memberVars PROVE SeatInv'
<1>1. MemberTypeOK /\ MemberTypeOK' /\ \A s \in Sessions : Carries(task[s])
  BY DEF OrderInv, MemberInv, Orders
<1>2. CASE UNCHANGED memberVars
  <2>1. UNCHANGED <<member, count, task, unchecked>>
    BY <1>2 DEF memberVars
  <2>2. Adding' \subseteq Adding /\ Holding' \subseteq Holding
    BY <2>1, Same, Parts
  <2> QED BY <1>1, <2>1, <2>2, QuietSeats
<1>3. CASE SuperAdmin
  BY <1>1, <1>3, SuperAdminSeats
<1>4. ASSUME NEW s \in Sessions, Begin(s) PROVE SeatInv'
  BY <1>1, <1>4, BeginSeats
<1>5. ASSUME NEW s \in Sessions, Proceed(s) PROVE SeatInv'
  BY <1>1, <1>5, WriteSeats, LastSeats DEF Proceed
<1> QED BY <1>2, <1>3, <1>4, <1>5 DEF MemberNext

LEMMA SeatsFirst == ASSUME MemberInit PROVE SeatInv
<1>1. /\ Founder \notin Staff /\ Staff \subseteq Users
      /\ [NewRow EXCEPT !.role = "ORG_ADMIN"] \in Row /\ NewRow \in Row
      /\ [NewRow EXCEPT !.role = "ORG_ADMIN"].role = "ORG_ADMIN"
  BY FounderAssumption, NewTypes DEF Row, Roles
<1>2. Employees = Staff
  <2>1. \A u \in Users : u \in Employees <=> u \in Staff
    BY <1>1, MemberAssumption DEF MemberInit, Employees, Present, IsMember, NewRow
  <2> QED BY <1>1, <2>1 DEF Employees
<1>3. Cardinality(Employees) = Cardinality(Staff)
  BY <1>2, Zenon
<1>4. /\ count = Cardinality(Staff) /\ unchecked = 0
      /\ \A s \in Sessions : task[s].pc = "idle"
  BY NewTypes DEF MemberInit
<1>5. Holding = {} /\ Joining = {}
  BY <1>4 DEF Holding, Joining
<1>6. Cardinality(Staff) <= EmployeeCap /\ EmployeeCap \in Nat
  BY BoundsAssumption
<1>7. Cardinality(Staff) \in Nat
  BY FounderAssumption, FS_Subset, FS_CardinalityType
<1>8. Cardinality(Sessions) \in Nat \ {0}
  BY Parts, PartSizes
<1>9. PICK n \in Nat : Cardinality(Sessions) = n + 1
  <2>1. Cardinality(Sessions) - 1 \in Nat
          /\ Cardinality(Sessions) = (Cardinality(Sessions) - 1) + 1
    BY <1>8
  <2> QED BY <2>1
<1>10. CASE Cardinality(Staff) = EmployeeCap
  <2>1. Adding = {}
    BY <1>4, <1>5, <1>6, <1>10 DEF Adding, SeatFree
  <2>2. Cardinality(Adding) = 0 /\ Cardinality(Holding) = 0
    <3>1. Cardinality({}) = 0
      BY FS_EmptySet
    <3> QED BY <1>5, <2>1, <3>1
  <2>3. LetIn(n + 1, 0) = 0
    BY DEF LetIn
  <2>4. n * (n + 3) \in Nat
    OBVIOUS
  <2>5. (n + 1 - 1) * (n + 1 + 2) = n * (n + 3)
    OBVIOUS
  <2> QED BY <1>3, <1>4, <1>6, <1>9, <1>10, <2>2, <2>3, <2>4, <2>5 DEF SeatInv, Fits
<1>11. CASE Cardinality(Staff) < EmployeeCap
  BY <1>3, <1>6, <1>7, <1>11 DEF SeatInv, Fits
<1> QED BY <1>6, <1>7, <1>10, <1>11

\* Requests that pass the check of the cap together, and old recounts that open
\* it again, let in no more than half of (n - 1) * (n + 2) employees beyond the
\* cap, whatever the plan, the members and the number n of sessions.
THEOREM CapOvershootBounded == MemberSpec => []OvershootBounded
<1>1. MemberInit => SeatInv
  BY SeatsFirst
<1>2. OrderInv /\ OrderInv' /\ SeatInv /\ [MemberNext]_memberVars => SeatInv'
  BY SeatsNext
<1>3. SeatInv => (unchecked \in Nat => OvershootBounded)
  <2> SUFFICES ASSUME SeatInv, unchecked \in Nat PROVE OvershootBounded
    OBVIOUS
  <2>1. PICK n : n = Cardinality(Sessions)
    OBVIOUS
  <2>2. PICK e : e = Cardinality(Employees)
    OBVIOUS
  <2>3. PICK a, h : a = Cardinality(Adding) /\ h = Cardinality(Holding)
    OBVIOUS
  <2>4. /\ n \in Nat \ {0} /\ a \in Nat /\ h \in 0..n /\ e \in Nat
        /\ EmployeeCap \in Nat
    <3>1. n \in Nat \ {0} /\ a \in Nat /\ h \in Nat /\ a + h <= n
      BY <2>1, <2>3, Parts, PartSizes
    <3> QED BY <3>1, <2>2, EmployeesCounted, BoundsAssumption
  <2>5. LetIn(n, h) \in Nat
    BY <2>4, LetInSteps
  <2>6. PICK k \in Nat : k = (n - 1) * (n + 2)
    <3>1. PICK m \in Nat : n = m + 1
      <4>1. n - 1 \in Nat /\ n = (n - 1) + 1
        BY <2>4
      <4> QED BY <4>1
    <3>2. (n - 1) * (n + 2) = m * (m + 3) /\ m * (m + 3) \in Nat
      BY <3>1
    <3> QED BY <3>2
  <2>7. e >= EmployeeCap =>
          2 * (e - EmployeeCap - unchecked + a) + LetIn(n, h) <= k
    BY <2>1, <2>2, <2>3, <2>6 DEF SeatInv, Fits
  <2>8. 2 * (e - EmployeeCap - unchecked) <= k
    BY <2>4, <2>5, <2>7
  <2> QED BY <2>1, <2>2, <2>6, <2>8 DEF OvershootBounded
<1>4. OrderInv => unchecked \in Nat
  BY DEF OrderInv, MemberInv, MemberTypeOK
<1> QED BY <1>1, <1>2, <1>3, <1>4, OrderInvariant, PTL DEF MemberSpec
=============================================================================
