------------------------ MODULE LeaveManagementProofs ------------------------
(***************************************************************************)
(* Proofs about LeaveManagement, for any number of devices and admins, any *)
(* policies, cap, adjustments and bounds.                                  *)
(***************************************************************************)
EXTENDS LeaveManagement, Counting, FiniteSetTheorems, TLAPS

Creating == {d \in Devices : device[d].pc = "create"}

\* The inductive invariant: requests know rows that exist, a leave has a first
\* day and a last one, and there is room for every create that is under way.
Requests ==
    /\ leave \in Seq(Leave) /\ device \in [Devices -> DeviceTask]
    /\ Len(leave) + Cardinality(Creating) <= MaxLeaves
    /\ \A i \in DOMAIN leave : leave[i].from <= leave[i].to
    /\ \A d \in Devices :
        /\ device[d].pc = "create" => device[d].from <= device[d].to
        /\ device[d].pc = "delete" => device[d].id \in DOMAIN leave
\* What holds of a year that nobody has adjusted.
Untouched(row) ==
    /\ row.carried \in Nat /\ row.used \in Nat
    /\ row.carried > 0 => row.entitlement + row.carried <= Cap
Decisions ==
    /\ admin \in [Admins -> AdminTask]
    /\ \A a \in Admins :
        /\ admin[a].pc = "decide" => admin[a].id \in DOMAIN leave
        /\ admin[a].pc \in {"read", "create"} =>
               Untouched(admin[a].row) /\ ~admin[a].row.adjusted
HooksKnown ==
    /\ hooks \subseteq Hook
    /\ \A h \in hooks : h.id \in DOMAIN leave
Balances ==
    /\ balance \in [Years -> Balance] /\ policy \in Policies
    /\ \A y \in Years : ~balance[y].adjusted => Untouched(balance[y])
LeaveInv == Requests /\ Decisions /\ HooksKnown /\ Balances

-----------------------------------------------------------------------------
(* Numbers and rows *)

LEMMA MaxOfTwo ==
    ASSUME NEW m \in Int, NEW n \in Int
    PROVE  Max({m, n}) = IF m >= n THEN m ELSE n
BY DEF Max

LEMMA MinOfTwo ==
    ASSUME NEW m \in Int, NEW n \in Int
    PROVE  Min({m, n}) = IF m <= n THEN m ELSE n
BY DEF Min

\* A leave starts in one of the years, and lasts a day or more.
LEMMA LeaveTyped ==
    ASSUME Requests, NEW i \in DOMAIN leave
    PROVE  /\ i \in Ids /\ leave[i] \in Leave
           /\ StartYear(leave[i]) \in Years
           /\ DurationDays(leave[i]) \in Nat
           /\ leave[i].from \in DayRange /\ leave[i].to \in DayRange
           /\ leave[i].type \in Types /\ leave[i].approved \in BOOLEAN
<1>1. /\ YearLength \in Nat \ {0} /\ LastDay \in Nat /\ MaxLeaves \in Nat
      /\ IsFiniteSet(Devices)
  BY ConstantsAssumption
<1>2. Cardinality(Creating) \in Nat
  BY <1>1, FS_Subset, FS_CardinalityType DEF Creating
<1>3. i \in 1 .. Len(leave) /\ Len(leave) \in Nat /\ leave[i] \in Leave
  BY DEF Requests
<1>4. i \in Ids
  BY <1>1, <1>2, <1>3 DEF Requests, Ids
<1>5. /\ leave[i].from \in 0 .. LastDay /\ leave[i].to \in 0 .. LastDay
      /\ leave[i].type \in Types /\ leave[i].approved \in BOOLEAN
  BY <1>3 DEF Leave, DayRange
<1>6. leave[i].from \div YearLength \in 0 .. LastDay \div YearLength
  <2>1. \A m, n \in Nat : m <= n =>
          m \div YearLength \in 0 .. n \div YearLength
    BY <1>1
  <2> QED BY <1>1, <1>5, <2>1
<1>7. leave[i].from <= leave[i].to
  BY DEF Requests
<1>8. DurationDays(leave[i]) \in Nat
  BY <1>1, <1>5, <1>7 DEF DurationDays
<1> QED BY <1>3, <1>4, <1>5, <1>6, <1>8 DEF StartYear, Years, DayRange

LEMMA BalanceTyped ==
    ASSUME Balances, NEW y \in Years
    PROVE  /\ balance[y] \in Balance
           /\ balance[y].entitlement \in Int /\ balance[y].carried \in Int
           /\ balance[y].used \in Int
           /\ ~balance[y].adjusted =>
                balance[y].carried \in Nat /\ balance[y].used \in Nat
           /\ balance[y].exists \in BOOLEAN /\ balance[y].adjusted \in BOOLEAN
<1>1. balance[y] \in Balance /\ (~balance[y].adjusted => Untouched(balance[y]))
  BY DEF Balances
<1> QED BY <1>1 DEF Balance, Untouched

LEMMA IdleTyped ==
    /\ IdleDevice \in DeviceTask /\ IdleDevice.pc = "idle"
    /\ IdleAdmin \in AdminTask /\ IdleAdmin.pc = "idle"
    /\ NoBalance \in Balance /\ NoBalance.carried = 0 /\ NoBalance.used = 0
    /\ ~NoBalance.adjusted
<1>1. LastDay \in Nat /\ YearLength \in Nat \ {0}
  BY ConstantsAssumption
<1>2. 0 \in DayRange
  BY <1>1 DEF DayRange
<1>3. 0 \in Years
  <2>1. LastDay \div YearLength \in Nat
    BY <1>1
  <2> QED BY <2>1 DEF Years
<1>4. NoBalance \in Balance
  BY DEF NoBalance, Balance
<1>5. IdleDevice \in DeviceTask
  BY <1>2 DEF IdleDevice, DeviceTask, Types
<1>6. IdleAdmin \in AdminTask
  BY <1>3, <1>4 DEF IdleAdmin, AdminTask, Verdicts
<1> QED BY <1>4, <1>5, <1>6 DEF IdleDevice, IdleAdmin, NoBalance

-----------------------------------------------------------------------------
(* The employee *)

\* What adding an element to a finite set, or removing one, does to its size.
LEMMA SizeChange ==
    ASSUME NEW S, IsFiniteSet(S), NEW x
    PROVE  /\ Cardinality(S) \in Nat
           /\ Cardinality(S \cup {x}) \in Nat
           /\ Cardinality(S \cup {x}) <= Cardinality(S) + 1
           /\ Cardinality(S \ {x}) \in Nat
           /\ Cardinality(S \ {x}) <= Cardinality(S)
           /\ x \in S => Cardinality(S \ {x}) = Cardinality(S) - 1
<1>1. Cardinality(S) \in Nat
  BY FS_CardinalityType
<1>2. IsFiniteSet(S \cup {x}) /\ (Cardinality(S \cup {x}) = Cardinality(S)
                                 \/ Cardinality(S \cup {x}) = Cardinality(S) + 1)
  BY FS_AddElement
<1>3. IsFiniteSet(S \ {x}) /\ (Cardinality(S \ {x}) = Cardinality(S)
                              \/ Cardinality(S \ {x}) = Cardinality(S) - 1)
      /\ (x \in S => Cardinality(S \ {x}) = Cardinality(S) - 1)
  BY FS_RemoveElement
<1>4. Cardinality(S \ {x}) \in Nat
  BY <1>3, FS_CardinalityType
<1> QED BY <1>1, <1>2, <1>3, <1>4

LEMMA CreatingFinite == IsFiniteSet(Creating) /\ Cardinality(Creating) \in Nat
BY ConstantsAssumption, FS_Subset, FS_CardinalityType DEF Creating

\* A device that goes on, and what it does to the creates under way.
LEMMA DeviceUpdated ==
    ASSUME device \in [Devices -> DeviceTask], NEW d \in Devices,
           NEW t \in DeviceTask, device' = [device EXCEPT ![d] = t]
    PROVE  /\ device' \in [Devices -> DeviceTask]
           /\ \A c \in Devices : device'[c] = IF c = d THEN t ELSE device[c]
           /\ Creating' = IF t.pc = "create" THEN Creating \cup {d}
                          ELSE Creating \ {d}
BY DEF Creating

\* A leave that is changed keeps its days.
LEMMA LeaveUpdated ==
    ASSUME Requests, NEW i \in DOMAIN leave, NEW l \in Leave,
           l.from = leave[i].from, l.to = leave[i].to,
           leave' = [leave EXCEPT ![i] = l]
    PROVE  /\ leave' \in Seq(Leave) /\ Len(leave') = Len(leave)
           /\ DOMAIN leave' = DOMAIN leave
           /\ \A j \in DOMAIN leave :
                /\ leave'[j] = IF j = i THEN l ELSE leave[j]
                /\ leave'[j].from = leave[j].from /\ leave'[j].to = leave[j].to
BY DEF Requests

\* The rows that admins and hooks know stay.
LEMMA OthersKeep ==
    ASSUME Decisions, HooksKnown, Balances, DOMAIN leave \subseteq DOMAIN leave',
           UNCHANGED <<balance, policy, admin, hooks>>
    PROVE  Decisions' /\ HooksKnown' /\ Balances'
BY DEF Decisions, HooksKnown, Balances, Untouched

LEMMA RequestReadStep ==
    ASSUME LeaveInv, NEW d \in Devices, NEW from \in DayRange, NEW to \in DayRange,
           NEW type \in Types, RequestRead(d, from, to, type)
    PROVE  LeaveInv'
<1> DEFINE t == [pc |-> "create", id |-> None, from |-> from, to |-> to,
                 type |-> type]
<1>1. t \in DeviceTask /\ t.pc = "create" /\ t.from = from /\ t.to = to
  BY DEF DeviceTask
<1>2. /\ device' = [device EXCEPT ![d] = t] /\ from <= to
      /\ UNCHANGED <<leave, balance, policy, admin, hooks>>
      /\ Len(leave) + Cardinality(Creating) < MaxLeaves
  BY DEF RequestRead, Creating
<1> HIDE DEF t
<1>3. /\ device' \in [Devices -> DeviceTask]
      /\ \A c \in Devices : device'[c] = IF c = d THEN t ELSE device[c]
      /\ Creating' = Creating \cup {d}
  BY <1>1, <1>2, DeviceUpdated DEF LeaveInv, Requests
<1>4. Len(leave) \in Nat /\ MaxLeaves \in Nat
  BY ConstantsAssumption DEF LeaveInv, Requests
<1>5. /\ Cardinality(Creating') <= Cardinality(Creating) + 1
      /\ Cardinality(Creating') \in Nat
  BY <1>3, CreatingFinite, SizeChange
<1>6. Len(leave') + Cardinality(Creating') <= MaxLeaves
  BY <1>2, <1>4, <1>5, CreatingFinite
<1>7. Requests'
  BY <1>1, <1>2, <1>3, <1>6 DEF LeaveInv, Requests
<1> QED BY <1>2, <1>7, OthersKeep DEF LeaveInv

LEMMA RequestCreateStep ==
    ASSUME LeaveInv, NEW d \in Devices, RequestCreate(d)
    PROVE  LeaveInv'
<1> DEFINE l == [from |-> device[d].from, to |-> device[d].to,
                 type |-> device[d].type, status |-> "PENDING",
                 approved |-> FALSE]
<1>1. device[d] \in DeviceTask /\ device[d].from <= device[d].to
  BY DEF RequestCreate, LeaveInv, Requests
<1>2. l \in Leave /\ l.from = device[d].from /\ l.to = device[d].to
  BY <1>1 DEF DeviceTask, Leave
<1>3. /\ leave' = Append(leave, l) /\ device' = [device EXCEPT ![d] = IdleDevice]
      /\ UNCHANGED <<balance, policy, admin, hooks>> /\ d \in Creating
  BY DEF RequestCreate, Creating
<1> HIDE DEF l
<1>4. leave \in Seq(Leave) /\ Len(leave) \in Nat /\ MaxLeaves \in Nat
  BY ConstantsAssumption DEF LeaveInv, Requests
<1>5. /\ leave' \in Seq(Leave) /\ Len(leave') = Len(leave) + 1
      /\ DOMAIN leave \subseteq DOMAIN leave'
      /\ \A i \in DOMAIN leave' :
            leave'[i] = IF i \in DOMAIN leave THEN leave[i] ELSE l
  BY <1>2, <1>3, <1>4
<1>6. /\ device' \in [Devices -> DeviceTask]
      /\ \A c \in Devices : device'[c] = IF c = d THEN IdleDevice ELSE device[c]
      /\ Creating' = Creating \ {d}
  BY <1>3, IdleTyped, DeviceUpdated DEF LeaveInv, Requests
<1>7. /\ Cardinality(Creating') = Cardinality(Creating) - 1
  BY <1>3, <1>6, CreatingFinite, SizeChange
<1>8. Len(leave') + Cardinality(Creating') <= MaxLeaves
  BY <1>4, <1>5, <1>7, CreatingFinite DEF LeaveInv, Requests
<1>9. \A i \in DOMAIN leave' : leave'[i].from <= leave'[i].to
  BY <1>1, <1>2, <1>5 DEF LeaveInv, Requests
<1>10. \A c \in Devices :
         /\ device'[c].pc = "create" => device'[c].from <= device'[c].to
         /\ device'[c].pc = "delete" => device'[c].id \in DOMAIN leave'
  BY <1>5, <1>6, IdleTyped DEF LeaveInv, Requests
<1> QED BY <1>3, <1>5, <1>6, <1>8, <1>9, <1>10, OthersKeep DEF LeaveInv, Requests

LEMMA CancelReadStep ==
    ASSUME LeaveInv, NEW d \in Devices, NEW i \in DOMAIN leave, CancelRead(d, i)
    PROVE  LeaveInv'
<1> DEFINE r == [device[d] EXCEPT !.id = i]
           t == [r EXCEPT !.pc = "delete"]
<1>1. device[d] \in DeviceTask /\ i \in Ids
  BY LeaveTyped DEF LeaveInv, Requests
<1>2. t \in DeviceTask /\ t.pc = "delete" /\ t.id = i
  BY <1>1 DEF DeviceTask
<1>3. /\ device' = [device EXCEPT ![d] = t]
      /\ UNCHANGED <<leave, balance, policy, admin, hooks>>
  <2>1. t = [device[d] EXCEPT !.pc = "delete", !.id = i]
    BY <1>1 DEF DeviceTask
  <2>2. device' = [device EXCEPT ![d] = [device[d] EXCEPT !.pc = "delete", !.id = i]]
    BY <1>1 DEF CancelRead, LeaveInv, Requests, DeviceTask
  <2> HIDE DEF t
  <2> QED BY <2>1, <2>2 DEF CancelRead
<1> HIDE DEF t
<1>4. /\ device' \in [Devices -> DeviceTask]
      /\ \A c \in Devices : device'[c] = IF c = d THEN t ELSE device[c]
      /\ Creating' = Creating \ {d}
  BY <1>2, <1>3, DeviceUpdated DEF LeaveInv, Requests
<1>5. /\ Cardinality(Creating') <= Cardinality(Creating)
      /\ Cardinality(Creating') \in Nat
  BY <1>4, CreatingFinite, SizeChange
<1>6. Len(leave') + Cardinality(Creating') <= MaxLeaves
  <2>1. Len(leave) \in Nat /\ MaxLeaves \in Nat
    BY ConstantsAssumption DEF LeaveInv, Requests
  <2> QED BY <1>3, <1>5, <2>1, CreatingFinite DEF LeaveInv, Requests
<1>7. Requests'
  BY <1>2, <1>3, <1>4, <1>6 DEF LeaveInv, Requests
<1> QED BY <1>3, <1>7, OthersKeep DEF LeaveInv

LEMMA CancelDeleteStep ==
    ASSUME LeaveInv, NEW d \in Devices, CancelDelete(d)
    PROVE  LeaveInv'
<1> DEFINE i == device[d].id
           l == [leave[i] EXCEPT !.status = "DELETED"]
<1>1. i \in DOMAIN leave /\ Requests
  BY DEF CancelDelete, LeaveInv, Requests
<1>2. l \in Leave /\ l.from = leave[i].from /\ l.to = leave[i].to
  BY <1>1, LeaveTyped DEF Leave
<1>3. /\ leave' = [leave EXCEPT ![i] = l]
      /\ device' = [device EXCEPT ![d] = IdleDevice]
      /\ UNCHANGED <<balance, policy, admin, hooks>>
  BY DEF CancelDelete
<1> HIDE DEF i, l
<1>4. /\ leave' \in Seq(Leave) /\ Len(leave') = Len(leave)
      /\ DOMAIN leave' = DOMAIN leave
      /\ \A j \in DOMAIN leave :
            leave'[j].from = leave[j].from /\ leave'[j].to = leave[j].to
  BY <1>1, <1>2, <1>3, LeaveUpdated
<1>5. /\ device' \in [Devices -> DeviceTask]
      /\ \A c \in Devices : device'[c] = IF c = d THEN IdleDevice ELSE device[c]
      /\ Creating' = Creating \ {d}
  BY <1>3, IdleTyped, DeviceUpdated DEF LeaveInv, Requests
<1>6. /\ Cardinality(Creating') <= Cardinality(Creating)
      /\ Cardinality(Creating') \in Nat
  BY <1>5, CreatingFinite, SizeChange
<1>7. Len(leave') + Cardinality(Creating') <= MaxLeaves
  <2>1. Len(leave) \in Nat /\ MaxLeaves \in Nat
    BY ConstantsAssumption DEF LeaveInv, Requests
  <2> QED BY <1>4, <1>6, <2>1, CreatingFinite DEF LeaveInv, Requests
<1>8. Requests'
  BY <1>4, <1>5, <1>7, IdleTyped DEF LeaveInv, Requests
<1> QED BY <1>3, <1>4, <1>8, OthersKeep DEF LeaveInv

-----------------------------------------------------------------------------
(* The admins *)

\* What an admin holds between two statements.
HeldWell(t) ==
    /\ t.pc = "decide" => t.id \in DOMAIN leave
    /\ t.pc \in {"read", "create"} => Untouched(t.row) /\ ~t.row.adjusted

LEMMA RequestsKeep ==
    ASSUME Requests, UNCHANGED <<leave, device>>
    PROVE  Requests'
BY DEF Requests, Creating

\* A step of one admin, and of nobody else.
LEMMA AdminUpdated ==
    ASSUME LeaveInv, NEW a \in Admins, NEW t \in AdminTask, HeldWell(t),
           admin' = [admin EXCEPT ![a] = t], DOMAIN leave' = DOMAIN leave
    PROVE  Decisions'
<1>1. /\ admin \in [Admins -> AdminTask]
      /\ \A b \in Admins : HeldWell(admin[b])
  BY DEF LeaveInv, Decisions, HeldWell
<1>2. /\ admin' \in [Admins -> AdminTask]
      /\ \A b \in Admins : HeldWell(admin'[b])
  BY <1>1
<1> QED BY <1>2 DEF Decisions, HeldWell, Untouched

LEMMA HooksBalancesKeep ==
    ASSUME LeaveInv, UNCHANGED <<leave, balance, policy, hooks>>
    PROVE  HooksKnown' /\ Balances'
BY DEF LeaveInv, HooksKnown, Balances, Untouched

LEMMA DecideReadStep ==
    ASSUME LeaveInv, NEW a \in Admins, NEW i \in DOMAIN leave,
           NEW verdict \in Verdicts, DecideRead(a, i, verdict)
    PROVE  LeaveInv'
<1> DEFINE r == [admin[a] EXCEPT !.id = i]
           s == [r EXCEPT !.verdict = verdict]
           t == [s EXCEPT !.pc = "decide"]
<1>1. admin[a] \in AdminTask /\ i \in Ids
  BY LeaveTyped DEF LeaveInv, Decisions
<1>2. t = [admin[a] EXCEPT !.pc = "decide", !.id = i, !.verdict = verdict]
  BY <1>1 DEF AdminTask
<1>3. admin' = [admin EXCEPT ![a] = t]
  <2>1. admin' = [admin EXCEPT ![a] = [admin[a] EXCEPT !.pc = "decide", !.id = i,
                                                       !.verdict = verdict]]
    BY <1>1 DEF DecideRead, LeaveInv, Decisions, AdminTask
  <2> HIDE DEF t
  <2> QED BY <1>2, <2>1
<1>4. t \in AdminTask /\ t.pc = "decide" /\ t.id = i
  BY <1>1 DEF AdminTask
<1>5. UNCHANGED <<leave, balance, policy, device, hooks>>
  BY DEF DecideRead
<1> HIDE DEF t
<1>6. Decisions'
  BY <1>3, <1>4, <1>5, AdminUpdated DEF HeldWell
<1> QED BY <1>5, <1>6, RequestsKeep, HooksBalancesKeep DEF LeaveInv

\* A new hook knows the leave that was decided.
LEMMA DecideWriteStep ==
    ASSUME LeaveInv, NEW a \in Admins, DecideWrite(a)
    PROVE  LeaveInv'
<1> DEFINE i == admin[a].id
           v == admin[a].verdict
           h == [id |-> i, by |-> a, verdict |-> v, pc |-> "flag", seen |-> 0]
           r == [leave[i] EXCEPT !.status = v]
           l == [r EXCEPT !.approved = (leave[i].approved \/ v = "APPROVED")]
<1>1. /\ admin[a] \in AdminTask /\ i \in DOMAIN leave /\ Requests
      /\ admin' = [admin EXCEPT ![a] = IdleAdmin]
      /\ UNCHANGED <<balance, policy, device>>
  BY DEF DecideWrite, LeaveInv, Decisions
<1>2. i \in Ids /\ v \in Verdicts
  BY <1>1, LeaveTyped DEF AdminTask
<1>3. CASE leave[i].status = "DELETED"
  <2>1. UNCHANGED <<leave, hooks>>
    BY <1>3 DEF DecideWrite
  <2>2. Decisions'
    BY <1>1, <2>1, IdleTyped, AdminUpdated DEF HeldWell
  <2> QED BY <1>1, <2>1, <2>2, RequestsKeep, HooksBalancesKeep DEF LeaveInv
<1>4. CASE leave[i].status # "DELETED"
  <2>1. leave' = [leave EXCEPT ![i] = l] /\ hooks' = hooks \cup {h}
    <3>1. leave[i] \in Leave
      BY <1>1, LeaveTyped
    <3>2. l = [leave[i] EXCEPT !.status = v,
                 !.approved = leave[i].approved \/ v = "APPROVED"]
      BY <3>1 DEF Leave
    <3>3. leave' = [leave EXCEPT ![i] = [leave[i] EXCEPT !.status = v,
                      !.approved = leave[i].approved \/ v = "APPROVED"]]
      BY <1>1, <1>4, <3>1 DEF DecideWrite, Requests, Leave
    <3>4. hooks' = hooks \cup {h}
      BY <1>4 DEF DecideWrite
    <3> HIDE DEF l
    <3> QED BY <3>2, <3>3, <3>4
  <2>2. l \in Leave /\ l.from = leave[i].from /\ l.to = leave[i].to
    <3>1. leave[i] \in Leave
      BY <1>1, LeaveTyped
    <3>2. r \in Leave /\ r.from = leave[i].from /\ r.to = leave[i].to
      BY <1>2, <3>1 DEF Leave
    <3>3. (leave[i].approved \/ v = "APPROVED") \in BOOLEAN
      OBVIOUS
    <3> DEFINE b == leave[i].approved \/ v = "APPROVED"
    <3> HIDE DEF r, b
    <3>4. [r EXCEPT !.approved = b] \in Leave
      BY <3>2, <3>3 DEF Leave, b
    <3>5. /\ [r EXCEPT !.approved = b].from = r.from
          /\ [r EXCEPT !.approved = b].to = r.to
      BY <3>2 DEF Leave
    <3> QED BY <3>2, <3>4, <3>5 DEF b
  <2> HIDE DEF l
  <2>3. /\ leave' \in Seq(Leave) /\ Len(leave') = Len(leave)
        /\ DOMAIN leave' = DOMAIN leave
        /\ \A j \in DOMAIN leave :
              leave'[j].from = leave[j].from /\ leave'[j].to = leave[j].to
    BY <1>1, <2>1, <2>2, LeaveUpdated
  <2>4. Requests'
    BY <1>1, <2>3 DEF Requests, Creating
  <2>5. Decisions'
    BY <1>1, <2>3, IdleTyped, AdminUpdated DEF HeldWell
  <2>6. HooksKnown'
    <3>1. h \in Hook /\ h.id = i
      BY <1>2 DEF Hook
    <3> HIDE DEF h
    <3> QED BY <1>1, <2>1, <2>3, <3>1 DEF LeaveInv, HooksKnown
  <2> QED BY <1>1, <2>4, <2>5, <2>6 DEF LeaveInv, Balances, Untouched
<1> QED BY <1>3, <1>4

LEMMA InitializeStartStep ==
    ASSUME LeaveInv, NEW a \in Admins, NEW y \in Years, InitializeStart(a, y)
    PROVE  LeaveInv'
<1> DEFINE row == [NoBalance EXCEPT !.exists = TRUE,
                                    !.entitlement = policy.entitlement]
           n == [NoBalance EXCEPT !.exists = TRUE]
           r == [admin[a] EXCEPT !.year = y]
           s == [r EXCEPT !.row = row]
           t == [s EXCEPT !.pc = "read"]
<1>1. admin[a] \in AdminTask /\ policy.entitlement \in Nat
  BY ConstantsAssumption DEF LeaveInv, Decisions, Balances
<1>2. row = [n EXCEPT !.entitlement = policy.entitlement]
  BY DEF NoBalance
<1>3. n \in Balance /\ n.carried = 0 /\ n.used = 0 /\ ~n.adjusted
  BY IdleTyped DEF Balance
<1> HIDE DEF row, n
<1>4. row \in Balance /\ row.carried = 0 /\ row.used = 0 /\ ~row.adjusted
  BY <1>1, <1>2, <1>3 DEF Balance
<1>5. Untouched(row)
  BY <1>4 DEF Untouched
<1>6. t \in AdminTask /\ t.pc = "read" /\ t.row = row
  BY <1>1, <1>4 DEF AdminTask
<1>7. admin' = [admin EXCEPT ![a] = t]
  <2>1. t = [admin[a] EXCEPT !.pc = "read", !.year = y, !.row = row]
    BY <1>1 DEF AdminTask
  <2>2. admin' = [admin EXCEPT ![a] = [admin[a] EXCEPT !.pc = "read", !.year = y,
                                                       !.row = row]]
    BY <1>1 DEF InitializeStart, LeaveInv, Decisions, AdminTask, row
  <2> HIDE DEF t
  <2> QED BY <2>1, <2>2
<1>8. UNCHANGED <<leave, balance, policy, device, hooks>>
  BY DEF InitializeStart
<1> HIDE DEF t
<1>9. Decisions'
  BY <1>4, <1>5, <1>6, <1>7, <1>8, AdminUpdated DEF HeldWell
<1> QED BY <1>8, <1>9, RequestsKeep, HooksBalancesKeep DEF LeaveInv

\* What is carried over fits under the cap beside the new entitlement.
LEMMA CarriedOverFits ==
    ASSUME NEW prev \in Balance, NEW n \in Int
    PROVE  /\ CarriedOver(prev, n) \in Nat
           /\ CarriedOver(prev, n) > 0 => n + CarriedOver(prev, n) <= Cap
<1> DEFINE left == Available(prev)
           room == Cap - n
<1>1. left \in Int /\ room \in Int /\ Cap \in Nat
  BY ConstantsAssumption DEF Balance, Available
<1>2. CarriedOver(prev, n) = Min({Max({0, left}), Max({0, room})})
  BY DEF CarriedOver
<1> HIDE DEF left
<1>3. /\ Max({0, left}) \in Nat /\ Max({0, room}) \in Nat
      /\ Max({0, room}) > 0 => Max({0, room}) = room
  BY <1>1, MaxOfTwo
<1>4. /\ CarriedOver(prev, n) \in Nat
      /\ CarriedOver(prev, n) <= Max({0, room})
  BY <1>2, <1>3, MinOfTwo
<1> QED BY <1>1, <1>3, <1>4

LEMMA InitializeReadStep ==
    ASSUME LeaveInv, NEW a \in Admins, InitializeRead(a)
    PROVE  LeaveInv'
<1> DEFINE y == admin[a].year
           prev == IF y - 1 \in Years THEN balance[y - 1] ELSE NoBalance
           n == admin[a].row.entitlement
           carried == IF prev.exists THEN CarriedOver(prev, n) ELSE 0
           row == [admin[a].row EXCEPT !.carried = carried]
           r == [admin[a] EXCEPT !.row = row]
           t == [r EXCEPT !.pc = "create"]
<1>1. /\ admin[a] \in AdminTask /\ ~admin[a].row.adjusted
      /\ admin[a].row \in Balance /\ n \in Int /\ admin[a].row.used \in Nat
  <2>1. /\ admin[a] \in AdminTask /\ ~admin[a].row.adjusted
        /\ admin[a].row.used \in Nat
    BY DEF InitializeRead, LeaveInv, Decisions, Untouched
  <2>2. admin[a].row \in Balance
    BY <2>1 DEF AdminTask
  <2> QED BY <2>1, <2>2 DEF Balance
<1>2. prev \in Balance
  BY BalanceTyped, IdleTyped DEF LeaveInv
<1> HIDE DEF prev
<1>3. carried \in Nat /\ (carried > 0 => n + carried <= Cap)
  BY <1>1, <1>2, CarriedOverFits
<1> HIDE DEF carried
<1>4. /\ row \in Balance /\ row.carried = carried /\ row.entitlement = n
      /\ row.used \in Nat /\ ~row.adjusted
  BY <1>1, <1>3 DEF Balance
<1>5. Untouched(row)
  BY <1>3, <1>4 DEF Untouched
<1>6. t \in AdminTask /\ t.pc = "create" /\ t.row = row
  <2> HIDE DEF row
  <2> QED BY <1>1, <1>4 DEF AdminTask
<1>7. UNCHANGED <<leave, balance, policy, device, hooks>>
  BY DEF InitializeRead
<1>8. CASE balance[y].exists
  <2>1. admin' = [admin EXCEPT ![a] = IdleAdmin]
    BY <1>8 DEF InitializeRead
  <2> QED BY <1>7, <2>1, IdleTyped, AdminUpdated, RequestsKeep, HooksBalancesKeep
          DEF HeldWell, LeaveInv
<1>9. CASE ~balance[y].exists
  <2>1. admin' = [admin EXCEPT ![a] =
                    [admin[a] EXCEPT !.pc = "create", !.row.carried = carried]]
    BY <1>1, <1>9 DEF InitializeRead, LeaveInv, Decisions, carried, prev
  <2>2. t = [admin[a] EXCEPT !.pc = "create", !.row.carried = carried]
    BY <1>1 DEF AdminTask
  <2> HIDE DEF t, row
  <2>3. Decisions'
    BY <1>4, <1>5, <1>6, <1>7, <2>1, <2>2, AdminUpdated DEF HeldWell
  <2> QED BY <1>7, <2>3, RequestsKeep, HooksBalancesKeep DEF LeaveInv
<1> QED BY <1>8, <1>9

-----------------------------------------------------------------------------
(* The balances and the hooks *)

\* One row of the balances changes.
LEMMA BalanceUpdated ==
    ASSUME Balances, NEW y \in Years, NEW b \in Balance,
           ~b.adjusted => Untouched(b),
           balance' = [balance EXCEPT ![y] = b], policy' = policy
    PROVE  Balances'
<1>1. /\ balance' \in [Years -> Balance]
      /\ \A z \in Years : balance'[z] = IF z = y THEN b ELSE balance[z]
  BY DEF Balances
<1> QED BY <1>1 DEF Balances, Untouched

LEMMA InitializeCreateStep ==
    ASSUME LeaveInv, NEW a \in Admins, InitializeCreate(a)
    PROVE  LeaveInv'
<1> DEFINE y == admin[a].year
           row == IF balance[y].exists THEN balance[y] ELSE admin[a].row
<1>1. y \in Years /\ admin[a].row \in Balance
  BY DEF LeaveInv, Decisions, AdminTask
<1>2. row \in Balance /\ (~row.adjusted => Untouched(row))
  BY <1>1, BalanceTyped DEF InitializeCreate, LeaveInv, Decisions, Balances
<1>3. /\ balance' = [balance EXCEPT ![y] = row]
      /\ admin' = [admin EXCEPT ![a] = IdleAdmin]
      /\ UNCHANGED <<leave, policy, device, hooks>>
  BY <1>1 DEF InitializeCreate, LeaveInv, Balances
<1> HIDE DEF row
<1>4. Balances'
  BY <1>1, <1>2, <1>3, BalanceUpdated DEF LeaveInv
<1>5. Decisions'
  BY <1>3, IdleTyped, AdminUpdated DEF HeldWell
<1> QED BY <1>3, <1>4, <1>5, RequestsKeep DEF LeaveInv, HooksKnown

LEMMA AdjustStep ==
    ASSUME LeaveInv, NEW y \in Years, NEW number \in Adjustments,
           NEW field \in {"entitlement", "carried", "used"},
           Adjust(y, field, number)
    PROVE  LeaveInv'
<1> DEFINE r == [balance[y] EXCEPT !.adjusted = TRUE]
           b == [r EXCEPT ![field] = number]
<1>1. number \in Int /\ balance[y] \in Balance
  BY ConstantsAssumption, BalanceTyped DEF LeaveInv
<1>2. r \in Balance /\ r.adjusted
  BY <1>1 DEF Balance
<1>3. balance' = [balance EXCEPT ![y] = b]
  BY DEF Adjust, LeaveInv, Balances
<1> HIDE DEF r
<1>4. b \in Balance /\ b.adjusted
  <2>1. CASE field = "entitlement"
    BY <1>1, <1>2, <2>1 DEF Balance
  <2>2. CASE field = "carried"
    BY <1>1, <1>2, <2>2 DEF Balance
  <2>3. CASE field = "used"
    BY <1>1, <1>2, <2>3 DEF Balance
  <2> QED BY <2>1, <2>2, <2>3
<1> HIDE DEF b
<1>5. UNCHANGED <<leave, policy, device, admin, hooks>>
  BY DEF Adjust
<1>6. Balances'
  BY <1>3, <1>4, <1>5, BalanceUpdated DEF LeaveInv
<1> QED BY <1>5, <1>6, RequestsKeep
        DEF LeaveInv, Decisions, HooksKnown, Untouched

\* One hook ends, or goes on with the same leave.
LEMMA HookUpdated ==
    ASSUME LeaveInv, NEW h \in hooks,
           \/ hooks' = hooks \ {h}
           \/ \E g \in Hook : g.id = h.id /\ hooks' = (hooks \ {h}) \cup {g},
           UNCHANGED leave
    PROVE  HooksKnown'
BY DEF LeaveInv, HooksKnown

LEMMA RestKeeps ==
    ASSUME LeaveInv, HooksKnown', UNCHANGED <<leave, balance, policy, device, admin>>
    PROVE  LeaveInv'
BY RequestsKeep DEF LeaveInv, Decisions, Balances, Untouched

LEMMA HookReadSteps ==
    ASSUME LeaveInv, NEW h \in hooks, HookFlag(h) \/ HookBalance(h) \/ HookFails(h)
    PROVE  LeaveInv'
<1> DEFINE row == balance[StartYear(leave[h.id])]
           g1 == [h EXCEPT !.pc = "balance"]
           g2 == [h EXCEPT !.pc = "write", !.seen = row.used]
<1>1. h \in Hook /\ row.used \in Int
  BY LeaveTyped, BalanceTyped DEF LeaveInv, HooksKnown
<1> HIDE DEF row
<1>2. g1 \in Hook /\ g1.id = h.id /\ g2 \in Hook /\ g2.id = h.id
  BY <1>1 DEF Hook
<1>3. UNCHANGED <<leave, balance, policy, device, admin>>
  BY DEF HookFlag, HookBalance, HookFails
<1>4. \/ hooks' = hooks \ {h}
      \/ hooks' = (hooks \ {h}) \cup {g1}
      \/ hooks' = (hooks \ {h}) \cup {g2}
  BY DEF HookFlag, HookBalance, HookFails, HookEnds, row
<1> HIDE DEF g1, g2
<1>5. HooksKnown'
  BY <1>2, <1>3, <1>4, HookUpdated
<1> QED BY <1>3, <1>5, RestKeeps

LEMMA HookWriteStep ==
    ASSUME LeaveInv, NEW h \in hooks, HookWrite(h)
    PROVE  LeaveInv'
<1> DEFINE y == StartYear(leave[h.id])
           used == UsedAfter(h, balance[y].used)
           b == [balance[y] EXCEPT !.used = used]
<1>1. /\ h \in Hook /\ h.seen \in Int /\ y \in Years
      /\ DurationDays(leave[h.id]) \in Nat /\ balance[y] \in Balance
      /\ balance[y].used \in Int
      /\ ~balance[y].adjusted => Untouched(balance[y])
  BY LeaveTyped, BalanceTyped DEF LeaveInv, HooksKnown, Hook, Balances
<1>2. used \in Int /\ (balance[y].used \in Nat => used \in Nat)
  <2>1. h.seen - DurationDays(leave[h.id]) \in Int
    BY <1>1
  <2>2. Max({0, h.seen - DurationDays(leave[h.id])}) \in Nat
    BY <2>1, MaxOfTwo
  <2> QED BY <1>1, <2>2 DEF UsedAfter
<1>3. balance' = [balance EXCEPT ![y] = b]
  BY <1>1 DEF HookWrite, LeaveInv, Balances
<1> HIDE DEF y, used
<1>4. /\ b \in Balance /\ b.adjusted = balance[y].adjusted
      /\ b.carried = balance[y].carried /\ b.entitlement = balance[y].entitlement
      /\ b.used = used
  BY <1>1, <1>2 DEF Balance
<1>5. ~b.adjusted => Untouched(b)
  BY <1>1, <1>2, <1>4 DEF Untouched
<1>6. UNCHANGED <<leave, policy, device, admin>> /\ hooks' = hooks \ {h}
  BY DEF HookWrite, HookEnds
<1> HIDE DEF b
<1>7. Balances'
  BY <1>1, <1>3, <1>4, <1>5, <1>6, BalanceUpdated DEF LeaveInv
<1>8. HooksKnown'
  BY <1>6, HookUpdated
<1> QED BY <1>6, <1>7, <1>8, RequestsKeep DEF LeaveInv, Decisions, Untouched

-----------------------------------------------------------------------------
(* The theorems *)

LEMMA LeaveInit == Init => LeaveInv
<1> SUFFICES ASSUME Init PROVE LeaveInv
  OBVIOUS
<1>1. MaxLeaves \in Nat
  BY ConstantsAssumption
<1>2. Creating = {}
  BY IdleTyped DEF Init, Creating
<1>3. Requests
  BY <1>1, <1>2, IdleTyped, FS_EmptySet DEF Init, Requests
<1>4. Decisions
  BY IdleTyped DEF Init, Decisions
<1>5. Balances
  BY IdleTyped DEF Init, Balances, Untouched
<1>6. HooksKnown
  BY DEF Init, HooksKnown
<1> QED BY <1>3, <1>4, <1>5, <1>6 DEF LeaveInv

LEMMA LeaveStep == LeaveInv /\ [Next]_vars => LeaveInv'
<1> SUFFICES ASSUME LeaveInv, [Next]_vars PROVE LeaveInv'
  OBVIOUS
<1>1. ASSUME NEW d \in Devices, DeviceStep(d) PROVE LeaveInv'
  BY <1>1, RequestReadStep, RequestCreateStep, CancelReadStep, CancelDeleteStep
     DEF DeviceStep
<1>2. ASSUME NEW a \in Admins, AdminStep(a) PROVE LeaveInv'
  BY <1>2, DecideReadStep, DecideWriteStep, InitializeStartStep,
     InitializeReadStep, InitializeCreateStep DEF AdminStep
<1>3. ASSUME NEW h \in hooks, HookStep(h) \/ HookFails(h) PROVE LeaveInv'
  BY <1>3, HookReadSteps, HookWriteStep DEF HookStep
<1>4. ASSUME NEW new \in Policies, ChangePolicy(new) PROVE LeaveInv'
  BY <1>4, RequestsKeep
     DEF ChangePolicy, LeaveInv, Decisions, HooksKnown, Balances, Untouched
<1>5. ASSUME UNCHANGED vars PROVE LeaveInv'
  BY <1>5, RequestsKeep
     DEF vars, LeaveInv, Decisions, HooksKnown, Balances, Untouched
<1> QED BY <1>1, <1>2, <1>3, <1>4, <1>5, AdjustStep DEF Next

\* Whatever devices, admins, hooks and faults interleave, LeaveInv holds.
THEOREM LeaveInvariant == Spec => []LeaveInv
BY LeaveInit, LeaveStep, PTL DEF Spec

\* Every variable keeps its type: a decision and its hook always find their
\* leave, and no days of a year are negative unless entered by hand.
THEOREM LeaveTypeCorrect == Spec => []TypeOK
<1>1. LeaveInv => TypeOK
  BY DEF LeaveInv, Requests, Decisions, HooksKnown, Balances, Untouched, TypeOK
<1> QED BY <1>1, LeaveInvariant, PTL

\* A year that was not adjusted by hand never carries over more than fits under
\* the cap, whatever the policy is changed to between the statements.
THEOREM CarryOverCapped == Spec => []CarriedWithinCap
<1>1. LeaveInv => CarriedWithinCap
  BY DEF LeaveInv, Balances, Untouched, CarriedWithinCap
<1> QED BY <1>1, LeaveInvariant, PTL

-----------------------------------------------------------------------------
(* One request at a time *)

OneAtATime ==
    /\ \A c, d \in Devices : c = d
    /\ \A a, b \in Admins : a = b

\* What one request at a time keeps: the active leaves are apart, also from the
\* one about to be created, and a decision is not about to revive a leave.
Apart ==
    \A i, j \in DOMAIN leave :
        (i # j /\ Active(leave[i]) /\ Active(leave[j]))
        => ~Overlaps(leave[i], leave[j].from, leave[j].to)
RoomToCreate ==
    \A d \in Devices : device[d].pc = "create" =>
        \A i \in DOMAIN leave : Active(leave[i]) =>
            ~Overlaps(leave[i], device[d].from, device[d].to)
NoRevival ==
    \A a \in Admins : admin[a].pc = "decide" =>
        leave[admin[a].id].status \in {"PENDING", "DELETED"}
ApartInv == Apart /\ RoomToCreate /\ NoRevival

\* Writes to the leaves that make none active.
LEMMA NoneMadeActive ==
    ASSUME Apart, DOMAIN leave' = DOMAIN leave,
           \A j \in DOMAIN leave :
             /\ leave'[j].from = leave[j].from /\ leave'[j].to = leave[j].to
             /\ Active(leave'[j]) => Active(leave[j])
    PROVE  /\ Apart'
           /\ RoomToCreate /\ UNCHANGED device => RoomToCreate'
<1>1. Apart'
  BY DEF Apart, Overlaps
<1>2. ASSUME RoomToCreate, UNCHANGED device PROVE RoomToCreate'
  BY <1>2 DEF RoomToCreate, Overlaps
<1> QED BY <1>1, <1>2

\* A step that leaves the leaves also leaves them apart.
LEMMA SameLeaves ==
    ASSUME ApartInv, UNCHANGED leave
    PROVE  /\ Apart'
           /\ UNCHANGED device => RoomToCreate'
           /\ UNCHANGED admin => NoRevival'
<1>1. Apart' /\ (UNCHANGED device => RoomToCreate')
  BY NoneMadeActive DEF ApartInv
<1> QED BY <1>1 DEF ApartInv, NoRevival

\* An employee asks for a leave only where there is room.
LEMMA DeviceApart ==
    ASSUME OneAtATime, LeaveInv, ApartInv, NEW d \in Devices, DeviceStep(d)
    PROVE  ApartInv'
<1>1. /\ device \in [Devices -> DeviceTask] /\ leave \in Seq(Leave)
      /\ \A c \in Devices : c = d
  BY DEF OneAtATime, LeaveInv, Requests
<1>2. ASSUME NEW from \in DayRange, NEW to \in DayRange, NEW type \in Types,
             RequestRead(d, from, to, type)
      PROVE  ApartInv'
  <2>1. UNCHANGED <<leave, admin>>
    BY <1>2 DEF RequestRead
  <2>2. RoomToCreate'
    BY <1>1, <1>2 DEF RequestRead, RoomToCreate, Overlaps
  <2> QED BY <2>1, <2>2, SameLeaves DEF ApartInv
<1>3. CASE RequestCreate(d)
  <2> DEFINE l == [from |-> device[d].from, to |-> device[d].to,
                   type |-> device[d].type, status |-> "PENDING",
                   approved |-> FALSE]
  <2>1. /\ leave' = Append(leave, l) /\ l.from = device[d].from
        /\ l.to = device[d].to /\ l.from \in Int /\ l.to \in Int
        /\ UNCHANGED admin
    <3>1. device[d] \in DeviceTask /\ LastDay \in Nat
      BY <1>1, ConstantsAssumption
    <3>2. device[d].from \in 0 .. LastDay /\ device[d].to \in 0 .. LastDay
      BY <3>1 DEF DeviceTask, DayRange
    <3> QED BY <1>3, <3>1, <3>2 DEF RequestCreate
  <2> HIDE DEF l
  <2>2. /\ DOMAIN leave' = DOMAIN leave \cup {Len(leave) + 1}
        /\ Len(leave) + 1 \notin DOMAIN leave
        /\ leave'[Len(leave) + 1] = l
        /\ \A i \in DOMAIN leave : leave'[i] = leave[i]
    BY <1>1, <2>1
  <2>3. \A i \in DOMAIN leave : Active(leave[i]) =>
          ~Overlaps(leave[i], l.from, l.to)
    BY <1>3, <2>1 DEF RequestCreate, ApartInv, RoomToCreate
  <2>4. \A i \in DOMAIN leave : leave[i].from \in Int /\ leave[i].to \in Int
    BY LeaveTyped, ConstantsAssumption DEF LeaveInv, DayRange
  <2>5. \A i \in DOMAIN leave : Active(leave[i]) =>
          ~Overlaps(l, leave[i].from, leave[i].to)
    BY <2>1, <2>3, <2>4 DEF Overlaps
  <2>6. Apart'
    BY <2>2, <2>3, <2>5 DEF ApartInv, Apart
  <2>7. RoomToCreate'
    BY <1>1, <1>3, IdleTyped DEF RequestCreate, RoomToCreate
  <2>8. NoRevival'
    BY <2>1, <2>2 DEF LeaveInv, Decisions, ApartInv, NoRevival
  <2> QED BY <2>6, <2>7, <2>8 DEF ApartInv
<1>4. ASSUME NEW i \in DOMAIN leave, CancelRead(d, i) PROVE ApartInv'
  <2>1. UNCHANGED <<leave, admin>>
    BY <1>4 DEF CancelRead
  <2>2. device'[d].pc = "delete"
    BY <1>1, <1>4 DEF CancelRead, DeviceTask
  <2>3. RoomToCreate'
    BY <1>1, <2>2 DEF RoomToCreate
  <2> QED BY <2>1, <2>3, SameLeaves DEF ApartInv
<1>5. CASE CancelDelete(d)
  <2> DEFINE i == device[d].id
             l == [leave[i] EXCEPT !.status = "DELETED"]
  <2>1. /\ leave' = [leave EXCEPT ![i] = l] /\ i \in DOMAIN leave
        /\ UNCHANGED admin
    BY <1>5 DEF CancelDelete, LeaveInv, Requests
  <2>2. /\ l.from = leave[i].from /\ l.to = leave[i].to
        /\ l.status = "DELETED" /\ l \in Leave
    BY <2>1, LeaveTyped DEF LeaveInv, Leave
  <2> HIDE DEF i, l
  <2>3. /\ DOMAIN leave' = DOMAIN leave
        /\ \A j \in DOMAIN leave :
              /\ leave'[j] = IF j = i THEN l ELSE leave[j]
              /\ leave'[j].from = leave[j].from /\ leave'[j].to = leave[j].to
    BY <2>1, <2>2, LeaveUpdated DEF LeaveInv
  <2>4. Apart'
    BY <2>2, <2>3, NoneMadeActive DEF ApartInv, Active
  <2>5. RoomToCreate'
    BY <1>1, <1>5, IdleTyped DEF CancelDelete, RoomToCreate
  <2>6. NoRevival'
    BY <2>1, <2>2, <2>3 DEF LeaveInv, Decisions, ApartInv, NoRevival
  <2> QED BY <2>4, <2>5, <2>6 DEF ApartInv
<1> QED BY <1>2, <1>3, <1>4, <1>5 DEF DeviceStep

\* An admin alone does not bring a rejected leave back over a new one.
LEMMA AdminApart ==
    ASSUME OneAtATime, LeaveInv, ApartInv, NEW a \in Admins, AdminStep(a)
    PROVE  ApartInv'
<1>1. /\ admin \in [Admins -> AdminTask] /\ \A b \in Admins : b = a
      /\ UNCHANGED device
  BY DEF OneAtATime, LeaveInv, Decisions, AdminStep, DecideRead, DecideWrite,
         InitializeStart, InitializeRead, InitializeCreate
<1>2. ASSUME NEW i \in DOMAIN leave, NEW verdict \in Verdicts,
             DecideRead(a, i, verdict)
      PROVE  ApartInv'
  <2>1. UNCHANGED leave /\ leave[i].status = "PENDING" /\ admin'[a].id = i
    BY <1>1, <1>2 DEF DecideRead, Decidable, AdminTask
  <2>2. NoRevival'
    BY <1>1, <2>1 DEF NoRevival
  <2> QED BY <1>1, <2>1, <2>2, SameLeaves DEF ApartInv
<1>3. CASE DecideWrite(a)
  <2> DEFINE i == admin[a].id
             v == admin[a].verdict
             r == [leave[i] EXCEPT !.status = v]
             l == [r EXCEPT !.approved = @ \/ v = "APPROVED"]
  <2>1. /\ i \in DOMAIN leave /\ leave[i].status \in {"PENDING", "DELETED"}
        /\ leave[i] \in Leave
    BY <1>3, LeaveTyped DEF DecideWrite, LeaveInv, Decisions, ApartInv, NoRevival
  <2>2. NoRevival'
    BY <1>1, <1>3, IdleTyped DEF DecideWrite, NoRevival
  <2>3. CASE leave[i].status = "DELETED"
    <3>1. UNCHANGED leave
      BY <1>3, <2>3 DEF DecideWrite
    <3> QED BY <1>1, <2>2, <3>1, SameLeaves DEF ApartInv
  <2>4. CASE leave[i].status = "PENDING"
    <3>1. /\ DOMAIN leave' = DOMAIN leave
          /\ \A j \in DOMAIN leave : j # i => leave'[j] = leave[j]
          /\ leave'[i].from = leave[i].from /\ leave'[i].to = leave[i].to
      BY <1>3, <2>1, <2>4 DEF DecideWrite, LeaveInv, Requests, Leave
    <3>2. Apart' /\ RoomToCreate'
      BY <1>1, <2>4, <3>1, NoneMadeActive DEF ApartInv, Active
    <3> QED BY <2>2, <3>2 DEF ApartInv
  <2> QED BY <2>1, <2>3, <2>4
<1>4. ASSUME \/ \E y \in Years : InitializeStart(a, y)
             \/ InitializeRead(a) \/ InitializeCreate(a)
      PROVE  ApartInv'
  <2>1. UNCHANGED leave
    BY <1>4 DEF InitializeStart, InitializeRead, InitializeCreate
  <2>2. admin'[a].pc # "decide"
    <3>1. ASSUME NEW y \in Years, InitializeStart(a, y)
          PROVE  admin'[a].pc = "read"
      BY <1>1, <3>1 DEF InitializeStart, AdminTask
    <3>2. CASE InitializeRead(a)
      BY <1>1, <3>2, IdleTyped DEF InitializeRead, AdminTask
    <3>3. CASE InitializeCreate(a)
      BY <1>1, <3>3, IdleTyped DEF InitializeCreate
    <3> QED BY <1>4, <3>1, <3>2, <3>3
  <2>3. NoRevival'
    BY <1>1, <2>2 DEF NoRevival
  <2> QED BY <1>1, <2>1, <2>3, SameLeaves DEF ApartInv
<1> QED BY <1>2, <1>3, <1>4 DEF AdminStep

LEMMA ApartStep ==
    ASSUME OneAtATime, LeaveInv, ApartInv, [Next]_vars PROVE ApartInv'
<1>1. ASSUME UNCHANGED <<leave, device, admin>> PROVE ApartInv'
  BY <1>1, SameLeaves DEF ApartInv
<1>2. ASSUME NEW h \in hooks, HookStep(h) \/ HookFails(h)
      PROVE  UNCHANGED <<leave, device, admin>>
  BY <1>2 DEF HookStep, HookFlag, HookBalance, HookWrite, HookFails
<1>3. ASSUME NEW y \in Years, NEW number, NEW field, Adjust(y, field, number)
      PROVE  UNCHANGED <<leave, device, admin>>
  BY <1>3 DEF Adjust
<1>4. ASSUME NEW new, ChangePolicy(new) PROVE UNCHANGED <<leave, device, admin>>
  BY <1>4 DEF ChangePolicy
<1>5. CASE UNCHANGED vars
  BY <1>1, <1>5 DEF vars
<1> QED BY <1>1, <1>2, <1>3, <1>4, <1>5, DeviceApart, AdminApart DEF Next

LEMMA ApartInit == Init => ApartInv
BY IdleTyped DEF Init, ApartInv, Apart, RoomToCreate, NoRevival

LEMMA ApartNoOverlap == LeaveInv /\ ApartInv => NoOverlap
<1> SUFFICES ASSUME LeaveInv, ApartInv, NEW i \in DOMAIN leave,
                    NEW j \in DOMAIN leave, i # j,
                    Active(leave[i]), Active(leave[j])
             PROVE  (leave[i].from .. leave[i].to)
                      \cap (leave[j].from .. leave[j].to) = {}
  BY DEF NoOverlap
<1>1. ~Overlaps(leave[i], leave[j].from, leave[j].to)
  BY DEF ApartInv, Apart
<1>2. /\ leave[i].from \in Int /\ leave[i].to \in Int
      /\ leave[j].from \in Int /\ leave[j].to \in Int
  BY LeaveTyped, ConstantsAssumption DEF LeaveInv, DayRange
<1> QED BY <1>1, <1>2 DEF Overlaps

\* If the employee sends one request at a time and one admin works, no day ever
\* belongs to two leaves that are pending or approved, for any number of leaves
\* and days and whatever is decided, cancelled and created in between.
THEOREM LeavesApart == OneAtATime => (Spec => []NoOverlap)
<1> SUFFICES ASSUME OneAtATime PROVE Spec => []NoOverlap
  OBVIOUS
<1>1. LeaveInv /\ ApartInv /\ [Next]_vars => ApartInv'
  BY ApartStep
<1> QED BY <1>1, LeaveInvariant, ApartInit, ApartNoOverlap, PTL DEF Spec

-----------------------------------------------------------------------------
(* Charges *)

OneAdmin == \A a, b \in Admins : a = b

\* Leaves are only added, and keep their days and type.
LeavesKept ==
    /\ Requests /\ Requests' /\ DOMAIN leave \subseteq DOMAIN leave'
    /\ \A i \in DOMAIN leave :
         /\ leave'[i].from = leave[i].from /\ leave'[i].to = leave[i].to
         /\ leave'[i].type = leave[i].type
         /\ leave[i].approved => leave'[i].approved

\* A leave lasts some days.
LEMMA LeaveLasts ==
    ASSUME NEW l \in Leave, l.from <= l.to
    PROVE  DurationDays(l) \in Nat
BY ConstantsAssumption DEF Leave, DayRange, DurationDays

\* A leave keeps its days.
LEMMA DaysKept ==
    ASSUME LeavesKept, NEW i \in DOMAIN leave
    PROVE  /\ i \in DOMAIN leave'
           /\ DurationDays(leave'[i]) = DurationDays(leave[i])
           /\ DurationDays(leave[i]) \in Nat
           /\ StartYear(leave'[i]) = StartYear(leave[i])
BY LeaveTyped DEF LeavesKept, DurationDays, StartYear

\* The approved days of a year are a number, and only grow; a leave that is
\* approved adds its days.
LEMMA ApprovedGrows ==
    ASSUME LeavesKept, NEW y
    PROVE  /\ ApprovedDays(y) \in Nat /\ ApprovedDays(y)' \in Nat
           /\ ApprovedDays(y) <= ApprovedDays(y)'
           /\ \A i \in DOMAIN leave :
                i \in ApprovedIn(y)' \ ApprovedIn(y) =>
                   ApprovedDays(y) + DurationDays(leave[i]) <= ApprovedDays(y)'
<1>1. PICK v : v = [i \in DOMAIN leave |-> DurationDays(leave[i])]
  OBVIOUS
<1>2. PICK w : w = [i \in DOMAIN leave' |-> DurationDays(leave'[i])]
  OBVIOUS
<1>3. PICK S : S = ApprovedIn(y)
  OBVIOUS
<1>4. PICK T : T = ApprovedIn(y)'
  OBVIOUS
<1>5. /\ ApprovedDays(y) = SumFunctionOnSet(v, S)
      /\ ApprovedDays(y)' = SumFunctionOnSet(w, T)
  BY <1>1, <1>2, <1>3, <1>4 DEF ApprovedDays
<1>6. S \subseteq T /\ T \subseteq DOMAIN leave' /\ S \subseteq DOMAIN leave
  BY <1>3, <1>4, DaysKept DEF ApprovedIn, LeavesKept
<1>7. IsFiniteSet(DOMAIN leave')
  <2>1. DOMAIN leave' = 1 .. Len(leave') /\ Len(leave') \in Nat
    BY DEF LeavesKept, Requests
  <2> QED BY <2>1, FS_Interval
<1>8. IsFiniteSet(T) /\ IsFiniteSet(S)
  BY <1>6, <1>7, FS_Subset
<1>9. /\ \A i \in T : w[i] \in Nat
      /\ \A i \in DOMAIN leave : v[i] \in Nat /\ v[i] = w[i]
                                 /\ v[i] = DurationDays(leave[i])
  <2>1. \A i \in DOMAIN leave' : DurationDays(leave'[i]) \in Nat
    BY LeaveLasts DEF LeavesKept, Requests
  <2>2. \A i \in DOMAIN leave : i \in DOMAIN leave'
          /\ DurationDays(leave'[i]) = DurationDays(leave[i])
          /\ DurationDays(leave[i]) \in Nat
    BY DaysKept
  <2> QED BY <1>1, <1>2, <1>6, <2>1, <2>2
<1>10. SumFunctionOnSet(v, S) = SumFunctionOnSet(w, S)
  BY <1>6, <1>8, <1>9, SumSame
<1>11. /\ SumFunctionOnSet(w, S) \in Nat /\ SumFunctionOnSet(w, T) \in Nat
       /\ SumFunctionOnSet(w, S) <= SumFunctionOnSet(w, T)
  BY <1>6, <1>8, <1>9, SumType, SumOfPart
<1>12. ASSUME NEW i \in DOMAIN leave, i \in T \ S
       PROVE  SumFunctionOnSet(w, S) + v[i] <= SumFunctionOnSet(w, T)
  <2>1. SumFunctionOnSet(w, S \cup {i}) = w[i] + SumFunctionOnSet(w, S)
    BY <1>6, <1>8, <1>9, <1>12, SumAdd
  <2>2. SumFunctionOnSet(w, S \cup {i}) <= SumFunctionOnSet(w, T)
    BY <1>6, <1>8, <1>9, <1>12, SumOfPart
  <2>3. SumFunctionOnSet(w, S \cup {i}) \in Nat
    BY <1>9, <1>11, <1>12, <2>1
  <2> QED BY <1>9, <1>11, <1>12, <2>1, <2>2, <2>3
<1> QED BY <1>3, <1>4, <1>5, <1>9, <1>10, <1>11, <1>12

\* What a part of the approving hooks adds bounds what is added after a step
\* that leaves this part, or one more hook.
LEMMA ToAddParts ==
    ASSUME LeavesKept, HooksKnown, HooksKnown', IsFiniteSet(hooks), IsFiniteSet(hooks'),
           NEW y, NEW R \in SUBSET ToAddIn(y)
    PROVE  /\ DaysToAdd(y) \in Nat /\ DaysToAdd(y)' \in Nat
           /\ \E part \in Nat :
                /\ part <= DaysToAdd(y)
                /\ \A h \in ToAddIn(y) \ R :
                     part + DurationDays(leave[h.id]) <= DaysToAdd(y)
                /\ ToAddIn(y)' \subseteq R => DaysToAdd(y)' <= part
                /\ \A k \in hooks' : ToAddIn(y)' \subseteq R \cup {k} =>
                     DaysToAdd(y)' <= part + DurationDays(leave'[k.id])
<1>1. PICK u : u = [h \in hooks |-> DurationDays(leave[h.id])]
  OBVIOUS
<1>2. PICK v : v = [h \in hooks' |-> DurationDays(leave'[h.id])]
  OBVIOUS
<1>3. PICK w : w = [h \in hooks \cup hooks' |-> DurationDays(leave'[h.id])]
  OBVIOUS
<1>4. PICK S : S = ToAddIn(y)
  OBVIOUS
<1>5. PICK T : T = ToAddIn(y)'
  OBVIOUS
<1>6. /\ DaysToAdd(y) = SumFunctionOnSet(u, S)
      /\ DaysToAdd(y)' = SumFunctionOnSet(v, T)
  BY <1>1, <1>2, <1>4, <1>5 DEF DaysToAdd
<1>7. /\ S \subseteq hooks /\ T \subseteq hooks' /\ R \subseteq S
      /\ IsFiniteSet(S) /\ IsFiniteSet(T) /\ IsFiniteSet(R)
  <2>1. S \subseteq hooks /\ T \subseteq hooks' /\ R \subseteq S
    BY <1>4, <1>5 DEF ToAddIn
  <2> QED BY <2>1, FS_Subset
<1>8. /\ \A h \in hooks \cup hooks' : w[h] = DurationDays(leave'[h.id]) /\ w[h] \in Nat
      /\ \A h \in hooks : u[h] = w[h] /\ w[h] = DurationDays(leave[h.id])
      /\ \A h \in hooks' : v[h] = w[h]
  <2>1. \A i \in DOMAIN leave' : DurationDays(leave'[i]) \in Nat
    BY LeaveLasts DEF LeavesKept, Requests
  <2>2. \A h \in hooks : h.id \in DOMAIN leave
                         /\ DurationDays(leave'[h.id]) = DurationDays(leave[h.id])
    BY DaysKept DEF HooksKnown
  <2>3. \A h \in hooks \cup hooks' : h.id \in DOMAIN leave'
    BY DEF HooksKnown, LeavesKept
  <2> QED BY <1>1, <1>2, <1>3, <2>1, <2>2, <2>3
<1>9. /\ SumFunctionOnSet(u, S) = SumFunctionOnSet(w, S)
      /\ SumFunctionOnSet(v, T) = SumFunctionOnSet(w, T)
  BY <1>7, <1>8, SumSame
<1>10. /\ \A h \in S : w[h] \in Nat
       /\ \A h \in T : w[h] \in Nat
       /\ \A h \in R : w[h] \in Nat
  BY <1>7, <1>8
<1>11. /\ SumFunctionOnSet(w, S) \in Nat /\ SumFunctionOnSet(w, T) \in Nat
       /\ SumFunctionOnSet(w, R) \in Nat
       /\ SumFunctionOnSet(w, R) <= SumFunctionOnSet(w, S)
  BY <1>7, <1>10, SumType, SumOfPart
<1>12. ASSUME NEW h \in S \ R
       PROVE  SumFunctionOnSet(w, R) + DurationDays(leave[h.id]) <= SumFunctionOnSet(w, S)
  <2>1. SumFunctionOnSet(w, R \cup {h}) = w[h] + SumFunctionOnSet(w, R)
    BY <1>7, <1>10, SumAdd
  <2>2. SumFunctionOnSet(w, R \cup {h}) <= SumFunctionOnSet(w, S)
    BY <1>7, <1>10, SumOfPart
  <2>3. w[h] = DurationDays(leave[h.id]) /\ w[h] \in Nat
    BY <1>7, <1>8
  <2> QED BY <1>11, <2>1, <2>2, <2>3
<1>13. T \subseteq R => SumFunctionOnSet(w, T) <= SumFunctionOnSet(w, R)
  BY <1>7, <1>10, SumOfPart
<1>14. ASSUME NEW k \in hooks', T \subseteq R \cup {k}
       PROVE  SumFunctionOnSet(w, T) <= SumFunctionOnSet(w, R) + DurationDays(leave'[k.id])
  <2>1. w[k] \in Nat /\ w[k] = DurationDays(leave'[k.id])
    BY <1>8
  <2>2. IsFiniteSet({k}) /\ IsFiniteSet(R \cup {k})
    BY <1>7, FS_Singleton, FS_Union
  <2>3. SumFunctionOnSet(w, R \cup {k}) <= SumFunctionOnSet(w, R) + SumFunctionOnSet(w, {k})
    BY <1>7, <1>10, <2>1, <2>2, SumOfBoth
  <2>4. SumFunctionOnSet(w, {k}) = w[k]
    BY <2>1, SumOfOne
  <2>5. SumFunctionOnSet(w, T) <= SumFunctionOnSet(w, R \cup {k})
    BY <1>10, <1>14, <2>1, <2>2, SumOfPart
  <2>6. SumFunctionOnSet(w, R \cup {k}) \in Nat
    BY <1>10, <2>1, <2>2, SumType
  <2> QED BY <1>11, <2>1, <2>3, <2>4, <2>5, <2>6
<1> DEFINE part == SumFunctionOnSet(w, R)
<1>15. /\ part \in Nat /\ part <= DaysToAdd(y)
       /\ \A h \in ToAddIn(y) \ R : part + DurationDays(leave[h.id]) <= DaysToAdd(y)
       /\ ToAddIn(y)' \subseteq R => DaysToAdd(y)' <= part
       /\ \A k \in hooks' : ToAddIn(y)' \subseteq R \cup {k} =>
             DaysToAdd(y)' <= part + DurationDays(leave'[k.id])
  BY <1>4, <1>5, <1>6, <1>9, <1>11, <1>12, <1>13, <1>14
<1> HIDE DEF part
<1> QED BY <1>6, <1>9, <1>11, <1>15

\* The frame of the proof: what the rows and hooks are before and after.
Kept == LeaveInv /\ LeaveInv' /\ LeavesKept /\ IsFiniteSet(hooks) /\ IsFiniteSet(hooks')

\* So does the leave of a hook.
LEMMA YearKept ==
    ASSUME Kept, NEW y, NEW h, h.id \in DOMAIN leave
    PROVE  /\ leave'[h.id].type = leave[h.id].type
           /\ StartYear(leave'[h.id]) = StartYear(leave[h.id])
           /\ DurationDays(leave'[h.id]) = DurationDays(leave[h.id])
           /\ DurationDays(leave[h.id]) \in Nat
BY DaysKept DEF Kept, LeavesKept

\* A hook that is gone has no days to add any more.
LEMMA ToAddFewer ==
    ASSUME Kept, hooks' \subseteq hooks, NEW y
    PROVE  /\ DaysToAdd(y) \in Nat /\ DaysToAdd(y)' \in Nat
           /\ DaysToAdd(y)' <= DaysToAdd(y)
           /\ \A h \in ToAddIn(y) \ hooks' :
                DaysToAdd(y)' + DurationDays(leave[h.id]) <= DaysToAdd(y)
<1>1. HooksKnown /\ HooksKnown' /\ LeavesKept
  BY DEF Kept, LeaveInv
<1>2. ToAddIn(y)' \subseteq ToAddIn(y)
  BY <1>1, YearKept DEF ToAddIn, HooksKnown
<1>3. /\ DaysToAdd(y) \in Nat /\ DaysToAdd(y)' \in Nat
      /\ DaysToAdd(y)' <= DaysToAdd(y)
  <2>1. PICK R \in SUBSET ToAddIn(y) : R = ToAddIn(y)
    OBVIOUS
  <2> QED BY <1>1, <1>2, <2>1, ToAddParts DEF Kept
<1>4. ASSUME NEW h \in ToAddIn(y) \ hooks'
      PROVE  DaysToAdd(y)' + DurationDays(leave[h.id]) <= DaysToAdd(y)
  <2>1. PICK R \in SUBSET ToAddIn(y) : R = ToAddIn(y) \ {h}
    OBVIOUS
  <2>2. ToAddIn(y)' \subseteq R /\ h \in ToAddIn(y) \ R
    BY <1>2, <2>1 DEF ToAddIn
  <2>3. h \in hooks /\ DurationDays(leave[h.id]) \in Nat
    BY <1>1, YearKept DEF ToAddIn, HooksKnown
  <2>4. PICK part \in Nat : /\ part + DurationDays(leave[h.id]) <= DaysToAdd(y)
                            /\ DaysToAdd(y)' <= part
    BY <1>1, <2>2, ToAddParts DEF Kept
  <2> QED BY <1>3, <2>3, <2>4
<1> QED BY <1>3, <1>4

\* A hook that goes on has no more days to add than before.
LEMMA ToAddReplaced ==
    ASSUME Kept, NEW h \in hooks, NEW k, k.id = h.id, k.verdict = h.verdict,
           hooks' = (hooks \ {h}) \cup {k}, NEW y
    PROVE  /\ DaysToAdd(y) \in Nat /\ DaysToAdd(y)' \in Nat
           /\ DaysToAdd(y)' <= DaysToAdd(y)
<1>1. HooksKnown /\ HooksKnown' /\ LeavesKept /\ k \in hooks'
  BY DEF Kept, LeaveInv
<1>2. \A g \in hooks : g \in ToAddIn(y)' => g \in ToAddIn(y)
  BY <1>1, YearKept DEF ToAddIn, HooksKnown
<1>3. k \in ToAddIn(y)' => h \in ToAddIn(y)
  BY <1>1, YearKept DEF ToAddIn, HooksKnown
<1>4. ToAddIn(y)' \subseteq (ToAddIn(y) \ {h}) \cup {k}
  BY <1>2 DEF ToAddIn
<1>5. PICK R \in SUBSET ToAddIn(y) : R = ToAddIn(y) \ {h}
  OBVIOUS
<1>6. DurationDays(leave'[k.id]) = DurationDays(leave[h.id])
      /\ DurationDays(leave[h.id]) \in Nat
  BY <1>1, YearKept DEF HooksKnown
<1>7. CASE h \in ToAddIn(y)
  <2>1. PICK part \in Nat :
          /\ part + DurationDays(leave[h.id]) <= DaysToAdd(y)
          /\ DaysToAdd(y)' <= part + DurationDays(leave'[k.id])
    BY <1>1, <1>4, <1>5, <1>7, ToAddParts DEF Kept
  <2> QED BY <1>1, <1>5, <1>6, <2>1, ToAddParts DEF Kept
<1>8. CASE h \notin ToAddIn(y)
  <2>1. ToAddIn(y)' \subseteq R
    BY <1>3, <1>4, <1>5, <1>8
  <2> QED BY <1>1, <2>1, ToAddParts DEF Kept
<1> QED BY <1>7, <1>8

\* A new hook has the days of its leave to add, if any.
LEMMA ToAddMore ==
    ASSUME Kept, NEW k, hooks' = hooks \cup {k}, NEW y
    PROVE  /\ DaysToAdd(y) \in Nat /\ DaysToAdd(y)' \in Nat
           /\ k \notin ToAddIn(y)' => DaysToAdd(y)' <= DaysToAdd(y)
           /\ DaysToAdd(y)' <= DaysToAdd(y) + DurationDays(leave'[k.id])
<1>1. HooksKnown /\ HooksKnown' /\ LeavesKept /\ k \in hooks'
  BY DEF Kept, LeaveInv
<1>2. \A g \in hooks : g \in ToAddIn(y)' => g \in ToAddIn(y)
  BY <1>1, YearKept DEF ToAddIn, HooksKnown
<1>3. PICK R \in SUBSET ToAddIn(y) : R = ToAddIn(y)
  OBVIOUS
<1>4. ToAddIn(y)' \subseteq R \cup {k} /\ (k \notin ToAddIn(y)' => ToAddIn(y)' \subseteq R)
  BY <1>2, <1>3 DEF ToAddIn
<1>5. DurationDays(leave'[k.id]) \in Nat
  BY <1>1, LeaveLasts DEF LeavesKept, Requests, HooksKnown
<1>6. PICK part \in Nat :
        /\ part <= DaysToAdd(y)
        /\ ToAddIn(y)' \subseteq R => DaysToAdd(y)' <= part
        /\ DaysToAdd(y)' <= part + DurationDays(leave'[k.id])
  BY <1>1, <1>4, ToAddParts DEF Kept
<1>7. DaysToAdd(y) \in Nat /\ DaysToAdd(y)' \in Nat
  BY <1>1, <1>3, ToAddParts DEF Kept
<1> QED BY <1>4, <1>5, <1>6, <1>7

\* A leave that waits for a decision has neither been approved nor charged; a
\* hook that goes on is for a tracked leave, and one about to write has found a
\* row; a row that is about to be created, or is missing, has used nothing.
Fresh ==
    \A i \in DOMAIN leave : leave[i].status = "PENDING" =>
        ~leave[i].approved /\ \A h \in hooks : h.id # i
HooksTracked ==
    \A h \in hooks :
        /\ h.pc \in {"balance", "write"} => leave[h.id].type = "TRACKED"
        /\ h.pc = "write" => balance[StartYear(leave[h.id])].exists
RowsUnused ==
    /\ \A a \in Admins : admin[a].pc \in {"read", "create"} => admin[a].row.used = 0
    /\ \A y \in Years : ~balance[y].exists =>
         balance[y].used = 0 /\ ~balance[y].adjusted
Books == IsFiniteSet(hooks) /\ NoRevival /\ Fresh /\ HooksTracked /\ RowsUnused

\* What a year has used, and what a rejection has read, fits with what hooks
\* have still to add into the days approved.
FitsIn(y, n) == n \in Nat /\ n + DaysToAdd(y) <= ApprovedDays(y)
Reads(h, y) == h.pc = "write" /\ h.verdict = "REJECTED" /\ StartYear(leave[h.id]) = y
Charges ==
    \A y \in Years : ~balance[y].adjusted =>
        /\ FitsIn(y, balance[y].used)
        /\ \A h \in hooks : Reads(h, y) => FitsIn(y, h.seen)
ChargeInv == Books /\ Charges

\* A step after which what hooks have to add has grown by no more than the
\* days approved.
LEMMA ChargesKept ==
    ASSUME Kept, Charges,
           \A y \in Years : /\ DaysToAdd(y) \in Nat /\ DaysToAdd(y)' \in Nat
                            /\ DaysToAdd(y)' + ApprovedDays(y)
                                 <= DaysToAdd(y) + ApprovedDays(y)',
           \A y \in Years : ~balance'[y].adjusted =>
              /\ ~balance[y].adjusted
              /\ \/ balance'[y].used <= balance[y].used
                 \/ \E h \in hooks : Reads(h, y) /\ balance'[y].used <= h.seen,
           \A h \in hooks', y \in Years : ~balance'[y].adjusted /\ Reads(h, y)' =>
              \/ h \in hooks /\ Reads(h, y)
              \/ h.seen = balance[y].used
    PROVE  Charges'
<1>1. /\ \A y \in Years : /\ ApprovedDays(y) \in Nat /\ ApprovedDays(y)' \in Nat
                          /\ ApprovedDays(y) <= ApprovedDays(y)'
      /\ \A y \in Years : ~balance'[y].adjusted =>
            balance[y].used \in Nat /\ balance'[y].used \in Nat
  <2>1. \A y \in Years : ~balance'[y].adjusted =>
          Untouched(balance[y]) /\ Untouched(balance[y])'
    BY DEF Kept, LeaveInv, Balances
  <2>2. \A y \in Years : ~balance'[y].adjusted =>
          balance[y].used \in Nat /\ balance'[y].used \in Nat
    BY <2>1 DEF Untouched
  <2>4. LeavesKept
    BY DEF Kept
  <2>5. ASSUME NEW y \in Years
        PROVE  /\ ApprovedDays(y) \in Nat /\ ApprovedDays(y)' \in Nat
               /\ ApprovedDays(y) <= ApprovedDays(y)'
    BY <2>4, ApprovedGrows
  <2> QED BY <2>2, <2>5
<1>2. ASSUME NEW y \in Years, NEW n \in Nat, FitsIn(y, n), NEW m \in Nat, m <= n
      PROVE  m + DaysToAdd(y)' <= ApprovedDays(y)'
  BY <1>1, <1>2 DEF FitsIn
<1>3. ASSUME NEW y \in Years, ~balance'[y].adjusted
      PROVE  FitsIn(y, balance[y].used) /\ FitsIn(y, balance[y].used)'
  <2>1. FitsIn(y, balance[y].used) /\ \A h \in hooks : Reads(h, y) => FitsIn(y, h.seen)
    BY <1>3 DEF Charges
  <2>2. PICK n \in Nat : FitsIn(y, n) /\ balance'[y].used <= n
    <3>1. CASE balance'[y].used <= balance[y].used
      BY <2>1, <3>1 DEF FitsIn
    <3>2. ASSUME NEW h \in hooks, Reads(h, y), balance'[y].used <= h.seen
          PROVE  \E n \in Nat : FitsIn(y, n) /\ balance'[y].used <= n
      BY <2>1, <3>2 DEF FitsIn
    <3> QED BY <1>3, <3>1, <3>2
  <2>3. PICK m : m = balance'[y].used
    OBVIOUS
  <2>4. m \in Nat /\ m <= n
    BY <1>1, <1>3, <2>2, <2>3
  <2>5. m + DaysToAdd(y)' <= ApprovedDays(y)'
    BY <1>2, <2>2, <2>4
  <2> QED BY <2>1, <2>3, <2>4, <2>5 DEF FitsIn
<1>4. ASSUME NEW y \in Years, ~balance'[y].adjusted, NEW h \in hooks', Reads(h, y)'
      PROVE  FitsIn(y, h.seen)'
  <2>1. PICK n \in Nat : n = h.seen /\ FitsIn(y, n)
    BY <1>1, <1>3, <1>4 DEF Charges, FitsIn
  <2>2. n + DaysToAdd(y)' <= ApprovedDays(y)'
    BY <1>2, <2>1
  <2> QED BY <2>1, <2>2 DEF FitsIn
<1> QED BY <1>3, <1>4 DEF Charges

\* What a decision writes: the leave's status, and that it has been approved.
LEMMA DecisionWritten ==
    ASSUME LeaveInv, NEW a \in Admins, DecideWrite(a),
           leave[admin[a].id].status # "DELETED"
    PROVE  LET i == admin[a].id IN
           /\ i \in DOMAIN leave /\ DOMAIN leave' = DOMAIN leave
           /\ \A j \in DOMAIN leave : j # i => leave'[j] = leave[j]
           /\ leave'[i].from = leave[i].from /\ leave'[i].to = leave[i].to
           /\ leave'[i].type = leave[i].type
           /\ leave'[i].status = admin[a].verdict
           /\ leave[i].approved => leave'[i].approved
           /\ leave'[i].approved <=> leave[i].approved \/ admin[a].verdict = "APPROVED"
<1> DEFINE i == admin[a].id
           v == admin[a].verdict
           r == [leave[i] EXCEPT !.status = v]
           b == leave[i].approved \/ v = "APPROVED"
           l == [r EXCEPT !.approved = b]
<1>1. i \in DOMAIN leave /\ leave[i] \in Leave /\ leave \in Seq(Leave)
      /\ leave[i].approved \in BOOLEAN /\ b \in BOOLEAN
  BY LeaveTyped DEF DecideWrite, LeaveInv, Decisions, Requests
<1>2. leave' = [leave EXCEPT ![i].status = v, ![i].approved = @ \/ v = "APPROVED"]
  BY DEF DecideWrite
<1>3. leave' = [leave EXCEPT ![i] = l]
  BY <1>1, <1>2 DEF Leave
<1> HIDE DEF b
<1>4. /\ l.from = leave[i].from /\ l.to = leave[i].to /\ l.type = leave[i].type
      /\ l.status = v /\ l.approved = b
  BY <1>1 DEF Leave
<1> HIDE DEF l
<1>5. /\ DOMAIN leave' = DOMAIN leave /\ leave'[i] = l
      /\ \A j \in DOMAIN leave : j # i => leave'[j] = leave[j]
  BY <1>1, <1>3
<1>6. leave'[i].approved = b
  BY <1>4, <1>5
<1> QED BY <1>1, <1>4, <1>5, <1>6 DEF b

\* A request adds a leave behind the others.
LEMMA RequestAppended ==
    ASSUME LeaveInv, NEW d \in Devices, RequestCreate(d)
    PROVE  /\ DOMAIN leave' = DOMAIN leave \cup {Len(leave) + 1}
           /\ Len(leave) + 1 \notin DOMAIN leave
           /\ ~leave'[Len(leave) + 1].approved
           /\ \A i \in DOMAIN leave : leave'[i] = leave[i]
<1> DEFINE l == [from |-> device[d].from, to |-> device[d].to,
                 type |-> device[d].type, status |-> "PENDING",
                 approved |-> FALSE]
<1>1. leave' = Append(leave, l) /\ ~l.approved /\ leave \in Seq(Leave)
  BY DEF RequestCreate, LeaveInv, Requests
<1> HIDE DEF l
<1> QED BY <1>1

\* A cancellation only marks its leave.
LEMMA CancelMarked ==
    ASSUME LeaveInv, NEW d \in Devices, CancelDelete(d)
    PROVE  /\ DOMAIN leave' = DOMAIN leave
           /\ \A i \in DOMAIN leave :
                /\ leave'[i].from = leave[i].from /\ leave'[i].to = leave[i].to
                /\ leave'[i].type = leave[i].type
                /\ leave'[i].approved = leave[i].approved
                /\ leave'[i].status \in {leave[i].status, "DELETED"}
<1> DEFINE i == device[d].id
           l == [leave[i] EXCEPT !.status = "DELETED"]
<1>1. i \in DOMAIN leave /\ Requests
  BY DEF CancelDelete, LeaveInv, Requests
<1>2. /\ l \in Leave /\ l.from = leave[i].from /\ l.to = leave[i].to
      /\ l.type = leave[i].type /\ l.approved = leave[i].approved
      /\ l.status = "DELETED"
  BY <1>1, LeaveTyped DEF Leave
<1>3. leave' = [leave EXCEPT ![i] = l]
  BY DEF CancelDelete
<1> HIDE DEF i, l
<1> QED BY <1>1, <1>2, <1>3 DEF Requests

\* The leaves change in three actions only.
LEMMA LeavesChange ==
    ASSUME LeaveInv, [Next]_vars
    PROVE  \/ UNCHANGED leave
           \/ \E d \in Devices : RequestCreate(d) \/ CancelDelete(d)
           \/ \E a \in Admins : DecideWrite(a) /\ leave[admin[a].id].status # "DELETED"
BY DEF Next, vars, DeviceStep, AdminStep, HookStep, RequestRead, CancelRead,
       DecideRead, DecideWrite, InitializeStart, InitializeRead, InitializeCreate,
       HookFlag, HookBalance, HookWrite, HookFails, Adjust, ChangePolicy

\* A step starts one hook at most.
LEMMA HooksGrowByOne ==
    ASSUME LeaveInv, [Next]_vars
    PROVE  \E k : hooks' \subseteq hooks \cup {k}
BY DEF Next, vars, DeviceStep, AdminStep, HookStep, RequestRead, CancelRead,
       RequestCreate, CancelDelete, HookEnds,
       DecideRead, DecideWrite, InitializeStart, InitializeRead, InitializeCreate,
       HookFlag, HookBalance, HookWrite, HookFails, Adjust, ChangePolicy

\* Every step keeps the leaves and their days.
LEMMA KeptStep ==
    ASSUME LeaveInv, IsFiniteSet(hooks), [Next]_vars PROVE Kept
<1>1. LeaveInv'
  BY LeaveStep
<1>2. IsFiniteSet(hooks')
  <2>1. PICK k : hooks' \subseteq hooks \cup {k}
    BY HooksGrowByOne
  <2> QED BY <2>1, FS_AddElement, FS_Subset
<1>3. LeavesKept
  <2> SUFFICES /\ DOMAIN leave \subseteq DOMAIN leave'
               /\ \A i \in DOMAIN leave :
                    /\ leave'[i].from = leave[i].from /\ leave'[i].to = leave[i].to
                    /\ leave'[i].type = leave[i].type
                    /\ leave[i].approved => leave'[i].approved
    BY <1>1 DEF LeaveInv, LeavesKept
  <2> QED BY LeavesChange, DecisionWritten, RequestAppended, CancelMarked
<1> QED BY <1>1, <1>2, <1>3 DEF Kept

-----------------------------------------------------------------------------
(* The steps *)

\* An adjustment marks its row.
LEMMA AdjustWrites ==
    ASSUME LeaveInv, NEW y \in Years, NEW number, NEW field \in
             {"entitlement", "carried", "used"}, Adjust(y, field, number), NEW z \in Years
    PROVE  /\ balance[y].exists /\ balance'[y].exists /\ balance'[y].adjusted
           /\ z # y => balance'[z] = balance[z]
<1> DEFINE r == [balance[y] EXCEPT !.adjusted = TRUE]
           b == [r EXCEPT ![field] = number]
<1>1. balance[y] \in Balance /\ balance[y].exists
  BY BalanceTyped DEF LeaveInv, Adjust
<1>2. r.adjusted /\ r.exists /\ DOMAIN r = DOMAIN balance[y]
  BY <1>1 DEF Balance
<1>3. balance' = [balance EXCEPT ![y] = b]
  BY DEF Adjust, LeaveInv, Balances
<1> HIDE DEF r
<1>4. b.adjusted /\ b.exists
  BY <1>1, <1>2 DEF Balance
<1> HIDE DEF b
<1> QED BY <1>1, <1>3, <1>4 DEF LeaveInv, Balances

\* A row is created where there is none.
LEMMA CreateWrites ==
    ASSUME LeaveInv, NEW a \in Admins, InitializeCreate(a), NEW z \in Years
    PROVE  \/ balance'[z] = balance[z]
           \/ /\ ~balance[z].exists /\ balance'[z] = admin[a].row
              /\ admin[a].pc = "create"
BY DEF InitializeCreate, LeaveInv, Balances

\* A hook writes the days used of its leave's year.
LEMMA HookWrites ==
    ASSUME LeaveInv, NEW h \in hooks, HookWrite(h), NEW z \in Years
    PROVE  /\ balance'[z].exists = balance[z].exists
           /\ balance'[z].adjusted = balance[z].adjusted
           /\ balance'[z].used = IF z = StartYear(leave[h.id])
                                   THEN UsedAfter(h, balance[z].used)
                                   ELSE balance[z].used
<1> DEFINE y == StartYear(leave[h.id])
           used == UsedAfter(h, balance[y].used)
           b == [balance[y] EXCEPT !.used = used]
<1>1. y \in Years /\ balance[y] \in Balance
  BY LeaveTyped, BalanceTyped DEF LeaveInv, HooksKnown
<1>2. balance' = [balance EXCEPT ![y] = b]
  BY <1>1 DEF HookWrite, LeaveInv, Balances
<1> HIDE DEF y, used
<1>3. b.exists = balance[y].exists /\ b.adjusted = balance[y].adjusted /\ b.used = used
  BY <1>1 DEF Balance
<1> HIDE DEF b
<1>4. /\ balance'[y] = b
      /\ z # y => balance'[z] = balance[z]
  BY <1>1, <1>2 DEF LeaveInv, Balances
<1>5. CASE z = y
  BY <1>3, <1>4, <1>5 DEF used, y
<1>6. CASE z # y
  BY <1>4, <1>6 DEF y
<1> QED BY <1>5, <1>6

\* The steps that change a balance.
LEMMA BalancesChange ==
    ASSUME LeaveInv, [Next]_vars
    PROVE  \/ UNCHANGED balance
           \/ \E a \in Admins : InitializeCreate(a)
           \/ \E h \in hooks : HookWrite(h)
           \/ \E y \in Years, field \in {"entitlement", "carried", "used"},
                 number \in Adjustments : Adjust(y, field, number)
BY DEF Next, vars, DeviceStep, AdminStep, HookStep, RequestRead, CancelRead,
       RequestCreate, CancelDelete, DecideRead, DecideWrite, InitializeStart,
       InitializeRead, HookFlag, HookBalance, HookFails, ChangePolicy

\* What a step does to a row: rows stay, a missing one has used nothing, and
\* without an adjustment only a hook changes the days used.
LEMMA RowsMove ==
    ASSUME LeaveInv, HooksTracked, RowsUnused, [Next]_vars, NEW y \in Years
    PROVE  /\ balance[y].exists => balance'[y].exists
           /\ ~balance'[y].exists => balance'[y].used = 0 /\ ~balance'[y].adjusted
           /\ ~balance'[y].adjusted =>
                /\ ~balance[y].adjusted
                /\ \/ balance'[y].used = balance[y].used
                   \/ \E h \in hooks :
                        /\ HookWrite(h) /\ StartYear(leave[h.id]) = y
                        /\ balance'[y].used = UsedAfter(h, balance[y].used)
<1>1. CASE UNCHANGED balance
  BY <1>1 DEF RowsUnused
<1>2. CASE \E a \in Admins : InitializeCreate(a)
  BY <1>2, CreateWrites DEF RowsUnused, LeaveInv, Decisions
<1>3. CASE \E h \in hooks : HookWrite(h)
  <2>1. PICK h \in hooks : HookWrite(h)
    BY <1>3
  <2>2. balance[StartYear(leave[h.id])].exists
    BY <2>1 DEF HookWrite, HooksTracked
  <2> QED BY <2>1, <2>2, HookWrites DEF RowsUnused
<1>4. CASE \E z \in Years, field \in {"entitlement", "carried", "used"},
             number \in Adjustments : Adjust(z, field, number)
  BY <1>4, AdjustWrites DEF RowsUnused
<1> QED BY <1>1, <1>2, <1>3, <1>4, BalancesChange

\* The row an admin is about to create has used nothing.
LEMMA AdminRowsStep ==
    ASSUME LeaveInv, RowsUnused, [Next]_vars, NEW b \in Admins,
           admin'[b].pc \in {"read", "create"}
    PROVE  admin'[b].row.used = 0
<1>1. /\ admin \in [Admins -> AdminTask]
      /\ \A a \in Admins : admin[a] \in AdminTask /\ admin[a].row \in Balance
      /\ \A a \in Admins : admin[a].pc \in {"read", "create"} => admin[a].row.used = 0
  BY DEF LeaveInv, Decisions, AdminTask, RowsUnused
<1>2. CASE UNCHANGED admin
  BY <1>1, <1>2
<1>3. ASSUME NEW a \in Admins, NEW i \in DOMAIN leave, NEW verdict \in Verdicts,
             DecideRead(a, i, verdict)
      PROVE  admin'[b].row.used = 0
  <2>1. admin'[a].pc = "decide"
    BY <1>1, <1>3 DEF DecideRead, AdminTask
  <2>2. b # a => admin'[b] = admin[b]
    BY <1>1, <1>3 DEF DecideRead
  <2> QED BY <1>1, <2>1, <2>2
<1>4. ASSUME NEW a \in Admins, DecideWrite(a) \/ InitializeCreate(a)
      PROVE  admin'[b].row.used = 0
  BY <1>1, <1>4, IdleTyped DEF DecideWrite, InitializeCreate
<1>5. ASSUME NEW a \in Admins, NEW y \in Years, InitializeStart(a, y)
      PROVE  admin'[b].row.used = 0
  <2>1. b # a => admin'[b] = admin[b]
    BY <1>1, <1>5 DEF InitializeStart
  <2>2. admin'[a].row = [NoBalance EXCEPT !.exists = TRUE,
                                          !.entitlement = policy.entitlement]
    BY <1>1, <1>5 DEF InitializeStart, AdminTask
  <2>3. admin'[a].row.used = 0
    BY <2>2 DEF NoBalance
  <2> QED BY <1>1, <2>1, <2>3
<1>6. ASSUME NEW a \in Admins, InitializeRead(a)
      PROVE  admin'[b].row.used = 0
  <2>1. b # a => admin'[b] = admin[b]
    BY <1>1, <1>6 DEF InitializeRead
  <2>2. \/ admin'[a] = IdleAdmin
        \/ \E n : admin'[a] = [admin[a] EXCEPT !.pc = "create", !.row.carried = n]
    BY <1>1, <1>6 DEF InitializeRead
  <2>3. ASSUME NEW n, admin'[a] = [admin[a] EXCEPT !.pc = "create", !.row.carried = n]
        PROVE  admin'[a].row.used = admin[a].row.used
    BY <1>1, <2>3 DEF AdminTask, Balance
  <2>4. admin[a].row.used = 0
    BY <1>1, <1>6 DEF InitializeRead
  <2> QED BY <1>1, <2>1, <2>2, <2>3, <2>4, IdleTyped
<1>7. \/ UNCHANGED admin
      \/ \E a \in Admins : AdminStep(a)
  BY DEF Next, vars, DeviceStep, HookStep, RequestRead, CancelRead, RequestCreate,
         CancelDelete, HookFlag, HookBalance, HookWrite, HookFails, Adjust, ChangePolicy
<1> QED BY <1>2, <1>3, <1>4, <1>5, <1>6, <1>7 DEF AdminStep

\* A step of a hook replaces it by one of the same leave, or ends it.
LEMMA HookMoves ==
    ASSUME LeaveInv, HooksTracked, NEW h \in hooks, HookStep(h) \/ HookFails(h)
    PROVE  /\ UNCHANGED <<leave, admin, device>>
           /\ \/ hooks' = hooks \ {h}
              \/ \E k : /\ hooks' = (hooks \ {h}) \cup {k} /\ UNCHANGED balance
                        /\ k.id = h.id /\ k.verdict = h.verdict
                        /\ leave[h.id].type = "TRACKED"
                        /\ \/ k.pc = "balance"
                           \/ /\ k.pc = "write"
                              /\ k.seen = balance[StartYear(leave[h.id])].used
                              /\ balance[StartYear(leave[h.id])].exists
<1>1. h \in Hook
  BY DEF LeaveInv, HooksKnown
<1>2. CASE HookFlag(h)
  <2>1. PICK k : k = [h EXCEPT !.pc = "balance"]
    OBVIOUS
  <2>2. k.id = h.id /\ k.verdict = h.verdict /\ k.pc = "balance"
    BY <1>1, <2>1 DEF Hook
  <2> QED BY <1>2, <2>1, <2>2 DEF HookFlag, HookEnds
<1>3. CASE HookBalance(h)
  <2>1. PICK n : n = balance[StartYear(leave[h.id])].used
    OBVIOUS
  <2>2. PICK k : k = [h EXCEPT !.pc = "write", !.seen = n]
    OBVIOUS
  <2>3. k.id = h.id /\ k.verdict = h.verdict /\ k.pc = "write" /\ k.seen = n
    BY <1>1, <2>2 DEF Hook
  <2>4. leave[h.id].type = "TRACKED"
    BY <1>3 DEF HookBalance, HooksTracked
  <2> QED BY <1>3, <2>1, <2>2, <2>3, <2>4 DEF HookBalance, HookEnds
<1>4. CASE HookWrite(h) \/ HookFails(h)
  BY <1>4 DEF HookWrite, HookFails, HookEnds
<1> QED BY <1>2, <1>3, <1>4 DEF HookStep

\* With one admin, nobody decides on a leave that another has decided.
LEMMA NoRevivalStep ==
    ASSUME OneAdmin, LeaveInv, NoRevival, [Next]_vars PROVE NoRevival'
<1>1. /\ admin \in [Admins -> AdminTask] /\ leave \in Seq(Leave)
      /\ \A a \in Admins : admin[a].pc = "decide" =>
           /\ admin[a].id \in DOMAIN leave
           /\ leave[admin[a].id].status \in {"PENDING", "DELETED"}
  BY DEF LeaveInv, Decisions, Requests, NoRevival
<1>2. CASE UNCHANGED <<leave, admin>>
  BY <1>2 DEF NoRevival
<1>3. ASSUME NEW d \in Devices, RequestCreate(d) PROVE NoRevival'
  BY <1>1, <1>3, RequestAppended DEF RequestCreate, NoRevival
<1>4. ASSUME NEW d \in Devices, CancelDelete(d) PROVE NoRevival'
  <2>1. UNCHANGED admin
    BY <1>4 DEF CancelDelete
  <2>2. \A i \in DOMAIN leave : leave'[i].status \in {leave[i].status, "DELETED"}
    BY <1>4, CancelMarked
  <2> QED BY <1>1, <2>1, <2>2 DEF NoRevival
<1>5. ASSUME NEW a \in Admins, AdminStep(a) PROVE NoRevival'
  <2>1. \A b \in Admins : b = a
    BY DEF OneAdmin
  <2>2. ASSUME NEW i \in DOMAIN leave, NEW verdict \in Verdicts,
               DecideRead(a, i, verdict)
        PROVE  NoRevival'
    <3>1. UNCHANGED leave /\ leave[i].status = "PENDING" /\ admin'[a].id = i
      BY <1>1, <2>2 DEF DecideRead, Decidable, AdminTask
    <3> QED BY <2>1, <3>1 DEF NoRevival
  <2>3. ASSUME \/ \E y \in Years : InitializeStart(a, y)
               \/ DecideWrite(a) \/ InitializeRead(a) \/ InitializeCreate(a)
        PROVE  admin'[a].pc # "decide"
    <3>1. ASSUME NEW y \in Years, InitializeStart(a, y)
          PROVE  admin'[a].pc = "read"
      BY <1>1, <3>1 DEF InitializeStart, AdminTask
    <3>2. CASE InitializeRead(a)
      BY <1>1, <3>2, IdleTyped DEF InitializeRead, AdminTask
    <3>3. CASE InitializeCreate(a) \/ DecideWrite(a)
      BY <1>1, <3>3, IdleTyped DEF InitializeCreate, DecideWrite
    <3> QED BY <2>3, <3>1, <3>2, <3>3
  <2> QED BY <1>5, <2>1, <2>2, <2>3 DEF AdminStep, NoRevival
<1>6. \/ UNCHANGED <<leave, admin>>
      \/ \E d \in Devices : RequestCreate(d) \/ CancelDelete(d)
      \/ \E a \in Admins : AdminStep(a)
  BY DEF Next, vars, DeviceStep, HookStep, RequestRead, CancelRead,
         HookFlag, HookBalance, HookWrite, HookFails, Adjust, ChangePolicy
<1> QED BY <1>2, <1>3, <1>4, <1>5, <1>6

\* The invariant about who reads and writes the balances is inductive.
LEMMA BooksStep ==
    ASSUME OneAdmin, LeaveInv, Books, [Next]_vars PROVE Books'
<1>1. /\ Kept /\ NoRevival /\ Fresh /\ HooksTracked /\ RowsUnused
      /\ LeavesKept /\ HooksKnown
  BY KeptStep DEF Books, Kept, LeaveInv
<1>2. RowsUnused'
  BY <1>1, RowsMove, AdminRowsStep DEF RowsUnused
<1>3. \A h \in hooks : /\ leave'[h.id].type = leave[h.id].type
                       /\ StartYear(leave'[h.id]) = StartYear(leave[h.id])
                       /\ StartYear(leave[h.id]) \in Years
  BY <1>1, YearKept, LeaveTyped DEF HooksKnown, LeaveInv
<1>4. ASSUME NEW h \in hooks
      PROVE  /\ h.pc \in {"balance", "write"} => leave'[h.id].type = "TRACKED"
             /\ h.pc = "write" => balance'[StartYear(leave'[h.id])].exists
  BY <1>1, <1>3, RowsMove DEF HooksTracked
<1>5. hooks' \subseteq hooks => HooksTracked'
  BY <1>4 DEF HooksTracked
<1>6. CASE UNCHANGED <<leave, hooks>>
  <2>1. Fresh'
    BY <1>1, <1>6 DEF Fresh
  <2> QED BY <1>1, <1>2, <1>5, <1>6, <2>1, NoRevivalStep DEF Books, Kept
<1>7. ASSUME NEW d \in Devices, RequestCreate(d) PROVE Books'
  <2>1. UNCHANGED hooks
    BY <1>7 DEF RequestCreate
  <2>2. Fresh'
    BY <1>1, <1>7, <2>1, RequestAppended DEF Fresh, HooksKnown
  <2> QED BY <1>1, <1>2, <1>5, <2>1, <2>2, NoRevivalStep DEF Books, Kept
<1>8. ASSUME NEW d \in Devices, CancelDelete(d) PROVE Books'
  <2>1. UNCHANGED hooks
    BY <1>8 DEF CancelDelete
  <2>2. /\ DOMAIN leave' = DOMAIN leave
        /\ \A i \in DOMAIN leave :
             /\ leave'[i].approved = leave[i].approved
             /\ leave'[i].status \in {leave[i].status, "DELETED"}
    BY <1>8, CancelMarked
  <2>3. Fresh'
    BY <1>1, <2>1, <2>2 DEF Fresh
  <2> QED BY <1>1, <1>2, <1>5, <2>1, <2>3, NoRevivalStep DEF Books, Kept
<1>9. ASSUME NEW a \in Admins, DecideWrite(a), leave[admin[a].id].status # "DELETED"
      PROVE  Books'
  <2> DEFINE i == admin[a].id
             k == [id |-> i, by |-> a, verdict |-> admin[a].verdict,
                   pc |-> "flag", seen |-> 0]
  <2>1. hooks' = hooks \cup {k} /\ k.id = i /\ k.pc = "flag"
    BY <1>9 DEF DecideWrite
  <2>2. admin[a].verdict \in Verdicts
    BY DEF LeaveInv, Decisions, AdminTask
  <2>3. /\ DOMAIN leave' = DOMAIN leave
        /\ \A j \in DOMAIN leave : j # i => leave'[j] = leave[j]
        /\ leave'[i].status \in Verdicts
    BY <1>9, <2>2, DecisionWritten
  <2> HIDE DEF i, k
  <2>4. Fresh'
    BY <1>1, <2>1, <2>3 DEF Fresh, Verdicts
  <2>5. HooksTracked'
    BY <1>4, <2>1 DEF HooksTracked
  <2> QED BY <1>1, <1>2, <2>4, <2>5, NoRevivalStep DEF Books, Kept
<1>10. ASSUME NEW h \in hooks, HookStep(h) \/ HookFails(h) PROVE Books'
  <2>1. /\ UNCHANGED leave
        /\ \/ hooks' = hooks \ {h}
           \/ \E k : /\ hooks' = (hooks \ {h}) \cup {k}
                     /\ k.id = h.id /\ leave[h.id].type = "TRACKED"
                     /\ \/ k.pc = "balance"
                        \/ /\ k.pc = "write" /\ UNCHANGED balance
                           /\ balance[StartYear(leave[h.id])].exists
    BY <1>1, <1>10, HookMoves
  <2>2. Fresh'
    BY <1>1, <2>1 DEF Fresh
  <2>3. HooksTracked'
    BY <1>4, <1>5, <2>1 DEF HooksTracked
  <2> QED BY <1>1, <1>2, <2>2, <2>3, NoRevivalStep DEF Books, Kept
<1>11. \/ UNCHANGED <<leave, hooks>>
       \/ \E d \in Devices : RequestCreate(d) \/ CancelDelete(d)
       \/ \E a \in Admins : DecideWrite(a) /\ leave[admin[a].id].status # "DELETED"
       \/ \E h \in hooks : HookStep(h) \/ HookFails(h)
  BY DEF Next, vars, DeviceStep, AdminStep, RequestRead, CancelRead,
         DecideRead, DecideWrite, InitializeStart, InitializeRead, InitializeCreate,
         Adjust, ChangePolicy
<1> QED BY <1>6, <1>7, <1>8, <1>9, <1>10, <1>11

\* The leaf of a step that adds nothing to the hooks' work.
LEMMA RoomKept ==
    ASSUME Kept, NEW y, DaysToAdd(y) \in Nat, DaysToAdd(y)' \in Nat,
           DaysToAdd(y)' <= DaysToAdd(y)
    PROVE  DaysToAdd(y)' + ApprovedDays(y) <= DaysToAdd(y) + ApprovedDays(y)'
<1>1. /\ ApprovedDays(y) \in Nat /\ ApprovedDays(y)' \in Nat
      /\ ApprovedDays(y) <= ApprovedDays(y)'
  BY ApprovedGrows DEF Kept
<1> QED BY <1>1

\* Hooks that stay read what they read.
LEMMA ReadsKept ==
    ASSUME Kept, NEW h \in hooks, NEW y, Reads(h, y)'
    PROVE  Reads(h, y)
BY YearKept DEF Reads, Kept, LeaveInv, HooksKnown

\* Steps that start no hook and write no days used.
LEMMA QuietCharges ==
    ASSUME LeaveInv, ChargeInv, [Next]_vars, hooks' \subseteq hooks,
           \A h \in hooks : ~HookWrite(h)
    PROVE  Charges'
<1>1. Kept /\ Charges /\ HooksTracked /\ RowsUnused
  BY KeptStep DEF ChargeInv, Books
<1>2. \A y \in Years :
        /\ DaysToAdd(y) \in Nat /\ DaysToAdd(y)' \in Nat
        /\ DaysToAdd(y)' + ApprovedDays(y) <= DaysToAdd(y) + ApprovedDays(y)'
  BY <1>1, ToAddFewer, RoomKept
<1>3. \A y \in Years : ~balance'[y].adjusted =>
        ~balance[y].adjusted /\ balance'[y].used = balance[y].used
  BY <1>1, RowsMove
<1>4. \A y \in Years : balance[y].used \in Int
  BY BalanceTyped DEF LeaveInv
<1>5. \A y \in Years : ~balance'[y].adjusted =>
        ~balance[y].adjusted /\ balance'[y].used <= balance[y].used
  BY <1>3, <1>4
<1>6. \A h \in hooks', y \in Years : Reads(h, y)' => h \in hooks /\ Reads(h, y)
  BY <1>1, ReadsKept
<1> QED BY <1>1, <1>2, <1>5, <1>6, ChargesKept

\* A hook goes on: it reads, at most, what the year has used.
LEMMA HookReadCharges ==
    ASSUME LeaveInv, ChargeInv, [Next]_vars, NEW h \in hooks, NEW k,
           hooks' = (hooks \ {h}) \cup {k}, UNCHANGED <<leave, balance>>,
           k.id = h.id, k.verdict = h.verdict,
           k.pc = "write" => k.seen = balance[StartYear(leave[h.id])].used
    PROVE  Charges'
<1>1. Kept /\ Charges
  BY KeptStep DEF ChargeInv, Books
<1>2. \A y \in Years :
        /\ DaysToAdd(y) \in Nat /\ DaysToAdd(y)' \in Nat
        /\ DaysToAdd(y)' + ApprovedDays(y) <= DaysToAdd(y) + ApprovedDays(y)'
  BY <1>1, ToAddReplaced, RoomKept
<1>3. \A y \in Years : balance'[y].used <= balance[y].used /\ balance'[y] = balance[y]
  BY BalanceTyped DEF LeaveInv
<1>4. \A g \in hooks, y \in Years : Reads(g, y)' => Reads(g, y)
  BY <1>1, ReadsKept
<1>5. \A y \in Years : Reads(k, y)' => k.seen = balance[y].used
  BY DEF Reads
<1>6. \A g \in hooks', y \in Years : Reads(g, y)' =>
        (g \in hooks /\ Reads(g, y)) \/ g.seen = balance[y].used
  BY <1>4, <1>5
<1> QED BY <1>1, <1>2, <1>3, <1>6, ChargesKept

\* A rejection gives back days from what it had read.
LEMMA RefundCharges ==
    ASSUME LeaveInv, ChargeInv, [Next]_vars, NEW h \in hooks, HookWrite(h),
           h.verdict = "REJECTED"
    PROVE  Charges'
<1>1. Kept /\ Charges
  BY KeptStep DEF ChargeInv, Books
<1>2. hooks' \subseteq hooks /\ h.pc = "write"
  BY DEF HookWrite, HookEnds
<1>3. \A y \in Years :
        /\ DaysToAdd(y) \in Nat /\ DaysToAdd(y)' \in Nat
        /\ DaysToAdd(y)' + ApprovedDays(y) <= DaysToAdd(y) + ApprovedDays(y)'
  BY <1>1, <1>2, ToAddFewer, RoomKept
<1>4. \A g \in hooks', y \in Years : Reads(g, y)' => g \in hooks /\ Reads(g, y)
  BY <1>1, <1>2, ReadsKept
<1>5. ASSUME NEW y \in Years, ~balance'[y].adjusted
      PROVE  /\ ~balance[y].adjusted
             /\ \/ balance'[y].used <= balance[y].used
                \/ Reads(h, y) /\ balance'[y].used <= h.seen
  <2>1. /\ balance'[y].adjusted = balance[y].adjusted
        /\ balance'[y].used = IF y = StartYear(leave[h.id])
                                THEN UsedAfter(h, balance[y].used)
                                ELSE balance[y].used
    BY HookWrites
  <2>2. balance[y].used \in Int /\ DurationDays(leave[h.id]) \in Nat
    BY BalanceTyped, LeaveTyped DEF LeaveInv, HooksKnown, Hook
  <2>3. CASE y = StartYear(leave[h.id])
    <3>1. Reads(h, y)
      BY <1>2, <2>3 DEF Reads
    <3>2. h.seen \in Nat
      BY <1>1, <1>5, <2>1, <3>1 DEF Charges, FitsIn
    <3>3. h.seen - DurationDays(leave[h.id]) \in Int
      BY <2>2, <3>2
    <3>4. Max({0, h.seen - DurationDays(leave[h.id])}) <= h.seen
      BY <2>2, <3>2, <3>3, MaxOfTwo
    <3>5. UsedAfter(h, balance[y].used) <= h.seen
      BY <3>4 DEF UsedAfter
    <3> QED BY <1>5, <2>1, <2>3, <3>1, <3>5
  <2>4. CASE y # StartYear(leave[h.id])
    BY <1>5, <2>1, <2>2, <2>4
  <2> QED BY <2>3, <2>4
<1> QED BY <1>1, <1>3, <1>4, <1>5, ChargesKept

\* An approval adds days it no longer has to add.
LEMMA ApprovalCharges ==
    ASSUME LeaveInv, ChargeInv, [Next]_vars, NEW h \in hooks, HookWrite(h),
           h.verdict = "APPROVED"
    PROVE  Charges'
<1>1. Kept /\ Charges /\ LeavesKept
  BY KeptStep DEF ChargeInv, Books, Kept
<1>2. hooks' = hooks \ {h} /\ leave[h.id].type = "TRACKED"
  BY DEF HookWrite, HookEnds, ChargeInv, Books, HooksTracked
<1>3. SUFFICES ASSUME NEW y \in Years, ~balance'[y].adjusted
               PROVE  /\ balance'[y].used + DaysToAdd(y)' <= ApprovedDays(y)'
                      /\ \A g \in hooks' : Reads(g, y)' =>
                            /\ g.seen \in Nat
                            /\ g.seen + DaysToAdd(y)' <= ApprovedDays(y)'
  <2>1. \A y \in Years : ~balance'[y].adjusted => balance'[y].used \in Nat
    BY <1>1 DEF Kept, LeaveInv, Balances, Untouched
  <2> QED BY <2>1 DEF Charges, FitsIn
<1>4. /\ balance'[y].adjusted = balance[y].adjusted
      /\ balance'[y].used = IF y = StartYear(leave[h.id])
                              THEN UsedAfter(h, balance[y].used)
                              ELSE balance[y].used
  BY HookWrites
<1>5. balance[y].used \in Nat /\ DurationDays(leave[h.id]) \in Nat
  BY <1>3, <1>4, BalanceTyped, LeaveTyped DEF LeaveInv, HooksKnown
<1>6. /\ ApprovedDays(y) \in Nat /\ ApprovedDays(y)' \in Nat
      /\ ApprovedDays(y) <= ApprovedDays(y)'
  BY <1>1, ApprovedGrows
<1>7. /\ DaysToAdd(y) \in Nat /\ DaysToAdd(y)' \in Nat
      /\ DaysToAdd(y)' <= DaysToAdd(y)
      /\ h \in ToAddIn(y) => DaysToAdd(y)' + DurationDays(leave[h.id]) <= DaysToAdd(y)
  BY <1>1, <1>2, ToAddFewer
<1>8. /\ balance[y].used + DaysToAdd(y) <= ApprovedDays(y)
      /\ \A g \in hooks : Reads(g, y) =>
            g.seen \in Nat /\ g.seen + DaysToAdd(y) <= ApprovedDays(y)
  BY <1>1, <1>3, <1>4 DEF Charges, FitsIn
<1>9. balance'[y].used + DaysToAdd(y)' <= ApprovedDays(y)'
  <2>1. CASE y = StartYear(leave[h.id])
    <3>1. h \in ToAddIn(y)
      BY <1>2, <2>1 DEF ToAddIn
    <3>2. balance'[y].used = balance[y].used + DurationDays(leave[h.id])
      BY <1>4, <2>1 DEF UsedAfter
    <3> QED BY <1>5, <1>6, <1>7, <1>8, <3>1, <3>2
  <2>2. CASE y # StartYear(leave[h.id])
    BY <1>4, <1>5, <1>6, <1>7, <1>8, <2>2
  <2> QED BY <2>1, <2>2
<1>10. ASSUME NEW g \in hooks', Reads(g, y)'
       PROVE  g.seen \in Nat /\ g.seen + DaysToAdd(y)' <= ApprovedDays(y)'
  <2>1. g \in hooks /\ Reads(g, y)
    BY <1>1, <1>2, <1>10, ReadsKept
  <2> QED BY <1>5, <1>6, <1>7, <1>8, <2>1
<1> QED BY <1>9, <1>10

\* A decision that approves adds the days of its leave to both sides.
LEMMA DecisionCharges ==
    ASSUME LeaveInv, ChargeInv, [Next]_vars, NEW a \in Admins, DecideWrite(a),
           NoRevival, leave[admin[a].id].status # "DELETED"
    PROVE  Charges'
<1> DEFINE i == admin[a].id
<1>1. Kept /\ Charges /\ LeavesKept /\ Fresh
  BY KeptStep DEF ChargeInv, Books, Kept
<1>2. PICK k : k = [id |-> i, by |-> a, verdict |-> admin[a].verdict,
                    pc |-> "flag", seen |-> 0]
  OBVIOUS
<1>3. /\ hooks' = hooks \cup {k} /\ k.id = i /\ k.pc = "flag"
      /\ k.verdict = admin[a].verdict /\ UNCHANGED balance
  BY <1>2 DEF DecideWrite
<1>4. /\ i \in DOMAIN leave /\ ~leave[i].approved
      /\ leave'[i].from = leave[i].from /\ leave'[i].type = leave[i].type
      /\ DurationDays(leave'[i]) = DurationDays(leave[i])
      /\ leave'[i].approved <=> admin[a].verdict = "APPROVED"
  <2>1. i \in DOMAIN leave /\ leave[i].status = "PENDING"
    BY DEF DecideWrite, LeaveInv, Decisions, NoRevival
  <2>2. ~leave[i].approved
    BY <1>1, <2>1 DEF Fresh
  <2> QED BY <1>1, <2>1, <2>2, DecisionWritten, DaysKept
<1> HIDE DEF i
<1>5. ASSUME NEW y \in Years
      PROVE  /\ DaysToAdd(y) \in Nat /\ DaysToAdd(y)' \in Nat
             /\ DaysToAdd(y)' + ApprovedDays(y) <= DaysToAdd(y) + ApprovedDays(y)'
  <2>1. /\ DaysToAdd(y) \in Nat /\ DaysToAdd(y)' \in Nat
        /\ k \notin ToAddIn(y)' => DaysToAdd(y)' <= DaysToAdd(y)
        /\ DaysToAdd(y)' <= DaysToAdd(y) + DurationDays(leave'[k.id])
    BY <1>1, <1>3, ToAddMore
  <2>2. /\ ApprovedDays(y) \in Nat /\ ApprovedDays(y)' \in Nat
        /\ ApprovedDays(y) <= ApprovedDays(y)'
        /\ i \in ApprovedIn(y)' \ ApprovedIn(y) =>
              ApprovedDays(y) + DurationDays(leave[i]) <= ApprovedDays(y)'
    BY <1>1, <1>4, ApprovedGrows
  <2>3. CASE k \notin ToAddIn(y)'
    BY <2>1, <2>2, <2>3
  <2>4. CASE k \in ToAddIn(y)'
    <3>1. i \in ApprovedIn(y)' \ ApprovedIn(y)
      <4>1. /\ k.verdict = "APPROVED" /\ leave'[i].type = "TRACKED"
            /\ StartYear(leave'[i]) = y
        BY <1>3, <2>4 DEF ToAddIn
      <4>2. i \in DOMAIN leave' /\ leave'[i].approved
        BY <1>1, <1>3, <1>4, <4>1 DEF LeavesKept
      <4> QED BY <1>4, <4>1, <4>2 DEF ApprovedIn
    <3>2. DurationDays(leave'[k.id]) = DurationDays(leave[i])
          /\ DurationDays(leave[i]) \in Nat
      BY <1>1, <1>3, <1>4, DaysKept
    <3> QED BY <2>1, <2>2, <3>1, <3>2
  <2> QED BY <2>1, <2>3, <2>4
<1>6. \A g \in hooks', y \in Years : Reads(g, y)' => g \in hooks /\ Reads(g, y)
  <2>1. \A y \in Years : ~Reads(k, y)'
    BY <1>3 DEF Reads
  <2> QED BY <1>1, <1>3, <2>1, ReadsKept
<1>7. \A y \in Years : balance'[y].used <= balance[y].used /\ balance'[y] = balance[y]
  BY <1>3, BalanceTyped DEF LeaveInv
<1> QED BY <1>1, <1>5, <1>6, <1>7, ChargesKept

\* So is the one about the days that are charged.
LEMMA ChargeStep ==
    ASSUME OneAdmin, LeaveInv, ChargeInv, [Next]_vars PROVE ChargeInv'
<1>1. Books /\ HooksTracked /\ NoRevival
  BY DEF ChargeInv, Books
<1>2. \/ hooks' \subseteq hooks /\ \A h \in hooks : ~HookWrite(h)
      \/ \E a \in Admins : DecideWrite(a) /\ leave[admin[a].id].status # "DELETED"
      \/ \E h \in hooks : HookWrite(h)
      \/ \E h \in hooks : (HookFlag(h) \/ HookBalance(h)) /\ ~(hooks' \subseteq hooks)
  BY DEF Next, vars, DeviceStep, AdminStep, HookStep, RequestRead, CancelRead,
         RequestCreate, CancelDelete, HookEnds,
         DecideRead, DecideWrite, InitializeStart, InitializeRead, InitializeCreate,
         HookFails, Adjust, ChangePolicy
<1>3. ASSUME NEW h \in hooks, HookWrite(h) PROVE Charges'
  <2>1. h.verdict \in Verdicts
    BY DEF LeaveInv, HooksKnown, Hook
  <2> QED BY <1>3, <2>1, RefundCharges, ApprovalCharges DEF Verdicts
<1>4. ASSUME NEW h \in hooks, HookFlag(h) \/ HookBalance(h), ~(hooks' \subseteq hooks)
      PROVE  Charges'
  <2>1. PICK k : /\ hooks' = (hooks \ {h}) \cup {k} /\ UNCHANGED balance
                 /\ k.id = h.id /\ k.verdict = h.verdict
                 /\ k.pc = "write" => k.seen = balance[StartYear(leave[h.id])].used
    BY <1>1, <1>4, HookMoves DEF HookStep
  <2>2. UNCHANGED leave
    BY <1>4 DEF HookFlag, HookBalance
  <2> QED BY <2>1, <2>2, HookReadCharges
<1>5. Charges'
  BY <1>1, <1>2, <1>3, <1>4, QuietCharges, DecisionCharges
<1> QED BY <1>1, <1>5, BooksStep DEF ChargeInv

LEMMA ChargeInit == Init => ChargeInv
<1> SUFFICES ASSUME Init PROVE ChargeInv
  OBVIOUS
<1>1. /\ leave = <<>> /\ hooks = {} /\ \A a \in Admins : admin[a] = IdleAdmin
      /\ \A y \in Years : balance[y] = NoBalance
  BY DEF Init
<1>2. Books
  BY <1>1, IdleTyped, FS_EmptySet
     DEF Books, NoRevival, Fresh, HooksTracked, RowsUnused, NoBalance
<1>3. ASSUME NEW y \in Years PROVE DaysToAdd(y) = 0 /\ ApprovedDays(y) = 0
  <2>1. ToAddIn(y) = {} /\ ApprovedIn(y) = {}
    BY <1>1 DEF ToAddIn, ApprovedIn
  <2> QED BY <2>1, SumEmpty DEF DaysToAdd, ApprovedDays
<1>4. Charges
  BY <1>1, <1>3 DEF Charges, FitsIn, NoBalance
<1> QED BY <1>2, <1>4 DEF ChargeInv

\* If one admin works, no leave is charged twice: a year that was not adjusted
\* by hand never has more days used, and about to be used, than leaves approved
\* in it have, for any number of leaves, devices, policies and hooks, whatever
\* hooks fail, and however approvals and rejections interleave.
THEOREM ChargedOnce == OneAdmin => (Spec => []NeverChargedTwice)
<1> SUFFICES ASSUME OneAdmin PROVE Spec => []NeverChargedTwice
  OBVIOUS
<1>1. LeaveInv /\ ChargeInv /\ [Next]_vars => ChargeInv'
  BY ChargeStep
<1>2. ChargeInv => NeverChargedTwice
  BY DEF ChargeInv, Charges, FitsIn, NeverChargedTwice
<1> QED BY <1>1, <1>2, LeaveInvariant, ChargeInit, PTL DEF Spec
=============================================================================
