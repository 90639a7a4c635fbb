------------------------ MODULE AttendanceClockProofs ------------------------
(***************************************************************************)
(* Proofs about AttendanceClock, for any number of requests and runs of    *)
(* the job, any shift, grace window, limit and bound.                      *)
(***************************************************************************)
EXTENDS AttendanceClock, FiniteSetTheorems, TLAPS

-----------------------------------------------------------------------------
(* The inductive invariants *)

\* What a request in flight knows for good: the record at hand exists, and the
\* forgotten record that a scan is about to close should have ended by now.
TaskInv(tk, ids, time) ==
    /\ tk.op = "scan" =>
         \/ tk.do = "in" /\ tk.id = Unset
         \/ tk.do = "out" /\ tk.id \in ids
         \/ tk.do = "close_and_in" /\ tk.id \in ids /\ ShiftEnd(tk.row.in) <= time
    /\ tk.op = "manual" => \/ tk.do = "in"
                           \/ tk.do = "out" /\ tk.id \in ids
    /\ tk.op \in {"edit", "acknowledge"} => tk.id \in ids
    /\ tk.op = "mark" => tk.in \in Times

\* The records a run has found exist, and it has not begun in the future.
RunInv(rn, ids, time) ==
    /\ rn.at <= time
    /\ \A open \in rn.found : open.id \in ids

KnownRecords ==
    /\ TypeOK
    /\ \A t \in Tasks : TaskInv(task[t], DOMAIN rec, now)
    /\ \A r \in Runs : RunInv(run[r], DOMAIN rec, now)

\* A scan in flight still has the truth about the open records: none, or the
\* one at hand at most.
Claim(tk, open) ==
    /\ tk.op \notin {"manual", "mark"}
    /\ tk.op = "scan" => IF tk.id = Unset THEN open = {} ELSE open \subseteq {tk.id}

ScansClaim ==
    /\ KnownRecords
    /\ OneOpenRecord
    /\ \A t \in Tasks : Claim(task[t], OpenIds)

-----------------------------------------------------------------------------
(* Dates and shifts *)

\* The date of a time is not after it, and the next one is.
LEMMA DateBounds ==
    ASSUME NEW time \in Nat
    PROVE  Date(time) \in Nat /\ Date(time) <= time /\ time < Date(time) + Day
<1>1. Day \in Nat \ {0}
  BY ConstantsAssumption
<1>2. time % Day \in 0 .. Day - 1
  BY <1>1
<1> QED BY <1>1, <1>2, SMT DEF Date

\* The ends of the shifts of a check-in are times, if perhaps still to come.
LEMMA ShiftEndType ==
    ASSUME NEW in \in Times
    PROVE  ShiftEnd(in) \in Nat /\ RosterEnd(in) \in Nat
<1>1. in \in Nat /\ Day \in Nat
  BY ConstantsAssumption DEF Times
<1>2. Date(in) \in Nat
  BY <1>1, DateBounds
<1>3. Shift.end \in Nat /\ RosterShift.end \in Nat
  BY ConstantsAssumption
<1> QED BY <1>1, <1>2, <1>3 DEF ShiftEnd, RosterEnd

-----------------------------------------------------------------------------
(* Records *)

\* A new record has its type, and is open unless it has a check-out.
LEMMA NewRecordType ==
    ASSUME NEW in \in Times, NEW out \in Times \cup {Unset}
    PROVE  /\ NewRecord(in, out) \in Record
           /\ NewRecord(in, out).status = "CHECKED_IN" => out = Unset
BY DEF NewRecord, Record

\* Unset is no time, and no record has it as its number.
LEMMA UnsetIsNone == Unset \notin Times /\ Unset \notin Ids
BY ConstantsAssumption DEF Unset, Times, Ids

\* The local state of a request that is not being served has its type.
LEMMA IdleTaskType ==
    /\ IdleTask \in Task /\ IdleTask.op = "idle"
    /\ IdleTask.do = "none" /\ IdleTask.id = Unset
<1>1. 0 \in Times
  BY ConstantsAssumption DEF Times
<1>2. NewRecord(0, Unset) \in Record
  BY <1>1, NewRecordType
<1> QED BY <1>2 DEF IdleTask, Task

\* A run that is not going on has its type, and has found nothing.
LEMMA IdleRunType ==
    IdleRun \in Run /\ IdleRun.found = {} /\ IdleRun.at = 0
BY ConstantsAssumption DEF IdleRun, Run, Times

\* The records' numbers are within the bound.
LEMMA RecordIds == TypeOK => DOMAIN rec = 1 .. Len(rec) /\ DOMAIN rec \subseteq Ids
BY ConstantsAssumption DEF TypeOK, Ids

\* An update of one row leaves the others and creates none.
LEMMA UpdatedRow ==
    ASSUME TypeOK, NEW i \in DOMAIN rec, NEW new \in Record,
           rec' = [rec EXCEPT ![i] = new]
    PROVE  /\ rec' \in Seq(Record) /\ Len(rec') = Len(rec)
           /\ DOMAIN rec' = DOMAIN rec
           /\ rec'[i] = new
           /\ \A j \in DOMAIN rec : j # i => rec'[j] = rec[j]
BY DEF TypeOK

\* A creation appends one row and leaves the others.
LEMMA CreatedRow ==
    ASSUME TypeOK, NEW in \in Times, NEW out \in Times \cup {Unset},
           Create(in, out)
    PROVE  /\ rec' \in Seq(Record) /\ Len(rec') <= MaxRecords
           /\ DOMAIN rec' = DOMAIN rec \cup {Len(rec) + 1}
           /\ Len(rec) + 1 \notin DOMAIN rec
           /\ rec'[Len(rec) + 1] = NewRecord(in, out)
           /\ \A j \in DOMAIN rec : rec'[j] = rec[j]
<1>1. NewRecord(in, out) \in Record
  BY NewRecordType
<1>2. rec' = Append(rec, NewRecord(in, out)) /\ Len(rec) < MaxRecords
  BY DEF Create
<1>3. MaxRecords \in Nat /\ Len(rec) \in Nat /\ rec \in Seq(Record)
  BY ConstantsAssumption DEF TypeOK
<1> QED BY <1>1, <1>2, <1>3

-----------------------------------------------------------------------------
(* What requests and runs know stays true *)

\* Records are never deleted and time does not go back, so that what a request
\* knows it still knows after a step.
LEMMA TaskInvKept ==
    ASSUME NEW tk \in Task, NEW ids, NEW more, ids \subseteq more,
           NEW time \in Times, NEW later \in Times, time <= later,
           TaskInv(tk, ids, time)
    PROVE  TaskInv(tk, more, later)
<1>1. tk.row.in \in Times
  BY DEF Task, Record
<1>2. ShiftEnd(tk.row.in) \in Nat
  BY <1>1, ShiftEndType
<1>3. ShiftEnd(tk.row.in) <= time => ShiftEnd(tk.row.in) <= later
  BY <1>2, ConstantsAssumption DEF Times
<1>4. \A id : id \in ids => id \in more
  OBVIOUS
<1> QED BY <1>3, <1>4, Zenon DEF TaskInv

\* So it suffices to look at the requests and the runs that a step changes.
LEMMA StepKeeps ==
    ASSUME KnownRecords,
           rec' \in Seq(Record), Len(rec') <= MaxRecords,
           DOMAIN rec \subseteq DOMAIN rec',
           now' \in Times, now <= now',
           task' \in [Tasks -> Task], run' \in [Runs -> Run],
           \A t \in Tasks : \/ task'[t] \in {task[t], IdleTask}
                            \/ TaskInv(task'[t], DOMAIN rec', now'),
           \A r \in Runs : \/ run'[r] = run[r]
                           \/ RunInv(run'[r], DOMAIN rec', now')
    PROVE  KnownRecords'
<1>1. TypeOK'
  BY DEF TypeOK
<1>2. ASSUME NEW t \in Tasks PROVE TaskInv(task'[t], DOMAIN rec', now')
  <2>1. CASE task'[t] = task[t]
    <3>1. TaskInv(task[t], DOMAIN rec, now) /\ task[t] \in Task /\ now \in Times
      BY DEF KnownRecords, TypeOK
    <3> QED BY <2>1, <3>1, TaskInvKept
  <2>2. CASE task'[t] = IdleTask
    BY <2>2, IdleTaskType DEF TaskInv
  <2> QED BY <2>1, <2>2
<1>3. ASSUME NEW r \in Runs PROVE RunInv(run'[r], DOMAIN rec', now')
  <2>1. CASE run'[r] = run[r]
    <3>1. /\ RunInv(run[r], DOMAIN rec, now) /\ run[r] \in Run
          /\ now \in Times
      BY DEF KnownRecords, TypeOK
    <3>2. run[r].at \in Int /\ now \in Int /\ now' \in Int
      BY <3>1, ConstantsAssumption DEF Run, Times
    <3> QED BY <2>1, <3>1, <3>2 DEF RunInv
  <2> QED BY <2>1
<1> QED BY <1>1, <1>2, <1>3 DEF KnownRecords

\* A request that is received with its type, and knowing what it should.
LEMMA ReceiveKeeps ==
    ASSUME KnownRecords, NEW t \in Tasks, NEW request \in Task,
           TaskInv(request, DOMAIN rec, now), Receive(t, request)
    PROVE  KnownRecords'
<1>1. TypeOK /\ now <= now
  BY ConstantsAssumption DEF KnownRecords, TypeOK, Times
<1> QED BY <1>1, StepKeeps DEF Receive, TypeOK

\* A request that returns, having updated one row.
LEMMA UpdateKeeps ==
    ASSUME KnownRecords, NEW t \in Tasks, NEW i \in DOMAIN rec,
           NEW new \in Record, rec' = [rec EXCEPT ![i] = new],
           Return(t), UNCHANGED <<now, run>>
    PROVE  KnownRecords'
<1>1. TypeOK /\ now <= now
  BY ConstantsAssumption DEF KnownRecords, TypeOK, Times
<1>2. rec' \in Seq(Record) /\ Len(rec') = Len(rec) /\ DOMAIN rec' = DOMAIN rec
  BY <1>1, UpdatedRow
<1> QED BY <1>1, <1>2, IdleTaskType, StepKeeps DEF Return, TypeOK

\* A request that returns, having created a row.
LEMMA CreateKeeps ==
    ASSUME KnownRecords, NEW t \in Tasks,
           NEW in \in Times, NEW out \in Times \cup {Unset}, Create(in, out),
           Return(t), UNCHANGED <<now, run>>
    PROVE  KnownRecords'
<1>1. TypeOK /\ now <= now
  BY ConstantsAssumption DEF KnownRecords, TypeOK, Times
<1>2. /\ rec' \in Seq(Record) /\ Len(rec') <= MaxRecords
      /\ DOMAIN rec \subseteq DOMAIN rec'
  BY <1>1, CreatedRow
<1> QED BY <1>1, <1>2, IdleTaskType, StepKeeps DEF Return, TypeOK

-----------------------------------------------------------------------------
(* Type correctness *)

\* The types hold initially.
LEMMA KnownInit == Init => KnownRecords
<1> SUFFICES ASSUME Init PROVE KnownRecords
  OBVIOUS
<1>1. rec = <<>> /\ <<>> \in Seq(Record) /\ Len(<<>>) = 0
  BY DEF Init
<1>2. now = 0 /\ 0 \in Times /\ MaxRecords \in Nat
  BY ConstantsAssumption DEF Init, Times
<1>3. TypeOK
  BY <1>1, <1>2, IdleTaskType, IdleRunType DEF Init, TypeOK
<1> QED BY <1>2, <1>3, IdleTaskType, IdleRunType
        DEF Init, KnownRecords, TaskInv, RunInv

\* A scan that has looked at the records is in one of its three cases.
LEMMA ScanReadKeeps ==
    ASSUME KnownRecords, NEW t \in Tasks, ScanRead(t)
    PROVE  KnownRecords'
<1>1. now \in Times /\ rec \in Seq(Record) /\ DOMAIN rec \subseteq Ids
  BY RecordIds DEF KnownRecords, TypeOK
<1>2. CASE Receive(t, [IdleTask EXCEPT !.op = "scan", !.do = "in"])
  <2> DEFINE request == [IdleTask EXCEPT !.op = "scan", !.do = "in"]
  <2>1. /\ request \in Task
        /\ request.op = "scan" /\ request.do = "in" /\ request.id = Unset
    BY IdleTaskType DEF Task, AllOps
  <2>2. TaskInv(request, DOMAIN rec, now)
    BY <2>1 DEF TaskInv
  <2>3. Receive(t, request)
    BY <1>2
  <2> HIDE DEF request
  <2> QED BY <2>1, <2>2, <2>3, ReceiveKeeps
<1>3. ASSUME NEW i \in OpenIds, NEW what \in {"out", "close_and_in"},
             what = "close_and_in" => Forgotten(i),
             Receive(t, ScanOf(what, i))
      PROVE  KnownRecords'
  <2>1. i \in DOMAIN rec /\ i \in Ids /\ rec[i] \in Record
    BY <1>1 DEF OpenIds
  <2>2. /\ ScanOf(what, i) \in Task
        /\ ScanOf(what, i).op = "scan" /\ ScanOf(what, i).do = what
        /\ ScanOf(what, i).id = i /\ ScanOf(what, i).row = rec[i]
    BY <2>1, IdleTaskType DEF ScanOf, Task, AllOps
  <2>3. rec[i].in \in Times
    BY <2>1 DEF Record
  <2>4. Forgotten(i) => ShiftEnd(rec[i].in) <= now
    <3>1. ShiftEnd(rec[i].in) \in Nat
      BY <2>3, ShiftEndType
    <3>2. Grace \in Nat /\ now \in Nat
      BY <1>1, ConstantsAssumption DEF Times
    <3> QED BY <3>1, <3>2 DEF Forgotten
  <2>5. TaskInv(ScanOf(what, i), DOMAIN rec, now)
    BY <1>3, <2>1, <2>2, <2>4 DEF TaskInv
  <2> QED BY <1>3, <2>2, <2>5, ReceiveKeeps
<1> QED BY <1>2, <1>3 DEF ScanRead

\* A manual action, too, is about an existing record or none.
LEMMA ManualReadKeeps ==
    ASSUME KnownRecords, NEW t \in Tasks, ManualRead(t)
    PROVE  KnownRecords'
<1> DEFINE enter == [IdleTask EXCEPT !.op = "manual", !.do = "in"]
           leave(i) == [IdleTask EXCEPT !.op = "manual", !.do = "out", !.id = i]
<1>1. enter \in Task /\ enter.op = "manual" /\ enter.do = "in"
  BY IdleTaskType DEF Task, AllOps
<1>2. ASSUME NEW i \in OpenIds
      PROVE  /\ leave(i) \in Task /\ i \in DOMAIN rec
             /\ leave(i).op = "manual" /\ leave(i).do = "out" /\ leave(i).id = i
  <2>1. i \in DOMAIN rec /\ i \in Ids
    BY RecordIds DEF OpenIds, KnownRecords
  <2> QED BY <2>1, IdleTaskType DEF Task, AllOps
<1>3. \/ Receive(t, enter)
      \/ \E i \in OpenIds : Receive(t, leave(i))
  BY DEF ManualRead
<1> HIDE DEF enter, leave
<1>4. CASE Receive(t, enter)
  <2>1. TaskInv(enter, DOMAIN rec, now)
    BY <1>1 DEF TaskInv
  <2> QED BY <1>1, <1>4, <2>1, ReceiveKeeps
<1>5. ASSUME NEW i \in OpenIds, Receive(t, leave(i)) PROVE KnownRecords'
  <2>1. TaskInv(leave(i), DOMAIN rec, now)
    BY <1>2 DEF TaskInv
  <2> QED BY <1>2, <1>5, <2>1, ReceiveKeeps
<1> QED BY <1>3, <1>4, <1>5

\* Corrections name an existing record; a day that is marked has a check-in.
LEMMA CorrectionReadKeeps ==
    ASSUME KnownRecords, NEW t \in Tasks,
           NEW in \in Past \cup {Unset}, NEW out \in Past \cup {Unset},
           NEW role \in {"ORG_ADMIN", "ORG_ACCOUNTANT"},
           \/ \E i \in DOMAIN rec : \/ EditRead(t, i, role, in, out)
                                    \/ AcknowledgeRead(t, i)
           \/ in \in Past /\ \E date \in Dates : MarkRead(t, date, in, out)
    PROVE  KnownRecords'
<1>1. TypeOK /\ Past \subseteq Times
  BY ConstantsAssumption DEF KnownRecords, TypeOK, Past, Times
<1>2. ASSUME NEW i \in DOMAIN rec, EditRead(t, i, role, in, out)
      PROVE  KnownRecords'
  <2> DEFINE request == [op |-> "edit", do |-> "none", id |-> i,
                         row |-> rec[i], in |-> in, out |-> out,
                         role |-> role]
  <2>1. i \in Ids /\ rec[i] \in Record
    BY <1>1, RecordIds DEF TypeOK
  <2>2. request \in Task /\ request.op = "edit" /\ request.id = i
    BY <1>1, <2>1 DEF Task, AllOps
  <2>3. Receive(t, request)
    BY <1>2 DEF EditRead
  <2> HIDE DEF request
  <2>4. TaskInv(request, DOMAIN rec, now)
    BY <2>2 DEF TaskInv
  <2> QED BY <2>2, <2>3, <2>4, ReceiveKeeps
<1>3. ASSUME NEW i \in DOMAIN rec, AcknowledgeRead(t, i)
      PROVE  KnownRecords'
  <2> DEFINE request == [IdleTask EXCEPT !.op = "acknowledge", !.id = i]
  <2>1. i \in Ids
    BY <1>1, RecordIds
  <2>2. request \in Task /\ request.op = "acknowledge" /\ request.id = i
    BY <2>1, IdleTaskType DEF Task, AllOps
  <2>3. Receive(t, request)
    BY <1>3 DEF AcknowledgeRead
  <2> HIDE DEF request
  <2>4. TaskInv(request, DOMAIN rec, now)
    BY <2>2 DEF TaskInv
  <2> QED BY <2>2, <2>3, <2>4, ReceiveKeeps
<1>4. ASSUME in \in Past, NEW date \in Dates, MarkRead(t, date, in, out)
      PROVE  KnownRecords'
  <2> DEFINE request == [IdleTask EXCEPT !.op = "mark", !.in = in, !.out = out]
  <2>1. request \in Task /\ request.op = "mark" /\ request.in = in
    BY <1>1, <1>4, IdleTaskType DEF Task, AllOps
  <2>2. Receive(t, request)
    BY <1>4 DEF MarkRead
  <2> HIDE DEF request
  <2>3. TaskInv(request, DOMAIN rec, now)
    BY <1>1, <1>4, <2>1 DEF TaskInv
  <2> QED BY <2>1, <2>2, <2>3, ReceiveKeeps
<1> QED BY <1>2, <1>3, <1>4

\* The two writes of a scan that commits: a row of the record at hand and,
\* unless the scan only checks out, a new record.
LEMMA ScanCommitRows ==
    ASSUME KnownRecords, NEW t \in Tasks, ScanCommit(t)
    PROVE  /\ rec' \in Seq(Record) /\ Len(rec') <= MaxRecords
           /\ DOMAIN rec \subseteq DOMAIN rec'
           /\ \A j \in DOMAIN rec : j # task[t].id => rec'[j] = rec[j]
           /\ task[t].id \in DOMAIN rec =>
                rec'[task[t].id].status \in {"CHECKED_OUT", "AUTO_CLOSED"}
           /\ DOMAIN rec' \subseteq DOMAIN rec \cup {Len(rec) + 1}
<1> DEFINE i == task[t].id
<1>1. TypeOK /\ now \in Times /\ task[t] \in Task
  BY DEF KnownRecords, TypeOK
<1>2. TaskInv(task[t], DOMAIN rec, now) /\ task[t].op = "scan"
  BY DEF KnownRecords, ScanCommit
<1>3. Unset \notin DOMAIN rec
  BY <1>1, RecordIds, UnsetIsNone
<1>4. CASE task[t].do = "in" /\ i = Unset
  <2>1. Create(now, Unset)
    BY <1>4 DEF ScanCommit
  <2> QED BY <1>1, <1>3, <1>4, <2>1, CreatedRow
<1>5. CASE task[t].do = "out" /\ i \in DOMAIN rec
  <2> DEFINE new == [rec[i] EXCEPT !.out = now, !.status = "CHECKED_OUT"]
  <2>1. rec[i] \in Record /\ rec \in Seq(Record)
    BY <1>1, <1>5 DEF TypeOK
  <2>2. new \in Record /\ new.status = "CHECKED_OUT"
    BY <1>1, <2>1 DEF Record
  <2>3. rec' = [rec EXCEPT ![i] = new]
    BY <1>5, <2>1 DEF ScanCommit, CheckOut
  <2>4. Len(rec) <= MaxRecords
    BY <1>1 DEF TypeOK
  <2> HIDE DEF new, i
  <2>5. /\ rec' \in Seq(Record) /\ Len(rec') = Len(rec)
        /\ DOMAIN rec' = DOMAIN rec /\ rec'[i] = new
        /\ \A j \in DOMAIN rec : j # i => rec'[j] = rec[j]
    BY <1>1, <1>5, <2>2, <2>3, UpdatedRow
  <2> QED BY <2>2, <2>4, <2>5 DEF i
<1>6. CASE task[t].do = "close_and_in" /\ i \in DOMAIN rec
  <2> DEFINE end == CloseTime(task[t].row)
             new == [rec[i] EXCEPT !.out = end, !.status = "AUTO_CLOSED"]
             closed == [rec EXCEPT ![i] = new]
             next == NewRecord(now, Unset)
  <2>1. rec[i] \in Record /\ rec \in Seq(Record)
    BY <1>1, <1>6 DEF TypeOK
  <2>2. end \in Times
    <3>1. task[t].row.in \in Times
      BY <1>1 DEF Task, Record
    <3>2. ShiftEnd(task[t].row.in) \in Nat
      BY <3>1, ShiftEndType
    <3>3. ShiftEnd(task[t].row.in) <= now
      BY <1>2, <1>6 DEF TaskInv
    <3> QED BY <1>1, <3>2, <3>3, ConstantsAssumption DEF CloseTime, Times
  <2> HIDE DEF end
  <2>3. new \in Record /\ new.status = "AUTO_CLOSED"
    BY <2>1, <2>2 DEF Record
  <2>4. next \in Record
    BY <1>1, NewRecordType
  <2>5. rec' = Append(closed, next) /\ Len(rec) < MaxRecords
    BY <1>6, <2>1 DEF ScanCommit, end
  <2> HIDE DEF new, next, i
  <2>6. /\ closed \in Seq(Record) /\ Len(closed) = Len(rec)
        /\ closed[i] = new
        /\ \A j \in DOMAIN rec : j # i => closed[j] = rec[j]
    BY <1>6, <2>1, <2>3 DEF i
  <2> HIDE DEF closed
  <2>7. /\ rec' \in Seq(Record) /\ Len(rec') = Len(rec) + 1
        /\ \A j \in 1 .. Len(rec) : rec'[j] = closed[j]
    BY <2>4, <2>5, <2>6
  <2>8. MaxRecords \in Nat /\ Len(rec) \in Nat
    BY <2>1, ConstantsAssumption
  <2>9. DOMAIN rec = 1 .. Len(rec) /\ DOMAIN rec' = 1 .. Len(rec) + 1
    BY <2>1, <2>7, <2>8
  <2> QED BY <1>6, <2>3, <2>5, <2>6, <2>7, <2>8, <2>9 DEF i
<1> QED BY <1>2, <1>4, <1>5, <1>6 DEF TaskInv

\* Corrections and closes update one row, and none opens a closed record.
Updates(i, new) ==
    /\ new \in Record
    /\ rec' = [rec EXCEPT ![i] = new]
    /\ new.status = "CHECKED_IN" => Open(i)

\* A check-out or an automatic close at a time that has come.
LEMMA CloseUpdates ==
    ASSUME TypeOK, NEW i \in DOMAIN rec, NEW time \in Times,
           CheckOut(i, time) \/ AutoClose(i, time)
    PROVE  \E new : Updates(i, new)
<1> DEFINE as(status) == [rec[i] EXCEPT !.out = time, !.status = status]
<1>1. rec[i] \in Record /\ rec \in Seq(Record)
  BY DEF TypeOK
<1>2. ASSUME NEW status \in {"CHECKED_OUT", "AUTO_CLOSED"}
      PROVE  as(status) \in Record /\ as(status).status = status
  BY <1>1 DEF Record
<1>3. \/ rec' = [rec EXCEPT ![i] = as("CHECKED_OUT")]
      \/ rec' = [rec EXCEPT ![i] = as("AUTO_CLOSED")]
  BY <1>1 DEF CheckOut, AutoClose
<1> HIDE DEF as
<1> QED BY <1>2, <1>3 DEF Updates

\* An edit or an acknowledgement of an existing record.
LEMMA CorrectionUpdates ==
    ASSUME TypeOK, NEW t \in Tasks, task[t].id \in DOMAIN rec,
           EditWrite(t) \/ AcknowledgeWrite(t)
    PROVE  \E new : Updates(task[t].id, new)
<1> DEFINE tk == task[t]
           i == tk.id
           edited == [rec[i] EXCEPT
                        !.originalIn = OriginalIn(tk.row, rec[i].originalIn),
                        !.in = IF tk.in = Unset THEN rec[i].in ELSE tk.in,
                        !.out = IF tk.out = Unset THEN rec[i].out ELSE tk.out,
                        !.status = IF tk.out = Unset THEN rec[i].status
                                   ELSE "CHECKED_OUT"]
           reviewed == [rec[i] EXCEPT !.reviewed = TRUE]
<1>1. rec[i] \in Record /\ rec \in Seq(Record) /\ tk \in Task
  BY DEF TypeOK
<1>2. CASE EditWrite(t)
  <2>1. OriginalIn(tk.row, rec[i].originalIn) \in Times \cup {Unset}
    BY <1>1 DEF OriginalIn, Task, Record
  <2>2. edited \in Record /\ (edited.status = "CHECKED_IN" => Open(i))
    BY <1>1, <2>1 DEF Record, Task, Open
  <2>3. rec' = [rec EXCEPT ![i] = edited]
    BY <1>1, <1>2 DEF EditWrite
  <2> HIDE DEF edited
  <2> QED BY <2>2, <2>3 DEF Updates
<1>3. CASE AcknowledgeWrite(t)
  <2>1. reviewed \in Record /\ (reviewed.status = "CHECKED_IN" => Open(i))
    BY <1>1 DEF Record, Open
  <2>2. rec' = [rec EXCEPT ![i] = reviewed]
    BY <1>1, <1>3 DEF AcknowledgeWrite
  <2> HIDE DEF reviewed
  <2> QED BY <2>1, <2>2 DEF Updates
<1> QED BY <1>2, <1>3

\* The job closes an existing record at a time that has come.
LEMMA RunUpdates ==
    ASSUME KnownRecords, NEW r \in Runs, NEW open \in run[r].found,
           RunRecord(r, open), rec' # rec
    PROVE  open.id \in DOMAIN rec /\ \E new : Updates(open.id, new)
<1>1. /\ TypeOK /\ run[r] \in Run /\ now \in Times
      /\ RunInv(run[r], DOMAIN rec, now)
  BY DEF KnownRecords, TypeOK
<1>2. /\ open.in \in Times /\ run[r].at \in Times
      /\ open.id \in DOMAIN rec /\ run[r].at <= now
  BY <1>1 DEF Run, RunInv
<1>3. PastGrace(open.in, run[r].at) /\ AutoClose(open.id, RosterEnd(open.in))
  BY DEF RunRecord
<1>4. RosterEnd(open.in) \in Nat /\ Grace \in Nat /\ MaxTime \in Nat
  BY <1>2, ShiftEndType, ConstantsAssumption
<1>5. RosterEnd(open.in) \in Times
  BY <1>1, <1>2, <1>3, <1>4 DEF PastGrace, Times
<1> QED BY <1>1, <1>2, <1>3, <1>5, CloseUpdates

\* A step of the job, of the clock or of a failure.
LEMMA OtherKeeps ==
    ASSUME KnownRecords,
           \/ \E r \in Runs : \/ \E open \in run[r].found :
                                  RunRecord(r, open) \/ RecordFails(r, open)
                             \/ RunEnd(r) \/ RunStart(r)
           \/ \E t \in Tasks : ScanAbort(t) \/ TaskFails(t)
           \/ Restart \/ Tick
    PROVE  KnownRecords'
<1>1. /\ TypeOK /\ now \in Times /\ now <= now
      /\ rec \in Seq(Record) /\ Len(rec) <= MaxRecords
      /\ task \in [Tasks -> Task] /\ run \in [Runs -> Run]
  BY ConstantsAssumption DEF KnownRecords, TypeOK, Times
<1>2. ASSUME NEW r \in Runs PROVE RunInv(run[r], DOMAIN rec, now)
  BY DEF KnownRecords
<1>3. ASSUME NEW r \in Runs, NEW open \in run[r].found,
             RunRecord(r, open) \/ RecordFails(r, open)
      PROVE  KnownRecords'
  <2> DEFINE new == [run[r] EXCEPT !.found = @ \ {open}]
  <2>1. new \in Run /\ RunInv(new, DOMAIN rec, now)
    BY <1>1, <1>2 DEF Run, RunInv
  <2>2. run' = [run EXCEPT ![r] = new] /\ UNCHANGED <<now, task>>
    BY <1>1, <1>3 DEF RunRecord, RecordFails
  <2> HIDE DEF new
  <2>3. rec' \in Seq(Record) /\ Len(rec') = Len(rec) /\ DOMAIN rec' = DOMAIN rec
    <3>1. CASE rec' = rec
      BY <1>1, <3>1
    <3>2. CASE rec' # rec
      <4>1. RunRecord(r, open)
        BY <1>3, <3>2 DEF RecordFails
      <4>2. open.id \in DOMAIN rec /\ \E row : Updates(open.id, row)
        BY <3>2, <4>1, RunUpdates
      <4> QED BY <1>1, <4>2, UpdatedRow DEF Updates
    <3> QED BY <3>1, <3>2
  <2> QED BY <1>1, <2>1, <2>2, <2>3, StepKeeps
<1>4. ASSUME NEW r \in Runs, RunEnd(r) PROVE KnownRecords'
  <2>1. RunInv(IdleRun, DOMAIN rec, now) /\ IdleRun \in Run
    BY <1>1, IdleRunType, ConstantsAssumption DEF RunInv, Times
  <2> QED BY <1>1, <1>4, <2>1, StepKeeps DEF RunEnd
<1>5. ASSUME NEW r \in Runs, RunStart(r) PROVE KnownRecords'
  <2> DEFINE found == {[id |-> i, in |-> rec[i].in] : i \in OpenIds}
             new == [active |-> TRUE, at |-> now, found |-> found]
  <2>1. ASSUME NEW i \in OpenIds
        PROVE  i \in DOMAIN rec /\ [id |-> i, in |-> rec[i].in] \in [id: Ids, in: Times]
    <3>1. i \in DOMAIN rec /\ i \in Ids /\ rec[i] \in Record
      BY <1>1, RecordIds DEF OpenIds
    <3> QED BY <3>1 DEF Record
  <2>2. /\ found \in SUBSET [id: Ids, in: Times]
        /\ \A open \in found : open.id \in DOMAIN rec
    BY <2>1
  <2>3. run' = [run EXCEPT ![r] = new] /\ UNCHANGED <<now, rec, task>>
    BY <1>5 DEF RunStart
  <2> HIDE DEF found
  <2>4. new \in Run /\ RunInv(new, DOMAIN rec, now)
    BY <1>1, <2>2 DEF Run, RunInv
  <2> HIDE DEF new
  <2> QED BY <1>1, <2>3, <2>4, StepKeeps
<1>6. ASSUME NEW t \in Tasks, ScanAbort(t) \/ TaskFails(t) PROVE KnownRecords'
  BY <1>1, <1>6, IdleTaskType, StepKeeps DEF ScanAbort, TaskFails, Return
<1>7. CASE Restart
  <2>1. RunInv(IdleRun, DOMAIN rec, now)
    BY <1>1, IdleRunType, ConstantsAssumption DEF RunInv, Times
  <2> QED BY <1>1, <1>7, <2>1, IdleTaskType, IdleRunType, StepKeeps DEF Restart
<1>8. CASE Tick
  <2>1. now' \in Times /\ now <= now' /\ UNCHANGED <<rec, task, run>>
    BY <1>1, <1>8, ConstantsAssumption DEF Tick, Times
  <2> QED BY <1>1, <2>1, StepKeeps
<1> QED BY <1>3, <1>4, <1>5, <1>6, <1>7, <1>8

\* Every step keeps the types and what requests and runs know.
LEMMA KnownStep == KnownRecords /\ [Next]_vars => KnownRecords'
<1> SUFFICES ASSUME KnownRecords, [Next]_vars PROVE KnownRecords'
  OBVIOUS
<1>1. /\ TypeOK /\ now \in Times /\ now <= now
      /\ rec \in Seq(Record) /\ Len(rec) <= MaxRecords
      /\ task \in [Tasks -> Task] /\ run \in [Runs -> Run]
  BY ConstantsAssumption DEF KnownRecords, TypeOK, Times
<1>2. ASSUME NEW t \in Tasks
      PROVE  task[t] \in Task /\ TaskInv(task[t], DOMAIN rec, now)
  BY <1>1 DEF KnownRecords
<1>3. ASSUME NEW t \in Tasks, ScanCommit(t) PROVE KnownRecords'
  <2>1. /\ rec' \in Seq(Record) /\ Len(rec') <= MaxRecords
        /\ DOMAIN rec \subseteq DOMAIN rec'
    BY <1>3, ScanCommitRows
  <2>2. /\ UNCHANGED <<now, run>>
        /\ task' = [u \in Tasks |-> IF u = t \/ task[u].op = "scan"
                                    THEN IdleTask ELSE task[u]]
    BY <1>3 DEF ScanCommit, AbortOtherScans
  <2> QED BY <1>1, <2>1, <2>2, IdleTaskType, StepKeeps
<1>4. ASSUME NEW t \in Tasks, ManualWrite(t) PROVE KnownRecords'
  <2>1. Return(t) /\ UNCHANGED <<now, run>>
    BY <1>4 DEF ManualWrite
  <2>2. CASE task[t].do = "in"
    <3>1. Create(now, Unset)
      BY <1>4, <2>2 DEF ManualWrite
    <3> QED BY <1>1, <2>1, <3>1, CreateKeeps
  <2>3. CASE task[t].do = "out" /\ task[t].id \in DOMAIN rec
    <3>1. CheckOut(task[t].id, now)
      BY <1>4, <2>3 DEF ManualWrite
    <3>2. \E new : Updates(task[t].id, new)
      BY <1>1, <2>3, <3>1, CloseUpdates
    <3> QED BY <2>1, <2>3, <3>2, UpdateKeeps DEF Updates
  <2> QED BY <1>2, <1>4, <2>2, <2>3 DEF TaskInv, ManualWrite
<1>5. ASSUME NEW t \in Tasks, EditWrite(t) \/ AcknowledgeWrite(t)
      PROVE  KnownRecords'
  <2>1. Return(t) /\ UNCHANGED <<now, run>>
    BY <1>5 DEF EditWrite, AcknowledgeWrite
  <2>2. task[t].id \in DOMAIN rec
    BY <1>2, <1>5 DEF TaskInv, EditWrite, AcknowledgeWrite
  <2>3. \E new : Updates(task[t].id, new)
    BY <1>1, <1>5, <2>2, CorrectionUpdates
  <2> QED BY <2>1, <2>2, <2>3, UpdateKeeps DEF Updates
<1>6. ASSUME NEW t \in Tasks, MarkWrite(t) PROVE KnownRecords'
  <2>1. /\ Return(t) /\ UNCHANGED <<now, run>>
        /\ Create(task[t].in, task[t].out)
    BY <1>6 DEF MarkWrite
  <2>2. task[t].in \in Times /\ task[t].out \in Times \cup {Unset}
    BY <1>2, <1>6 DEF TaskInv, MarkWrite, Task
  <2> QED BY <2>1, <2>2, CreateKeeps
<1>7. ASSUME NEW t \in Tasks, Request(t) PROVE KnownRecords'
  <2>1. CASE ScanRead(t) \/ ManualRead(t)
    BY <2>1, ScanReadKeeps, ManualReadKeeps
  <2>2. CASE \E i \in DOMAIN rec, role \in {"ORG_ADMIN", "ORG_ACCOUNTANT"} :
               \E in, out \in Past \cup {Unset} : EditRead(t, i, role, in, out)
    BY <2>2, CorrectionReadKeeps
  <2>3. CASE \E i \in DOMAIN rec : AcknowledgeRead(t, i)
    BY <2>3, CorrectionReadKeeps
  <2>4. CASE \E date \in Dates, in \in Past, out \in Past \cup {Unset} :
               MarkRead(t, date, in, out)
    BY <2>4, CorrectionReadKeeps
  <2> QED BY <1>7, <2>1, <2>2, <2>3, <2>4 DEF Request
<1>8. CASE UNCHANGED vars
  BY <1>1, <1>8, StepKeeps DEF vars
<1> QED BY <1>3, <1>4, <1>5, <1>6, <1>7, <1>8, OtherKeeps
        DEF Next, TaskStep, RunStep

\* The attendance clock is type correct, for every shift and any requests; in
\* particular an automatic close is never in the future.
THEOREM TypeCorrect == Spec => []TypeOK
<1>1. Spec => []KnownRecords
  BY KnownInit, KnownStep, PTL DEF Spec
<1>2. KnownRecords => TypeOK
  BY DEF KnownRecords
<1> QED BY <1>1, <1>2, PTL

-----------------------------------------------------------------------------
(* One open record *)

\* A step that opens no record leaves the claims of the scans true.
LEMMA FewerOpen ==
    ASSUME ScansClaim, KnownRecords', OpenIds' \subseteq OpenIds,
           \A t \in Tasks : task'[t] \in {task[t], IdleTask}
    PROVE  ScansClaim'
<1>1. OneOpenRecord'
  BY DEF ScansClaim, OneOpenRecord
<1>2. ASSUME NEW t \in Tasks PROVE Claim(task'[t], OpenIds')
  BY IdleTaskType DEF ScansClaim, Claim
<1> QED BY <1>1, <1>2 DEF ScansClaim

\* An update that opens no record, and a step without any.
LEMMA UpdateOpens ==
    ASSUME TypeOK, NEW i \in DOMAIN rec, NEW new, Updates(i, new)
    PROVE  OpenIds' \subseteq OpenIds
<1>1. /\ DOMAIN rec' = DOMAIN rec /\ rec'[i] = new
      /\ \A j \in DOMAIN rec : j # i => rec'[j] = rec[j]
  BY UpdatedRow DEF Updates
<1> QED BY <1>1 DEF OpenIds, Open, Updates

\* A scan that commits leaves open the record it creates and no other, and no
\* scan with an older claim is left.
LEMMA CommitOpens ==
    ASSUME ScansClaim, NEW t \in Tasks, ScanCommit(t), KnownRecords'
    PROVE  ScansClaim'
<1>1. KnownRecords /\ TypeOK /\ task[t].op = "scan" /\ Claim(task[t], OpenIds)
  BY DEF ScansClaim, KnownRecords, ScanCommit
<1>2. OpenIds \subseteq {task[t].id}
  BY <1>1 DEF Claim
<1>3. OpenIds' \subseteq {Len(rec) + 1}
  <2>1. /\ \A j \in DOMAIN rec : j # task[t].id => rec'[j] = rec[j]
        /\ task[t].id \in DOMAIN rec =>
             rec'[task[t].id].status \in {"CHECKED_OUT", "AUTO_CLOSED"}
        /\ DOMAIN rec' \subseteq DOMAIN rec \cup {Len(rec) + 1}
    BY <1>1, ScanCommitRows
  <2> QED BY <1>2, <2>1 DEF OpenIds, Open
<1>4. OneOpenRecord'
  BY <1>3 DEF OneOpenRecord
<1>5. ASSUME NEW u \in Tasks PROVE Claim(task'[u], OpenIds')
  <2>1. task'[u] = IF u = t \/ task[u].op = "scan" THEN IdleTask ELSE task[u]
    BY DEF ScanCommit, AbortOtherScans
  <2>2. Claim(task[u], OpenIds)
    BY DEF ScansClaim
  <2> QED BY <2>1, <2>2, IdleTaskType DEF Claim
<1> QED BY <1>4, <1>5 DEF ScansClaim

\* What a request reads is the truth when it reads it.
LEMMA ReadClaims ==
    ASSUME Ops \cap {"manual", "mark"} = {},
           ScansClaim, NEW t \in Tasks, Request(t), KnownRecords'
    PROVE  ScansClaim'
<1>1. KnownRecords /\ TypeOK /\ OneOpenRecord /\ task \in [Tasks -> Task]
  BY DEF ScansClaim, KnownRecords, TypeOK
<1>2. ASSUME NEW request, Receive(t, request), Claim(request, OpenIds)
      PROVE  ScansClaim'
  <2>1. OpenIds' = OpenIds /\ OneOpenRecord'
    BY <1>1, <1>2 DEF Receive, OpenIds, Open, OneOpenRecord
  <2>2. ASSUME NEW u \in Tasks PROVE Claim(task'[u], OpenIds')
    BY <1>1, <1>2, <2>1 DEF Receive, ScansClaim
  <2> QED BY <2>1, <2>2 DEF ScansClaim
<1>3. CASE ScanRead(t)
  <2> DEFINE first == [IdleTask EXCEPT !.op = "scan", !.do = "in"]
  <2>1. first.op = "scan" /\ first.id = Unset
    BY IdleTaskType DEF Task
  <2>2. ASSUME NEW i \in OpenIds, NEW what
        PROVE  Claim(ScanOf(what, i), OpenIds)
    <3>1. ScanOf(what, i).op = "scan" /\ ScanOf(what, i).id = i
      BY IdleTaskType DEF ScanOf, Task
    <3>2. i # Unset
      BY <1>1, RecordIds, UnsetIsNone DEF OpenIds
    <3> QED BY <1>1, <3>1, <3>2 DEF Claim, OneOpenRecord
  <2>3. \/ OpenIds = {} /\ Receive(t, first)
        \/ \E i \in OpenIds, what \in {"out", "close_and_in"} :
             Receive(t, ScanOf(what, i))
    BY <1>3 DEF ScanRead
  <2> HIDE DEF first
  <2>4. OpenIds = {} => Claim(first, OpenIds)
    BY <2>1 DEF Claim
  <2> QED BY <1>2, <2>2, <2>3, <2>4
<1>4. ASSUME NEW i \in DOMAIN rec, NEW role, NEW in, NEW out,
             EditRead(t, i, role, in, out)
      PROVE  ScansClaim'
  BY <1>2, <1>4 DEF EditRead, Claim
<1>5. ASSUME NEW i \in DOMAIN rec, AcknowledgeRead(t, i)
      PROVE  ScansClaim'
  <2> DEFINE request == [IdleTask EXCEPT !.op = "acknowledge", !.id = i]
  <2>1. request.op = "acknowledge"
    BY IdleTaskType DEF Task
  <2>2. Receive(t, request)
    BY <1>5 DEF AcknowledgeRead
  <2> HIDE DEF request
  <2> QED BY <1>2, <2>1, <2>2 DEF Claim
<1> QED BY <1>3, <1>4, <1>5 DEF Request

\* If no operation but a scan checks in, every step keeps the claims.
LEMMA ClaimStep ==
    ASSUME Ops \cap {"manual", "mark"} = {}
    PROVE  ScansClaim /\ [Next]_vars => ScansClaim'
<1> SUFFICES ASSUME ScansClaim, [Next]_vars PROVE ScansClaim'
  OBVIOUS
<1>1. KnownRecords /\ TypeOK /\ task \in [Tasks -> Task] /\ KnownRecords'
  BY KnownStep DEF ScansClaim, KnownRecords, TypeOK
<1>2. ASSUME NEW t \in Tasks, TaskStep(t) PROVE ScansClaim'
  <2>1. task[t].op \notin {"manual", "mark"}
    BY DEF ScansClaim, Claim
  <2>2. CASE ScanCommit(t)
    BY <1>1, <2>2, CommitOpens
  <2>3. CASE EditWrite(t) \/ AcknowledgeWrite(t)
    <3>1. task[t].id \in DOMAIN rec
      BY <1>1, <2>3 DEF KnownRecords, TaskInv, EditWrite, AcknowledgeWrite
    <3>2. OpenIds' \subseteq OpenIds
      BY <1>1, <2>3, <3>1, CorrectionUpdates, UpdateOpens
    <3>3. Return(t)
      BY <2>3 DEF EditWrite, AcknowledgeWrite
    <3> QED BY <1>1, <3>2, <3>3, FewerOpen DEF Return
  <2>4. CASE ScanAbort(t)
    BY <1>1, <2>4, FewerOpen DEF ScanAbort, Return, OpenIds, Open
  <2> QED BY <1>2, <2>1, <2>2, <2>3, <2>4 DEF TaskStep, ManualWrite, MarkWrite
<1>3. ASSUME NEW r \in Runs, NEW open \in run[r].found, RunRecord(r, open)
      PROVE  ScansClaim'
  <2>1. OpenIds' \subseteq OpenIds
    <3>1. CASE rec' = rec
      BY <3>1 DEF OpenIds, Open
    <3>2. CASE rec' # rec
      BY <1>1, <1>3, <3>2, RunUpdates, UpdateOpens
    <3> QED BY <3>1, <3>2
  <2> QED BY <1>1, <1>3, <2>1, FewerOpen DEF RunRecord
<1>4. ASSUME UNCHANGED rec, \A t \in Tasks : task'[t] \in {task[t], IdleTask}
      PROVE  ScansClaim'
  BY <1>1, <1>4, FewerOpen DEF OpenIds, Open
<1>5. ASSUME NEW r \in Runs,
             \/ RunEnd(r) \/ RunStart(r)
             \/ \E open \in run[r].found : RecordFails(r, open)
      PROVE  ScansClaim'
  BY <1>4, <1>5 DEF RunEnd, RunStart, RecordFails
<1>6. ASSUME NEW t \in Tasks, TaskFails(t) PROVE ScansClaim'
  BY <1>1, <1>4, <1>6 DEF TaskFails, Return
<1>7. CASE Restart
  BY <1>4, <1>7 DEF Restart
<1>8. CASE Tick \/ UNCHANGED vars
  BY <1>4, <1>8 DEF Tick, vars
<1> QED BY <1>1, <1>2, <1>3, <1>5, <1>6, <1>7, <1>8, ReadClaims
        DEF Next, RunStep

\* If nobody but scans checks in, an employee has one open record at most, for
\* any number of devices and runs of the job, any shift, and failures anywhere.
THEOREM OneOpen ==
    ASSUME Ops \cap {"manual", "mark"} = {}
    PROVE  Spec => []OneOpenRecord
<1>1. Init => ScansClaim
  <2> SUFFICES ASSUME Init PROVE ScansClaim
    OBVIOUS
  <2>1. OpenIds = {}
    BY DEF Init, OpenIds
  <2> QED BY <2>1, KnownInit, IdleTaskType
          DEF Init, ScansClaim, OneOpenRecord, Claim
<1>2. ScansClaim /\ [Next]_vars => ScansClaim'
  BY ClaimStep
<1>3. ScansClaim => OneOpenRecord
  BY DEF ScansClaim
<1> QED BY <1>1, <1>2, <1>3, PTL DEF Spec

-----------------------------------------------------------------------------
(* More about dates, shifts and rows *)

\* A date is a multiple of Day.
LEMMA Multiples ==
    ASSUME NEW time \in Nat
    PROVE  \E k \in Nat : Date(time) = Day * k
<1>1. Day \in Nat \ {0}
  BY ConstantsAssumption
<1>2. time = Day * (time \div Day) + (time % Day) /\ time \div Day \in Nat
  BY <1>1, SMT
<1>3. Date(time) = time - (time % Day)
  BY DEF Date
<1>4. PICK k \in Nat : k = time \div Day
  BY <1>2
<1>5. PICK m \in Int : m = time % Day
  BY <1>1
<1>6. PICK p \in Int : p = Day * k
  BY <1>1
<1>7. Date(time) = p
  BY <1>2, <1>3, <1>4, <1>5, <1>6
<1> QED BY <1>4, <1>6, <1>7

\* Dates are in the order of their times.
LEMMA DateOrder ==
    ASSUME NEW a \in Nat, NEW b \in Nat, a <= b
    PROVE  Date(a) <= Date(b)
<1>1. PICK j \in Nat, k \in Nat : Date(a) = Day * j /\ Date(b) = Day * k
  BY Multiples
<1>2. /\ Date(a) <= a /\ b < Date(b) + Day /\ Day \in Nat
      /\ Date(a) \in Nat /\ Date(b) \in Nat
  BY DateBounds, ConstantsAssumption
<1>3. ASSUME j > k PROVE FALSE
  <2>1. PICK d \in Nat : j = k + 1 + d
    <3>1. j - k - 1 \in Nat /\ j = k + 1 + (j - k - 1)
      BY <1>3
    <3> QED BY <3>1
  <2>2. Day * j = Day * k + Day + Day * d /\ Day * d \in Nat
    BY <1>2, <2>1
  <2> QED BY <1>1, <1>2, <2>2
<1>4. CASE j <= k
  <2>1. PICK d \in Nat : k = j + d
    <3>1. k - j \in Nat /\ k = j + (k - j)
      BY <1>4
    <3> QED BY <3>1
  <2>2. Day * k = Day * j + Day * d /\ Day * d \in Nat
    BY <1>2, <2>1
  <2> QED BY <1>1, <1>2, <2>2
<1> QED BY <1>3, <1>4

\* The end of the shift of a check-in is after it.
LEMMA ShiftEndsLater ==
    ASSUME NEW in \in Times
    PROVE  in < ShiftEnd(in)
<1>1. in \in Nat /\ Day \in Nat /\ Shift.end \in Nat
  BY ConstantsAssumption DEF Times
<1>2. Date(in) \in Nat /\ in < Date(in) + Day
  BY <1>1, DateBounds
<1> QED BY <1>1, <1>2 DEF ShiftEnd

\* The times of a row.
LEMMA RowTimes ==
    ASSUME NEW rows \in Seq(Record), NEW i \in DOMAIN rows
    PROVE  /\ rows[i] \in Record /\ rows[i].in \in Times /\ rows[i].in \in Nat
           /\ rows[i].out \in Int /\ rows[i].out >= Unset
           /\ rows[i].status \in {"CHECKED_IN", "CHECKED_OUT", "AUTO_CLOSED"}
<1>1. rows[i] \in Record
  OBVIOUS
<1>2. /\ rows[i].in \in Times /\ rows[i].out \in Times \cup {Unset}
      /\ rows[i].status \in {"CHECKED_IN", "CHECKED_OUT", "AUTO_CLOSED"}
  BY <1>1 DEF Record
<1>3. Times \subseteq Nat
  BY ConstantsAssumption DEF Times
<1>4. rows[i].out \in Int /\ rows[i].out >= Unset
  <2>1. CASE rows[i].out = Unset
    BY <2>1 DEF Unset
  <2>2. CASE rows[i].out \in Nat
    BY <2>2 DEF Unset
  <2> QED BY <1>2, <1>3, <2>1, <2>2
<1> QED BY <1>1, <1>2, <1>3, <1>4

-----------------------------------------------------------------------------
(* The order of the records *)

\* Nothing lies in the future, and a record is only followed by another once it
\* is closed, and not before it ends.
Ordered ==
    \A i \in DOMAIN rec :
        /\ rec[i].in <= now /\ rec[i].out <= now
        /\ Open(i) => rec[i].out = Unset
        /\ Backdated(i) => RosterEnd(rec[i].in) < rec[i].in
        /\ \A j \in DOMAIN rec : i < j =>
             ~Open(i) /\ rec[i].in <= rec[j].in /\ rec[i].out <= rec[j].in

\* A run of the job has seen what it has found open, and what came later came
\* after the run began.
Remembers ==
    \A r \in Runs : \A open \in run[r].found :
        /\ rec[open.id].in = open.in
        /\ \A j \in DOMAIN rec : open.id < j => run[r].at <= rec[j].in

\* A record that the cooldown no longer cares about.
Quiet(i) ==
    /\ ~Backdated(i) => rec[i].in + Cooldown <= now
    /\ rec[i].status = "CHECKED_OUT" => rec[i].out + Cooldown <= now

\* What a scan has found out stays true until it commits; nobody edits.
Ready(tk) ==
    /\ tk.op # "edit"
    /\ tk.op = "scan" =>
         /\ tk.id # Unset => tk.row.status = "CHECKED_IN"
         /\ tk.do = "out" => rec[tk.id].in + Cooldown <= now
         /\ tk.do # "out" => /\ \A i \in DOMAIN rec : Quiet(i)
                             /\ BelowDailyLimit
Readies == \A t \in Tasks : Ready(task[t])

LimitKept == \A date \in Nat : Cardinality(CheckInsOn(date)) <= DailyLimit

ClockInv ==
    ScansClaim /\ Ordered /\ Remembers /\ Readies /\ ScansSpaced /\ LimitKept

\* What a step may do to a record: nothing, close it as the job does, or check
\* it out or close it as a scan does.
Stays(i) == rec'[i].out = rec[i].out /\ rec'[i].status = rec[i].status
Capped(i) ==
    /\ rec'[i].status = "AUTO_CLOSED" /\ rec'[i].out = RosterEnd(rec[i].in)
    /\ rec'[i].out <= now
    /\ \A j \in DOMAIN rec : i < j => rec'[i].out <= rec[j].in
Ended(i) ==
    /\ Open(i)
    /\ \/ /\ rec'[i].status = "CHECKED_OUT" /\ rec'[i].out = now
          /\ rec[i].in + Cooldown <= now /\ DOMAIN rec' = DOMAIN rec
       \/ /\ rec'[i].status = "AUTO_CLOSED"
          /\ rec[i].in < rec'[i].out /\ rec'[i].out <= now
\* A new record follows the others when nobody is checked in.
Enters(j) ==
    /\ j = Len(rec) + 1 /\ rec'[j].in = now
    /\ rec'[j].out = Unset /\ rec'[j].status = "CHECKED_IN"
    /\ BelowDailyLimit
    /\ \A i \in DOMAIN rec : i < j /\ Quiet(i) /\ rec'[i].status # "CHECKED_IN"
RowsMove ==
    /\ now' \in Nat /\ now <= now'
    /\ DOMAIN rec \subseteq DOMAIN rec'
    /\ \A i \in DOMAIN rec :
         /\ rec'[i].in = rec[i].in /\ rec'[i].out \in Int
         /\ Stays(i) \/ Capped(i) \/ Ended(i)
    /\ \A j \in DOMAIN rec' \ DOMAIN rec : Enters(j)

\* The facts about types that the lemmas below need.
LEMMA Typed ==
    ASSUME TypeOK
    PROVE  /\ now \in Nat /\ now \in Times
           /\ rec \in Seq(Record) /\ DOMAIN rec = 1 .. Len(rec) /\ Len(rec) \in Nat
           /\ \A i \in DOMAIN rec :
                /\ i \in Nat /\ rec[i] \in Record
                /\ rec[i].in \in Times /\ rec[i].in \in Nat
                /\ rec[i].out \in Int /\ rec[i].out >= Unset
           /\ Cooldown \in Nat /\ Grace \in Nat /\ DailyLimit \in Nat \ {0}
<1>1. now \in Times /\ rec \in Seq(Record)
  BY DEF TypeOK
<1>2. now \in Nat /\ Cooldown \in Nat /\ Grace \in Nat /\ DailyLimit \in Nat \ {0}
  BY <1>1, ConstantsAssumption DEF Times
<1>3. DOMAIN rec = 1 .. Len(rec) /\ Len(rec) \in Nat
  BY <1>1
<1>4. \A i \in DOMAIN rec :
        /\ rec[i] \in Record /\ rec[i].in \in Times /\ rec[i].in \in Nat
        /\ rec[i].out \in Int /\ rec[i].out >= Unset
  BY <1>1, RowTimes
<1> QED BY <1>1, <1>2, <1>3, <1>4

\* A record that a step adds comes after the others, and one that it ends does
\* not end after the next begins.
LEMMA OrderedStep ==
    ASSUME TypeOK, Ordered, RowsMove
    PROVE  Ordered'
<1>1. /\ now \in Nat /\ now' \in Nat /\ now <= now'
      /\ DOMAIN rec \subseteq DOMAIN rec'
      /\ \A j \in DOMAIN rec' \ DOMAIN rec : Enters(j)
  BY Typed DEF RowsMove
<1>2. ASSUME NEW i \in DOMAIN rec
      PROVE  /\ rec'[i].in = rec[i].in /\ rec[i].in \in Nat /\ rec[i].out \in Int
             /\ rec[i].in <= now /\ rec[i].out <= now
             /\ RosterEnd(rec[i].in) \in Nat
  <2>1. /\ rec'[i].in = rec[i].in /\ rec[i].in \in Times
        /\ rec[i].in \in Nat /\ rec[i].out \in Int
    BY Typed DEF RowsMove
  <2> QED BY <2>1, ShiftEndType DEF Ordered
<1>3. ASSUME NEW i \in DOMAIN rec
      PROVE  /\ rec'[i].out \in Int /\ rec'[i].out <= now
             /\ Open(i)' => rec'[i].out = Unset /\ Open(i) /\ Stays(i)
             /\ Backdated(i)' => RosterEnd(rec[i].in) < rec[i].in
  <2>1. CASE Stays(i)
    BY <1>2, <2>1 DEF Stays, Ordered, Open, Backdated
  <2>2. CASE Capped(i)
    BY <1>2, <2>2 DEF Capped, Open, Backdated
  <2>3. CASE Ended(i)
    <3>1. rec'[i].out \in Int
      BY DEF RowsMove
    <3>2. rec'[i].out <= now /\ rec'[i].status # "CHECKED_IN"
      BY <1>1, <2>3 DEF Ended
    <3>3. ~Backdated(i)'
      <4>1. \/ rec'[i].status = "CHECKED_OUT"
            \/ rec[i].in < rec'[i].out
        BY <2>3 DEF Ended
      <4> QED BY <1>2, <3>1, <4>1 DEF Backdated
    <3> QED BY <3>1, <3>2, <3>3 DEF Open
  <2> QED BY <1>2, <2>1, <2>2, <2>3 DEF RowsMove
<1>4. ASSUME NEW i \in DOMAIN rec, NEW j \in DOMAIN rec', i < j
      PROVE  ~Open(i)' /\ rec'[i].in <= rec'[j].in /\ rec'[i].out <= rec'[j].in
  <2>1. CASE j \in DOMAIN rec
    <3>1. /\ ~Open(i) /\ rec[i].in <= rec[j].in /\ rec[i].out <= rec[j].in
          /\ rec'[j].in = rec[j].in
      BY <1>2, <1>4, <2>1 DEF Ordered
    <3>2. rec'[i].out <= rec[j].in
      <4>1. Stays(i) \/ Capped(i)
        BY <3>1 DEF RowsMove, Ended
      <4> QED BY <1>4, <2>1, <3>1, <4>1 DEF Stays, Capped
    <3> QED BY <1>2, <1>3, <3>1, <3>2
  <2>2. CASE j \notin DOMAIN rec
    <3>1. rec'[j].in = now /\ rec'[i].status # "CHECKED_IN"
      BY <1>1, <2>2 DEF Enters
    <3> QED BY <1>2, <1>3, <3>1 DEF Open
  <2> QED BY <2>1, <2>2
<1>5. ASSUME NEW i \in DOMAIN rec', i \notin DOMAIN rec
      PROVE  /\ rec'[i].in <= now' /\ rec'[i].out <= now'
             /\ Open(i)' => rec'[i].out = Unset
             /\ ~Backdated(i)'
             /\ \A j \in DOMAIN rec' : ~(i < j)
  <2>1. Enters(i) /\ i = Len(rec) + 1 /\ Len(rec) \in Nat /\ DOMAIN rec = 1 .. Len(rec)
    BY <1>1, <1>5, Typed DEF Enters
  <2>2. \A j \in DOMAIN rec' : ~(i < j)
    <3> SUFFICES ASSUME NEW j \in DOMAIN rec', i < j PROVE FALSE
      OBVIOUS
    <3>1. CASE j \in DOMAIN rec
      BY <2>1, <3>1
    <3>2. CASE j \notin DOMAIN rec
      BY <1>1, <2>1, <3>2 DEF Enters
    <3> QED BY <3>1, <3>2
  <2> QED BY <1>1, <2>1, <2>2 DEF Enters, Unset, Backdated
<1>6. ASSUME NEW i \in DOMAIN rec
      PROVE  rec'[i].in <= now' /\ rec'[i].out <= now'
  BY <1>1, <1>2, <1>3
<1>7. ASSUME NEW i \in DOMAIN rec
      PROVE  Backdated(i)' => RosterEnd(rec'[i].in) < rec'[i].in
  BY <1>2, <1>3
<1> QED BY <1>3, <1>4, <1>5, <1>6, <1>7 DEF Ordered

\* The spacing survives: whatever a scan ends or begins is Quiet for long enough.
LEMMA SpacedStep ==
    ASSUME TypeOK, Ordered, ScansSpaced, RowsMove
    PROVE  ScansSpaced'
<1>1. /\ now \in Nat /\ Cooldown \in Nat
      /\ DOMAIN rec \subseteq DOMAIN rec'
      /\ \A j \in DOMAIN rec' \ DOMAIN rec : Enters(j)
  BY Typed DEF RowsMove
<1>2. ASSUME NEW i \in DOMAIN rec
      PROVE  /\ rec'[i].in = rec[i].in /\ rec[i].in \in Nat /\ rec[i].out \in Int
             /\ rec'[i].out \in Int
             /\ Stays(i) \/ Capped(i) \/ Ended(i)
  BY Typed DEF RowsMove
\* What a step leaves backdated was so before, or is not yet followed.
<1>3. ASSUME NEW i \in DOMAIN rec
      PROVE  /\ ~Backdated(i)' => ~Backdated(i)
             /\ rec'[i].status = "CHECKED_OUT" =>
                  \/ Stays(i)
                  \/ /\ Open(i) /\ rec'[i].out = now /\ rec[i].in + Cooldown <= now
                     /\ DOMAIN rec' = DOMAIN rec
  <2>1. CASE Stays(i)
    BY <1>2, <2>1 DEF Stays, Backdated
  <2>2. CASE Capped(i)
    <3>1. Backdated(i) => rec'[i].out < rec'[i].in
      BY <1>2, <2>2 DEF Capped, Ordered
    <3> QED BY <2>2, <3>1 DEF Capped, Backdated
  <2>3. CASE Ended(i)
    BY <1>2, <2>3 DEF Ended, Backdated, Open
  <2> QED BY <1>2, <2>1, <2>2, <2>3
<1>4. ASSUME NEW i \in DOMAIN rec', rec'[i].status = "CHECKED_OUT"
      PROVE  rec'[i].out >= rec'[i].in + Cooldown
  <2>1. i \in DOMAIN rec
    BY <1>1, <1>4 DEF Enters
  <2>2. CASE Stays(i)
    BY <1>2, <1>4, <2>1, <2>2 DEF Stays, ScansSpaced
  <2>3. CASE rec'[i].out = now /\ rec[i].in + Cooldown <= now
    BY <1>1, <1>2, <2>1, <2>3
  <2> QED BY <1>3, <1>4, <2>1, <2>2, <2>3
<1>5. ASSUME NEW i \in DOMAIN rec', NEW j \in DOMAIN rec', i < j
      PROVE  /\ ~Backdated(i)' => rec'[j].in >= rec'[i].in + Cooldown
             /\ rec'[i].status = "CHECKED_OUT" =>
                  rec'[j].in >= rec'[i].out + Cooldown
  <2>1. i \in DOMAIN rec
    <3> SUFFICES ASSUME i \notin DOMAIN rec PROVE FALSE
      OBVIOUS
    <3>1. i = Len(rec) + 1
      BY <1>1 DEF Enters
    <3>2. j \in DOMAIN rec => j <= Len(rec)
      BY Typed
    <3>3. j \notin DOMAIN rec => j = Len(rec) + 1
      BY <1>1 DEF Enters
    <3>4. Len(rec) \in Nat /\ (j \in DOMAIN rec => j \in Nat)
      BY Typed
    <3> QED BY <1>5, <3>1, <3>2, <3>3, <3>4
  <2>2. CASE j \in DOMAIN rec
    <3>1. /\ ~Open(i) /\ rec'[j].in = rec[j].in
          /\ ~Backdated(i) => rec[j].in >= rec[i].in + Cooldown
          /\ rec[i].status = "CHECKED_OUT" => rec[j].in >= rec[i].out + Cooldown
      BY <1>2, <1>5, <2>1, <2>2 DEF Ordered, ScansSpaced
    <3>2. rec'[i].status = "CHECKED_OUT" => Stays(i)
      BY <1>3, <2>1, <3>1
    <3> QED BY <1>2, <1>3, <2>1, <3>1, <3>2 DEF Stays
  <2>3. CASE j \notin DOMAIN rec
    <3>1. rec'[j].in = now /\ Quiet(i)
      BY <1>1, <2>1, <2>3 DEF Enters
    <3>2. rec'[i].status = "CHECKED_OUT" => Stays(i)
      BY <1>3, <2>1, <2>3
    <3> QED BY <1>1, <1>2, <1>3, <2>1, <3>1, <3>2 DEF Stays, Quiet
  <2> QED BY <2>2, <2>3
<1> QED BY <1>4, <1>5 DEF ScansSpaced

\* The check-ins of a day before and after a step.
LEMMA LimitStep ==
    ASSUME TypeOK, LimitKept, RowsMove
    PROVE  LimitKept'
<1> SUFFICES ASSUME NEW date \in Nat
             PROVE  Cardinality(CheckInsOn(date)') <= DailyLimit
  BY DEF LimitKept
<1>1. /\ DailyLimit \in Nat /\ DOMAIN rec \subseteq DOMAIN rec'
      /\ \A i \in DOMAIN rec : rec'[i].in = rec[i].in
      /\ \A j \in DOMAIN rec' \ DOMAIN rec : Enters(j)
  BY Typed DEF RowsMove
<1>2. /\ IsFiniteSet(CheckInsOn(date)) /\ Cardinality(CheckInsOn(date)) \in Nat
      /\ Cardinality(CheckInsOn(date)) <= DailyLimit
  <2>1. CheckInsOn(date) \subseteq DOMAIN rec
    BY DEF CheckInsOn
  <2>2. DOMAIN rec = 1 .. Len(rec) /\ 1 \in Int /\ Len(rec) \in Int
    BY Typed
  <2>3. IsFiniteSet(1 .. Len(rec))
    BY <2>2, FS_Interval
  <2>4. IsFiniteSet(CheckInsOn(date))
    BY <2>1, <2>2, <2>3, FS_Subset
  <2> QED BY <2>4, FS_CardinalityType DEF LimitKept
<1>3. CASE CheckInsOn(date)' \subseteq CheckInsOn(date)
  <2>1. /\ Cardinality(CheckInsOn(date)') \in Nat
        /\ Cardinality(CheckInsOn(date)') <= Cardinality(CheckInsOn(date))
    BY <1>2, <1>3, FS_Subset, FS_CardinalityType
  <2> QED BY <1>1, <1>2, <2>1
<1>4. ASSUME NEW j \in CheckInsOn(date)', j \notin CheckInsOn(date)
      PROVE  Cardinality(CheckInsOn(date)') <= DailyLimit
  <2>1. /\ j \in DOMAIN rec' \ DOMAIN rec /\ Enters(j)
        /\ Date(now) = date
    BY <1>1, <1>4 DEF CheckInsOn, Enters
  <2>2. CheckInsOn(date)' \subseteq CheckInsOn(date) \cup {j}
    BY <1>1, <2>1 DEF CheckInsOn, Enters
  <2>3. Cardinality(CheckInsOn(date)) < DailyLimit
    BY <2>1 DEF Enters, BelowDailyLimit
  <2>4. /\ IsFiniteSet(CheckInsOn(date) \cup {j})
        /\ Cardinality(CheckInsOn(date) \cup {j}) \in Nat
        /\ Cardinality(CheckInsOn(date) \cup {j}) <= Cardinality(CheckInsOn(date)) + 1
    <3> DEFINE day == CheckInsOn(date)
    <3>1. /\ IsFiniteSet(day \cup {j})
          /\ Cardinality(day \cup {j})
               = IF j \in day THEN Cardinality(day) ELSE Cardinality(day) + 1
      BY <1>2, FS_AddElement
    <3>2. Cardinality(day \cup {j}) \in Nat
      BY <3>1, FS_CardinalityType
    <3> HIDE DEF day
    <3> QED BY <1>2, <3>1, <3>2 DEF day
  <2>5. /\ Cardinality(CheckInsOn(date)') \in Nat
        /\ Cardinality(CheckInsOn(date)') <= Cardinality(CheckInsOn(date) \cup {j})
    BY <2>2, <2>4, FS_Subset, FS_CardinalityType
  <2> QED BY <1>1, <1>2, <2>3, <2>4, <2>5
<1> QED BY <1>3, <1>4

-----------------------------------------------------------------------------
(* What scans and runs know of the records *)

\* A step that commits no scan.
Calm == DOMAIN rec' = DOMAIN rec /\ \A i \in DOMAIN rec : Stays(i) \/ Capped(i)

\* A new day begins without check-ins.
LEMMA LimitReady ==
    ASSUME TypeOK, Ordered, RowsMove, Calm, BelowDailyLimit
    PROVE  BelowDailyLimit'
<1>1. /\ now \in Nat /\ now' \in Nat /\ now <= now' /\ DailyLimit \in Nat \ {0}
      /\ DOMAIN rec' = DOMAIN rec
      /\ \A i \in DOMAIN rec :
           rec'[i].in = rec[i].in /\ rec[i].in \in Nat /\ rec[i].in <= now
  BY Typed DEF RowsMove, Calm, Ordered
<1>2. CASE Date(now') = Date(now)
  <2>1. CheckInsOn(Date(now))' = CheckInsOn(Date(now))
    BY <1>1, <1>2 DEF CheckInsOn
  <2>2. Cardinality(CheckInsOn(Date(now))') = Cardinality(CheckInsOn(Date(now)))
    BY <2>1, Zenon
  <2> QED BY <2>2 DEF BelowDailyLimit
<1>3. CASE Date(now') # Date(now)
  <2>1. ASSUME NEW i \in DOMAIN rec PROVE Date(rec'[i].in) # Date(now')
    <3>1. /\ Date(rec[i].in) <= Date(now) /\ Date(rec[i].in) \in Nat
      BY <1>1, DateOrder, DateBounds
    <3>2. Date(now) <= Date(now') /\ Date(now) \in Nat /\ Date(now') \in Nat
      BY <1>1, DateOrder, DateBounds
    <3>3. Date(rec'[i].in) = Date(rec[i].in)
      BY <1>1
    <3> QED BY <1>3, <3>1, <3>2, <3>3
  <2>2. CheckInsOn(Date(now))' = {}
    BY <1>1, <2>1 DEF CheckInsOn
  <2>3. Cardinality(CheckInsOn(Date(now))') = 0
    <3>1. Cardinality({}) = 0
      BY FS_EmptySet
    <3> QED BY <2>2, <3>1, Zenon
  <2> QED BY <1>1, <2>3 DEF BelowDailyLimit
<1> QED BY <1>2, <1>3

\* A step that commits no scan leaves true what a scan has found out.
LEMMA ReadyKept ==
    ASSUME TypeOK, Ordered, RowsMove, Calm, NEW tk \in Task,
           TaskInv(tk, DOMAIN rec, now), Ready(tk)
    PROVE  Ready(tk)'
<1> SUFFICES ASSUME tk.op = "scan" PROVE Ready(tk)'
  BY DEF Ready
<1>1. /\ now \in Nat /\ now' \in Nat /\ now <= now' /\ Cooldown \in Nat
      /\ DOMAIN rec' = DOMAIN rec
  BY Typed DEF RowsMove, Calm
<1>2. ASSUME NEW i \in DOMAIN rec
      PROVE  /\ rec'[i].in = rec[i].in /\ rec[i].in \in Nat /\ rec[i].out \in Int
             /\ Stays(i) \/ Capped(i)
  BY Typed DEF RowsMove, Calm
<1>3. ASSUME NEW i \in DOMAIN rec, Quiet(i) PROVE Quiet(i)'
  <2>1. CASE Stays(i)
    BY <1>1, <1>2, <1>3, <2>1 DEF Stays, Quiet, Backdated
  <2>2. CASE Capped(i)
    <3>1. Backdated(i) => rec'[i].out < rec'[i].in
      BY <1>2, <2>2 DEF Capped, Ordered
    <3> QED BY <1>1, <1>2, <1>3, <2>2, <3>1 DEF Capped, Quiet, Backdated
  <2> QED BY <1>2, <2>1, <2>2
<1>4. tk.do = "out" => rec'[tk.id].in + Cooldown <= now'
  <2> SUFFICES ASSUME tk.do = "out" PROVE rec'[tk.id].in + Cooldown <= now'
    OBVIOUS
  <2>1. tk.id \in DOMAIN rec /\ rec[tk.id].in + Cooldown <= now
    BY DEF TaskInv, Ready
  <2> QED BY <1>1, <1>2, <2>1
<1> QED BY <1>1, <1>3, <1>4, LimitReady DEF Ready

\* A scan that is not told to wait is far enough from all others.
LEMMA NotCooling ==
    ASSUME TypeOK, Ordered, ScansSpaced, ~CoolingDown, NEW i \in DOMAIN rec
    PROVE  IF Open(i) THEN rec[i].in + Cooldown <= now ELSE Quiet(i)
<1>1. now \in Nat /\ Cooldown \in Nat /\ Len(rec) \in Nat /\ DOMAIN rec = 1 .. Len(rec)
  BY Typed
<1>2. \A j \in DOMAIN rec :
        /\ j \in Nat /\ rec[j].in \in Nat /\ rec[j].out \in Int
        /\ rec[j].in <= now /\ rec[j].out <= now
  BY Typed DEF Ordered
<1>3. CASE i # Len(rec)
  <2>1. Len(rec) \in DOMAIN rec /\ i < Len(rec)
    BY <1>1, <1>3
  <2>2. ~Open(i)
    BY <2>1 DEF Ordered
  <2>3. /\ ~Backdated(i) => rec[Len(rec)].in >= rec[i].in + Cooldown
        /\ rec[i].status = "CHECKED_OUT" => rec[Len(rec)].in >= rec[i].out + Cooldown
    BY <2>1 DEF ScansSpaced
  <2> QED BY <1>1, <1>2, <2>1, <2>2, <2>3 DEF Quiet
<1>4. CASE i = Len(rec)
  <2>1. \A j \in DOMAIN rec : rec[j].in <= rec[i].in
    <3> SUFFICES ASSUME NEW j \in DOMAIN rec PROVE rec[j].in <= rec[i].in
      OBVIOUS
    <3>1. j = i \/ j < i
      BY <1>1, <1>4
    <3> QED BY <1>2, <3>1 DEF Ordered
  <2>2. Recent(i) => now - LastAction(i) >= Cooldown
    <3>1. Recent(i) => ~(now - LastAction(i) < Cooldown)
      BY <2>1 DEF CoolingDown
    <3> QED BY <1>1, <1>2, <3>1 DEF LastAction
  <2>3. CASE Open(i)
    <3>1. LastAction(i) = rec[i].in
      BY <2>3 DEF Ordered, LastAction
    <3> QED BY <1>1, <1>2, <2>2, <2>3, <3>1 DEF Recent
  <2>4. CASE ~Open(i) /\ ~Recent(i)
    BY <1>1, <1>2, <2>4 DEF Recent, Quiet
  <2>5. CASE ~Open(i) /\ Recent(i)
    <3>1. rec[i].out = Unset =>
            /\ rec[i].in + Cooldown <= now
            /\ rec[i].status # "CHECKED_OUT"
      BY <1>1, <1>2, <2>2, <2>5 DEF LastAction, ScansSpaced, Unset
    <3>2. rec[i].out # Unset => rec[i].out + Cooldown <= now
      BY <1>1, <1>2, <2>2, <2>5 DEF LastAction
    <3>3. rec[i].status \in {"CHECKED_OUT", "AUTO_CLOSED"}
      BY <2>5, Typed DEF Open, Record
    <3>4. ~Backdated(i) => rec[i].in <= rec[i].out
      BY <1>1, <1>2, <3>3 DEF Backdated, ScansSpaced
    <3> QED BY <1>1, <1>2, <2>5, <3>1, <3>2, <3>4 DEF Quiet
  <2> QED BY <2>3, <2>4, <2>5
<1> QED BY <1>3, <1>4

\* A scan that has looked at the records is ready.
LEMMA ScanReadReady ==
    ASSUME ClockInv, NEW t \in Tasks, ScanRead(t)
    PROVE  \E tk \in Task : Receive(t, tk) /\ Ready(tk)
<1>1. /\ TypeOK /\ Ordered /\ ScansSpaced /\ OneOpenRecord /\ ~CoolingDown
  BY DEF ClockInv, ScansClaim, KnownRecords, ScanRead
<1>2. \A i \in DOMAIN rec :
        IF Open(i) THEN rec[i].in + Cooldown <= now ELSE Quiet(i)
  BY <1>1, NotCooling
<1>3. ASSUME OpenIds = {}, BelowDailyLimit,
             Receive(t, [IdleTask EXCEPT !.op = "scan", !.do = "in"])
      PROVE  \E tk \in Task : Receive(t, tk) /\ Ready(tk)
  <2> DEFINE tk == [IdleTask EXCEPT !.op = "scan", !.do = "in"]
  <2>1. tk \in Task /\ tk.op = "scan" /\ tk.do = "in" /\ tk.id = Unset
    BY IdleTaskType DEF Task, AllOps
  <2>2. Receive(t, tk)
    BY <1>3
  <2> HIDE DEF tk
  <2>3. \A i \in DOMAIN rec : Quiet(i)
    BY <1>2, <1>3 DEF OpenIds
  <2> QED BY <1>3, <2>1, <2>2, <2>3 DEF Ready
<1>4. ASSUME NEW i \in OpenIds, NEW do \in {"out", "close_and_in"},
             do # "out" => BelowDailyLimit, Receive(t, ScanOf(do, i))
      PROVE  \E tk \in Task : Receive(t, tk) /\ Ready(tk)
  <2>1. i \in DOMAIN rec /\ i \in Ids /\ rec[i] \in Record /\ Open(i)
    BY <1>1, RecordIds DEF OpenIds, TypeOK
  <2>2. /\ ScanOf(do, i) \in Task
        /\ ScanOf(do, i).op = "scan" /\ ScanOf(do, i).do = do
        /\ ScanOf(do, i).id = i /\ ScanOf(do, i).row = rec[i]
    BY <2>1, IdleTaskType DEF ScanOf, Task, AllOps
  <2>3. rec[i].in + Cooldown <= now
    BY <1>2, <2>1
  <2>4. \A j \in DOMAIN rec : j # i => Quiet(j)
    BY <1>1, <1>2, <2>1 DEF OneOpenRecord, OpenIds
  <2>5. Quiet(i)
    BY <2>1, <2>3 DEF Quiet, Open
  <2> QED BY <1>4, <2>1, <2>2, <2>3, <2>4, <2>5 DEF Ready, Open
<1> QED BY <1>3, <1>4 DEF ScanRead

\* A close or a check-out changes the end of one record.
Closes(i, time, status) ==
    rec' = [rec EXCEPT ![i].out = time, ![i].status = status]

\* It leaves all else.
LEMMA ClosedRow ==
    ASSUME TypeOK, NEW i \in DOMAIN rec, NEW time, NEW status,
           Closes(i, time, status)
    PROVE  /\ DOMAIN rec' = DOMAIN rec
           /\ \A j \in DOMAIN rec : j # i => rec'[j] = rec[j]
           /\ rec'[i].in = rec[i].in /\ rec'[i].originalIn = rec[i].originalIn
           /\ rec'[i].out = time /\ rec'[i].status = status
<1>1. rec[i] \in Record /\ rec \in Seq(Record)
  BY DEF TypeOK
<1> DEFINE new == [rec[i] EXCEPT !.out = time, !.status = status]
<1>2. /\ new.in = rec[i].in /\ new.originalIn = rec[i].originalIn
      /\ new.out = time /\ new.status = status
  BY <1>1 DEF Record
<1>3. rec' = [rec EXCEPT ![i] = new]
  BY <1>1 DEF Closes
<1> HIDE DEF new
<1> QED BY <1>1, <1>2, <1>3

\* A step that leaves the times of all records.
LEMMA AllStay ==
    ASSUME TypeOK, DOMAIN rec' = DOMAIN rec, now' \in Nat, now <= now',
           \A i \in DOMAIN rec : rec'[i].in = rec[i].in /\ Stays(i)
    PROVE  RowsMove /\ Calm
<1>1. \A i \in DOMAIN rec : rec'[i].out \in Int
  BY Typed DEF Stays
<1> QED BY <1>1 DEF RowsMove, Calm

\* An acknowledgement moves no times.
LEMMA AcknowledgeMoves ==
    ASSUME KnownRecords, NEW t \in Tasks, AcknowledgeWrite(t)
    PROVE  RowsMove /\ Calm
<1>1. /\ TypeOK /\ rec \in Seq(Record) /\ now \in Nat /\ now' = now
      /\ task[t].id \in DOMAIN rec
  BY Typed DEF KnownRecords, TaskInv, AcknowledgeWrite
<1>2. rec' = [rec EXCEPT ![task[t].id].reviewed = TRUE]
  BY DEF AcknowledgeWrite
<1>3. /\ DOMAIN rec' = DOMAIN rec
      /\ \A i \in DOMAIN rec : /\ rec'[i].in = rec[i].in /\ rec'[i].out = rec[i].out
                               /\ rec'[i].status = rec[i].status
  <2> DEFINE i == task[t].id
             new == [rec[i] EXCEPT !.reviewed = TRUE]
  <2>1. rec[i] \in Record
    BY <1>1
  <2>2. new.in = rec[i].in /\ new.out = rec[i].out /\ new.status = rec[i].status
    BY <2>1 DEF Record
  <2>3. rec' = [rec EXCEPT ![i] = new]
    BY <1>1, <1>2
  <2> HIDE DEF new
  <2> QED BY <1>1, <2>2, <2>3
<1> QED BY <1>1, <1>3, AllStay DEF Stays

\* The job closes a record that it has found open, if it was the last one then,
\* and at a time before the run began.
LEMMA RunMoves ==
    ASSUME KnownRecords, Ordered, Remembers, NEW r \in Runs,
           NEW open \in run[r].found, RunRecord(r, open)
    PROVE  RowsMove /\ Calm
<1>1. /\ TypeOK /\ now \in Nat /\ now' = now /\ run[r] \in Run
      /\ RunInv(run[r], DOMAIN rec, now)
  BY Typed DEF KnownRecords, TypeOK, RunRecord
<1>2. /\ open.id \in DOMAIN rec /\ run[r].at <= now /\ run[r].at \in Times
      /\ open.in = rec[open.id].in /\ open.in \in Times
      /\ \A j \in DOMAIN rec : open.id < j => run[r].at <= rec[j].in
  BY <1>1 DEF Run, RunInv, Remembers
<1>3. CASE UNCHANGED rec
  BY <1>1, <1>3, AllStay DEF Stays
<1>4. CASE PastGrace(open.in, run[r].at) /\ AutoClose(open.id, RosterEnd(open.in))
  <2>1. /\ RosterEnd(open.in) \in Nat /\ Grace \in Nat /\ run[r].at \in Nat
        /\ \A j \in DOMAIN rec : rec[j].in \in Nat /\ rec[j].out \in Int
    <3>1. RosterEnd(open.in) \in Nat
      BY <1>2, ShiftEndType
    <3>2. run[r].at \in Nat
      BY <1>2, ConstantsAssumption DEF Times
    <3> QED BY <1>1, <3>1, <3>2, Typed
  <2>2. RosterEnd(open.in) <= now /\ RosterEnd(open.in) < run[r].at
    BY <1>1, <1>2, <1>4, <2>1 DEF PastGrace
  <2>3. Closes(open.id, RosterEnd(open.in), "AUTO_CLOSED")
    BY <1>4 DEF AutoClose, Closes
  <2>4. /\ DOMAIN rec' = DOMAIN rec
        /\ \A j \in DOMAIN rec : j # open.id => rec'[j] = rec[j]
        /\ rec'[open.id].in = rec[open.id].in
        /\ rec'[open.id].out = RosterEnd(open.in)
        /\ rec'[open.id].status = "AUTO_CLOSED"
    BY <1>1, <1>2, <2>3, ClosedRow
  <2>5. Capped(open.id)
    BY <1>2, <2>1, <2>2, <2>4 DEF Capped
  <2>6. \A j \in DOMAIN rec : j # open.id => Stays(j)
    BY <2>4 DEF Stays
  <2> QED BY <1>1, <2>1, <2>4, <2>5, <2>6 DEF RowsMove, Calm
<1> QED BY <1>3, <1>4 DEF RunRecord

\* A scan that commits ends a record, or begins one, or both.
LEMMA CommitMoves ==
    ASSUME ClockInv, NEW t \in Tasks, ScanCommit(t)
    PROVE  RowsMove
<1> DEFINE i == task[t].id
<1>1. /\ KnownRecords /\ TypeOK /\ Ordered /\ OneOpenRecord /\ task[t] \in Task
      /\ TaskInv(task[t], DOMAIN rec, now) /\ Claim(task[t], OpenIds)
      /\ Ready(task[t])
  BY DEF ClockInv, ScansClaim, KnownRecords, TypeOK, Readies
<1>2. /\ task[t].op = "scan" /\ now' = now
      /\ i # Unset => rec[i] = task[t].row
  BY DEF ScanCommit
<1>3. /\ now \in Nat /\ now \in Times /\ Unset \notin DOMAIN rec
      /\ rec \in Seq(Record) /\ DOMAIN rec = 1 .. Len(rec) /\ Len(rec) \in Nat
      /\ \A j \in DOMAIN rec :
           j \in Nat /\ rec[j].in \in Nat /\ rec[j].in \in Times /\ rec[j].out \in Int
  BY <1>1, Typed, RecordIds, UnsetIsNone
<1>4. task[t].do # "out" =>
        BelowDailyLimit /\ \A j \in DOMAIN rec : j < Len(rec) + 1 /\ Quiet(j)
  BY <1>1, <1>2, <1>3 DEF Ready
<1>5. CASE task[t].do = "in" /\ i = Unset
  <2>1. Create(now, Unset)
    BY <1>5 DEF ScanCommit
  <2>2. /\ DOMAIN rec' = DOMAIN rec \cup {Len(rec) + 1}
        /\ rec'[Len(rec) + 1] = NewRecord(now, Unset)
        /\ \A j \in DOMAIN rec : rec'[j] = rec[j]
    BY <1>1, <1>3, <2>1, CreatedRow
  <2>3. \A j \in DOMAIN rec : rec'[j].status # "CHECKED_IN"
    <3>1. OpenIds = {}
      BY <1>1, <1>2, <1>5 DEF Claim
    <3> QED BY <2>2, <3>1 DEF OpenIds, Open
  <2>4. /\ rec'[Len(rec) + 1].in = now /\ rec'[Len(rec) + 1].out = Unset
        /\ rec'[Len(rec) + 1].status = "CHECKED_IN"
    BY <2>2 DEF NewRecord
  <2>5. Enters(Len(rec) + 1)
    BY <1>4, <1>5, <2>3, <2>4 DEF Enters
  <2>6. \A j \in DOMAIN rec :
          rec'[j].in = rec[j].in /\ rec'[j].out \in Int /\ Stays(j)
    BY <1>3, <2>2 DEF Stays
  <2> QED BY <1>2, <1>3, <2>2, <2>5, <2>6 DEF RowsMove
<1>6. ASSUME i \in DOMAIN rec
      PROVE  Open(i) /\ \A j \in DOMAIN rec : j # i => ~Open(j)
  <2>1. Open(i)
    BY <1>1, <1>2, <1>3, <1>6 DEF Ready, Open
  <2> QED BY <1>1, <1>6, <2>1 DEF OneOpenRecord, OpenIds
<1>7. CASE task[t].do = "out" /\ i \in DOMAIN rec
  <2>1. Closes(i, now, "CHECKED_OUT")
    BY <1>7 DEF ScanCommit, CheckOut, Closes
  <2>2. /\ DOMAIN rec' = DOMAIN rec
        /\ \A j \in DOMAIN rec : j # i => rec'[j] = rec[j]
        /\ rec'[i].in = rec[i].in
        /\ rec'[i].out = now /\ rec'[i].status = "CHECKED_OUT"
    BY <1>1, <1>7, <2>1, ClosedRow
  <2>3. Ended(i)
    BY <1>1, <1>2, <1>6, <1>7, <2>2 DEF Ended, Ready
  <2>4. \A j \in DOMAIN rec : j # i => Stays(j)
    BY <2>2 DEF Stays
  <2> QED BY <1>2, <1>3, <2>2, <2>3, <2>4 DEF RowsMove
<1>8. CASE task[t].do = "close_and_in" /\ i \in DOMAIN rec
  <2> DEFINE end == ShiftEnd(rec[i].in)
             closed == [rec EXCEPT ![i].out = end, ![i].status = "AUTO_CLOSED"]
             next == NewRecord(now, Unset)
  <2>1. end \in Nat /\ end <= now /\ rec[i].in < end
    <3>1. ShiftEnd(task[t].row.in) <= now
      BY <1>1, <1>2, <1>8 DEF TaskInv
    <3>2. rec[i].in = task[t].row.in
      BY <1>2, <1>3, <1>8
    <3> QED BY <1>3, <1>8, <3>1, <3>2, ShiftEndType, ShiftEndsLater
  <2>2. rec' = Append(closed, next)
    BY <1>2, <1>3, <1>8 DEF ScanCommit, CloseTime
  <2>3. /\ next.in = now /\ next.out = Unset /\ next.status = "CHECKED_IN"
    BY DEF NewRecord
  <2> HIDE DEF end, next
  <2>4. /\ closed \in Seq(Record) /\ Len(closed) = Len(rec)
        /\ \A j \in DOMAIN rec : j # i => closed[j] = rec[j]
        /\ closed[i].in = rec[i].in
        /\ closed[i].out = end /\ closed[i].status = "AUTO_CLOSED"
    <3> DEFINE new == [rec[i] EXCEPT !.out = end, !.status = "AUTO_CLOSED"]
    <3>1. rec[i] \in Record /\ end \in Times
      BY <1>3, <1>8, <2>1, ConstantsAssumption DEF Times
    <3>2. /\ new \in Record /\ new.in = rec[i].in /\ new.out = end
          /\ new.status = "AUTO_CLOSED"
      BY <3>1 DEF Record
    <3>3. closed = [rec EXCEPT ![i] = new]
      BY <1>3, <3>1
    <3> HIDE DEF new, closed
    <3> QED BY <1>3, <1>8, <3>2, <3>3
  <2> HIDE DEF closed
  <2>5. /\ DOMAIN rec' = DOMAIN rec \cup {Len(rec) + 1}
        /\ rec'[Len(rec) + 1] = next
        /\ \A j \in DOMAIN rec : rec'[j] = closed[j]
    BY <1>3, <2>2, <2>4
  <2>6. \A j \in DOMAIN rec : rec'[j].status # "CHECKED_IN"
    BY <1>6, <1>8, <2>4, <2>5 DEF Open
  <2>7. Enters(Len(rec) + 1)
    BY <1>4, <1>8, <2>3, <2>5, <2>6 DEF Enters
  <2>8. Ended(i) /\ rec'[i].in = rec[i].in /\ rec'[i].out \in Int
    BY <1>6, <1>8, <2>1, <2>4, <2>5 DEF Ended
  <2>9. \A j \in DOMAIN rec :
          j # i => rec'[j].in = rec[j].in /\ rec'[j].out \in Int /\ Stays(j)
    BY <1>3, <2>4, <2>5 DEF Stays
  <2> QED BY <1>2, <1>3, <2>5, <2>7, <2>8, <2>9 DEF RowsMove
<1> QED BY <1>1, <1>2, <1>5, <1>7, <1>8 DEF TaskInv

\* What a run has found and still has to look at.
LEMMA RememberStep ==
    ASSUME KnownRecords, Ordered, Remembers, RowsMove,
           \A r \in Runs :
              \/ /\ run'[r].found \subseteq run[r].found
                 /\ run'[r].at = run[r].at \/ run'[r].found = {}
              \/ RunStart(r) /\ r \in Runs /\ UNCHANGED rec
    PROVE  Remembers'
<1>1. /\ TypeOK /\ now \in Nat /\ run \in [Runs -> Run]
      /\ DOMAIN rec = 1 .. Len(rec)
      /\ \A i \in DOMAIN rec : rec'[i].in = rec[i].in
      /\ \A j \in DOMAIN rec' \ DOMAIN rec : Enters(j)
  BY Typed DEF KnownRecords, TypeOK, RowsMove
<1> SUFFICES ASSUME NEW r \in Runs, NEW open \in run'[r].found
             PROVE  /\ rec'[open.id].in = open.in
                    /\ \A j \in DOMAIN rec' : open.id < j => run'[r].at <= rec'[j].in
  BY DEF Remembers
<1>2. CASE run'[r].found \subseteq run[r].found /\ run'[r].at = run[r].at
  <2>1. /\ open \in run[r].found /\ run[r].at <= now
        /\ open.id \in DOMAIN rec /\ rec[open.id].in = open.in
        /\ \A j \in DOMAIN rec : open.id < j => run[r].at <= rec[j].in
    BY <1>2 DEF Remembers, KnownRecords, RunInv
  <2>2. ASSUME NEW j \in DOMAIN rec', open.id < j PROVE run'[r].at <= rec'[j].in
    <3>1. CASE j \in DOMAIN rec
      BY <1>1, <1>2, <2>1, <2>2, <3>1
    <3>2. CASE j \notin DOMAIN rec
      BY <1>1, <1>2, <2>1, <3>2 DEF Enters
    <3> QED BY <3>1, <3>2
  <2> QED BY <1>1, <2>1, <2>2
<1>3. CASE RunStart(r) /\ UNCHANGED rec
  <2> DEFINE found == {[id |-> i, in |-> rec[i].in] : i \in OpenIds}
  <2>1. run'[r].found = found
    BY <1>1, <1>3 DEF RunStart
  <2>2. PICK i \in OpenIds : open.id = i /\ open.in = rec[i].in
    BY <2>1
  <2>3. \A j \in DOMAIN rec : ~(i < j)
    BY <2>2 DEF OpenIds, Ordered
  <2> QED BY <1>3, <2>2, <2>3
<1> QED BY <1>2, <1>3

\* A step that commits no scan lets a request return or begin, and one that
\* does leaves no scan in flight.
Served(t) == \/ task'[t] \in {task[t], IdleTask}
             \/ Ready(task'[t]) /\ UNCHANGED <<now, rec>>
Onward(r) == \/ /\ run'[r].found \subseteq run[r].found
                /\ run'[r].at = run[r].at \/ run'[r].found = {}
             \/ RunStart(r) /\ r \in Runs /\ UNCHANGED rec
Moves ==
    /\ RowsMove
    /\ \/ Calm /\ \A t \in Tasks : Served(t)
       \/ \A t \in Tasks : task'[t].op \notin {"scan", "edit"}
    /\ \A r \in Runs : Onward(r)

\* A request that begins has looked at the records as they are.
LEMMA RequestReady ==
    ASSUME Ops \subseteq {"scan", "acknowledge"}, ClockInv,
           NEW t \in Tasks, Request(t)
    PROVE  \E tk : Receive(t, tk) /\ Ready(tk)
<1>1. CASE ScanRead(t)
  BY <1>1, ScanReadReady
<1>2. ASSUME NEW i \in DOMAIN rec, AcknowledgeRead(t, i)
      PROVE  \E tk : Receive(t, tk) /\ Ready(tk)
  <2> DEFINE tk == [IdleTask EXCEPT !.op = "acknowledge", !.id = i]
  <2>1. tk.op = "acknowledge"
    BY IdleTaskType DEF Task
  <2>2. Receive(t, tk)
    BY <1>2 DEF AcknowledgeRead
  <2> HIDE DEF tk
  <2> QED BY <2>1, <2>2 DEF Ready
<1> QED BY <1>1, <1>2 DEF Request

\* Every step moves the records, the requests and the runs like that.
LEMMA NextMoves ==
    ASSUME Ops \subseteq {"scan", "acknowledge"}, ClockInv, [Next]_vars
    PROVE  Moves
<1>1. /\ KnownRecords /\ TypeOK /\ Ordered /\ Remembers /\ now \in Nat
      /\ task \in [Tasks -> Task] /\ run \in [Runs -> Run]
      /\ \A t \in Tasks : task[t].op \notin {"manual", "mark", "edit"}
  BY Typed DEF ClockInv, ScansClaim, KnownRecords, TypeOK, Claim, Readies, Ready
<1>2. ASSUME UNCHANGED rec, now' \in Nat, now <= now' PROVE RowsMove /\ Calm
  BY <1>1, <1>2, AllStay DEF Stays
<1>3. UNCHANGED run => \A r \in Runs : Onward(r)
  BY DEF Onward
<1>4. UNCHANGED task => \A t \in Tasks : Served(t)
  BY DEF Served
<1>5. ASSUME NEW t \in Tasks, Return(t) PROVE \A u \in Tasks : Served(u)
  BY <1>1, <1>5 DEF Return, Served
<1>6. ASSUME NEW t \in Tasks, Request(t) PROVE Moves
  <2>1. PICK tk : Receive(t, tk) /\ Ready(tk)
    BY <1>6, RequestReady
  <2>2. RowsMove /\ Calm
    BY <1>1, <1>2, <2>1 DEF Receive
  <2>3. ASSUME NEW u \in Tasks PROVE Served(u)
    <3>1. task'[u] = IF u = t THEN tk ELSE task[u]
      BY <1>1, <2>1 DEF Receive
    <3> QED BY <2>1, <3>1 DEF Served, Receive
  <2>4. \A r \in Runs : Onward(r)
    BY <1>3, <2>1 DEF Receive
  <2> QED BY <2>2, <2>3, <2>4 DEF Moves
<1>7. ASSUME NEW t \in Tasks, ScanCommit(t) PROVE Moves
  <2>1. \A u \in Tasks : task'[u].op \notin {"scan", "edit"}
    BY <1>1, <1>7, IdleTaskType DEF ScanCommit, AbortOtherScans
  <2>2. RowsMove
    BY <1>7, CommitMoves
  <2>3. \A r \in Runs : Onward(r)
    BY <1>3, <1>7 DEF ScanCommit
  <2> QED BY <2>1, <2>2, <2>3 DEF Moves
<1>8. ASSUME NEW t \in Tasks, TaskStep(t) PROVE Moves
  <2>1. CASE ScanAbort(t)
    BY <1>1, <1>2, <1>3, <1>5, <2>1 DEF ScanAbort, Moves
  <2>2. CASE AcknowledgeWrite(t)
    <3>1. RowsMove /\ Calm
      BY <1>1, <2>2, AcknowledgeMoves
    <3> QED BY <1>3, <1>5, <2>2, <3>1 DEF AcknowledgeWrite, Moves
  <2> QED BY <1>1, <1>7, <1>8, <2>1, <2>2
          DEF TaskStep, ManualWrite, EditWrite, MarkWrite
<1>9. ASSUME NEW r \in Runs, NEW open \in run[r].found,
             RunRecord(r, open) \/ RecordFails(r, open)
      PROVE  Moves
  <2>1. RowsMove /\ Calm
    <3>1. CASE RunRecord(r, open)
      BY <1>1, <3>1, RunMoves
    <3>2. CASE RecordFails(r, open)
      BY <1>1, <1>2, <3>2 DEF RecordFails
    <3> QED BY <1>9, <3>1, <3>2
  <2>2. run' = [run EXCEPT ![r].found = @ \ {open}] /\ UNCHANGED task
    BY <1>9 DEF RunRecord, RecordFails
  <2>3. \A s \in Runs : Onward(s)
    BY <1>1, <2>2 DEF Onward, Run
  <2> QED BY <1>4, <2>1, <2>2, <2>3 DEF Moves
<1>10. ASSUME NEW r \in Runs, RunEnd(r) \/ RunStart(r) PROVE Moves
  <2>1. RowsMove /\ Calm /\ UNCHANGED <<rec, task>>
    BY <1>1, <1>2, <1>10 DEF RunEnd, RunStart
  <2>2. ASSUME NEW s \in Runs PROVE Onward(s)
    <3>1. CASE RunEnd(r)
      BY <1>1, <3>1, IdleRunType DEF RunEnd, Onward
    <3>2. CASE RunStart(r)
      <4>1. s # r => run'[s] = run[s]
        BY <1>1, <3>2 DEF RunStart
      <4> QED BY <2>1, <3>2, <4>1 DEF Onward
    <3> QED BY <1>10, <3>1, <3>2
  <2> QED BY <1>4, <2>1, <2>2 DEF Moves
<1>11. ASSUME NEW t \in Tasks, TaskFails(t) PROVE Moves
  BY <1>1, <1>2, <1>3, <1>5, <1>11 DEF TaskFails, Moves
<1>12. CASE Restart
  <2>1. RowsMove /\ Calm
    BY <1>1, <1>2, <1>12 DEF Restart
  <2> QED BY <1>12, <2>1, IdleRunType DEF Restart, Moves, Served, Onward
<1>13. CASE Tick \/ UNCHANGED vars
  <2>1. now' \in Nat /\ now <= now' /\ UNCHANGED <<rec, task, run>>
    BY <1>1, <1>13 DEF Tick, vars
  <2> QED BY <1>2, <1>3, <1>4, <2>1 DEF Moves
<1> QED BY <1>6, <1>8, <1>9, <1>10, <1>11, <1>12, <1>13 DEF Next, RunStep

\* What the scans in flight have found out is still true after a step.
LEMMA ReadiesStep ==
    ASSUME ClockInv, Moves
    PROVE  Readies'
<1>1. /\ TypeOK /\ Ordered /\ RowsMove /\ task \in [Tasks -> Task]
      /\ \A t \in Tasks : TaskInv(task[t], DOMAIN rec, now) /\ Ready(task[t])
  BY DEF ClockInv, ScansClaim, KnownRecords, TypeOK, Readies, Moves
<1> SUFFICES ASSUME NEW t \in Tasks PROVE Ready(task[t])'
  BY DEF Readies
<1>2. CASE task'[t].op \notin {"scan", "edit"}
  BY <1>2 DEF Ready
<1>3. CASE Calm /\ Served(t)
  <2>1. PICK tk : tk = task'[t]
    OBVIOUS
  <2>2. CASE tk = task[t]
    <3>1. Ready(tk)'
      BY <1>1, <1>3, <2>2, ReadyKept
    <3> QED BY <2>1, <3>1 DEF Ready
  <2>3. CASE tk = IdleTask
    BY <2>1, <2>3, IdleTaskType DEF Ready
  <2>4. CASE Ready(tk) /\ UNCHANGED <<now, rec>>
    <3>1. Ready(tk)'
      BY <2>4 DEF Ready, Quiet, Backdated, BelowDailyLimit, CheckInsOn
    <3> QED BY <2>1, <3>1 DEF Ready
  <2> QED BY <1>3, <2>1, <2>2, <2>3, <2>4 DEF Served
<1> QED BY <1>2, <1>3 DEF Moves

\* The invariant of the clock is inductive where nobody corrects.
LEMMA ClockStep ==
    ASSUME Ops \subseteq {"scan", "acknowledge"}
    PROVE  ClockInv /\ [Next]_vars => ClockInv'
<1> SUFFICES ASSUME ClockInv, [Next]_vars PROVE ClockInv'
  OBVIOUS
<1>1. ScansClaim'
  BY ClaimStep DEF ClockInv
<1>2. Moves /\ RowsMove /\ KnownRecords /\ TypeOK /\ Ordered /\ Remembers
  BY NextMoves DEF ClockInv, ScansClaim, KnownRecords, Moves
<1>3. Ordered'
  BY <1>2, OrderedStep
<1>4. Remembers'
  BY <1>2, RememberStep DEF Moves, Onward
<1>5. Readies'
  BY <1>2, ReadiesStep
<1>6. ScansSpaced'
  BY <1>2, SpacedStep DEF ClockInv
<1>7. LimitKept'
  BY <1>2, LimitStep DEF ClockInv
<1> QED BY <1>1, <1>3, <1>4, <1>5, <1>6, <1>7 DEF ClockInv

\* It holds initially.
LEMMA ClockInit == Init => ClockInv
<1> SUFFICES ASSUME Init PROVE ClockInv
  OBVIOUS
<1>1. rec = <<>> /\ DOMAIN rec = {} /\ OpenIds = {}
  BY DEF Init, OpenIds
<1>2. ScansClaim
  BY <1>1, KnownInit, IdleTaskType DEF Init, ScansClaim, OneOpenRecord, Claim
<1>3. Ordered /\ ScansSpaced
  BY <1>1 DEF Ordered, ScansSpaced
<1>4. Remembers /\ Readies
  BY IdleTaskType, IdleRunType DEF Init, Remembers, Readies, Ready
<1>5. LimitKept
  <2> SUFFICES ASSUME NEW date \in Nat
               PROVE  Cardinality(CheckInsOn(date)) <= DailyLimit
    BY DEF LimitKept
  <2>1. CheckInsOn(date) = {}
    BY <1>1 DEF CheckInsOn
  <2>2. Cardinality(CheckInsOn(date)) = 0
    BY <2>1, FS_EmptySet
  <2> QED BY <2>2, ConstantsAssumption
<1> QED BY <1>2, <1>3, <1>4, <1>5 DEF ClockInv

-----------------------------------------------------------------------------
(* What follows where employees scan and nobody corrects their records *)

\* Two scans are never closer than the cooldown, unless the job has backdated
\* the record of the first.
THEOREM CooldownHolds ==
    ASSUME Ops \subseteq {"scan", "acknowledge"}
    PROVE  Spec => []ScansSpaced
<1>1. ClockInv => ScansSpaced
  BY DEF ClockInv
<1> QED BY <1>1, ClockInit, ClockStep, PTL DEF Spec

\* An employee is not checked in more often than the limit on any day.
THEOREM LimitHolds ==
    ASSUME Ops \subseteq {"scan", "acknowledge"}
    PROVE  Spec => []DailyLimitKept
<1>1. ClockInv => DailyLimitKept
  <2> SUFFICES ASSUME ClockInv, NEW date \in Dates
               PROVE  Cardinality(CheckInsOn(date)) <= DailyLimit
    BY DEF DailyLimitKept
  <2>1. PICK time \in Past : date = Date(time)
    BY DEF Dates
  <2>2. now \in Nat
    BY Typed DEF ClockInv, ScansClaim, KnownRecords
  <2>3. date \in Nat
    BY <2>1, <2>2, DateBounds DEF Past
  <2> QED BY <2>3 DEF ClockInv, LimitKept
<1> QED BY <1>1, ClockInit, ClockStep, PTL DEF Spec

\* No time of an employee is counted twice.
THEOREM CountedOnce ==
    ASSUME Ops \subseteq {"scan", "acknowledge"}
    PROVE  Spec => []NoDoubleCounting
<1>1. ClockInv => NoDoubleCounting
  <2> SUFFICES ASSUME ClockInv, NEW i \in DOMAIN rec, NEW j \in DOMAIN rec, i # j
               PROVE  rec[j].in <= rec[i].in \/ rec[i].out <= rec[j].in
    BY DEF NoDoubleCounting
  <2>1. TypeOK /\ Ordered
    BY DEF ClockInv, ScansClaim, KnownRecords
  <2>2. i \in Nat /\ j \in Nat
    BY <2>1, Typed
  <2>3. i < j \/ j < i
    BY <2>2
  <2> QED BY <2>1, <2>3 DEF Ordered
<1> QED BY <1>1, ClockInit, ClockStep, PTL DEF Spec

-----------------------------------------------------------------------------
(* The check-in a record was created with, whatever is requested *)

\* An edit in flight that has read a record without an original still knows its
\* check-in, or another edit has kept the same one meanwhile.
Original(tk, row) ==
    tk.op = "edit" =>
      IF tk.row.originalIn = Unset
        THEN tk.row.in = IF row.originalIn = Unset THEN row.in ELSE row.originalIn
        ELSE row.originalIn # Unset

Originals ==
    /\ KnownRecords
    /\ \A t \in Tasks : Original(task[t], rec[task[t].id])

\* What a step does to the check-in of a record and to its original.
KeepsOriginal(i) ==
    /\ rec[i].originalIn # Unset => rec'[i].originalIn = rec[i].originalIn
    /\ rec[i].originalIn = Unset => rec'[i].originalIn \in {Unset, rec[i].in}
    /\ rec'[i].in # rec[i].in => rec'[i].originalIn # Unset

\* What all steps but an edit do: nothing.
LeavesIn(i) == rec'[i].in = rec[i].in /\ rec'[i].originalIn = rec[i].originalIn

\* The two writes of a scan leave the check-ins of the records there are.
LEMMA CommitLeaves ==
    ASSUME KnownRecords, NEW t \in Tasks, ScanCommit(t)
    PROVE  \A i \in DOMAIN rec : LeavesIn(i)
<1> DEFINE i == task[t].id
<1>1. /\ TypeOK /\ task[t] \in Task /\ TaskInv(task[t], DOMAIN rec, now)
      /\ task[t].op = "scan" /\ now \in Times
      /\ rec \in Seq(Record) /\ DOMAIN rec = 1 .. Len(rec)
  BY Typed DEF KnownRecords, TypeOK, ScanCommit
<1>2. \A j \in DOMAIN rec : j # i => rec'[j] = rec[j]
  BY ScanCommitRows
<1>3. ASSUME i \in DOMAIN rec, task[t].do = "out" PROVE LeavesIn(i)
  <2>1. Closes(i, now, "CHECKED_OUT")
    BY <1>1, <1>3 DEF ScanCommit, CheckOut, Closes
  <2> QED BY <1>1, <1>3, <2>1, ClosedRow DEF LeavesIn
<1>4. ASSUME i \in DOMAIN rec, task[t].do = "close_and_in" PROVE LeavesIn(i)
  <2> DEFINE end == CloseTime(task[t].row)
             new == [rec[i] EXCEPT !.out = end, !.status = "AUTO_CLOSED"]
             closed == [rec EXCEPT ![i] = new]
             next == NewRecord(now, Unset)
  <2>1. rec' = Append(closed, next)
    BY <1>1, <1>4 DEF ScanCommit
  <2>2. new.in = rec[i].in /\ new.originalIn = rec[i].originalIn
    BY <1>1, <1>4 DEF Record
  <2> HIDE DEF new, next, end
  <2>3. closed[i] = new /\ DOMAIN closed = DOMAIN rec /\ Len(closed) = Len(rec)
    BY <1>1, <1>4
  <2>4. rec'[i] = closed[i]
    <3>1. closed \in Seq(Record \cup {new}) /\ i \in 1 .. Len(closed)
      BY <1>1, <1>4
    <3> HIDE DEF closed
    <3> QED BY <2>1, <3>1
  <2> QED BY <2>2, <2>3, <2>4 DEF LeavesIn
<1>5. ASSUME task[t].do = "in", task[t].id = Unset
      PROVE  \A j \in DOMAIN rec : LeavesIn(j)
  <2>1. Create(now, Unset)
    BY <1>5 DEF ScanCommit
  <2> QED BY <1>1, <2>1, CreatedRow DEF LeavesIn
<1> QED BY <1>1, <1>2, <1>3, <1>4, <1>5 DEF TaskInv, LeavesIn

\* A record at hand that is closed, checked out or acknowledged.
LEMMA UpdateLeaves ==
    ASSUME TypeOK, NEW i \in DOMAIN rec, NEW time,
           \/ AutoClose(i, time) \/ CheckOut(i, time)
           \/ rec' = [rec EXCEPT ![i].reviewed = TRUE]
    PROVE  \A j \in DOMAIN rec : LeavesIn(j)
<1>1. CASE AutoClose(i, time) \/ CheckOut(i, time)
  <2>1. PICK status : Closes(i, time, status)
    BY <1>1 DEF AutoClose, CheckOut, Closes
  <2> QED BY <2>1, ClosedRow DEF LeavesIn
<1>2. CASE rec' = [rec EXCEPT ![i].reviewed = TRUE]
  <2> DEFINE new == [rec[i] EXCEPT !.reviewed = TRUE]
  <2>1. rec[i] \in Record /\ rec \in Seq(Record)
    BY DEF TypeOK
  <2>2. new.in = rec[i].in /\ new.originalIn = rec[i].originalIn
    BY <2>1 DEF Record
  <2>3. rec' = [rec EXCEPT ![i] = new]
    BY <1>2, <2>1
  <2> HIDE DEF new
  <2> QED BY <2>1, <2>2, <2>3 DEF LeavesIn
<1> QED BY <1>1, <1>2

\* An edit keeps the check-in that it has read as the original, or the original
\* that there is.
LEMMA EditKeeps ==
    ASSUME Originals, NEW t \in Tasks, EditWrite(t), NEW j \in DOMAIN rec
    PROVE  KeepsOriginal(j)
<1> DEFINE tk == task[t]
           i == tk.id
           new == [rec[i] EXCEPT
                     !.originalIn = OriginalIn(tk.row, rec[i].originalIn),
                     !.in = IF tk.in = Unset THEN rec[i].in ELSE tk.in,
                     !.out = IF tk.out = Unset THEN rec[i].out ELSE tk.out,
                     !.status = IF tk.out = Unset THEN rec[i].status
                                ELSE "CHECKED_OUT"]
<1>1. /\ tk \in Task /\ tk.op = "edit" /\ rec \in Seq(Record)
      /\ TaskInv(tk, DOMAIN rec, now) /\ Original(tk, rec[i])
  BY DEF Originals, KnownRecords, TypeOK, EditWrite
<1>2. i \in DOMAIN rec /\ rec[i] \in Record /\ tk.row.in \in Times
  <2>1. i \in DOMAIN rec
    BY <1>1 DEF TaskInv
  <2>2. rec[i] \in Record
    BY <1>1, <2>1
  <2>3. tk.row.in \in Times
    BY <1>1 DEF Task, Record
  <2> QED BY <2>1, <2>2, <2>3
<1>3. new.originalIn = OriginalIn(tk.row, rec[i].originalIn)
  BY <1>2 DEF Record
<1>4. rec' = [rec EXCEPT ![i] = new]
  BY <1>1, <1>2 DEF EditWrite
<1>5. Unset \notin Times
  BY UnsetIsNone
<1> HIDE DEF new
<1>6. CASE j = i
  <2>1. rec'[i].originalIn = OriginalIn(tk.row, rec[i].originalIn)
    BY <1>1, <1>2, <1>3, <1>4
  <2> QED BY <1>1, <1>2, <1>5, <1>6, <2>1
          DEF KeepsOriginal, OriginalIn, Original
<1>7. CASE j # i
  BY <1>1, <1>2, <1>4, <1>7 DEF KeepsOriginal
<1> QED BY <1>6, <1>7

\* Every step keeps the originals.
LEMMA NextKeeps ==
    ASSUME Originals, [Next]_vars, NEW i \in DOMAIN rec
    PROVE  KeepsOriginal(i)
<1>1. /\ KnownRecords /\ TypeOK
      /\ \A t \in Tasks : TaskInv(task[t], DOMAIN rec, now) /\ task[t] \in Task
      /\ \A r \in Runs : RunInv(run[r], DOMAIN rec, now)
      /\ now \in Times
  BY DEF Originals, KnownRecords, TypeOK
<1>2. LeavesIn(i) => KeepsOriginal(i)
  BY DEF LeavesIn, KeepsOriginal
<1>3. UNCHANGED rec => LeavesIn(i)
  BY DEF LeavesIn
<1>4. ASSUME NEW in \in Times, NEW out \in Times \cup {Unset}, Create(in, out)
      PROVE  LeavesIn(i)
  BY <1>1, <1>4, CreatedRow DEF LeavesIn
<1>5. ASSUME NEW t \in Tasks, TaskStep(t) PROVE KeepsOriginal(i)
  <2>1. CASE ScanCommit(t)
    BY <1>1, <1>2, <2>1, CommitLeaves
  <2>2. CASE ScanAbort(t)
    BY <1>2, <1>3, <2>2 DEF ScanAbort
  <2>3. CASE ManualWrite(t)
    <3>1. CASE task[t].do = "in"
      BY <1>1, <1>2, <1>4, <2>3, <3>1 DEF ManualWrite
    <3>2. CASE task[t].do = "out" /\ task[t].id \in DOMAIN rec
      <4>1. CheckOut(task[t].id, now)
        BY <2>3, <3>2 DEF ManualWrite
      <4> QED BY <1>1, <1>2, <3>2, <4>1, UpdateLeaves
    <3> QED BY <1>1, <2>3, <3>1, <3>2 DEF TaskInv, ManualWrite
  <2>4. CASE EditWrite(t)
    BY <2>4, EditKeeps
  <2>5. CASE AcknowledgeWrite(t)
    <3>1. /\ task[t].id \in DOMAIN rec
          /\ rec' = [rec EXCEPT ![task[t].id].reviewed = TRUE]
      BY <1>1, <2>5 DEF TaskInv, AcknowledgeWrite
    <3> QED BY <1>1, <1>2, <3>1, UpdateLeaves
  <2>6. CASE MarkWrite(t)
    <3>1. /\ task[t].in \in Times /\ task[t].out \in Times \cup {Unset}
          /\ Create(task[t].in, task[t].out)
      BY <1>1, <2>6 DEF TaskInv, MarkWrite, Task
    <3> QED BY <1>2, <1>4, <3>1
  <2> QED BY <1>5, <2>1, <2>2, <2>3, <2>4, <2>5, <2>6 DEF TaskStep
<1>6. ASSUME NEW r \in Runs, NEW open \in run[r].found, RunRecord(r, open)
      PROVE  KeepsOriginal(i)
  <2>1. open.id \in DOMAIN rec
    BY <1>1 DEF RunInv
  <2> QED BY <1>1, <1>2, <1>3, <1>6, <2>1, UpdateLeaves DEF RunRecord
<1>7. ASSUME NEW t \in Tasks, Request(t) PROVE UNCHANGED rec
  BY <1>7 DEF Request, ScanRead, ManualRead, EditRead, AcknowledgeRead, MarkRead,
              Receive
<1> QED BY <1>2, <1>3, <1>5, <1>6, <1>7
        DEF Next, RunStep, RunEnd, RunStart, TaskFails, RecordFails, Restart,
            Tick, vars

\* A request that begins or goes on.
LEMMA EditsServed ==
    ASSUME Originals, [Next]_vars, NEW t \in Tasks
    PROVE  \/ task'[t] = task[t]
           \/ Original(task'[t], rec[task'[t].id]) /\ UNCHANGED rec
           \/ task'[t].op # "edit"
<1>1. task \in [Tasks -> Task]
  BY DEF Originals, KnownRecords, TypeOK
<1>2. ASSUME NEW u \in Tasks, Return(u) \/ AbortOtherScans(u)
      PROVE  task'[t] = task[t] \/ task'[t].op # "edit"
  BY <1>1, <1>2, IdleTaskType DEF Return, AbortOtherScans
<1>3. ASSUME NEW u \in Tasks, TaskStep(u)
      PROVE  task'[t] = task[t] \/ task'[t].op # "edit"
  BY <1>2, <1>3 DEF TaskStep, ScanCommit, ScanAbort, ManualWrite, EditWrite,
                    AcknowledgeWrite, MarkWrite
<1>4. ASSUME NEW u \in Tasks, NEW request, Receive(u, request)
      PROVE  (task'[t] = task[t] \/ task'[t] = request) /\ UNCHANGED rec
  BY <1>1, <1>4 DEF Receive
<1>5. ASSUME NEW u \in Tasks, Request(u)
      PROVE  \/ task'[t] = task[t]
             \/ Original(task'[t], rec[task'[t].id]) /\ UNCHANGED rec
             \/ task'[t].op # "edit"
  <2>1. CASE ScanRead(u)
    <3>1. \E request : Receive(u, request) /\ request.op = "scan"
      <4>1. \A what, i : ScanOf(what, i).op = "scan"
        BY IdleTaskType DEF ScanOf, Task
      <4>2. [IdleTask EXCEPT !.op = "scan", !.do = "in"].op = "scan"
        BY IdleTaskType DEF Task
      <4> QED BY <2>1, <4>1, <4>2 DEF ScanRead
    <3> QED BY <1>4, <3>1
  <2>2. CASE ManualRead(u)
    <3>1. \E request : Receive(u, request) /\ request.op = "manual"
      <4>1. /\ [IdleTask EXCEPT !.op = "manual", !.do = "in"].op = "manual"
            /\ \A i : [IdleTask EXCEPT !.op = "manual", !.do = "out",
                                       !.id = i].op = "manual"
        BY IdleTaskType DEF Task
      <4> QED BY <2>2, <4>1 DEF ManualRead
    <3> QED BY <1>4, <3>1
  <2>3. ASSUME NEW i \in DOMAIN rec, NEW role, NEW in, NEW out,
               EditRead(u, i, role, in, out)
        PROVE  \/ task'[t] = task[t]
               \/ Original(task'[t], rec[task'[t].id]) /\ UNCHANGED rec
    <3> DEFINE request == [op |-> "edit", do |-> "none", id |-> i,
                           row |-> rec[i], in |-> in, out |-> out,
                           role |-> role]
    <3>1. request.id = i /\ request.row = rec[i] /\ Receive(u, request)
      BY <2>3 DEF EditRead
    <3> HIDE DEF request
    <3>2. Original(request, rec[request.id])
      BY <3>1 DEF Original
    <3> QED BY <1>4, <3>1, <3>2
  <2>4. ASSUME NEW i \in DOMAIN rec, AcknowledgeRead(u, i)
        PROVE  task'[t] = task[t] \/ task'[t].op # "edit"
    <3> DEFINE request == [IdleTask EXCEPT !.op = "acknowledge", !.id = i]
    <3>1. request.op = "acknowledge" /\ Receive(u, request)
      BY <2>4, IdleTaskType DEF AcknowledgeRead, Task
    <3> HIDE DEF request
    <3> QED BY <1>4, <3>1
  <2>5. ASSUME NEW date, NEW in, NEW out, MarkRead(u, date, in, out)
        PROVE  task'[t] = task[t] \/ task'[t].op # "edit"
    <3> DEFINE request == [IdleTask EXCEPT !.op = "mark", !.in = in, !.out = out]
    <3>1. request.op = "mark" /\ Receive(u, request)
      BY <2>5, IdleTaskType DEF MarkRead, Task
    <3> HIDE DEF request
    <3> QED BY <1>4, <3>1
  <2> QED BY <1>5, <2>1, <2>2, <2>3, <2>4, <2>5 DEF Request
<1> QED BY <1>2, <1>3, <1>5, IdleTaskType
        DEF Next, RunStep, RunRecord, RunEnd, RunStart, TaskFails, RecordFails,
            Restart, Tick, vars

\* What edits in flight know of the originals stays true.
LEMMA OriginalsStep == Originals /\ [Next]_vars => Originals'
<1> SUFFICES ASSUME Originals, [Next]_vars PROVE Originals'
  OBVIOUS
<1>1. KnownRecords' /\ KnownRecords
  BY KnownStep DEF Originals
<1> SUFFICES ASSUME NEW t \in Tasks PROVE Original(task'[t], rec'[task'[t].id])
  BY <1>1 DEF Originals
<1>2. CASE task'[t] = task[t] /\ task[t].op = "edit"
  <2>1. task[t].id \in DOMAIN rec /\ Original(task[t], rec[task[t].id])
    BY <1>1, <1>2 DEF Originals, KnownRecords, TaskInv
  <2>2. KeepsOriginal(task[t].id) /\ task[t].row.in \in Times
    <3>1. task[t].row.in \in Times
      BY <1>1 DEF KnownRecords, TypeOK, Task, Record
    <3> QED BY <2>1, <3>1, NextKeeps
  <2>3. Unset \notin Times
    BY UnsetIsNone
  <2> QED BY <1>2, <2>1, <2>2, <2>3 DEF KeepsOriginal, Original
<1>3. CASE Original(task'[t], rec[task'[t].id]) /\ UNCHANGED rec
  BY <1>3 DEF Original
<1>4. CASE task'[t].op # "edit"
  BY <1>4 DEF Original
<1> QED BY <1>2, <1>3, <1>4, EditsServed

\* The check-in that a record was created with is kept, whatever corrections
\* race, for any number of requests of all kinds.
THEOREM OriginalSurvives == Spec => OriginalKept
<1>1. Init => Originals
  BY KnownInit, IdleTaskType DEF Init, Originals, Original
<1>2. Originals /\ [Next]_vars => Originals'
  BY OriginalsStep
<1>3. Originals /\ [Next]_vars =>
        [\A i \in DOMAIN rec :
           /\ rec[i].originalIn # Unset =>
                rec'[i].originalIn = rec[i].originalIn
           /\ rec[i].originalIn = Unset =>
                rec'[i].originalIn \in {Unset, rec[i].in}
           /\ rec'[i].in # rec[i].in => rec'[i].originalIn # Unset]_vars
  BY NextKeeps DEF KeepsOriginal
<1> QED BY <1>1, <1>2, <1>3, PTL DEF Spec, OriginalKept
=============================================================================
