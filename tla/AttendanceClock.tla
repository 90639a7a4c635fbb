--------------------------- MODULE AttendanceClock ---------------------------
(***************************************************************************)
(* The attendance records of one membership, as                            *)
(* src/services/attendance.service.ts and src/jobs/midnight-autoclose.job  *)
(* move them: scans (QR, PIN or mobile, all through performClockActionSafe)*)
(* manual clock actions, corrections, the accountant's acknowledgement,    *)
(* "mark present", and the runs of the auto-close job.                     *)
(*                                                                         *)
(* A scan is a Serializable transaction that is not retried: it reads, and *)
(* when it commits it aborts if another scan of the membership or a write  *)
(* to the very row it updates has committed since.  Every other handler    *)
(* reads and writes in separate statements, and a run of the job works     *)
(* through the open records it found at its start.                         *)
(*                                                                         *)
(* Time advances in units, Day units to a day.  What payroll makes of the  *)
(* records is in PayrollWorkflow; notifications and the audit log are left *)
(* out.                                                                    *)
(***************************************************************************)
EXTENDS Integers, Sequences, FiniteSets

CONSTANTS
    Tasks,         \* requests in flight
    Runs,          \* runs of the auto-close job in flight
    Ops,           \* the operations that are requested
    Day,           \* units of time in a day
    Shift,         \* shift of the membership or organization: [start, end]
    RosterShift,   \* shift of the roster, which only the job looks at
    Grace,         \* autoCloseGraceMinutes
    Cooldown,      \* SCAN_COOLDOWN_MINUTES
    DailyLimit,    \* maxDailyCheckins
    MaxTime,       \* bound on time
    MaxRecords,    \* bound on the records
    Faults         \* TRUE: a statement may fail or the process restart

AllOps == {"scan", "manual", "edit", "acknowledge", "mark"}

ASSUME ConstantsAssumption ==
    /\ Ops \subseteq AllOps
    /\ Day \in Nat \ {0}
    /\ Shift \in [start: 0 .. Day - 1, end: 0 .. Day - 1]
    /\ RosterShift \in [start: 0 .. Day - 1, end: 0 .. Day - 1]
    /\ {Grace, Cooldown, MaxTime, MaxRecords} \subseteq Nat
    /\ DailyLimit \in Nat \ {0}
    /\ Faults \in BOOLEAN

VARIABLES
    now,     \* the time
    rec,     \* the AttendanceRecord rows, in the order of their creation
    task,    \* local state of each request
    run      \* local state of each run of the job
vars == <<now, rec, task, run>>

-----------------------------------------------------------------------------
(* Records *)

Unset == -1
Times == 0 .. MaxTime
Ids == 1 .. MaxRecords

Record == [in: Times, out: Times \cup {Unset}, originalIn: Times \cup {Unset},
           status: {"CHECKED_IN", "CHECKED_OUT", "AUTO_CLOSED"},
           reviewed: BOOLEAN]

NewRecord(in, out) ==
    [in |-> in, out |-> out, originalIn |-> Unset, reviewed |-> FALSE,
     status |-> IF out = Unset THEN "CHECKED_IN" ELSE "CHECKED_OUT"]

Open(i) == rec[i].status = "CHECKED_IN"
OpenIds == {i \in DOMAIN rec : Open(i)}

\* Local time of day, with dates as the multiples of Day.
Date(time) == time - (time % Day)

Create(in, out) ==
    /\ Len(rec) < MaxRecords
    /\ rec' = Append(rec, NewRecord(in, out))

CheckOut(i, time) ==
    rec' = [rec EXCEPT ![i].out = time, ![i].status = "CHECKED_OUT"]

AutoClose(i, time) ==
    rec' = [rec EXCEPT ![i].out = time, ![i].status = "AUTO_CLOSED"]

-----------------------------------------------------------------------------
(* Requests and runs *)

Task == [op: AllOps \cup {"idle"},
         do: {"in", "out", "close_and_in", "none"},
         id: Ids \cup {Unset},       \* the record at hand, if there is one
         row: Record,                \* its row when it was read
         in: Times \cup {Unset},     \* times of the input
         out: Times \cup {Unset},
         role: {"ORG_ADMIN", "ORG_ACCOUNTANT"}]

IdleTask == [op |-> "idle", do |-> "none", id |-> Unset,
             row |-> NewRecord(0, Unset), in |-> Unset, out |-> Unset,
             role |-> "ORG_ADMIN"]

\* found: the open records and the check-in times they had.
Run == [active: BOOLEAN, at: Times, found: SUBSET [id: Ids, in: Times]]

IdleRun == [active |-> FALSE, at |-> 0, found |-> {}]

Idle(t) == task[t].op = "idle"

Init ==
    /\ now = 0
    /\ rec = <<>>
    /\ task = [t \in Tasks |-> IdleTask]
    /\ run = [r \in Runs |-> IdleRun]

Receive(t, request) ==
    /\ Idle(t)
    /\ task' = [task EXCEPT ![t] = request]
    /\ UNCHANGED <<now, rec, run>>

Return(t) == task' = [task EXCEPT ![t] = IdleTask]

-----------------------------------------------------------------------------
(* Scans: performClockActionSafe *)

\* recentAction: of the records with a recent time stamp, the one checked in
\* last; its last time stamp must be old enough.
Recent(i) ==
    rec[i].in >= now - Cooldown \/ rec[i].out >= now - Cooldown
\* The mutant only looks at check-ins.
LastAction_CheckIn(i) == rec[i].in
LastAction(i) == IF rec[i].out = Unset THEN rec[i].in ELSE rec[i].out
CoolingDown ==
    \E i \in DOMAIN rec :
        /\ Recent(i)
        /\ \A j \in DOMAIN rec : Recent(j) => rec[j].in <= rec[i].in
        /\ now - LastAction(i) < Cooldown

\* checkDailyLimit counts the check-ins of today, whoever made them.
CheckInsOn(date) == {i \in DOMAIN rec : Date(rec[i].in) = date}
\* The mutant is off by one.
BelowDailyLimit_OffByOne == Cardinality(CheckInsOn(Date(now))) <= DailyLimit
BelowDailyLimit == Cardinality(CheckInsOn(Date(now))) < DailyLimit

\* The end of the shift of a check-in; at or before it means the next day.
ShiftEnd(in) ==
    LET end == Date(in) + Shift.end IN IF end <= in THEN end + Day ELSE end

Forgotten(i) == now > ShiftEnd(rec[i].in) + Grace

\* CLOCKIN_CLOSED: after the shift, unless the shift ends in the morning.
ClockInClosed ==
    now > Date(now) + Shift.end /\ 2 * Shift.end >= Day

ScanOf(do, i) ==
    [IdleTask EXCEPT !.op = "scan", !.do = do, !.id = i, !.row = rec[i]]

ScanRead(t) ==
    /\ ~CoolingDown
    /\ \/ /\ OpenIds = {}
          /\ ~ClockInClosed
          /\ BelowDailyLimit
          /\ Receive(t, [IdleTask EXCEPT !.op = "scan", !.do = "in"])
       \/ \E i \in OpenIds :
            /\ Forgotten(i)
            /\ ~ClockInClosed           \* else the close is rolled back
            /\ BelowDailyLimit
            /\ Receive(t, ScanOf("close_and_in", i))
       \/ \E i \in OpenIds :
            /\ ~Forgotten(i)
            /\ Receive(t, ScanOf("out", i))

\* A committing scan makes the other scans in flight fail.  The mutant runs
\* the transaction at the default isolation level.
AbortOtherScans_ReadCommitted(t) == Return(t)
AbortOtherScans(t) ==
    task' = [u \in Tasks |->
               IF u = t \/ task[u].op = "scan" THEN IdleTask ELSE task[u]]

\* A forgotten record is closed at the end of its shift, never later.  The
\* mutant takes every shift to end the next day.
CloseTime_NextDay(row) == ShiftEnd(row.in) + Day
CloseTime(row) == ShiftEnd(row.in)

ScanCommit(t) ==
    /\ task[t].op = "scan"
    /\ task[t].id # Unset => rec[task[t].id] = task[t].row
    /\ CASE task[t].do = "in" -> Create(now, Unset)
         [] task[t].do = "out" -> CheckOut(task[t].id, now)
         [] task[t].do = "close_and_in" ->
              /\ Len(rec) < MaxRecords
              /\ rec' = Append([rec EXCEPT
                                  ![task[t].id].out = CloseTime(task[t].row),
                                  ![task[t].id].status = "AUTO_CLOSED"],
                               NewRecord(now, Unset))
    /\ AbortOtherScans(t)
    /\ UNCHANGED <<now, run>>

\* The row has been updated by somebody else.
ScanAbort(t) ==
    /\ task[t].op = "scan"
    /\ task[t].id # Unset
    /\ rec[task[t].id] # task[t].row
    /\ Return(t)
    /\ UNCHANGED <<now, rec, run>>

-----------------------------------------------------------------------------
(* manualAttendance *)

ManualRead(t) ==
    \/ /\ OpenIds = {}
       /\ Receive(t, [IdleTask EXCEPT !.op = "manual", !.do = "in"])
    \/ \E i \in OpenIds :
         Receive(t, [IdleTask EXCEPT !.op = "manual", !.do = "out", !.id = i])

ManualWrite(t) ==
    /\ task[t].op = "manual"
    /\ CASE task[t].do = "in" -> Create(now, Unset)
         [] task[t].do = "out" -> CheckOut(task[t].id, now)
    /\ Return(t)
    /\ UNCHANGED <<now, run>>

-----------------------------------------------------------------------------
(* editAttendance: in and out are Unset when the request leaves them out *)

EditRead(t, i, role, in, out) ==
    /\ role = "ORG_ACCOUNTANT" =>
         /\ rec[i].status = "AUTO_CLOSED"
         /\ in = Unset
         /\ ~rec[i].reviewed
    /\ out # Unset => out > (IF in = Unset THEN rec[i].in ELSE in)
    /\ Receive(t, [op |-> "edit", do |-> "none", id |-> i, row |-> rec[i],
                   in |-> in, out |-> out, role |-> role])

\* The first edit keeps the check-in it has read.  The mutant keeps it at
\* every edit.
OriginalIn_Always(row, current) == row.in
OriginalIn(row, current) ==
    IF row.originalIn = Unset THEN row.in ELSE current

EditWrite(t) ==
    /\ task[t].op = "edit"
    /\ LET tk == task[t] IN
         rec' = [rec EXCEPT
           ![tk.id].originalIn = OriginalIn(tk.row, @),
           ![tk.id].in = IF tk.in = Unset THEN @ ELSE tk.in,
           ![tk.id].out = IF tk.out = Unset THEN @ ELSE tk.out,
           ![tk.id].status = IF tk.out = Unset THEN @ ELSE "CHECKED_OUT"]
    /\ Return(t)
    /\ UNCHANGED <<now, run>>

-----------------------------------------------------------------------------
(* acknowledgeAttendance *)

AcknowledgeRead(t, i) ==
    /\ rec[i].status = "AUTO_CLOSED"
    /\ ~rec[i].reviewed
    /\ Receive(t, [IdleTask EXCEPT !.op = "acknowledge", !.id = i])

AcknowledgeWrite(t) ==
    /\ task[t].op = "acknowledge"
    /\ rec' = [rec EXCEPT ![task[t].id].reviewed = TRUE]
    /\ Return(t)
    /\ UNCHANGED <<now, run>>

-----------------------------------------------------------------------------
(* markPresent: the date need not be the date of the check-in *)

MarkRead(t, date, in, out) ==
    /\ out # Unset => out > in
    /\ CheckInsOn(date) = {}
    /\ Receive(t, [IdleTask EXCEPT !.op = "mark", !.in = in, !.out = out])

MarkWrite(t) ==
    /\ task[t].op = "mark"
    /\ Create(task[t].in, task[t].out)
    /\ Return(t)
    /\ UNCHANGED <<now, run>>

-----------------------------------------------------------------------------
(* runAutoClose: started by cron at midnight, at boot, or by an admin *)

RunStart(r) ==
    /\ ~run[r].active
    /\ run' = [run EXCEPT ![r] =
                 [active |-> TRUE, at |-> now,
                  found |-> {[id |-> i, in |-> rec[i].in] : i \in OpenIds}]]
    /\ UNCHANGED <<now, rec, task>>

\* The end of the shift according to the roster, on the date of the check-in.
RosterEnd(in) ==
    Date(in) + RosterShift.end
        + (IF RosterShift.end < RosterShift.start THEN Day ELSE 0)

\* The mutant swaps the comparison.
PastGrace_Within(in, at) == at <= RosterEnd(in) + Grace
PastGrace(in, at) == at > RosterEnd(in) + Grace

\* One record of the loop; the update is by id.
RunRecord(r, open) ==
    /\ run[r].active
    /\ open \in run[r].found
    /\ IF PastGrace(open.in, run[r].at)
         THEN AutoClose(open.id, RosterEnd(open.in))
         ELSE UNCHANGED rec
    /\ run' = [run EXCEPT ![r].found = @ \ {open}]
    /\ UNCHANGED <<now, task>>

RunEnd(r) ==
    /\ run[r].active
    /\ run[r].found = {}
    /\ run' = [run EXCEPT ![r] = IdleRun]
    /\ UNCHANGED <<now, rec, task>>

-----------------------------------------------------------------------------

Tick ==
    /\ now < MaxTime
    /\ now' = now + 1
    /\ UNCHANGED <<rec, task, run>>

\* A statement fails: the request ends, the job goes on with the next record.
TaskFails(t) ==
    /\ Faults
    /\ ~Idle(t)
    /\ Return(t)
    /\ UNCHANGED <<now, rec, run>>

RecordFails(r, open) ==
    /\ Faults
    /\ open \in run[r].found
    /\ run' = [run EXCEPT ![r].found = @ \ {open}]
    /\ UNCHANGED <<now, rec, task>>

\* The process dies in the middle of the requests and runs.
Restart ==
    /\ Faults
    /\ task' = [t \in Tasks |-> IdleTask]
    /\ run' = [r \in Runs |-> IdleRun]
    /\ UNCHANGED <<now, rec>>

Past == 0 .. now
Dates == {Date(time) : time \in Past}

Request(t) ==
    \/ "scan" \in Ops /\ ScanRead(t)
    \/ "manual" \in Ops /\ ManualRead(t)
    \/ /\ "edit" \in Ops
       /\ \E i \in DOMAIN rec, role \in {"ORG_ADMIN", "ORG_ACCOUNTANT"} :
            \E in, out \in Past \cup {Unset} : EditRead(t, i, role, in, out)
    \/ /\ "acknowledge" \in Ops
       /\ \E i \in DOMAIN rec : AcknowledgeRead(t, i)
    \/ /\ "mark" \in Ops
       /\ \E date \in Dates, in \in Past, out \in Past \cup {Unset} :
            MarkRead(t, date, in, out)

TaskStep(t) ==
    \/ ScanCommit(t)
    \/ ScanAbort(t)
    \/ ManualWrite(t)
    \/ EditWrite(t)
    \/ AcknowledgeWrite(t)
    \/ MarkWrite(t)

RunStep(r) ==
    \/ \E open \in run[r].found : RunRecord(r, open)
    \/ RunEnd(r)

Next ==
    \/ \E t \in Tasks : TaskStep(t)
    \/ \E r \in Runs : RunStep(r)
    \/ \E t \in Tasks : Idle(t) /\ Request(t)
    \/ \E r \in Runs : RunStart(r)
    \/ \E t \in Tasks : TaskFails(t)
    \/ \E r \in Runs : \E open \in run[r].found : RecordFails(r, open)
    \/ Restart
    \/ Tick

Spec == Init /\ [][Next]_vars

\* Time passes, cron starts a run at midnight, and a run that has been started
\* goes on.  Nothing is assumed of the requests.
CronStart(r) == now % Day = 0 /\ RunStart(r)

FairSpec ==
    /\ Spec
    /\ WF_vars(Tick)
    /\ \A r \in Runs : WF_vars(CronStart(r)) /\ WF_vars(RunStep(r))

-----------------------------------------------------------------------------
(* Properties *)

\* Every variable has its type.  No check-out lies beyond the end of time: an
\* automatic close never writes one that is still to come.
TypeOK ==
    /\ now \in Times
    /\ rec \in Seq(Record)
    /\ Len(rec) <= MaxRecords
    /\ task \in [Tasks -> Task]
    /\ run \in [Runs -> Run]

\* As long as only scans check in, an employee has one open record at most,
\* however many devices scan at once and whenever the job runs.
OneOpenRecord == \A i, j \in OpenIds : i = j

\* Time is not counted twice: closed records of an employee do not overlap,
\* even when a record is closed automatically while the next one starts.
NoDoubleCounting ==
    \A i, j \in DOMAIN rec :
        (i # j /\ ~Open(i) /\ rec[i].in < rec[i].out)
        => rec[j].in <= rec[i].in \/ rec[i].out <= rec[j].in

\* Scans check in no more than DailyLimit times a day.
DailyLimitKept ==
    \A date \in Dates : Cardinality(CheckInsOn(date)) <= DailyLimit

\* The job closes a record when the shift of the roster ends, even one that was
\* checked in after that.
Backdated(i) == rec[i].status = "AUTO_CLOSED" /\ rec[i].out < rec[i].in

\* Two scans of an employee are never closer than the cooldown: the double
\* scan of an impatient employee does not check out what it has checked in.
\* Only a record that the job has backdated escapes the check.
ScansSpaced ==
    /\ \A i \in DOMAIN rec :
         rec[i].status = "CHECKED_OUT" => rec[i].out >= rec[i].in + Cooldown
    /\ \A i, j \in DOMAIN rec :
         i < j => /\ ~Backdated(i) => rec[j].in >= rec[i].in + Cooldown
                  /\ rec[i].status = "CHECKED_OUT" =>
                       rec[j].in >= rec[i].out + Cooldown

\* Whatever corrections race, the check-in kept as original is the one the
\* record was created with, and only a record with its original differs from it.
OriginalKept ==
    [][\A i \in DOMAIN rec :
         /\ rec[i].originalIn # Unset =>
              rec'[i].originalIn = rec[i].originalIn
         /\ rec[i].originalIn = Unset =>
              rec'[i].originalIn \in {Unset, rec[i].in}
         /\ rec'[i].in # rec[i].in => rec'[i].originalIn # Unset]_vars

\* A forgotten record does not stay open: a run of the job closes it, unless
\* somebody else does or moves its check-in.
ForgottenClosed ==
    \A i \in Ids :
        (i \in OpenIds /\ now > RosterEnd(rec[i].in) + Grace)
        ~> ~(i \in OpenIds /\ now > RosterEnd(rec[i].in) + Grace)

(***************************************************************************)
(* What the code's own comments and messages say of it.                    *)
(***************************************************************************)

\* "Minutes between QR scans for same employee": no two check-ins are closer
\* than the cooldown.
CheckInsSpaced ==
    \A i, j \in DOMAIN rec : i < j => rec[j].in >= rec[i].in + Cooldown

\* "User is already clocked in": a manual clock-in does not check in somebody
\* who has an open record.
ManualInOnlyOnce ==
    [][\A t \in Tasks :
         (ManualWrite(t) /\ task[t].do = "in") => OpenIds = {}]_vars

\* "Auto-closes stale CHECKED_IN attendance records": a run of the job changes
\* open records only.
JobClosesOpenOnly ==
    [][\A r \in Runs : \A open \in run[r].found :
         (RunRecord(r, open) /\ rec' # rec) => Open(open.id)]_vars
=============================================================================
