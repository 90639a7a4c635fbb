--------------------- MODULE SubscriptionLifecycleProofs ---------------------
(***************************************************************************)
(* Proofs about SubscriptionLifecycle, for any number of admins, any plans *)
(* and periods.                                                            *)
(***************************************************************************)
EXTENDS SubscriptionLifecycle, TLAPS

\* What a row may never lack: a trial and a grace period have an end.
Limited(r) ==
    /\ r.status = "TRIALING" => r.trialEnds # NoDate
    /\ r.status = "GRACE_PERIOD" => r.graceEnds # NoDate
GoodRow(r) == r \in Row /\ Limited(r)

-----------------------------------------------------------------------------
(* Rows *)

\* A row stays a row when one column is written.
LEMMA RowFields ==
    ASSUME NEW r \in Row, NEW s \in Statuses, NEW d \in Dates, NEW b \in BOOLEAN
    PROVE  /\ [r EXCEPT !.status = s] \in Row
           /\ [r EXCEPT !.trialEnds = d] \in Row
           /\ [r EXCEPT !.trialUsed = b] \in Row
           /\ [r EXCEPT !.graceEnds = d] \in Row
           /\ [r EXCEPT !.suspendedAt = d] \in Row
           /\ [r EXCEPT !.nextBilling = d] \in Row
           /\ [r EXCEPT !.trialReminder = b] \in Row
           /\ [r EXCEPT !.finalReminder = b] \in Row
           /\ [r EXCEPT !.graceReminder = b] \in Row
           /\ [r EXCEPT !.billingReminder = b] \in Row
           /\ [r EXCEPT !.price = b] \in Row
           /\ [r EXCEPT !.priceEnds = d] \in Row
<1>1. [r EXCEPT !.status = s] \in Row
  BY DEF Row
<1>2. [r EXCEPT !.trialEnds = d] \in Row
  BY DEF Row
<1>3. [r EXCEPT !.trialUsed = b] \in Row
  BY DEF Row
<1>4. [r EXCEPT !.graceEnds = d] \in Row
  BY DEF Row
<1>5. [r EXCEPT !.suspendedAt = d] \in Row
  BY DEF Row
<1>6. [r EXCEPT !.nextBilling = d] \in Row
  BY DEF Row
<1>7. [r EXCEPT !.trialReminder = b] \in Row
  BY DEF Row
<1>8. [r EXCEPT !.finalReminder = b] \in Row
  BY DEF Row
<1>9. [r EXCEPT !.graceReminder = b] \in Row
  BY DEF Row
<1>10. [r EXCEPT !.billingReminder = b] \in Row
  BY DEF Row
<1>11. [r EXCEPT !.price = b] \in Row
  BY DEF Row
<1>12. [r EXCEPT !.priceEnds = d] \in Row
  BY DEF Row
<1> QED BY <1>1, <1>2, <1>3, <1>4, <1>5, <1>6, <1>7, <1>8, <1>9, <1>10, <1>11,
           <1>12

LEMMA RowTyped ==
    ASSUME NEW r \in Row
    PROVE  /\ r.status \in Statuses /\ r.trialEnds \in Dates
           /\ r.graceEnds \in Dates /\ r.suspendedAt \in Dates
           /\ r.nextBilling \in Dates /\ r.priceEnds \in Dates
           /\ r.trialUsed \in BOOLEAN /\ r # NoSub
<1>1. /\ r.status \in Statuses /\ r.trialEnds \in Dates
      /\ r.graceEnds \in Dates /\ r.suspendedAt \in Dates
      /\ r.nextBilling \in Dates /\ r.priceEnds \in Dates
      /\ r.trialUsed \in BOOLEAN
  BY DEF Row
<1>2. NoSub.status \notin Statuses
  BY DEF NoSub, Statuses
<1> QED BY <1>1, <1>2

LEMMA NoSubTyped == NoSub.status \notin Statuses /\ Limited(NoSub)
BY DEF NoSub, Statuses, Limited

LEMMA DayLaterTyped ==
    ASSUME NEW d \in Dates
    PROVE  DayLater(d) \in Dates /\ (d # NoDate => DayLater(d) # NoDate)
BY ConstantsAssumption DEF Dates, DayLater

LEMMA AssignedGood ==
    ASSUME NEW r \in Row, NEW existing \in Row \cup {NoSub}, NEW trial \in BOOLEAN,
           NEW days \in Nat
    PROVE  GoodRow(Assigned(r, existing, trial, days))
<1> DEFINE s == IF trial THEN "TRIALING" ELSE "ACTIVE"
           e == IF trial THEN days ELSE NoDate
           u == trial \/ (existing # NoSub /\ existing.trialUsed)
           r1 == [r EXCEPT !.status = s]
           r2 == [r1 EXCEPT !.trialEnds = e]
           r3 == [r2 EXCEPT !.trialUsed = u]
           r4 == [r3 EXCEPT !.graceEnds = NoDate]
           r5 == [r4 EXCEPT !.graceReminder = FALSE]
           r6 == [r5 EXCEPT !.suspendedAt = NoDate]
<1>1. /\ s \in Statuses /\ e \in Dates /\ NoDate \in Dates
      /\ (s = "TRIALING" => e # NoDate) /\ s # "GRACE_PERIOD"
  BY ConstantsAssumption DEF Statuses, Dates
<1>2. u \in BOOLEAN
  OBVIOUS
<1>3. Assigned(r, existing, trial, days) = r6
  BY DEF Assigned, Row
<1> HIDE DEF s, e, u
<1>4. r1 \in Row /\ r2 \in Row
  BY <1>1, RowFields
<1>5. r3 \in Row
  <2> HIDE DEF r2
  <2> QED BY <1>1, <1>2, <1>4, RowFields
<1>6. r4 \in Row /\ r5 \in Row /\ r6 \in Row
  <2> HIDE DEF r3
  <2> QED BY <1>1, <1>5, RowFields
<1>7. r6.status = s /\ r6.trialEnds = e
  BY DEF Row
<1> HIDE DEF r6
<1> QED BY <1>1, <1>3, <1>6, <1>7 DEF GoodRow, Limited

LEMMA NoDateTyped ==
    /\ NoDate \in Dates /\ 0 \in Dates /\ NoDate \notin Int
    /\ Horizon \in Nat
    /\ TRUE \in BOOLEAN /\ FALSE \in BOOLEAN
    /\ {"TRIALING", "GRACE_PERIOD", "ACTIVE", "PAST_DUE", "SUSPENDED", "EXPIRED"}
         \subseteq Statuses
BY ConstantsAssumption DEF Dates, Statuses

LEMMA ExtendedGood ==
    ASSUME NEW r \in Row, NEW existing \in Row, NEW days \in Nat
    PROVE  GoodRow(Extended(r, existing, days))
<1> DEFINE base == IF existing.trialEnds # NoDate /\ existing.trialEnds > 0
                   THEN existing.trialEnds ELSE 0
           e == base + days
           r1 == [r EXCEPT !.status = "TRIALING"]
           r2 == [r1 EXCEPT !.trialEnds = e]
           r3 == [r2 EXCEPT !.graceEnds = NoDate]
           r4 == [r3 EXCEPT !.graceReminder = FALSE]
           r5 == [r4 EXCEPT !.trialReminder = FALSE]
           r6 == [r5 EXCEPT !.finalReminder = FALSE]
<1>1. e \in Int
  BY RowTyped DEF Dates
<1>2. e \in Dates /\ e # NoDate
  BY <1>1, NoDateTyped DEF Dates
<1>3. Extended(r, existing, days) = r6
  BY DEF Extended, Row
<1> HIDE DEF e
<1>4. r3 \in Row
  BY <1>2, NoDateTyped, RowFields
<1>5. r6 \in Row
  <2> HIDE DEF r3
  <2> QED BY <1>4, NoDateTyped, RowFields
<1>6. r6.status = "TRIALING" /\ r6.trialEnds = e
  BY DEF Row
<1> HIDE DEF r6
<1> QED BY <1>2, <1>3, <1>5, <1>6 DEF GoodRow, Limited

LEMMA SuspendedGood ==
    ASSUME NEW r \in Row
    PROVE  /\ GoodRow(Suspended(r))
           /\ GoodRow([Suspended(r) EXCEPT !.graceEnds = NoDate,
                                           !.graceReminder = FALSE])
<1> DEFINE r1 == [r EXCEPT !.status = "SUSPENDED"]
           r2 == [r1 EXCEPT !.suspendedAt = 0]
           r3 == [r2 EXCEPT !.graceEnds = NoDate]
           r4 == [r3 EXCEPT !.graceReminder = FALSE]
<1>1. Suspended(r) = r2
  BY DEF Suspended, Row
<1>2. r2 \in Row /\ r2.status = "SUSPENDED"
  <2>1. r2 \in Row
    BY NoDateTyped, RowFields
  <2> QED BY <2>1 DEF Row
<1> HIDE DEF r2
<1>3. [r2 EXCEPT !.graceEnds = NoDate, !.graceReminder = FALSE] = r4
  BY <1>2 DEF Row
<1>4. r4 \in Row
  BY <1>2, NoDateTyped, RowFields
<1>5. r4.status = "SUSPENDED"
  BY <1>2 DEF Row
<1> HIDE DEF r4
<1> QED BY <1>1, <1>2, <1>3, <1>4, <1>5 DEF GoodRow, Limited

LEMMA ReactivatedGood ==
    ASSUME NEW r \in Row PROVE GoodRow(Reactivated(r))
<1> DEFINE r1 == [r EXCEPT !.status = "ACTIVE"]
           r2 == [r1 EXCEPT !.suspendedAt = NoDate]
           r3 == [r2 EXCEPT !.graceEnds = NoDate]
           r4 == [r3 EXCEPT !.graceReminder = FALSE]
<1>1. Reactivated(r) = r4
  BY DEF Reactivated, Row
<1>2. r4 \in Row
  BY NoDateTyped, RowFields
<1>3. r4.status = "ACTIVE"
  BY DEF Row
<1> HIDE DEF r4
<1> QED BY <1>1, <1>2, <1>3 DEF GoodRow, Limited

LEMMA RepricedGood ==
    ASSUME NEW r, GoodRow(r), NEW existing \in Row, NEW arg \in Dates
    PROVE  GoodRow(Repriced(r, existing, arg))
<1> DEFINE e == IF arg # NoDate THEN arg ELSE existing.priceEnds
           r1 == [r EXCEPT !.price = TRUE]
           r2 == [r1 EXCEPT !.priceEnds = e]
<1>1. e \in Dates /\ r \in Row
  BY RowTyped DEF GoodRow
<1>2. Repriced(r, existing, arg) = r2
  BY <1>1 DEF Repriced, Row
<1> HIDE DEF e
<1>3. r2 \in Row
  BY <1>1, NoDateTyped, RowFields
<1>4. /\ r2.status = r.status /\ r2.trialEnds = r.trialEnds
      /\ r2.graceEnds = r.graceEnds
  BY <1>1 DEF Row
<1> HIDE DEF r2
<1> QED BY <1>2, <1>3, <1>4 DEF GoodRow, Limited

\* The writes of one column, by the jobs and in the database.
LEMMA ColumnWritten ==
    ASSUME NEW r, GoodRow(r), NEW d \in Dates
    PROVE  /\ GoodRow([r EXCEPT !.trialReminder = TRUE])
           /\ GoodRow([r EXCEPT !.finalReminder = TRUE])
           /\ GoodRow([r EXCEPT !.graceReminder = TRUE])
           /\ GoodRow([r EXCEPT !.billingReminder = TRUE])
           /\ GoodRow([r EXCEPT !.nextBilling = d])
           /\ GoodRow([r EXCEPT !.status = "PAST_DUE"])
           /\ GoodRow([r EXCEPT !.status = "SUSPENDED"])
           /\ GoodRow(Expired(r))
<1> USE DEF GoodRow, Limited
<1>1. r \in Row
  OBVIOUS
<1>2. GoodRow([r EXCEPT !.trialReminder = TRUE])
  <2> DEFINE q == [r EXCEPT !.trialReminder = TRUE]
  <2>1. q \in Row
    BY <1>1, RowFields, NoDateTyped
  <2>2. /\ q.status = r.status /\ q.trialEnds = r.trialEnds
        /\ q.graceEnds = r.graceEnds
    BY <1>1 DEF Row
  <2> HIDE DEF q
  <2>3. GoodRow(q)
    BY <2>1, <2>2
  <2> QED BY <2>3 DEF q
<1>3. GoodRow([r EXCEPT !.finalReminder = TRUE])
  <2> DEFINE q == [r EXCEPT !.finalReminder = TRUE]
  <2>1. q \in Row
    BY <1>1, RowFields, NoDateTyped
  <2>2. /\ q.status = r.status /\ q.trialEnds = r.trialEnds
        /\ q.graceEnds = r.graceEnds
    BY <1>1 DEF Row
  <2> HIDE DEF q
  <2>3. GoodRow(q)
    BY <2>1, <2>2
  <2> QED BY <2>3 DEF q
<1>4. GoodRow([r EXCEPT !.graceReminder = TRUE])
  <2> DEFINE q == [r EXCEPT !.graceReminder = TRUE]
  <2>1. q \in Row
    BY <1>1, RowFields, NoDateTyped
  <2>2. /\ q.status = r.status /\ q.trialEnds = r.trialEnds
        /\ q.graceEnds = r.graceEnds
    BY <1>1 DEF Row
  <2> HIDE DEF q
  <2>3. GoodRow(q)
    BY <2>1, <2>2
  <2> QED BY <2>3 DEF q
<1>5. GoodRow([r EXCEPT !.billingReminder = TRUE])
  <2> DEFINE q == [r EXCEPT !.billingReminder = TRUE]
  <2>1. q \in Row
    BY <1>1, RowFields, NoDateTyped
  <2>2. /\ q.status = r.status /\ q.trialEnds = r.trialEnds
        /\ q.graceEnds = r.graceEnds
    BY <1>1 DEF Row
  <2> HIDE DEF q
  <2>3. GoodRow(q)
    BY <2>1, <2>2
  <2> QED BY <2>3 DEF q
<1>6. GoodRow([r EXCEPT !.nextBilling = d])
  BY <1>1, RowFields, NoDateTyped DEF Row
<1>7. GoodRow([r EXCEPT !.status = "PAST_DUE"])
  BY <1>1, RowFields, NoDateTyped DEF Row
<1>8. GoodRow([r EXCEPT !.status = "SUSPENDED"])
  BY <1>1, RowFields, NoDateTyped DEF Row
<1>9. GoodRow(Expired(r))
  BY <1>1, RowFields, NoDateTyped DEF Row, Expired
<1> QED BY <1>2, <1>3, <1>4, <1>5, <1>6, <1>7, <1>8, <1>9

LEMMA PriceExpiredGood ==
    ASSUME NEW r, GoodRow(r)
    PROVE  GoodRow([r EXCEPT !.price = FALSE, !.priceEnds = NoDate])
<1> DEFINE r1 == [r EXCEPT !.price = FALSE]
           r2 == [r1 EXCEPT !.priceEnds = NoDate]
<1>1. r \in Row
  BY DEF GoodRow
<1>2. [r EXCEPT !.price = FALSE, !.priceEnds = NoDate] = r2
  BY <1>1 DEF Row
<1>3. r2 \in Row
  BY <1>1, NoDateTyped, RowFields
<1>4. /\ r2.status = r.status /\ r2.trialEnds = r.trialEnds
      /\ r2.graceEnds = r.graceEnds
  BY <1>1 DEF Row
<1> HIDE DEF r2
<1> QED BY <1>2, <1>3, <1>4 DEF GoodRow, Limited

LEMMA InGraceGood ==
    ASSUME NEW r \in Row, NEW days \in Nat
    PROVE  GoodRow(InGrace(r, days))
<1> DEFINE r1 == [r EXCEPT !.status = "GRACE_PERIOD"]
           r2 == [r1 EXCEPT !.graceEnds = days]
<1>1. InGrace(r, days) = r2
  BY DEF InGrace, Row
<1>2. days \in Dates /\ days # NoDate
  BY NoDateTyped DEF Dates
<1>3. r2 \in Row
  BY <1>2, NoDateTyped, RowFields
<1>4. r2.status = "GRACE_PERIOD" /\ r2.graceEnds = days
  BY DEF Row
<1> HIDE DEF r2
<1> QED BY <1>1, <1>2, <1>3, <1>4 DEF GoodRow, Limited

LEMMA OlderGood ==
    ASSUME NEW r \in Row
    PROVE  Older(r) \in Row /\ (Limited(r) => Limited(Older(r)))
<1> DEFINE r1 == [r EXCEPT !.trialEnds = DayLater(r.trialEnds)]
           r2 == [r1 EXCEPT !.graceEnds = DayLater(r.graceEnds)]
           r3 == [r2 EXCEPT !.suspendedAt = DayLater(r.suspendedAt)]
           r4 == [r3 EXCEPT !.nextBilling = DayLater(r.nextBilling)]
           r5 == [r4 EXCEPT !.priceEnds = DayLater(r.priceEnds)]
<1>1. /\ DayLater(r.trialEnds) \in Dates /\ DayLater(r.graceEnds) \in Dates
      /\ DayLater(r.suspendedAt) \in Dates /\ DayLater(r.nextBilling) \in Dates
      /\ DayLater(r.priceEnds) \in Dates /\ r # NoSub
      /\ r.trialEnds # NoDate => DayLater(r.trialEnds) # NoDate
      /\ r.graceEnds # NoDate => DayLater(r.graceEnds) # NoDate
  BY RowTyped, DayLaterTyped
<1>2. Older(r) = r5
  BY <1>1 DEF Older, Row
<1>3. r1 \in Row
  BY <1>1, NoDateTyped, RowFields
<1>4. r2 \in Row
  <2> HIDE DEF r1
  <2> QED BY <1>1, <1>3, NoDateTyped, RowFields
<1>5. r3 \in Row
  <2> HIDE DEF r2
  <2> QED BY <1>1, <1>4, NoDateTyped, RowFields
<1>6. r4 \in Row
  <2> HIDE DEF r3
  <2> QED BY <1>1, <1>5, NoDateTyped, RowFields
<1>7. r5 \in Row
  <2> HIDE DEF r4
  <2> QED BY <1>1, <1>6, NoDateTyped, RowFields
<1>8. /\ r5.status = r.status /\ r5.trialEnds = DayLater(r.trialEnds)
      /\ r5.graceEnds = DayLater(r.graceEnds)
  BY DEF Row
<1> HIDE DEF r5
<1> QED BY <1>1, <1>2, <1>7, <1>8 DEF Limited

-----------------------------------------------------------------------------
(* The inductive invariant *)

SeesRow == {"listed", "reminded", "overdue", "past_due"}

Rows == sub \in Row \cup {NoSub} /\ Limited(sub) /\ plan \in PlanSettings
\* A job that is about to write has listed a row, and rows are never deleted.
JobsKnow ==
    /\ job \in [Jobs -> JobTask]
    /\ \A j \in Jobs :
        /\ job[j].pc \in SeesRow => sub \in Row
        /\ job[j].pc \in SeesRow /\ j \in {"trial", "grace"} => job[j].row \in Row
\* So has an admin, unless it assigns a plan; days are only given as numbers.
Pending(t) ==
    /\ t.op \in Ops
    /\ t.op \notin {"assign", "force_trial"} => t.row \in Row
    /\ t.op \in {"assign", "force_trial", "extend"} => t.arg \in Nat
    /\ t.row \in Row => sub \in Row
AdminsKnow ==
    /\ admin \in [Admins -> AdminTask]
    /\ \A a \in Admins : admin[a] # IdleAdmin => Pending(admin[a])
Counted ==
    due \subseteq Jobs /\ decisions \in Nat /\ failures \in Nat /\ freeTrials \in Nat
SubInv == Rows /\ JobsKnow /\ AdminsKnow /\ Counted

LEMMA IdleTyped == IdleJob \in JobTask /\ IdleJob.pc = "idle" /\ IdleAdmin \in AdminTask
BY DEF IdleJob, JobTask, JobPcs, IdleAdmin, AdminTask

LEMMA PlanTyped ==
    ASSUME plan \in PlanSettings PROVE plan.trialDays \in Nat /\ plan.graceDays \in Nat
BY ConstantsAssumption

LEMMA ListedRow ==
    ASSUME Rows, NEW j \in Jobs, Listed(j, sub) PROVE sub \in Row
BY NoSubTyped, NoDateTyped DEF Rows, Listed, Jobs

\* The write of a step, or none, leaves a row if there was one.
LEMMA RowKept ==
    ASSUME Rows, GoodRow(sub') \/ UNCHANGED sub, UNCHANGED plan
    PROVE  Rows' /\ (sub \in Row => sub' \in Row)
BY DEF Rows, GoodRow, Limited

LEMMA JobMoved ==
    ASSUME JobsKnow, NEW j \in Jobs, NEW t \in JobTask,
           sub \in Row => sub' \in Row,
           t.pc \in SeesRow => sub' \in Row,
           t.pc \in SeesRow /\ j \in {"trial", "grace"} => t.row \in Row,
           job' = [job EXCEPT ![j] = t]
    PROVE  JobsKnow'
<1>1. /\ job' \in [Jobs -> JobTask]
      /\ \A k \in Jobs : job'[k] = IF k = j THEN t ELSE job[k]
  BY DEF JobsKnow
<1> QED BY <1>1 DEF JobsKnow

LEMMA AdminsKeep ==
    ASSUME AdminsKnow, UNCHANGED admin, sub \in Row => sub' \in Row
    PROVE  AdminsKnow'
BY DEF AdminsKnow, Pending

\* One job ends or goes on to pc, having written a row or nothing.
LEMMA JobGoes ==
    ASSUME SubInv, NEW j \in Jobs, NEW pc \in JobPcs,
           GoodRow(sub') \/ UNCHANGED sub, Untouched,
           \/ Ends(j)
           \/ /\ Goes(j, pc)
              /\ pc \in SeesRow => sub' \in Row
              /\ pc \in SeesRow /\ j \in {"trial", "grace"} => job[j].row \in Row
    PROVE  SubInv'
<1>1. Rows' /\ (sub \in Row => sub' \in Row)
  BY RowKept DEF SubInv, Untouched
<1>2. AdminsKnow' /\ Counted'
  BY <1>1, AdminsKeep DEF SubInv, Untouched, Counted
<1>3. JobsKnow'
  <2>1. CASE Ends(j)
    <3>1. job' = [job EXCEPT ![j] = IdleJob]
      BY <2>1 DEF Ends
    <3>2. IdleJob.pc \notin SeesRow
      BY IdleTyped DEF SeesRow
    <3> QED BY <1>1, <3>1, <3>2, IdleTyped, JobMoved DEF SubInv
  <2>2. CASE /\ Goes(j, pc)
             /\ pc \in SeesRow => sub' \in Row
             /\ pc \in SeesRow /\ j \in {"trial", "grace"} => job[j].row \in Row
    <3> DEFINE t == [job[j] EXCEPT !.pc = pc]
    <3>1. t \in JobTask /\ t.pc = pc /\ t.row = job[j].row
      <4>1. job[j] \in JobTask
        BY DEF SubInv, JobsKnow
      <4> QED BY <4>1 DEF JobTask
    <3>2. job' = [job EXCEPT ![j] = t]
      BY <2>2 DEF Goes, SubInv, JobsKnow
    <3> HIDE DEF t
    <3> QED BY <1>1, <2>2, <3>1, <3>2, JobMoved DEF SubInv
  <2> QED BY <2>1, <2>2
<1> QED BY <1>1, <1>2, <1>3 DEF SubInv

-----------------------------------------------------------------------------
(* The jobs *)

LEMMA JobStartStep ==
    ASSUME SubInv, NEW j \in Jobs, JobStart(j) PROVE SubInv'
<1> DEFINE t == [pc |-> "listed", row |-> sub, graceDays |-> plan.graceDays]
<1>1. /\ UNCHANGED <<sub, plan, admin, decisions, failures, freeTrials>>
      /\ due' = due \ {j}
  BY DEF JobStart
<1>2. Rows' /\ AdminsKnow' /\ Counted'
  BY <1>1, RowKept, AdminsKeep DEF SubInv, Counted
<1>3. \/ Listed(j, sub) /\ job' = [job EXCEPT ![j] = t]
      \/ Listed(j, sub) /\ j \notin {"trial", "grace"} /\ Goes(j, "listed")
      \/ Goes(j, "list_overdue")
      \/ Ends(j)
  BY DEF JobStart, Lists
<1>4. job[j] \in JobTask /\ job \in [Jobs -> JobTask]
  BY DEF SubInv, JobsKnow
<1>5. ASSUME Listed(j, sub), job' = [job EXCEPT ![j] = t] PROVE JobsKnow'
  <2>1. sub \in Row
    BY <1>5, ListedRow DEF SubInv
  <2>2. t \in JobTask /\ t.row = sub
    BY <2>1, PlanTyped DEF JobTask, JobPcs, SubInv, Rows
  <2> HIDE DEF t
  <2> QED BY <1>1, <1>5, <2>1, <2>2, JobMoved DEF SubInv
<1>6. ASSUME NEW pc \in {"listed", "list_overdue"}, Goes(j, pc),
             pc = "listed" => Listed(j, sub) /\ j \notin {"trial", "grace"}
      PROVE  JobsKnow'
  <2> DEFINE u == [job[j] EXCEPT !.pc = pc]
  <2>1. u \in JobTask /\ u.pc = pc
    BY <1>4 DEF JobTask, JobPcs
  <2>2. job' = [job EXCEPT ![j] = u]
    BY <1>4, <1>6 DEF Goes
  <2>3. pc \in SeesRow => sub \in Row /\ j \notin {"trial", "grace"}
    BY <1>6, ListedRow DEF SubInv, SeesRow
  <2> HIDE DEF u
  <2> QED BY <1>1, <2>1, <2>2, <2>3, JobMoved DEF SubInv
<1>7. ASSUME Ends(j) PROVE JobsKnow'
  <2>1. job' = [job EXCEPT ![j] = IdleJob] /\ IdleJob.pc \notin SeesRow
    BY <1>7, IdleTyped DEF Ends, SeesRow
  <2> QED BY <1>1, <2>1, IdleTyped, JobMoved DEF SubInv
<1>8. JobsKnow'
  <2> HIDE DEF t
  <2> QED BY <1>3, <1>5, <1>6, <1>7
<1> QED BY <1>2, <1>8 DEF SubInv

\* What a job that has listed the row can rely on.
LEMMA Working ==
    ASSUME SubInv, NEW j \in Jobs, NEW pc \in SeesRow, At(j, pc)
    PROVE  /\ sub \in Row /\ GoodRow(sub) /\ job[j].graceDays \in Nat
           /\ j \in {"trial", "grace"} => job[j].row \in Row
<1>1. job[j] \in JobTask /\ job[j].pc \in SeesRow
  BY DEF SubInv, JobsKnow, At
<1> QED BY <1>1 DEF SubInv, JobsKnow, Rows, GoodRow, JobTask

LEMMA TrialSteps ==
    ASSUME SubInv, TrialFirst \/ TrialFinal PROVE SubInv'
<1>1. CASE TrialFirst
  <2>1. /\ sub \in Row /\ GoodRow(sub) /\ job["trial"].graceDays \in Nat
        /\ job["trial"].row \in Row
    BY <1>1, Working DEF TrialFirst, SeesRow, Jobs
  <2>2. \/ Ends("trial") /\ UNCHANGED sub
        \/ Ends("trial") /\ sub' = InGrace(sub, job["trial"].graceDays)
        \/ /\ Goes("trial", "reminded")
           /\ sub' = sub \/ sub' = [sub EXCEPT !.trialReminder = TRUE]
    BY <1>1 DEF TrialFirst
  <2>3. GoodRow(sub')
    BY <2>1, <2>2, InGraceGood, ColumnWritten, NoDateTyped
  <2>4. sub' \in Row /\ Untouched /\ "trial" \in Jobs /\ "reminded" \in JobPcs
    BY <1>1, <2>3 DEF TrialFirst, GoodRow, Jobs, JobPcs
  <2> QED BY <2>1, <2>2, <2>3, <2>4, JobGoes
<1>2. CASE TrialFinal
  <2>1. GoodRow(sub)
    BY <1>2, Working DEF TrialFinal, SeesRow, Jobs
  <2>2. /\ sub' = sub \/ sub' = [sub EXCEPT !.finalReminder = TRUE]
        /\ Ends("trial") /\ Untouched
    BY <1>2 DEF TrialFinal
  <2>3. GoodRow(sub') /\ "trial" \in Jobs /\ "idle" \in JobPcs
    BY <2>1, <2>2, ColumnWritten, NoDateTyped DEF Jobs, JobPcs
  <2> QED BY <2>2, <2>3, JobGoes
<1> QED BY <1>1, <1>2

LEMMA GraceSteps ==
    ASSUME SubInv, GraceReminder \/ GraceEnd PROVE SubInv'
<1>1. CASE GraceReminder
  <2>1. sub \in Row /\ GoodRow(sub) /\ job["grace"].row \in Row
    BY <1>1, Working DEF GraceReminder, SeesRow, Jobs
  <2>2. /\ sub' = sub \/ sub' = [sub EXCEPT !.graceReminder = TRUE]
        /\ Goes("grace", "reminded") /\ Untouched
    BY <1>1 DEF GraceReminder
  <2>3. GoodRow(sub')
    BY <2>1, <2>2, ColumnWritten, NoDateTyped
  <2>4. sub' \in Row /\ "grace" \in Jobs /\ "reminded" \in JobPcs
    BY <2>3 DEF GoodRow, Jobs, JobPcs
  <2> QED BY <2>1, <2>2, <2>3, <2>4, JobGoes
<1>2. CASE GraceEnd
  <2>1. sub \in Row /\ GoodRow(sub)
    BY <1>2, Working DEF GraceEnd, SeesRow, Jobs
  <2>2. /\ \/ sub' = sub
           \/ sub' = [Suspended(sub) EXCEPT !.graceEnds = NoDate,
                                            !.graceReminder = FALSE]
        /\ Ends("grace") /\ Untouched
    BY <1>2 DEF GraceEnd
  <2>3. GoodRow(sub') /\ "grace" \in Jobs /\ "idle" \in JobPcs
    BY <2>1, <2>2, SuspendedGood DEF Jobs, JobPcs
  <2> QED BY <2>2, <2>3, JobGoes
<1> QED BY <1>1, <1>2

LEMMA BillingSteps ==
    ASSUME SubInv,
           \/ BillingReminder \/ BillingListOverdue \/ BillingPastDue
           \/ BillingListPastDue \/ BillingSuspend
    PROVE  SubInv'
<1>1. "billing" \in Jobs /\ JobPcs # {} /\ SeesRow \subseteq JobPcs
      /\ {"list_overdue", "list_past_due"} \subseteq JobPcs \ SeesRow
  BY DEF Jobs, JobPcs, SeesRow
<1>2. CASE BillingReminder \/ BillingPastDue \/ BillingSuspend
  <2>1. GoodRow(sub)
    BY <1>1, <1>2, Working DEF BillingReminder, BillingPastDue, BillingSuspend, SeesRow
  <2>2. /\ \/ sub' = [sub EXCEPT !.billingReminder = TRUE]
           \/ sub' = [sub EXCEPT !.status = "PAST_DUE"]
           \/ sub' = [sub EXCEPT !.status = "SUSPENDED"]
        /\ \/ Goes("billing", "list_overdue")
           \/ Goes("billing", "list_past_due")
           \/ Ends("billing")
        /\ Untouched
    BY <1>2 DEF BillingReminder, BillingPastDue, BillingSuspend
  <2>3. GoodRow(sub')
    BY <2>1, <2>2, ColumnWritten, NoDateTyped
  <2> QED BY <1>1, <2>2, <2>3, JobGoes
<1>3. CASE BillingListOverdue
  <2>1. /\ \/ Goes("billing", "overdue") /\ sub.status = "ACTIVE"
           \/ Goes("billing", "list_past_due")
        /\ Untouched /\ UNCHANGED sub
    BY <1>3 DEF BillingListOverdue
  <2>2. sub.status = "ACTIVE" => sub \in Row
    BY NoSubTyped, NoDateTyped DEF SubInv, Rows
  <2> QED BY <1>1, <2>1, <2>2, JobGoes DEF SeesRow
<1>4. CASE BillingListPastDue
  <2>1. /\ \/ Goes("billing", "past_due") /\ sub.status = "PAST_DUE"
           \/ Ends("billing")
        /\ Untouched /\ UNCHANGED sub
    BY <1>4 DEF BillingListPastDue
  <2>2. sub.status = "PAST_DUE" => sub \in Row
    BY NoSubTyped, NoDateTyped DEF SubInv, Rows
  <2> QED BY <1>1, <2>1, <2>2, JobGoes DEF SeesRow
<1> QED BY <1>2, <1>3, <1>4

LEMMA OtherJobSteps ==
    ASSUME SubInv, PriceExpiry \/ Abandon PROVE SubInv'
<1>1. "price" \in Jobs /\ "abandoned" \in Jobs /\ "idle" \in JobPcs
  BY DEF Jobs, JobPcs
<1>2. GoodRow(sub)
  BY <1>1, Working DEF PriceExpiry, Abandon, SeesRow
<1>3. /\ \/ sub' = [sub EXCEPT !.price = FALSE, !.priceEnds = NoDate]
         \/ sub' = Expired(sub)
      /\ Ends("price") \/ Ends("abandoned")
      /\ Untouched
  BY DEF PriceExpiry, Abandon
<1>4. GoodRow(sub')
  BY <1>2, <1>3, PriceExpiredGood, ColumnWritten, NoDateTyped
<1> QED BY <1>1, <1>3, <1>4, JobGoes

LEMMA JobFailsStep ==
    ASSUME SubInv, NEW j \in Jobs, JobFails(j) PROVE SubInv'
<1>1. /\ UNCHANGED <<sub, plan, admin, decisions, freeTrials>>
      /\ failures' = failures + 1 /\ due' = due \ {j}
      /\ job' = [job EXCEPT ![j] = IdleJob]
  BY DEF JobFails, Ends
<1>2. Rows' /\ AdminsKnow' /\ Counted'
  BY <1>1, RowKept, AdminsKeep DEF SubInv, Counted
<1>3. JobsKnow'
  BY <1>1, IdleTyped, JobMoved DEF SubInv, SeesRow
<1> QED BY <1>2, <1>3 DEF SubInv

-----------------------------------------------------------------------------
(* The admins and the days *)

LEMMA AdminMoved ==
    ASSUME AdminsKnow, NEW a \in Admins, NEW t \in AdminTask,
           sub \in Row => sub' \in Row,
           t = IdleAdmin \/ Pending(t), admin' = [admin EXCEPT ![a] = t]
    PROVE  AdminsKnow'
<1>1. /\ admin' \in [Admins -> AdminTask]
      /\ \A b \in Admins : admin'[b] = IF b = a THEN t ELSE admin[b]
  BY DEF AdminsKnow
<1> QED BY <1>1 DEF AdminsKnow, Pending

LEMMA ArgsTyped ==
    ASSUME Rows, NEW op \in Ops, NEW arg \in Args(op)
    PROVE  /\ arg \in Nat \cup {NoDate}
           /\ op \in {"assign", "force_trial", "extend"} => arg \in Nat
BY ConstantsAssumption, PlanTyped DEF Rows, Ops, Args

LEMMA AllowedRow ==
    ASSUME Rows, NEW op \in Ops, Allowed(op, sub), op \notin {"assign", "force_trial"}
    PROVE  sub \in Row
<1>1. \/ sub # NoSub
      \/ sub.status \in {"SUSPENDED", "TRIALING", "GRACE_PERIOD"}
  BY DEF Allowed, Ops
<1> QED BY <1>1, NoSubTyped, NoDateTyped DEF Rows

LEMMA AdminReadStep ==
    ASSUME SubInv, NEW a \in Admins, NEW op \in Ops, AdminRead(a, op)
    PROVE  SubInv'
<1>1. /\ UNCHANGED <<sub, plan, job, due, decisions, failures, freeTrials>>
      /\ Allowed(op, sub)
  BY DEF AdminRead
<1>2. PICK arg \in Args(op) : admin' = [admin EXCEPT ![a] =
        [op |-> op, row |-> sub, arg |-> arg,
         trial |-> op \in {"assign", "force_trial"} /\ CanUseTrial(op, sub)]]
  BY DEF AdminRead
<1> DEFINE b == op \in {"assign", "force_trial"} /\ CanUseTrial(op, sub)
           t == [op |-> op, row |-> sub, arg |-> arg, trial |-> b]
<1>3. admin' = [admin EXCEPT ![a] = t]
  BY <1>2
<1>4. b \in BOOLEAN
  BY DEF CanUseTrial
<1> HIDE DEF b
<1>5. t \in AdminTask
  BY <1>4, ArgsTyped DEF AdminTask, SubInv, Rows
<1>6. Pending(t)
  BY <1>1, ArgsTyped, AllowedRow DEF Pending, SubInv
<1> HIDE DEF t
<1>7. AdminsKnow'
  BY <1>1, <1>3, <1>5, <1>6, AdminMoved DEF SubInv
<1>8. Rows' /\ JobsKnow' /\ Counted'
  BY <1>1, RowKept DEF SubInv, JobsKnow, Counted
<1> QED BY <1>7, <1>8 DEF SubInv

LEMMA NewSubTyped == NewSub \in Row
BY NoDateTyped DEF NewSub, Row

\* Whatever an admin has read and concluded, the write leaves a good row, or
\* none if there was none.
LEMMA AdminWrites ==
    ASSUME SubInv, NEW a \in Admins, AdminWrite(a)
    PROVE  GoodRow(sub') \/ UNCHANGED sub
<1> DEFINE op == admin[a].op
           existing == admin[a].row
           arg == admin[a].arg
           assigns == op \in {"assign", "force_trial"}
           fails == assigns /\ existing = NoSub /\ sub # NoSub
           target == IF sub = NoSub THEN NewSub ELSE sub
<1>1. /\ op \in Ops /\ existing \in Row \cup {NoSub} /\ admin[a].trial \in BOOLEAN
      /\ arg \in Nat \cup {NoDate}
      /\ ~assigns => existing \in Row
      /\ assigns \/ op = "extend" => arg \in Nat
      /\ existing \in Row => sub \in Row
  BY DEF AdminWrite, SubInv, AdminsKnow, Pending, AdminTask
<1>2. /\ target \in Row /\ (~assigns => GoodRow(sub) /\ sub \in Row)
  BY <1>1, NewSubTyped DEF SubInv, Rows, GoodRow
<1>3. sub' = CASE fails -> sub
               [] assigns /\ ~fails -> Assigned(target, existing, admin[a].trial, arg)
               [] op = "price" -> Repriced(sub, existing, arg)
               [] op = "suspend" -> Suspended(sub)
               [] op = "expire" -> Expired(sub)
               [] op = "extend" -> Extended(sub, existing, arg)
               [] op = "reactivate" -> Reactivated(sub)
  BY DEF AdminWrite
<1> HIDE DEF target
<1>4. CASE assigns
  <2>1. UNCHANGED sub \/ sub' = Assigned(target, existing, admin[a].trial, arg)
    BY <1>3, <1>4
  <2> QED BY <1>1, <1>2, <1>4, <2>1, AssignedGood
<1>5. CASE ~assigns
  <2>1. arg \in Dates
    BY <1>1 DEF Dates
  <2>2. op \in {"price", "suspend", "expire", "extend", "reactivate"}
    BY <1>1, <1>5 DEF Ops
  <2>3. \/ sub' = Repriced(sub, existing, arg)
        \/ sub' = Suspended(sub) \/ sub' = Expired(sub) \/ sub' = Reactivated(sub)
        \/ op = "extend" /\ sub' = Extended(sub, existing, arg)
    BY <1>3, <1>5, <2>2
  <2>4. sub \in Row /\ GoodRow(sub) /\ existing \in Row
    BY <1>1, <1>2, <1>5
  <2>5. GoodRow(Repriced(sub, existing, arg))
    <3> HIDE DEF existing, arg
    <3> QED BY <2>1, <2>4, RepricedGood
  <2>6. GoodRow(Suspended(sub)) /\ GoodRow(Expired(sub)) /\ GoodRow(Reactivated(sub))
    BY <2>4, SuspendedGood, ReactivatedGood, ColumnWritten, NoDateTyped
  <2>7. op = "extend" => GoodRow(Extended(sub, existing, arg))
    BY <1>1, <2>4, ExtendedGood
  <2> QED BY <2>3, <2>5, <2>6, <2>7
<1> QED BY <1>4, <1>5

LEMMA AdminWriteStep ==
    ASSUME SubInv, NEW a \in Admins, AdminWrite(a) PROVE SubInv'
<1>1. /\ UNCHANGED <<plan, job, due, failures>> /\ decisions' = decisions + 1
      /\ freeTrials' = freeTrials \/ freeTrials' = freeTrials + 1
      /\ admin' = [admin EXCEPT ![a] = IdleAdmin]
  BY DEF AdminWrite
<1>2. Rows' /\ (sub \in Row => sub' \in Row)
  BY <1>1, AdminWrites, RowKept DEF SubInv
<1>3. AdminsKnow'
  BY <1>1, <1>2, IdleTyped, AdminMoved DEF SubInv
<1>4. JobsKnow' /\ Counted'
  BY <1>1, <1>2 DEF SubInv, JobsKnow, Counted
<1> QED BY <1>2, <1>3, <1>4 DEF SubInv

LEMMA PlanStep ==
    ASSUME SubInv, NEW p \in PlanSettings, ChangePlan(p) PROVE SubInv'
<1>1. /\ UNCHANGED <<sub, job, due, admin, failures, freeTrials>>
      /\ decisions' = decisions + 1 /\ plan' \in PlanSettings
  BY DEF ChangePlan
<1>2. Rows' /\ AdminsKnow'
  BY <1>1, AdminsKeep DEF SubInv, Rows, Limited
<1> QED BY <1>1, <1>2 DEF SubInv, JobsKnow, Counted

LEMMA BillingDateStep ==
    ASSUME SubInv, NEW d \in BillingDates, SetBillingDate(d) PROVE SubInv'
<1>1. /\ UNCHANGED <<plan, job, due, admin, failures, freeTrials>>
      /\ decisions' = decisions + 1 /\ sub # NoSub
      /\ sub' = [sub EXCEPT !.nextBilling = d]
  BY DEF SetBillingDate
<1>2. GoodRow(sub) /\ d \in Dates
  BY <1>1, ConstantsAssumption DEF SubInv, Rows, GoodRow, Dates
<1>3. GoodRow(sub')
  BY <1>1, <1>2, ColumnWritten
<1>4. Rows' /\ AdminsKnow' /\ (sub \in Row => sub' \in Row)
  BY <1>1, <1>3, RowKept, AdminsKeep DEF SubInv
<1> QED BY <1>1, <1>4 DEF SubInv, JobsKnow, Counted

LEMMA NextDayStep ==
    ASSUME SubInv, NextDay PROVE SubInv'
<1>1. /\ sub' = Older(sub) /\ UNCHANGED <<plan, job, decisions, failures, freeTrials>>
      /\ admin' = [a \in Admins |-> [admin[a] EXCEPT !.row = Older(admin[a].row)]]
      /\ due' = Jobs
  BY DEF NextDay, SubInv, AdminsKnow
<1>2. ASSUME NEW r \in Row \cup {NoSub}
      PROVE  /\ Older(r) \in Row \cup {NoSub}
             /\ r \in Row <=> Older(r) \in Row
             /\ Limited(r) => Limited(Older(r))
  <2>1. NoSub \notin Row /\ Older(NoSub) = NoSub
    BY NoSubTyped DEF Row, Older
  <2> QED BY <2>1, OlderGood
<1>3. Rows' /\ (sub \in Row => sub' \in Row)
  BY <1>1, <1>2 DEF SubInv, Rows
<1>4. AdminsKnow'
  <2>1. ASSUME NEW a \in Admins
        PROVE  /\ admin'[a] \in AdminTask
               /\ admin'[a] # IdleAdmin => (Pending(admin[a]))'
    <3> DEFINE t == admin[a]
               u == [t EXCEPT !.row = Older(t.row)]
    <3>1. t \in AdminTask /\ (t # IdleAdmin => Pending(t)) /\ admin'[a] = u
      BY <1>1 DEF SubInv, AdminsKnow
    <3>2. /\ t.row \in Row \cup {NoSub} /\ t.op \in Ops \cup {"idle"}
          /\ t.trial \in BOOLEAN /\ t.arg \in Nat \cup {NoDate}
      BY <3>1 DEF AdminTask
    <3>3. /\ u \in AdminTask /\ u.row = Older(t.row) /\ u.op = t.op /\ u.arg = t.arg
      BY <1>2, <3>1, <3>2 DEF AdminTask
    <3>4. t = IdleAdmin => u = IdleAdmin
      <4>1. Older(NoSub) = NoSub
        BY DEF Older
      <4>2. IdleAdmin.row = NoSub
        BY DEF IdleAdmin
      <4>3. ASSUME NEW v \in AdminTask PROVE [v EXCEPT !.row = v.row] = v
        BY DEF AdminTask
      <4> QED BY <4>1, <4>2, <4>3, IdleTyped
    <3> HIDE DEF t, u
    <3>5. u # IdleAdmin => (Pending(t) /\ (u.row \in Row <=> t.row \in Row))
      BY <1>2, <3>1, <3>2, <3>3, <3>4
    <3>6. u # IdleAdmin =>
            /\ u.op \in Ops
            /\ u.op \notin {"assign", "force_trial"} => u.row \in Row
            /\ u.op \in {"assign", "force_trial", "extend"} => u.arg \in Nat
            /\ u.row \in Row => sub' \in Row
      BY <1>3, <3>3, <3>5 DEF Pending
    <3> QED BY <3>1, <3>3, <3>6 DEF Pending
  <2> QED BY <1>1, <2>1 DEF AdminsKnow, Pending
<1>5. JobsKnow' /\ Counted'
  BY <1>1, <1>3 DEF SubInv, JobsKnow, Counted
<1> QED BY <1>3, <1>4, <1>5 DEF SubInv

-----------------------------------------------------------------------------
(* The theorems *)

LEMMA SubInit == Init => SubInv
<1> SUFFICES ASSUME Init PROVE SubInv
  OBVIOUS
<1>1. JobsKnow
  BY IdleTyped DEF Init, JobsKnow, SeesRow
<1>2. AdminsKnow
  BY IdleTyped DEF Init, AdminsKnow
<1> QED BY <1>1, <1>2, NoSubTyped DEF Init, SubInv, Rows, Counted

LEMMA SubStep == SubInv /\ [Next]_vars => SubInv'
<1> SUFFICES ASSUME SubInv, [Next]_vars PROVE SubInv'
  OBVIOUS
<1>1. ASSUME NEW j \in Jobs, JobStep(j) PROVE SubInv'
  BY <1>1, TrialSteps, GraceSteps, BillingSteps, OtherJobSteps DEF JobStep
<1>2. ASSUME UNCHANGED vars PROVE SubInv'
  BY <1>2 DEF vars, SubInv, Rows, Limited, JobsKnow, AdminsKnow, Pending, Counted
<1> QED BY <1>1, <1>2, AdminWriteStep, AdminReadStep, PlanStep, BillingDateStep,
           JobStartStep, JobFailsStep, NextDayStep DEF Next

\* Whatever the admins and the jobs overwrite of each other's work.
THEOREM SubInvariant == Spec => []SubInv
BY SubInit, SubStep, PTL DEF Spec

\* Every variable keeps its type: a write always finds the row it was meant for,
\* and no subscription ever is CANCELLED.
THEOREM SubTypeCorrect == Spec => []TypeOK
<1>1. SubInv => TypeOK
  BY DEF SubInv, Rows, JobsKnow, AdminsKnow, Counted, TypeOK
<1> QED BY <1>1, SubInvariant, PTL

\* A trial and a grace period always have an end, however stale what an admin
\* or a job has read is when it writes.
THEOREM TrialsHaveEnds == Spec => []LimitedHasEnd
<1>1. SubInv => LimitedHasEnd
  BY DEF SubInv, Rows, Limited, LimitedHasEnd
<1> QED BY <1>1, SubInvariant, PTL

-----------------------------------------------------------------------------
(* One trial per organization *)

OneAdminWorks == \A a, b \in Admins : a = b

Had(r) == r \in Row /\ r.trialUsed
\* What the admin has read of the trial is still so.
ReadIsFresh(t, r) ==
    /\ t.row \in Row <=> r \in Row
    /\ t.row \in Row => (t.row.trialUsed <=> r.trialUsed)
    /\ t.op = "assign" /\ t.trial => ~Had(r)
TrialInv ==
    /\ freeTrials = 0 \/ (freeTrials = 1 /\ Had(sub))
    /\ \A a \in Admins : admin[a] # IdleAdmin => ReadIsFresh(admin[a], sub)

\* The writes that leave the trial alone.
TrialKept == (sub' \in Row <=> sub \in Row) /\ (sub \in Row => sub'.trialUsed = sub.trialUsed)

LEMMA KeepsTrialUsed ==
    ASSUME NEW r \in Row, NEW x, NEW y
    PROVE  /\ InGrace(r, x).trialUsed = r.trialUsed
           /\ Suspended(r).trialUsed = r.trialUsed
           /\ [Suspended(r) EXCEPT !.graceEnds = NoDate,
                                   !.graceReminder = FALSE].trialUsed = r.trialUsed
           /\ Expired(r).trialUsed = r.trialUsed
           /\ Reactivated(r).trialUsed = r.trialUsed
           /\ Extended(r, x, y).trialUsed = r.trialUsed
           /\ Repriced(r, x, y).trialUsed = r.trialUsed
           /\ Older(r).trialUsed = r.trialUsed
<1>1. r # NoSub
  BY RowTyped
<1> QED BY <1>1 DEF Row, InGrace, Suspended, Expired, Reactivated, Extended, Repriced, Older

LEMMA ColumnKeepsTrialUsed ==
    ASSUME NEW r \in Row, NEW d
    PROVE  /\ [r EXCEPT !.trialReminder = TRUE].trialUsed = r.trialUsed
           /\ [r EXCEPT !.finalReminder = TRUE].trialUsed = r.trialUsed
           /\ [r EXCEPT !.graceReminder = TRUE].trialUsed = r.trialUsed
           /\ [r EXCEPT !.billingReminder = TRUE].trialUsed = r.trialUsed
           /\ [r EXCEPT !.nextBilling = d].trialUsed = r.trialUsed
           /\ [r EXCEPT !.status = "PAST_DUE"].trialUsed = r.trialUsed
           /\ [r EXCEPT !.status = "SUSPENDED"].trialUsed = r.trialUsed
           /\ [r EXCEPT !.price = FALSE, !.priceEnds = NoDate].trialUsed = r.trialUsed
BY DEF Row

\* Jobs and billing dates never touch a trial.
LEMMA JobKeepsTrial ==
    ASSUME SubInv, NEW j \in Jobs, JobStep(j)
    PROVE  TrialKept /\ UNCHANGED <<admin, freeTrials>>
<1>1. UNCHANGED <<admin, freeTrials>>
  BY DEF JobStep, TrialFirst, TrialFinal, GraceReminder, GraceEnd, BillingReminder,
         BillingListOverdue, BillingPastDue, BillingListPastDue, BillingSuspend,
         PriceExpiry, Abandon, Untouched
<1>2. CASE UNCHANGED sub
  BY <1>1, <1>2 DEF TrialKept
<1>3. CASE sub' # sub
  <2>1. \E pc \in SeesRow : At(j, pc)
    BY <1>3 DEF JobStep, TrialFirst, TrialFinal, GraceReminder, GraceEnd,
         BillingReminder, BillingListOverdue, BillingPastDue, BillingListPastDue,
         BillingSuspend, PriceExpiry, Abandon, SeesRow
  <2>2. sub \in Row /\ GoodRow(sub)
    BY <2>1, Working
  <2>3. \/ sub' = InGrace(sub, job["trial"].graceDays)
        \/ sub' = [sub EXCEPT !.trialReminder = TRUE]
        \/ sub' = [sub EXCEPT !.finalReminder = TRUE]
        \/ sub' = [sub EXCEPT !.graceReminder = TRUE]
        \/ sub' = [sub EXCEPT !.billingReminder = TRUE]
        \/ sub' = [sub EXCEPT !.status = "PAST_DUE"]
        \/ sub' = [sub EXCEPT !.status = "SUSPENDED"]
        \/ sub' = [sub EXCEPT !.price = FALSE, !.priceEnds = NoDate]
        \/ sub' = Expired(sub)
        \/ sub' = [Suspended(sub) EXCEPT !.graceEnds = NoDate, !.graceReminder = FALSE]
    BY <1>3 DEF JobStep, TrialFirst, TrialFinal, GraceReminder, GraceEnd,
         BillingReminder, BillingListOverdue, BillingPastDue, BillingListPastDue,
         BillingSuspend, PriceExpiry, Abandon
  <2>4. sub'.trialUsed = sub.trialUsed
    <3>1. /\ InGrace(sub, job["trial"].graceDays).trialUsed = sub.trialUsed
          /\ Expired(sub).trialUsed = sub.trialUsed
          /\ [Suspended(sub) EXCEPT !.graceEnds = NoDate,
                                    !.graceReminder = FALSE].trialUsed = sub.trialUsed
      BY <2>2, KeepsTrialUsed
    <3>2. /\ [sub EXCEPT !.trialReminder = TRUE].trialUsed = sub.trialUsed
          /\ [sub EXCEPT !.finalReminder = TRUE].trialUsed = sub.trialUsed
          /\ [sub EXCEPT !.graceReminder = TRUE].trialUsed = sub.trialUsed
          /\ [sub EXCEPT !.billingReminder = TRUE].trialUsed = sub.trialUsed
          /\ [sub EXCEPT !.status = "PAST_DUE"].trialUsed = sub.trialUsed
          /\ [sub EXCEPT !.status = "SUSPENDED"].trialUsed = sub.trialUsed
          /\ [sub EXCEPT !.price = FALSE, !.priceEnds = NoDate].trialUsed = sub.trialUsed
      BY <2>2, ColumnKeepsTrialUsed
    <3> QED BY <2>3, <3>1, <3>2
  <2>5. sub' \in Row
    <3>1. job["trial"].graceDays \in Nat
      BY DEF SubInv, JobsKnow, JobTask, Jobs
    <3>2. GoodRow(sub')
      BY <2>2, <2>3, <3>1, InGraceGood, SuspendedGood, ColumnWritten,
         PriceExpiredGood, NoDateTyped
    <3> QED BY <3>2 DEF GoodRow
  <2> QED BY <1>1, <2>2, <2>4, <2>5 DEF TrialKept
<1> QED BY <1>1, <1>2, <1>3

LEMMA NoSubNoRow == NoSub \notin Row
BY RowTyped

LEMMA TrialStays ==
    ASSUME TrialInv, TrialKept, UNCHANGED <<admin, freeTrials>> PROVE TrialInv'
<1>1. Had(sub) => Had(sub')
  BY DEF TrialKept, Had
<1>2. ASSUME NEW t, ReadIsFresh(t, sub) PROVE ReadIsFresh(t, sub')
  BY <1>2 DEF ReadIsFresh, Had, TrialKept
<1> QED BY <1>1, <1>2 DEF TrialInv, ReadIsFresh, Had

LEMMA ReadKeepsTrial ==
    ASSUME OneAdminWorks, SubInv, TrialInv, NEW a \in Admins, NEW op \in Ops,
           AdminRead(a, op)
    PROVE  TrialInv'
<1> DEFINE b == op \in {"assign", "force_trial"} /\ CanUseTrial(op, sub)
<1>1. UNCHANGED <<sub, freeTrials>>
  BY DEF AdminRead
<1>2. PICK arg \in Args(op) :
        admin' = [admin EXCEPT ![a] = [op |-> op, row |-> sub, arg |-> arg, trial |-> b]]
  BY DEF AdminRead
<1> DEFINE t == [op |-> op, row |-> sub, arg |-> arg, trial |-> b]
<1>3. op = "assign" /\ b => ~Had(sub)
  BY NoSubNoRow DEF CanUseTrial, Had
<1>4. \A c \in Admins : admin'[c] = t
  BY <1>2 DEF OneAdminWorks, SubInv, AdminsKnow
<1> HIDE DEF b
<1>5. t.row = sub /\ t.op = op /\ t.trial = b
  OBVIOUS
<1> HIDE DEF t
<1>6. ReadIsFresh(t, sub)
  BY <1>3, <1>5 DEF ReadIsFresh
<1>7. ReadIsFresh(t, sub')
  BY <1>1, <1>6 DEF ReadIsFresh, Had
<1> QED BY <1>1, <1>4, <1>7 DEF TrialInv, ReadIsFresh, Had

LEMMA AssignedTrialUsed ==
    ASSUME NEW r \in Row, NEW existing, NEW trial \in BOOLEAN, NEW days
    PROVE  Assigned(r, existing, trial, days).trialUsed
             <=> (trial \/ (existing # NoSub /\ existing.trialUsed))
BY DEF Assigned, Row

\* A trial given without forceTrial is the first, and is remembered.
LEMMA WriteKeepsTrial ==
    ASSUME OneAdminWorks, SubInv, TrialInv, NEW a \in Admins, AdminWrite(a)
    PROVE  TrialInv'
<1> DEFINE op == admin[a].op
           existing == admin[a].row
           trial == admin[a].trial
           arg == admin[a].arg
           assigns == op \in {"assign", "force_trial"}
           fails == assigns /\ existing = NoSub /\ sub # NoSub
           target == IF sub = NoSub THEN NewSub ELSE sub
<1>1. /\ op \in Ops /\ existing \in Row \cup {NoSub} /\ trial \in BOOLEAN
      /\ sub \in Row \cup {NoSub} /\ (existing \in Row <=> sub \in Row)
      /\ assigns => arg \in Nat
      /\ ~assigns => existing \in Row
  BY DEF AdminWrite, SubInv, Rows, AdminsKnow, Pending, AdminTask, TrialInv, ReadIsFresh
<1>2. /\ existing \in Row => (existing.trialUsed <=> sub.trialUsed)
      /\ op = "assign" /\ trial => ~Had(sub)
  BY DEF AdminWrite, TrialInv, ReadIsFresh
<1>3. /\ freeTrials' = IF op = "assign" /\ ~fails /\ trial
                       THEN freeTrials + 1 ELSE freeTrials
      /\ sub' = CASE fails -> sub
                  [] assigns /\ ~fails -> Assigned(target, existing, trial, arg)
                  [] op = "price" -> Repriced(sub, existing, arg)
                  [] op = "suspend" -> Suspended(sub)
                  [] op = "expire" -> Expired(sub)
                  [] op = "extend" -> Extended(sub, existing, arg)
                  [] op = "reactivate" -> Reactivated(sub)
  BY DEF AdminWrite
<1>4. ~fails /\ target \in Row
  BY <1>1, NoSubNoRow, NewSubTyped
<1>5. \A c \in Admins : admin'[c] = IdleAdmin
  BY DEF AdminWrite, OneAdminWorks, SubInv, AdminsKnow
<1>6. freeTrials' = 0 \/ (freeTrials' = 1 /\ Had(sub'))
  <2>1. CASE assigns
    <3> HIDE DEF target
    <3>1. sub' = Assigned(target, existing, trial, arg)
      BY <1>3, <1>4, <2>1
    <3>2. sub' \in Row
      BY <1>1, <1>4, <2>1, <3>1, AssignedGood DEF GoodRow
    <3>3. sub'.trialUsed <=> (trial \/ (existing # NoSub /\ existing.trialUsed))
      <4>1. trial \in BOOLEAN /\ target \in Row
        BY <1>1, <1>4
      <4> HIDE DEF existing, trial, arg
      <4>2. \A x, d : Assigned(target, x, trial, d).trialUsed
                      <=> (trial \/ (x # NoSub /\ x.trialUsed))
        BY <4>1, AssignedTrialUsed
      <4> QED BY <3>1, <4>2
    <3>4. trial \/ Had(sub) => Had(sub')
      <4>1. trial => Had(sub')
        BY <3>2, <3>3 DEF Had
      <4>2. ASSUME Had(sub) PROVE existing # NoSub /\ existing.trialUsed
        BY <1>1, <1>2, <4>2, NoSubNoRow DEF Had
      <4>3. Had(sub) => Had(sub')
        BY <3>2, <3>3, <4>2 DEF Had
      <4> QED BY <4>1, <4>3
    <3>5. \/ op = "assign" /\ trial /\ freeTrials' = freeTrials + 1 /\ ~Had(sub)
          \/ freeTrials' = freeTrials
      BY <1>2, <1>3
    <3>6. freeTrials = 0 \/ (freeTrials = 1 /\ Had(sub))
      BY DEF TrialInv
    <3> QED BY <3>4, <3>5, <3>6
  <2>2. CASE ~assigns
    <3>1. sub \in Row /\ existing \in Row /\ GoodRow(sub) /\ freeTrials' = freeTrials
      BY <1>1, <1>3, <2>2 DEF SubInv, Rows, GoodRow
    <3>2. sub' \in Row
      BY <3>1, AdminWrites DEF GoodRow
    <3>3. op \in {"price", "suspend", "expire", "extend", "reactivate"}
      BY <1>1, <2>2 DEF Ops
    <3>4. \/ sub' = Repriced(sub, existing, arg)
          \/ sub' = Suspended(sub) \/ sub' = Expired(sub) \/ sub' = Reactivated(sub)
          \/ sub' = Extended(sub, existing, arg)
      BY <1>3, <1>4, <2>2, <3>3
    <3>5. sub'.trialUsed = sub.trialUsed
      <4>1. /\ Repriced(sub, existing, arg).trialUsed = sub.trialUsed
            /\ Suspended(sub).trialUsed = sub.trialUsed
            /\ Expired(sub).trialUsed = sub.trialUsed
            /\ Reactivated(sub).trialUsed = sub.trialUsed
            /\ Extended(sub, existing, arg).trialUsed = sub.trialUsed
        BY <3>1, KeepsTrialUsed
      <4> QED BY <3>4, <4>1
    <3>6. Had(sub) => Had(sub')
      BY <3>2, <3>5 DEF Had
    <3> QED BY <3>1, <3>6 DEF TrialInv
  <2> QED BY <2>1, <2>2
<1> QED BY <1>5, <1>6 DEF TrialInv

LEMMA DayKeepsTrial ==
    ASSUME SubInv, TrialInv, NextDay PROVE TrialInv'
<1>1. /\ sub' = Older(sub) /\ UNCHANGED freeTrials
      /\ admin' = [a \in Admins |-> [admin[a] EXCEPT !.row = Older(admin[a].row)]]
  BY DEF NextDay, SubInv, AdminsKnow
<1>2. ASSUME NEW r \in Row \cup {NoSub}
      PROVE  /\ r \in Row <=> Older(r) \in Row
             /\ r \in Row => Older(r).trialUsed = r.trialUsed
  <2>1. Older(NoSub) = NoSub
    BY DEF Older
  <2> QED BY <2>1, NoSubNoRow, OlderGood, KeepsTrialUsed
<1>3. TrialKept
  BY <1>1, <1>2 DEF TrialKept, SubInv, Rows
<1>4. ASSUME NEW a \in Admins, admin'[a] # IdleAdmin PROVE ReadIsFresh(admin[a], sub)
  <2>1. [IdleAdmin EXCEPT !.row = Older(IdleAdmin.row)] = IdleAdmin
    <3>1. Older(NoSub) = NoSub /\ IdleAdmin.row = NoSub
      BY DEF Older, IdleAdmin
    <3>2. ASSUME NEW v \in AdminTask PROVE [v EXCEPT !.row = v.row] = v
      BY DEF AdminTask
    <3> QED BY <3>1, <3>2, IdleTyped
  <2> QED BY <1>1, <1>4, <2>1 DEF TrialInv
<1>5. ASSUME NEW a \in Admins, admin'[a] # IdleAdmin PROVE ReadIsFresh(admin'[a], sub')
  <2> DEFINE t == admin[a]
             u == admin'[a]
  <2>1. t \in AdminTask /\ ReadIsFresh(t, sub)
    BY <1>4, <1>5 DEF SubInv, AdminsKnow
  <2>2. /\ u.row = Older(t.row) /\ u.op = t.op /\ u.trial = t.trial
        /\ t.row \in Row \cup {NoSub}
    BY <1>1, <2>1 DEF AdminTask
  <2>3. (u.row \in Row <=> t.row \in Row) /\ (t.row \in Row => u.row.trialUsed = t.row.trialUsed)
    BY <1>2, <2>2
  <2> HIDE DEF t, u
  <2>4. ReadIsFresh(u, sub')
    BY <1>3, <2>1, <2>2, <2>3 DEF ReadIsFresh, Had, TrialKept
  <2> QED BY <2>4 DEF u
<1>6. Had(sub) => Had(sub')
  BY <1>3 DEF TrialKept, Had
<1> QED BY <1>1, <1>5, <1>6 DEF TrialInv, ReadIsFresh, Had

LEMMA TrialStep ==
    ASSUME OneAdminWorks, SubInv, TrialInv, [Next]_vars PROVE TrialInv'
<1>1. ASSUME NEW d \in BillingDates, SetBillingDate(d) PROVE TrialInv'
  <2>1. /\ sub \in Row /\ GoodRow(sub) /\ sub' = [sub EXCEPT !.nextBilling = d]
        /\ UNCHANGED <<admin, freeTrials>> /\ d \in Dates
    BY <1>1, ConstantsAssumption DEF SetBillingDate, SubInv, Rows, GoodRow, Dates
  <2>2. sub' \in Row /\ sub'.trialUsed = sub.trialUsed
    BY <2>1, ColumnWritten, ColumnKeepsTrialUsed DEF GoodRow
  <2> QED BY <2>1, <2>2, TrialStays DEF TrialKept
<1>2. ASSUME NEW j \in Jobs, JobStep(j) PROVE TrialInv'
  BY <1>2, JobKeepsTrial, TrialStays
<1>3. ASSUME UNCHANGED <<sub, admin, freeTrials>> PROVE TrialInv'
  BY <1>3, TrialStays DEF TrialKept
<1>4. ASSUME NEW p \in PlanSettings, ChangePlan(p) PROVE TrialInv'
  BY <1>3, <1>4 DEF ChangePlan
<1>5. ASSUME NEW j \in Jobs, JobStart(j) \/ JobFails(j) PROVE TrialInv'
  BY <1>3, <1>5 DEF JobStart, JobFails
<1>6. ASSUME UNCHANGED vars PROVE TrialInv'
  BY <1>3, <1>6 DEF vars
<1> QED BY <1>1, <1>2, <1>4, <1>5, <1>6, ReadKeepsTrial, WriteKeepsTrial, DayKeepsTrial
        DEF Next

\* If one super admin works, an organization gets at most one trial that is not
\* forced, however often its plan is assigned, suspended and reactivated.
THEOREM OneTrialEach == OneAdminWorks => (Spec => []OneFreeTrial)
<1> SUFFICES ASSUME OneAdminWorks PROVE Spec => []OneFreeTrial
  OBVIOUS
<1>1. Init => TrialInv
  BY DEF Init, TrialInv
<1>2. SubInv /\ TrialInv /\ [Next]_vars => TrialInv'
  BY TrialStep
<1>3. TrialInv => OneFreeTrial
  BY DEF TrialInv, OneFreeTrial
<1> QED BY <1>1, <1>2, <1>3, SubInvariant, PTL DEF Spec

-----------------------------------------------------------------------------
(* Trials and grace periods end in time *)

\* Today's run has seen to the row: it is over and has not listed a trial, or
\* a grace period, that it has yet to end.
TrialSeen ==
    /\ "trial" \notin due
    /\ ~(job["trial"].pc = "listed" /\ Passed(job["trial"].row.trialEnds))
GraceSeen ==
    /\ "grace" \notin due
    /\ ~(job["grace"].pc \in {"listed", "reminded"}
         /\ Passed(job["grace"].row.graceEnds))
\* How late an end may be: a day for each failed run, and the day that is left
\* to tomorrow's run once today's has seen to the row.
Latest(seen) == (IF seen THEN 1 ELSE 0) - failures
\* Nobody gives a trial or a grace period without a day.
DaysGiven ==
    /\ job["trial"].pc = "listed" => job["trial"].graceDays > 0
    /\ \A a \in Admins :
        /\ admin[a] # IdleAdmin
        /\ admin[a].op = "extend"
             \/ (admin[a].op \in {"assign", "force_trial"} /\ admin[a].trial)
        => admin[a].arg > 0
EndInv ==
    /\ sub.status = "TRIALING" => sub.trialEnds >= Latest(TrialSeen)
    /\ sub.status = "GRACE_PERIOD" => sub.graceEnds >= Latest(GraceSeen)
    /\ DaysGiven

LEMMA SeenTyped ==
    ASSUME SubInv
    PROVE  /\ failures \in Nat /\ Latest(TRUE) \in Int /\ Latest(FALSE) \in Int
           /\ Latest(TRUE) = 1 - failures /\ Latest(FALSE) = -failures
           /\ TrialSeen \in BOOLEAN /\ GraceSeen \in BOOLEAN
BY DEF SubInv, Counted, Latest, TrialSeen, GraceSeen

\* What a write may do to the end of a trial or a grace period: leave it, or
\* give a day at least.
EndKept(r, q) ==
    /\ q.status = "TRIALING"
        => q.trialEnds > 0 \/ (r.status = "TRIALING" /\ q.trialEnds = r.trialEnds)
    /\ q.status = "GRACE_PERIOD"
        => q.graceEnds > 0 \/ (r.status = "GRACE_PERIOD" /\ q.graceEnds = r.graceEnds)

LEMMA WrittenEnds ==
    ASSUME NEW r \in Row, NEW x, NEW d
    PROVE  /\ EndKept(r, Suspended(r))
           /\ EndKept(r, [Suspended(r) EXCEPT !.graceEnds = NoDate,
                                              !.graceReminder = FALSE])
           /\ EndKept(r, Expired(r))
           /\ EndKept(r, Reactivated(r))
           /\ EndKept(r, Repriced(r, x, d))
           /\ d > 0 => EndKept(r, InGrace(r, d))
<1>1. /\ Suspended(r).status = "SUSPENDED" /\ Expired(r).status = "EXPIRED"
      /\ Reactivated(r).status = "ACTIVE"
      /\ [Suspended(r) EXCEPT !.graceEnds = NoDate,
                              !.graceReminder = FALSE].status = "SUSPENDED"
  BY DEF Row, Suspended, Expired, Reactivated
<1>2. /\ Repriced(r, x, d).status = r.status
      /\ Repriced(r, x, d).trialEnds = r.trialEnds
      /\ Repriced(r, x, d).graceEnds = r.graceEnds
  BY DEF Row, Repriced
<1>3. InGrace(r, d).status = "GRACE_PERIOD" /\ InGrace(r, d).graceEnds = d
  BY DEF Row, InGrace
<1> QED BY <1>1, <1>2, <1>3 DEF EndKept

LEMMA ColumnKeepsEnds ==
    ASSUME NEW r \in Row, NEW d
    PROVE  /\ EndKept(r, [r EXCEPT !.trialReminder = TRUE])
           /\ EndKept(r, [r EXCEPT !.finalReminder = TRUE])
           /\ EndKept(r, [r EXCEPT !.graceReminder = TRUE])
           /\ EndKept(r, [r EXCEPT !.billingReminder = TRUE])
           /\ EndKept(r, [r EXCEPT !.nextBilling = d])
           /\ EndKept(r, [r EXCEPT !.status = "PAST_DUE"])
           /\ EndKept(r, [r EXCEPT !.status = "SUSPENDED"])
           /\ EndKept(r, [r EXCEPT !.price = FALSE, !.priceEnds = NoDate])
BY DEF EndKept, Row

LEMMA GivenEnds ==
    ASSUME NEW r \in Row, NEW x \in Row \cup {NoSub}, NEW trial \in BOOLEAN, NEW d \in Nat
    PROVE  /\ (trial => d > 0) => EndKept(r, Assigned(r, x, trial, d))
           /\ x \in Row /\ d > 0 => EndKept(r, Extended(r, x, d))
<1>1. /\ Assigned(r, x, trial, d).status = (IF trial THEN "TRIALING" ELSE "ACTIVE")
      /\ Assigned(r, x, trial, d).trialEnds = (IF trial THEN d ELSE NoDate)
  BY DEF Row, Assigned
<1> DEFINE base == IF x.trialEnds # NoDate /\ x.trialEnds > 0 THEN x.trialEnds ELSE 0
<1>2. Extended(r, x, d).status = "TRIALING" /\ Extended(r, x, d).trialEnds = base + d
  BY DEF Row, Extended
<1>3. x \in Row => base \in Nat
  BY RowTyped DEF Dates
<1>4. x \in Row /\ d > 0 => base + d > 0
  <2> HIDE DEF base
  <2> QED BY <1>3
<1> QED BY <1>1, <1>2, <1>4 DEF EndKept

\* An end that is kept, or given anew, is late by no more than it was.
LEMMA EndsStay ==
    ASSUME SubInv, SubInv', EndInv, EndKept(sub, sub') \/ UNCHANGED sub,
           failures' = failures \/ failures' = failures + 1,
           \/ ~TrialSeen' \/ TrialSeen \/ failures' = failures + 1
           \/ sub'.status # "TRIALING" \/ sub'.trialEnds > 0,
           \/ ~GraceSeen' \/ GraceSeen \/ failures' = failures + 1
           \/ sub'.status # "GRACE_PERIOD" \/ sub'.graceEnds > 0
    PROVE  /\ sub'.status = "TRIALING" => sub'.trialEnds >= Latest(TrialSeen)'
           /\ sub'.status = "GRACE_PERIOD" => sub'.graceEnds >= Latest(GraceSeen)'
<1>1. /\ EndKept(sub, sub')
      /\ failures \in Nat /\ failures' \in Nat
  <2>1. EndKept(sub, sub)
    BY DEF EndKept
  <2> QED BY <2>1 DEF SubInv, Counted
<1>2. /\ sub.status = "TRIALING" => sub.trialEnds \in Int
      /\ sub'.status = "TRIALING" => sub'.trialEnds \in Int
      /\ sub.status = "GRACE_PERIOD" => sub.graceEnds \in Int
      /\ sub'.status = "GRACE_PERIOD" => sub'.graceEnds \in Int
  <2>1. ASSUME NEW r \in Row \cup {NoSub}, Limited(r)
        PROVE  /\ r.status = "TRIALING" => r.trialEnds \in Int
               /\ r.status = "GRACE_PERIOD" => r.graceEnds \in Int
    BY <2>1, RowTyped, NoSubTyped, NoDateTyped DEF Limited, Dates
  <2>2. Limited(sub) /\ Limited(sub') /\ sub \in Row \cup {NoSub} /\ sub' \in Row \cup {NoSub}
    BY DEF SubInv, Rows, Limited
  <2> QED BY <2>1, <2>2
<1>3. ASSUME sub'.status = "TRIALING" PROVE sub'.trialEnds >= Latest(TrialSeen)'
  <2>1. sub'.trialEnds > 0
        \/ (sub.status = "TRIALING" /\ sub'.trialEnds = sub.trialEnds
            /\ sub.trialEnds >= (IF TrialSeen THEN 1 ELSE 0) - failures)
    BY <1>1, <1>3 DEF EndKept, EndInv, Latest
  <2>2. \/ sub'.trialEnds > 0
        \/ ~TrialSeen' \/ TrialSeen \/ failures' = failures + 1
    BY <1>3
  <2> HIDE DEF TrialSeen
  <2>3. Latest(TrialSeen)' = (IF TrialSeen' THEN 1 ELSE 0) - failures'
    BY DEF Latest
  <2> QED BY <1>1, <1>2, <1>3, <2>1, <2>2, <2>3
<1>4. ASSUME sub'.status = "GRACE_PERIOD" PROVE sub'.graceEnds >= Latest(GraceSeen)'
  <2>1. sub'.graceEnds > 0
        \/ (sub.status = "GRACE_PERIOD" /\ sub'.graceEnds = sub.graceEnds
            /\ sub.graceEnds >= (IF GraceSeen THEN 1 ELSE 0) - failures)
    BY <1>1, <1>4 DEF EndKept, EndInv, Latest
  <2>2. \/ sub'.graceEnds > 0
        \/ ~GraceSeen' \/ GraceSeen \/ failures' = failures + 1
    BY <1>4
  <2>3. Latest(GraceSeen)' = (IF GraceSeen' THEN 1 ELSE 0) - failures'
    BY DEF Latest
  <2> QED BY <1>1, <1>2, <1>4, <2>1, <2>2, <2>3
<1> QED BY <1>3, <1>4

\* The steps that neither list the row for the trial and grace jobs nor take
\* their turns.
LEMMA EndsUntouched ==
    ASSUME SubInv, SubInv', EndInv, EndKept(sub, sub') \/ UNCHANGED sub,
           UNCHANGED <<due, failures>>, DaysGiven',
           job'["trial"] = job["trial"], job'["grace"] = job["grace"]
    PROVE  EndInv'
<1>1. (TrialSeen' <=> TrialSeen) /\ (GraceSeen' <=> GraceSeen)
  BY DEF TrialSeen, GraceSeen
<1> QED BY <1>1, EndsStay DEF EndInv

LEMMA WriteKeepsEnds ==
    ASSUME SubInv, EndInv, NEW a \in Admins, AdminWrite(a) PROVE EndInv'
<1> DEFINE op == admin[a].op
           existing == admin[a].row
           trial == admin[a].trial
           arg == admin[a].arg
           assigns == op \in {"assign", "force_trial"}
           fails == assigns /\ existing = NoSub /\ sub # NoSub
           target == IF sub = NoSub THEN NewSub ELSE sub
<1>1. /\ op \in Ops /\ existing \in Row \cup {NoSub} /\ trial \in BOOLEAN
      /\ sub \in Row \cup {NoSub}
      /\ assigns \/ op = "extend" => arg \in Nat
      /\ ~assigns => existing \in Row /\ sub \in Row
  BY DEF AdminWrite, SubInv, Rows, AdminsKnow, Pending, AdminTask
<1>2. op = "extend" \/ (assigns /\ trial) => arg > 0
  BY DEF AdminWrite, EndInv, DaysGiven
<1>3. /\ UNCHANGED <<job, due, failures>> /\ admin' = [admin EXCEPT ![a] = IdleAdmin]
      /\ sub' = CASE fails -> sub
                  [] assigns /\ ~fails -> Assigned(target, existing, trial, arg)
                  [] op = "price" -> Repriced(sub, existing, arg)
                  [] op = "suspend" -> Suspended(sub)
                  [] op = "expire" -> Expired(sub)
                  [] op = "extend" -> Extended(sub, existing, arg)
                  [] op = "reactivate" -> Reactivated(sub)
  BY DEF AdminWrite
<1>4. EndKept(sub, sub') \/ UNCHANGED sub
  <2>1. CASE assigns
    <3>1. target \in Row
      BY <1>1, NewSubTyped
    <3> HIDE DEF target
    <3>2. UNCHANGED sub \/ sub' = Assigned(target, existing, trial, arg)
      BY <1>3, <2>1
    <3>3. EndKept(target, Assigned(target, existing, trial, arg))
      BY <1>1, <1>2, <2>1, <3>1, GivenEnds
    <3>4. sub # NoSub => target = sub
      BY DEF target
    <3>5. sub = NoSub => target.status = "ACTIVE"
      BY DEF target, NewSub
    <3> HIDE DEF existing, trial, arg
    <3>6. EndKept(sub, Assigned(target, existing, trial, arg))
      BY <3>3, <3>4, <3>5 DEF EndKept
    <3> QED BY <3>2, <3>6
  <2>2. CASE ~assigns
    <3>1. op \in {"price", "suspend", "expire", "extend", "reactivate"}
      BY <1>1, <2>2 DEF Ops
    <3>2. \/ sub' = Repriced(sub, existing, arg)
          \/ sub' = Suspended(sub) \/ sub' = Expired(sub) \/ sub' = Reactivated(sub)
          \/ op = "extend" /\ sub' = Extended(sub, existing, arg)
      BY <1>3, <2>2, <3>1
    <3>3. sub \in Row /\ existing \in Row
      BY <1>1, <2>2
    <3>4. op = "extend" => EndKept(sub, Extended(sub, existing, arg))
      BY <1>1, <1>2, <3>3, GivenEnds
    <3> HIDE DEF op, existing, arg, assigns
    <3> QED BY <3>2, <3>3, <3>4, WrittenEnds
  <2> QED BY <2>1, <2>2
<1>5. DaysGiven'
  <2>1. \A b \in Admins : admin'[b] = IF b = a THEN IdleAdmin ELSE admin[b]
    BY <1>3 DEF SubInv, AdminsKnow
  <2> QED BY <1>3, <2>1 DEF EndInv, DaysGiven
<1>6. SubInv'
  BY AdminWriteStep
<1> QED BY <1>3, <1>4, <1>5, <1>6, EndsUntouched

LEMMA ReadKeepsEnds ==
    ASSUME SubInv, EndInv, NEW a \in Admins, NEW op \in Ops, AdminRead(a, op)
    PROVE  EndInv'
<1> DEFINE b == op \in {"assign", "force_trial"} /\ CanUseTrial(op, sub)
<1>1. UNCHANGED <<sub, job, due, failures>>
  BY DEF AdminRead
<1>2. PICK arg \in Args(op) :
        admin' = [admin EXCEPT ![a] = [op |-> op, row |-> sub, arg |-> arg, trial |-> b]]
  BY DEF AdminRead
<1>3. op = "extend" \/ (op \in {"assign", "force_trial"} /\ b) => arg > 0
  <2>1. op = "extend" => arg > 0
    BY ConstantsAssumption DEF Args
  <2>2. op \in {"assign", "force_trial"} /\ b => arg > 0
    BY DEF Args, CanUseTrial
  <2> QED BY <2>1, <2>2
<1> DEFINE t == [op |-> op, row |-> sub, arg |-> arg, trial |-> b]
<1> HIDE DEF b
<1>4. t.op = op /\ t.trial = b /\ t.arg = arg
  OBVIOUS
<1>5. \A c \in Admins : admin'[c] = IF c = a THEN t ELSE admin[c]
  BY <1>2 DEF SubInv, AdminsKnow
<1> HIDE DEF t
<1>6. DaysGiven'
  BY <1>1, <1>3, <1>4, <1>5 DEF EndInv, DaysGiven
<1>7. SubInv'
  BY AdminReadStep
<1> QED BY <1>1, <1>6, <1>7, EndsUntouched

\* A run starts: what it lists is what is there, and a row that it does not
\* list is neither a trial nor in grace.
LEMMA StartKeepsEnds ==
    ASSUME SubInv, EndInv, NEW j \in Jobs, JobStart(j) PROVE EndInv'
<1>1. /\ UNCHANGED <<sub, plan, admin, failures>> /\ due' = due \ {j} /\ SubInv'
  BY JobStartStep DEF JobStart
<1>2. /\ job \in [Jobs -> JobTask] /\ "trial" \in Jobs /\ "grace" \in Jobs
      /\ \A k \in Jobs \ {j} : job'[k] = job[k]
  BY DEF JobStart, Lists, Goes, Ends, SubInv, JobsKnow, Jobs
<1>3. /\ j = "trial" /\ sub.status = "TRIALING" => job'[j] =
           [pc |-> "listed", row |-> sub, graceDays |-> plan.graceDays]
      /\ j = "trial" /\ sub.status # "TRIALING" => job'[j] = IdleJob
      /\ j = "grace" /\ sub.status = "GRACE_PERIOD" => job'[j] =
           [pc |-> "listed", row |-> sub, graceDays |-> plan.graceDays]
  BY <1>2 DEF JobStart, Listed, Lists, Ends
<1>4. DaysGiven'
  <2>1. plan.graceDays > 0
    BY ConstantsAssumption DEF SubInv, Rows
  <2>2. job'["trial"].pc = "listed" => job'["trial"].graceDays > 0
    <3>1. CASE j = "trial"
      BY <1>3, <2>1, <3>1, IdleTyped
    <3>2. CASE j # "trial"
      BY <1>2, <3>2 DEF EndInv, DaysGiven
    <3> QED BY <3>1, <3>2
  <2> QED BY <1>1, <2>2 DEF EndInv, DaysGiven
<1>5. sub \in Row \cup {NoSub} /\ Limited(sub)
  BY DEF SubInv, Rows
<1>6. \/ ~TrialSeen' \/ TrialSeen
      \/ sub'.status # "TRIALING" \/ sub'.trialEnds > 0
  <2>1. CASE j = "trial" /\ sub.status = "TRIALING"
    <3>1. job'["trial"].pc = "listed" /\ job'["trial"].row = sub
      BY <1>3, <2>1
    <3>2. sub.trialEnds \in Int /\ sub.trialEnds # NoDate
      BY <1>5, <2>1, RowTyped, NoSubTyped, NoDateTyped DEF Limited, Dates
    <3> QED BY <1>1, <3>1, <3>2 DEF TrialSeen, Passed
  <2>2. CASE j # "trial"
    BY <1>1, <1>2, <2>2 DEF TrialSeen
  <2> QED BY <1>1, <2>1, <2>2
<1>7. \/ ~GraceSeen' \/ GraceSeen
      \/ sub'.status # "GRACE_PERIOD" \/ sub'.graceEnds > 0
  <2>1. CASE j = "grace" /\ sub.status = "GRACE_PERIOD"
    <3>1. job'["grace"].pc = "listed" /\ job'["grace"].row = sub
      BY <1>3, <2>1
    <3>2. sub.graceEnds \in Int /\ sub.graceEnds # NoDate
      BY <1>5, <2>1, RowTyped, NoSubTyped, NoDateTyped DEF Limited, Dates
    <3> QED BY <1>1, <3>1, <3>2 DEF GraceSeen, Passed
  <2>2. CASE j # "grace"
    BY <1>1, <1>2, <2>2 DEF GraceSeen
  <2> QED BY <1>1, <2>1, <2>2
<1> QED BY <1>1, <1>4, <1>6, <1>7, EndsStay DEF EndInv

\* A run that fails, or is missed, costs the day that it would have kept.
LEMMA FailKeepsEnds ==
    ASSUME SubInv, EndInv, NEW j \in Jobs, JobFails(j) PROVE EndInv'
<1>1. /\ UNCHANGED <<sub, admin>> /\ failures' = failures + 1 /\ SubInv'
      /\ job' = [job EXCEPT ![j] = IdleJob] /\ job \in [Jobs -> JobTask]
  BY JobFailsStep DEF JobFails, Ends, SubInv, JobsKnow
<1>2. "trial" \in Jobs
  BY DEF Jobs
<1>3. job'["trial"] = job["trial"] \/ job'["trial"].pc = "idle"
  BY <1>1, <1>2, IdleTyped
<1>4. DaysGiven'
  BY <1>1, <1>3 DEF EndInv, DaysGiven
<1> QED BY <1>1, <1>4, EndsStay DEF EndInv

\* The runs of the other jobs leave the ends, and the two jobs, alone.
LEMMA OthersKeepEnds ==
    ASSUME SubInv, EndInv, NEW j \in Jobs \ {"trial", "grace"}, JobStep(j)
    PROVE  EndInv'
<1>1. /\ UNCHANGED <<due, admin, failures>> /\ SubInv'
      /\ job'["trial"] = job["trial"] /\ job'["grace"] = job["grace"]
  <2>1. UNCHANGED <<due, admin, failures>>
        /\ (Ends(j) \/ \E pc \in JobPcs : Goes(j, pc))
    BY DEF JobStep, BillingReminder, BillingListOverdue, BillingPastDue,
           BillingListPastDue, BillingSuspend, PriceExpiry, Abandon, Untouched, JobPcs
  <2>2. job \in [Jobs -> JobTask] /\ "trial" \in Jobs /\ "grace" \in Jobs
    BY DEF SubInv, JobsKnow, Jobs
  <2>3. SubInv'
    BY BillingSteps, OtherJobSteps DEF JobStep
  <2> QED BY <2>1, <2>2, <2>3 DEF Ends, Goes
<1>2. EndKept(sub, sub') \/ UNCHANGED sub
  <2>1. CASE sub' # sub
    <3>1. \E pc \in SeesRow : At(j, pc)
      BY <2>1 DEF JobStep, BillingReminder, BillingListOverdue, BillingPastDue,
             BillingListPastDue, BillingSuspend, PriceExpiry, Abandon, SeesRow
    <3>2. sub \in Row
      BY <3>1, Working
    <3>3. \/ sub' = [sub EXCEPT !.billingReminder = TRUE]
          \/ sub' = [sub EXCEPT !.status = "PAST_DUE"]
          \/ sub' = [sub EXCEPT !.status = "SUSPENDED"]
          \/ sub' = [sub EXCEPT !.price = FALSE, !.priceEnds = NoDate]
          \/ sub' = Expired(sub)
      BY <2>1 DEF JobStep, BillingReminder, BillingListOverdue, BillingPastDue,
             BillingListPastDue, BillingSuspend, PriceExpiry, Abandon
    <3>4. EndKept(sub, Expired(sub))
      BY <3>2, WrittenEnds
    <3> QED BY <3>2, <3>3, <3>4, ColumnKeepsEnds
  <2> QED BY <2>1
<1>3. DaysGiven'
  BY <1>1 DEF EndInv, DaysGiven
<1> QED BY <1>1, <1>2, <1>3, EndsUntouched

\* The trial job puts what it has listed as over into its grace period.
LEMMA TrialKeepsEnds ==
    ASSUME SubInv, EndInv, TrialFirst \/ TrialFinal PROVE EndInv'
<1>1. /\ UNCHANGED <<due, admin, failures>> /\ SubInv'
      /\ job \in [Jobs -> JobTask] /\ "trial" \in Jobs /\ "grace" \in Jobs
  BY TrialSteps DEF TrialFirst, TrialFinal, Untouched, SubInv, JobsKnow, Jobs
<1>2. job'["grace"] = job["grace"] /\ job'["trial"].pc \in {"idle", "reminded"}
  BY <1>1, IdleTyped DEF TrialFirst, TrialFinal, Ends, Goes, JobTask
<1>3. /\ sub \in Row /\ job["trial"].row \in Row
      /\ job["trial"].pc \in {"listed", "reminded"}
  BY <1>1, Working DEF TrialFirst, TrialFinal, SeesRow, At
<1>4. DaysGiven'
  BY <1>1, <1>2 DEF EndInv, DaysGiven
<1>5. GraceSeen' <=> GraceSeen
  BY <1>1, <1>2 DEF GraceSeen
<1>6. CASE TrialFirst /\ Passed(job["trial"].row.trialEnds)
  <2>1. sub' = InGrace(sub, job["trial"].graceDays)
    BY <1>6 DEF TrialFirst, TrialOver, Passed
  <2>2. job["trial"].graceDays > 0
    BY <1>6 DEF TrialFirst, At, EndInv, DaysGiven
  <2>3. EndKept(sub, sub') /\ sub'.status # "TRIALING"
    <3>1. InGrace(sub, job["trial"].graceDays).status = "GRACE_PERIOD"
      BY <1>3 DEF InGrace, Row
    <3> QED BY <1>3, <2>1, <2>2, <3>1, WrittenEnds
  <2> QED BY <1>1, <1>4, <1>5, <2>3, EndsStay DEF EndInv
<1>7. CASE ~(TrialFirst /\ Passed(job["trial"].row.trialEnds))
  <2>1. job["trial"].row.trialEnds \in Dates
    BY <1>3, RowTyped
  <2>2. \/ sub' = sub
        \/ sub' = [sub EXCEPT !.trialReminder = TRUE]
        \/ sub' = [sub EXCEPT !.finalReminder = TRUE]
    <3>1. CASE TrialFirst
      BY <1>7, <2>1, <3>1 DEF TrialFirst, TrialOver, Passed
    <3>2. CASE TrialFinal
      BY <3>2 DEF TrialFinal
    <3> QED BY <3>1, <3>2
  <2>3. EndKept(sub, sub') \/ UNCHANGED sub
    BY <1>3, <2>2, ColumnKeepsEnds
  <2>4. TrialSeen' => TrialSeen
    <3>1. CASE TrialFirst
      BY <1>1, <1>7, <3>1 DEF TrialSeen
    <3>2. CASE TrialFinal
      BY <1>1, <3>2 DEF TrialSeen, TrialFinal, At
    <3> QED BY <3>1, <3>2
  <2> QED BY <1>1, <1>4, <1>5, <2>3, <2>4, EndsStay DEF EndInv
<1> QED BY <1>6, <1>7

\* The grace job suspends what it has listed as over.
LEMMA GraceKeepsEnds ==
    ASSUME SubInv, EndInv, GraceReminder \/ GraceEnd PROVE EndInv'
<1>1. /\ UNCHANGED <<due, admin, failures>> /\ SubInv'
      /\ job \in [Jobs -> JobTask] /\ "trial" \in Jobs /\ "grace" \in Jobs
  BY GraceSteps DEF GraceReminder, GraceEnd, Untouched, SubInv, JobsKnow, Jobs
<1>2. job'["trial"] = job["trial"]
  BY <1>1 DEF GraceReminder, GraceEnd, Ends, Goes
<1>3. sub \in Row /\ job["grace"].pc \in {"listed", "reminded"}
  BY <1>1, Working DEF GraceReminder, GraceEnd, SeesRow, At
<1>4. DaysGiven' /\ (TrialSeen' <=> TrialSeen)
  BY <1>1, <1>2 DEF EndInv, DaysGiven, TrialSeen
<1>5. CASE GraceReminder
  <2>1. sub' = sub \/ sub' = [sub EXCEPT !.graceReminder = TRUE]
    BY <1>5 DEF GraceReminder
  <2>2. job'["grace"].pc = "reminded" /\ job'["grace"].row = job["grace"].row
    BY <1>1, <1>5 DEF GraceReminder, Goes, JobTask
  <2>3. EndKept(sub, sub') \/ UNCHANGED sub
    BY <1>3, <2>1, ColumnKeepsEnds
  <2>4. GraceSeen' => GraceSeen
    BY <1>1, <1>3, <2>2 DEF GraceSeen
  <2> QED BY <1>1, <1>4, <2>3, <2>4, EndsStay DEF EndInv
<1>6. CASE GraceEnd /\ Passed(job["grace"].row.graceEnds)
  <2>1. sub' = [Suspended(sub) EXCEPT !.graceEnds = NoDate, !.graceReminder = FALSE]
    BY <1>6 DEF GraceEnd
  <2>2. sub'.status = "SUSPENDED"
    BY <1>3, <2>1 DEF Suspended, Row
  <2>3. EndKept(sub, sub')
    BY <2>2 DEF EndKept
  <2> QED BY <1>1, <1>4, <2>2, <2>3, EndsStay DEF EndInv
<1>7. CASE GraceEnd /\ ~Passed(job["grace"].row.graceEnds)
  <2>1. UNCHANGED sub /\ (GraceSeen' => GraceSeen)
    BY <1>1, <1>7 DEF GraceEnd, GraceSeen
  <2> QED BY <1>1, <1>4, <2>1, EndsStay DEF EndInv
<1> QED BY <1>5, <1>6, <1>7

\* A day passes when both jobs have seen to the row: what has not run out has
\* a day left for every run that did not fail.
LEMMA DayKeepsEnds ==
    ASSUME SubInv, EndInv, NextDay PROVE EndInv'
<1>1. /\ sub' = Older(sub) /\ UNCHANGED <<job, failures>> /\ due' = Jobs /\ due = {}
      /\ admin' = [a \in Admins |-> [admin[a] EXCEPT !.row = Older(admin[a].row)]]
      /\ job["trial"].pc = "idle" /\ job["grace"].pc = "idle"
      /\ "trial" \in Jobs /\ "grace" \in Jobs
  BY DEF NextDay, SubInv, AdminsKnow, At, Jobs
<1>2. TrialSeen /\ GraceSeen /\ ~TrialSeen' /\ ~GraceSeen'
  BY <1>1 DEF TrialSeen, GraceSeen
<1>3. failures \in Nat /\ Latest(TrialSeen)' = -failures /\ Latest(GraceSeen)' = -failures
      /\ Latest(TrialSeen) = 1 - failures /\ Latest(GraceSeen) = 1 - failures
  BY <1>1, <1>2 DEF Latest, SubInv, Counted
<1>4. ASSUME NEW d \in Int, d >= 1 - failures PROVE DayLater(d) >= -failures
  BY <1>3, <1>4, NoDateTyped DEF DayLater
<1>5. /\ sub'.status = "TRIALING" => sub'.trialEnds >= -failures
      /\ sub'.status = "GRACE_PERIOD" => sub'.graceEnds >= -failures
  <2>1. CASE sub = NoSub
    BY <1>1, <2>1, NoSubTyped, NoDateTyped DEF Older
  <2>2. CASE sub # NoSub
    <3>1. sub \in Row /\ Limited(sub)
      BY <2>2 DEF SubInv, Rows
    <3>2. /\ sub'.status = sub.status /\ sub'.trialEnds = DayLater(sub.trialEnds)
          /\ sub'.graceEnds = DayLater(sub.graceEnds)
      BY <1>1, <2>2, <3>1 DEF Older, Row
    <3>3. /\ sub.status = "TRIALING" => sub.trialEnds \in Int
          /\ sub.status = "GRACE_PERIOD" => sub.graceEnds \in Int
      BY <3>1, RowTyped DEF Limited, Dates
    <3> QED BY <1>3, <1>4, <3>2, <3>3 DEF EndInv
  <2> QED BY <2>1, <2>2
<1>6. DaysGiven'
  <2>1. ASSUME NEW a \in Admins, admin'[a] # IdleAdmin
        PROVE  /\ admin[a] # IdleAdmin
               /\ admin'[a].op = admin[a].op /\ admin'[a].trial = admin[a].trial
               /\ admin'[a].arg = admin[a].arg
    <3>1. Older(NoSub) = NoSub /\ IdleAdmin.row = NoSub
      BY DEF Older, IdleAdmin
    <3>2. ASSUME NEW v \in AdminTask PROVE [v EXCEPT !.row = v.row] = v
      BY DEF AdminTask
    <3>3. admin[a] # IdleAdmin
      BY <1>1, <2>1, <3>1, <3>2, IdleTyped
    <3>4. admin[a] \in AdminTask
      BY DEF SubInv, AdminsKnow
    <3> QED BY <1>1, <3>3, <3>4 DEF AdminTask
  <2> QED BY <1>1, <2>1 DEF EndInv, DaysGiven
<1> QED BY <1>3, <1>5, <1>6 DEF EndInv

LEMMA EndStep ==
    ASSUME SubInv, EndInv, [Next]_vars PROVE EndInv'
<1>1. ASSUME NEW d \in BillingDates, SetBillingDate(d) PROVE EndInv'
  <2>1. /\ sub \in Row /\ sub' = [sub EXCEPT !.nextBilling = d]
        /\ UNCHANGED <<job, due, admin, failures>>
    BY <1>1 DEF SetBillingDate, SubInv, Rows
  <2>2. EndKept(sub, sub') /\ SubInv'
    BY <1>1, <2>1, ColumnKeepsEnds, BillingDateStep
  <2>3. DaysGiven'
    BY <2>1 DEF EndInv, DaysGiven
  <2> QED BY <2>1, <2>2, <2>3, EndsUntouched
<1>2. ASSUME NEW p \in PlanSettings, ChangePlan(p) PROVE EndInv'
  BY <1>2, PlanStep, EndsUntouched DEF ChangePlan, EndInv, DaysGiven
<1>3. ASSUME NEW j \in Jobs, JobStep(j) PROVE EndInv'
  <2>1. CASE j \in {"trial", "grace"}
    BY <1>3, <2>1, TrialKeepsEnds, GraceKeepsEnds DEF JobStep
  <2>2. CASE j \notin {"trial", "grace"}
    BY <1>3, <2>2, OthersKeepEnds
  <2> QED BY <2>1, <2>2
<1>4. ASSUME UNCHANGED vars PROVE EndInv'
  BY <1>4 DEF vars, EndInv, DaysGiven, Latest, TrialSeen, GraceSeen
<1> QED BY <1>1, <1>2, <1>3, <1>4, ReadKeepsEnds, WriteKeepsEnds, StartKeepsEnds,
           FailKeepsEnds, DayKeepsEnds DEF Next

\* A trial or a grace period outlasts its end by a day at most for each run of a
\* job that failed or was missed, whatever the admins and the jobs overwrite of
\* each other's work; for any number of admins, any plans and periods.
THEOREM TrialsEndInTime == Spec => []EndsInTime
<1>1. Init => EndInv
  <2>1. Init => sub.status \notin {"TRIALING", "GRACE_PERIOD"}
    BY DEF Init, NoSub
  <2>2. Init => DaysGiven
    BY DEF Init, DaysGiven, IdleJob, Jobs
  <2> QED BY <2>1, <2>2 DEF EndInv
<1>2. SubInv /\ EndInv /\ [Next]_vars => EndInv'
  BY EndStep
<1>3. SubInv /\ EndInv => EndsInTime
  <2> SUFFICES ASSUME SubInv, EndInv PROVE EndsInTime
    OBVIOUS
  <2>1. ASSUME NEW r \in Row \cup {NoSub}, Limited(r)
        PROVE  /\ r.status = "TRIALING" => r.trialEnds \in Int
               /\ r.status = "GRACE_PERIOD" => r.graceEnds \in Int
    BY <2>1, RowTyped, NoSubTyped, NoDateTyped DEF Limited, Dates
  <2>2. sub \in Row \cup {NoSub} /\ Limited(sub) /\ failures \in Nat
    BY DEF SubInv, Rows, Counted
  <2>3. /\ sub.status = "TRIALING" => sub.trialEnds \in Int
        /\ sub.status = "GRACE_PERIOD" => sub.graceEnds \in Int
    BY <2>1, <2>2
  <2>4. /\ Latest(TrialSeen) \in {1 - failures, -failures}
        /\ Latest(GraceSeen) \in {1 - failures, -failures}
    BY <2>2 DEF Latest
  <2> QED BY <2>2, <2>3, <2>4 DEF EndInv, EndsInTime
<1> QED BY <1>1, <1>2, <1>3, SubInvariant, PTL DEF Spec
=============================================================================
