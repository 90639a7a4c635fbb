---------------------------- MODULE ServicesProofs ----------------------------
(***************************************************************************)
(* Proofs about QRCodes, ScanRequests, Documents, Roster, Holidays,        *)
(* BSCalendar and PayFigures, for any number of admins, uploaders,         *)
(* planners and organizations, and any settings, sizes and bounds, and     *)
(* about the services side by side.  The parts about one service do not    *)
(* depend on each other.                                                   *)
(***************************************************************************)
EXTENDS Services, LoginProofs, Counting, FiniteSetTheorems, FunctionTheorems,
        TLAPS

-----------------------------------------------------------------------------
(* QRCodes *)

(* The inductive invariant *)

\* Every active code of a kind has an owner, no two the same one, and a
\* request under way of an owner that makes codes of this kind revokes what he
\* owns.  The owner of a code need not be the admin who made it.
Owns(owner, lives, makers) ==
    /\ owner \in [CodeIds -> Admins]
    /\ \A i, j \in Of(lives) : owner[i] = owner[j] => i = j
    /\ \A i \in Of(lives) :
           making[owner[i]].pc \in makers => i \in making[owner[i]].revoking
Owned(lives, makers) == \E owner \in [CodeIds -> Admins] : Owns(owner, lives, makers)

Rotators == {"rotate"}
Printers == {"create", "regenerate"}
CodesInv ==
    /\ QRTypeOK
    /\ Owned({"rotating"}, Rotators)
    /\ Owned(Static, Printers)

-----------------------------------------------------------------------------
(* Codes and owners *)

\* The code to be created is a free one.
LEMMA NextIsFresh ==
    ASSUME Fresh # {}
    PROVE  NextId \in CodeIds /\ codes[NextId] = "none"
BY DEF NextId, Fresh, Of

\* Owners bound the number of codes.
LEMMA OwnersBound ==
    ASSUME NEW lives, NEW makers, Owned(lives, makers)
    PROVE  Cardinality(Of(lives)) <= Cardinality(Admins)
<1>1. PICK owner \in [CodeIds -> Admins] : Owns(owner, lives, makers)
    BY DEF Owned
<1> DEFINE f == [i \in Of(lives) |-> owner[i]]
<1>2. f \in [Of(lives) -> Admins]
    BY DEF Of
<1>3. \A i, j \in Of(lives) : f[i] = f[j] => i = j
    BY <1>1 DEF Owns
<1>4. f \in Injection(Of(lives), Admins)
    <2> HIDE DEF f
    <2> QED BY <1>2, <1>3, Fun_IsInj
<1> QED BY <1>4, FS_Injection, CodesAssumption

\* A step that activates no code of the kind keeps the owners if the requests
\* that make such codes go on as they were, or end.
LEMMA OwnersStay ==
    ASSUME NEW lives, NEW makers, Owned(lives, makers),
           \A i \in CodeIds : codes'[i] \in lives => codes[i] \in lives,
           \A a \in Admins : making'[a].pc \in makers => making'[a] = making[a]
    PROVE  Owned(lives, makers)'
<1>1. PICK owner \in [CodeIds -> Admins] : Owns(owner, lives, makers)
    BY DEF Owned
<1>2. Owns(owner, lives, makers)'
    BY <1>1 DEF Owns, Of
<1> QED BY <1>2 DEF Owned

\* A request may begin: it revokes the codes of the kind, or there are none.
LEMMA OwnersAtBegin ==
    ASSUME NEW lives, NEW makers, NEW a \in Admins, NEW pc, NEW ids,
           QRTypeOK, Owned(lives, makers), Begins(a, pc, ids),
           pc \in makers => Of(lives) \subseteq ids
    PROVE  Owned(lives, makers)'
<1>1. PICK owner \in [CodeIds -> Admins] : Owns(owner, lives, makers)
    BY DEF Owned
<1>2. making' = [making EXCEPT ![a] = [pc |-> pc, revoking |-> ids]]
      /\ codes' = codes /\ making \in [Admins -> Making]
    BY DEF Begins, QRTypeOK
<1>3. making'[a].pc = pc /\ making'[a].revoking = ids
    BY <1>2
<1>4. \A b \in Admins \ {a} : making'[b] = making[b]
    BY <1>2
<1>5. ASSUME NEW i \in Of(lives)', making'[owner[i]].pc \in makers
      PROVE  i \in making'[owner[i]].revoking
    <2>1. i \in Of(lives) /\ owner[i] \in Admins
        BY <1>2 DEF Of
    <2>2. CASE owner[i] = a
        BY <1>3, <1>5, <2>1, <2>2
    <2>3. CASE owner[i] # a
        BY <1>1, <1>4, <1>5, <2>1, <2>3 DEF Owns
    <2> QED BY <2>2, <2>3
<1>6. Owns(owner, lives, makers)'
    BY <1>1, <1>2, <1>5 DEF Owns, Of
<1> QED BY <1>6 DEF Owned

\* A request that makes a code of the kind owns it in place of those it
\* revokes.
LEMMA OwnersAtCommit ==
    ASSUME NEW lives, NEW makers, NEW a \in Admins, NEW pc, NEW life,
           QRTypeOK, Owned(lives, makers), Commits(a, pc, life),
           lives \subseteq Lives, "idle" \notin makers,
           life \in lives => pc \in makers
    PROVE  Owned(lives, makers)'
<1> DEFINE ids == making[a].revoking
<1>1. PICK owner \in [CodeIds -> Admins] : Owns(owner, lives, makers)
    BY DEF Owned
<1>2. making' = [making EXCEPT ![a] = NotMaking] /\ making[a].pc = pc
    BY DEF Commits
<1>3. PICK next \in CodeIds :
          codes[next] = "none" /\ codes' = [Revoked(ids) EXCEPT ![next] = life]
    BY NextIsFresh DEF Commits
<1> HIDE DEF ids
<1>4. Revoked(ids) \in [CodeIds -> {"gone"} \cup Lives \cup {"none"}]
    BY DEF Revoked, QRTypeOK
<1>5. codes'[next] = life
      /\ \A i \in CodeIds \ {next} : codes'[i] = Revoked(ids)[i]
    BY <1>3, <1>4
<1>6. \A i \in CodeIds \ {next} : codes'[i] \in lives =>
          codes[i] \in lives /\ i \notin ids
    BY <1>5 DEF Revoked, Lives, StaticLives
<1>7. making'[a].pc = "idle" /\ \A b \in Admins \ {a} : making'[b] = making[b]
    BY <1>2 DEF QRTypeOK, NotMaking
<1>8. CASE life \in lives
    <2>1. PICK mine \in [CodeIds -> Admins] :
              mine[next] = a /\ \A i \in CodeIds \ {next} : mine[i] = owner[i]
        <3>1. [owner EXCEPT ![next] = a] \in [CodeIds -> Admins]
            OBVIOUS
        <3> QED BY <3>1
    <2>2. ASSUME NEW i \in Of(lives)', i # next
          PROVE  i \in Of(lives) /\ mine[i] = owner[i] /\ owner[i] \in Admins \ {a}
        <3>1. i \in Of(lives) /\ i \notin ids /\ mine[i] = owner[i]
            BY <1>6, <2>1, <2>2 DEF Of
        <3>2. owner[i] # a
            BY <1>1, <1>2, <1>8, <3>1 DEF Owns, ids
        <3> QED BY <1>1, <3>1, <3>2 DEF Of
    <2>3. \A i, j \in Of(lives)' : mine[i] = mine[j] => i = j
        BY <1>1, <2>1, <2>2 DEF Owns
    <2>4. \A i \in Of(lives)' :
              making'[mine[i]].pc \in makers => i \in making'[mine[i]].revoking
        BY <1>1, <1>7, <2>1, <2>2 DEF Owns
    <2>5. Owns(mine, lives, makers)'
        BY <2>1, <2>3, <2>4 DEF Owns, Of, CodeIds
    <2> QED BY <2>1, <2>5 DEF Owned
<1>9. CASE life \notin lives
    <2>1. \A i \in CodeIds : codes'[i] \in lives => codes[i] \in lives
        BY <1>5, <1>6, <1>9
    <2>2. \A b \in Admins : making'[b].pc \in makers => making'[b] = making[b]
        BY <1>7
    <2> QED BY <2>1, <2>2, OwnersStay
<1> QED BY <1>8, <1>9

-----------------------------------------------------------------------------
(* The steps *)

\* The invariant holds at the start: a legacy code is anybody's.
LEMMA CodesAtInit == QRInit => CodesInv
<1> SUFFICES ASSUME QRInit PROVE CodesInv
    OBVIOUS
<1>1. PICK first \in {"none", "endless"} :
          codes = [i \in CodeIds |-> IF i = 1 THEN first ELSE "none"]
    BY DEF QRInit
<1>2. making = [a \in Admins |-> NotMaking] /\ staticLife \in StaticLives
    BY DEF QRInit
<1>3. QRTypeOK
    BY <1>1, <1>2 DEF QRTypeOK, Lives, StaticLives, Making, NotMaking
<1>4. PICK someone \in Admins : TRUE
    BY CodesAssumption
<1> DEFINE owner == [i \in CodeIds |-> someone]
<1>5. owner \in [CodeIds -> Admins] /\ \A i \in CodeIds : owner[i] = someone
    OBVIOUS
<1> HIDE DEF owner
<1>6. making[someone].pc = "idle"
    BY <1>2 DEF NotMaking
<1>7. Of({"rotating"}) = {} /\ Of(Static) \subseteq {1}
    BY <1>1 DEF Of, Static
<1>8. Owns(owner, {"rotating"}, Rotators) /\ Owns(owner, Static, Printers)
    BY <1>5, <1>6, <1>7 DEF Owns, Rotators, Printers, Of
<1> QED BY <1>3, <1>5, <1>8 DEF CodesInv, Owned

\* A request that begins keeps the invariant if it revokes every code of its
\* kind, or there is none.
LEMMA BeginsKeeps ==
    ASSUME CodesInv, NEW a \in Admins, NEW pc \in Rotators \cup Printers,
           NEW ids \in SUBSET CodeIds, Begins(a, pc, ids),
           pc = "rotate" => Of({"rotating"}) \subseteq ids,
           pc \in Printers => Of(Static) \subseteq ids
    PROVE  CodesInv'
<1>1. QRTypeOK'
    <2>1. [pc |-> pc, revoking |-> ids] \in Making
        BY DEF Making, Rotators, Printers
    <2> QED BY <2>1 DEF CodesInv, QRTypeOK, Begins
<1>2. Owned({"rotating"}, Rotators)'
    BY OwnersAtBegin DEF CodesInv, Rotators
<1>3. Owned(Static, Printers)'
    BY OwnersAtBegin DEF CodesInv
<1> QED BY <1>1, <1>2, <1>3 DEF CodesInv

\* So does one that makes a code of its kind.
LEMMA CommitsKeeps ==
    ASSUME CodesInv, NEW a \in Admins, NEW pc, NEW life \in Lives,
           Commits(a, pc, life),
           life = "rotating" => pc = "rotate",
           life \in Static => pc \in Printers
    PROVE  CodesInv'
<1>1. QRTypeOK'
    <2>1. codes' \in [CodeIds -> Lives \cup {"none", "gone"}]
        BY DEF CodesInv, QRTypeOK, Commits, Revoked
    <2>2. NotMaking \in Making
        BY DEF Making, NotMaking
    <2> QED BY <2>1, <2>2 DEF CodesInv, QRTypeOK, Commits
<1>2. Owned({"rotating"}, Rotators)'
    BY OwnersAtCommit DEF CodesInv, Rotators, Lives, StaticLives
<1>3. Owned(Static, Printers)'
    BY OwnersAtCommit DEF CodesInv, Printers, Lives, StaticLives, Static
<1> QED BY <1>1, <1>2, <1>3 DEF CodesInv

\* Every step keeps the invariant.
LEMMA CodesStep == CodesInv /\ [QRNext]_qrVars => CodesInv'
<1> SUFFICES ASSUME CodesInv, [QRNext]_qrVars PROVE CodesInv'
    OBVIOUS
<1> USE DEF CodesInv
<1>1. ASSUME NEW a \in Admins, GenerateRevoke(a) PROVE CodesInv'
    <2>1. Begins(a, "rotate", Dated) /\ Of({"rotating"}) \subseteq Dated
          /\ Dated \in SUBSET CodeIds
        BY <1>1 DEF GenerateRevoke, Dated, Of
    <2> QED BY <2>1, BeginsKeeps DEF Rotators, Printers
<1>2. ASSUME NEW a \in Admins, Generate(a) PROVE CodesInv'
    BY <1>2, CommitsKeeps DEF Generate, Lives, StaticLives, Static
<1>3. ASSUME NEW a \in Admins, GenerateStaticRead(a) PROVE CodesInv'
    BY <1>3, BeginsKeeps DEF GenerateStaticRead, Rotators, Printers
<1>4. ASSUME NEW a \in Admins, GenerateStatic(a) PROVE CodesInv'
    <2>1. Commits(a, "create", staticLife) /\ staticLife \in StaticLives
        BY <1>4 DEF GenerateStatic, QRTypeOK
    <2> QED BY <2>1, CommitsKeeps DEF Lives, StaticLives, Printers
<1>5. ASSUME NEW a \in Admins, RegenerateRevoke(a) PROVE CodesInv'
    <2>1. Begins(a, "regenerate", Of(Static)) /\ Of(Static) \in SUBSET CodeIds
        BY <1>5 DEF RegenerateRevoke, Of
    <2> QED BY <2>1, BeginsKeeps DEF Rotators, Printers
<1>6. ASSUME NEW a \in Admins, Regenerate(a) PROVE CodesInv'
    <2>1. Commits(a, "regenerate", staticLife) /\ staticLife \in StaticLives
        BY <1>6 DEF Regenerate, QRTypeOK
    <2> QED BY <2>1, CommitsKeeps DEF Lives, StaticLives, Printers
<1>7. ASSUME NEW a \in Admins, MakingFails(a) PROVE CodesInv'
    <2>1. QRTypeOK'
        BY <1>7 DEF MakingFails, QRTypeOK, Making, NotMaking
    <2>2. codes' = codes /\ making'[a].pc = "idle"
          /\ \A b \in Admins \ {a} : making'[b] = making[b]
        BY <1>7 DEF MakingFails, QRTypeOK, NotMaking
    <2> QED BY <2>1, <2>2, OwnersStay DEF Rotators, Printers
<1>8. ASSUME Revoke PROVE CodesInv'
    <2>1. QRTypeOK' /\ making' = making
        BY <1>8 DEF Revoke, QRTypeOK, Revoked
    <2>2. \A i \in CodeIds, lives \in {{"rotating"}, Static} :
              codes'[i] \in lives => codes[i] \in lives
        BY <1>8 DEF Revoke, Revoked, Static
    <2> QED BY <2>1, <2>2, OwnersStay
<1>9. ASSUME NEW n \in CodeIds, Ages(n) PROVE CodesInv'
    <2>1. QRTypeOK' /\ making' = making
        BY <1>9 DEF Ages, QRTypeOK, Lives, StaticLives
    <2>2. \A i \in CodeIds, lives \in {{"rotating"}, Static} :
              codes'[i] \in lives => codes[i] \in lives
        BY <1>9 DEF Ages, QRTypeOK, Static
    <2> QED BY <2>1, <2>2, OwnersStay
<1>10. ASSUME UNCHANGED qrVars PROVE CodesInv'
    BY <1>10 DEF qrVars, QRTypeOK, Owned, Owns, Of
<1> QED
    BY <1>1, <1>2, <1>3, <1>4, <1>5, <1>6, <1>7, <1>8, <1>9, <1>10 DEF QRNext

-----------------------------------------------------------------------------
\* What the transactions of qr.service.ts do keep: however many admins
\* click at once, and whatever fails, expires or is revoked in between, there
\* are never more active rotating codes than admins, nor more static ones
\* with more than a day left.
THEOREM CodesStayBounded == QRSpec => []CodesBounded
<1>1. CodesInv => CodesBounded
    BY OwnersBound DEF CodesInv, CodesBounded
<1> QED BY <1>1, CodesAtInit, CodesStep, PTL DEF QRSpec

-----------------------------------------------------------------------------
(* ScanRequests *)

\* The steps of the entry points, and those that may come next.
Steps == {"code", "pin", "count", "counted", "mode", "org",
          "fence", "configured", "clock"}
After(step) ==
    CASE step = "code" -> {"pin", "counted"}
      [] step = "pin" -> {"count", "mode"}
      [] step \in {"count", "counted"} -> {"org"}
      [] step = "org" -> {"fence"}
      [] step = "mode" -> {"configured"}
      [] step \in {"fence", "configured"} -> {"clock"}
      [] OTHER -> {}

\* The requests, and those that are being served.
Requests ==
    [entry: Entries \cup {<<>>}, next: Nat,
     end: {"none", "code", "pin", "fence", "clock", "clocked"},
     reading: Readings \cup {NoPlace}, org: OrgRows \cup {NoPlace},
     ever: BOOLEAN, never: BOOLEAN, moved: BOOLEAN,
     counted: BOOLEAN, revoked: BOOLEAN]
Underway(s) == s # NoScan /\ s.end = "none"
Turn(s) == s.entry[s.next]

(* The inductive invariant *)

\* A request being served has seen the settings in force, and what it read is
\* still so unless it saw a change.
Served(s, org, branch) ==
    /\ s.entry \in Entries /\ s.next \in DOMAIN s.entry
    /\ s.reading \in Readings
    /\ Allowed(s.entry, s.reading, org, branch) => s.ever
    /\ ~Allowed(s.entry, s.reading, org, branch) => s.never
Read(s, org) ==
    Turn(s) \in {"fence", "configured"} =>
        /\ s.org \in OrgRows
        /\ s.org = org \/ s.moved
        /\ Turn(s) = "configured" => ~s.org.qrOnly
\* At the clock the fence has let it in; after the count it is counted.
Passed(s) == Turn(s) = "clock" => s.ever \/ s.moved
Missed(s) == s.entry = ScanPublic /\ s.revoked
Counts(s, c) ==
    /\ Turn(s) = "count" /\ c = "revoked" => s.revoked
    /\ s.entry = ScanPublic /\ Turn(s) = "pin" /\ c = "revoked" => s.revoked
    /\ s.entry[1] = "code" /\ Turn(s) \in {"org", "fence", "clock"} =>
           s.counted \/ Missed(s)
    /\ s.revoked => c = "revoked"

Settled(s) ==
    /\ s.end = "clocked" => s.ever \/ s.moved
    /\ s.end = "fence" => s.never \/ s.moved
    /\ s.end = "clocked" /\ s.entry[1] = "code" => s.counted \/ Missed(s)

Request(s, org, branch, c) ==
    /\ s \in Requests
    /\ Underway(s) => /\ Served(s, org, branch) /\ Read(s, org)
                      /\ Passed(s) /\ Counts(s, c)
    /\ Settled(s)
RowsOK ==
    /\ orgRow \in OrgRows /\ branchRow \in BranchRows \cup {NoBranch}
    /\ code \in {"active", "expired", "revoked"}
ScanInv == RowsOK /\ Request(scan, orgRow, branchRow, code)

-----------------------------------------------------------------------------
(* The entry points *)

\* Every entry point has steps, ends at the clock, and takes its steps in the
\* order of After.
LEMMA StepsOfEntry ==
    ASSUME NEW entry \in Entries
    PROVE  /\ 1 \in DOMAIN entry /\ DOMAIN entry \subseteq Nat
           /\ entry # <<>>
           /\ entry[1] \in {"code", "pin", "org"}
           /\ \A i \in DOMAIN entry : entry[i] \in Steps
           /\ \A i \in DOMAIN entry : entry[i] # "clock" =>
                  i + 1 \in DOMAIN entry /\ entry[i + 1] \in After(entry[i])
<1>1. CASE entry = ScanPublic
  BY <1>1 DEF ScanPublic, Steps, After
<1>2. CASE entry = MobileCheckin
  BY <1>2 DEF MobileCheckin, Steps, After
<1>3. CASE entry = ScanAuthenticated
  BY <1>3 DEF ScanAuthenticated, Steps, After
<1>4. CASE entry = MobileCheckinAuth
  BY <1>4 DEF MobileCheckinAuth, Steps, After
<1> QED BY <1>1, <1>2, <1>3, <1>4 DEF Entries

\* Only a check-in with a PIN reads the mode and asks for a fence that is
\* configured; a count by the token is only on the way of ScanPublic.
LEMMA StepsOfMobile ==
    ASSUME NEW entry \in Entries, NEW i \in DOMAIN entry
    PROVE  /\ entry[i] \in {"mode", "configured"} => entry = MobileCheckin
           /\ entry[i] \in {"org", "fence"} => entry # MobileCheckin
           /\ entry[i] = "count" => entry = ScanPublic
           /\ entry[1] = "code" => entry # MobileCheckin
           /\ entry = ScanPublic =>
                  entry[i] \notin {"counted", "mode", "configured"}
<1>1. CASE entry = ScanPublic
  BY <1>1 DEF ScanPublic, MobileCheckin
<1>2. CASE entry = MobileCheckin
  BY <1>2 DEF ScanPublic, MobileCheckin
<1>3. CASE entry = ScanAuthenticated
  BY <1>3 DEF ScanPublic, ScanAuthenticated, MobileCheckin
<1>4. CASE entry = MobileCheckinAuth
  BY <1>4 DEF ScanPublic, MobileCheckinAuth, MobileCheckin
<1> QED BY <1>1, <1>2, <1>3, <1>4 DEF Entries

(* The fence *)

Inside(org, branch, reading) ==
    reading.at \in Area(org, branch) /\ Precise(org, branch, reading)
LetsIn(fence, org, branch, reading) ==
    /\ fence.enabled = org.enabled
    /\ ValidateGeofence(fence, reading) <=>
           (org.enabled => Inside(org, branch, reading))
    /\ fence.enabled /\ ValidateGeofence(fence, reading)
           => fence.at # NoPlace

\* The fence of the two rows lets in a reading of the area they describe.
LEMMA FenceIsArea ==
    ASSUME NEW org \in OrgRows, NEW branch \in BranchRows \cup {NoBranch},
           NEW reading \in Readings
    PROVE  LetsIn(ResolveGeofenceConfig(org, branch), org, branch, reading)
<1> DEFINE fence == ResolveGeofenceConfig(org, branch)
           placed == branch # NoBranch /\ branch.at # NoPlace
           given == IF placed /\ branch.radius # NoRadius THEN branch.radius
                    ELSE org.radius
           centre == IF placed THEN branch.at ELSE org.at
<1>1. /\ org.enabled \in BOOLEAN /\ org.radius \in Nat
      /\ org.at \in Int \cup {NoPlace}
      /\ reading.at \in Int \cup {NoPlace} /\ reading.accuracy \in Nat
      /\ placed => branch.at \in Int /\ branch.radius \in Nat \cup {NoRadius}
      /\ NoPlace \notin Int
  BY ScanAssumption
<1>2. fence.enabled = org.enabled /\ fence.at = centre /\ fence.radius = given
  BY ScanAssumption DEF ResolveGeofenceConfig
<1>3. given \in Nat /\ centre \in Int \cup {NoPlace}
  BY <1>1
<1>4. Precise(org, branch, reading) <=> reading.accuracy <= Larger(given, 150)
  BY <1>1, <1>2, <1>3 DEF Precise, Larger
<1> HIDE DEF fence, given, centre, placed
<1>5. Area(org, branch) =
        LET radius == IF given = 0 THEN 100 ELSE given
        IN  IF centre = NoPlace THEN {} ELSE (centre - radius)..(centre + radius)
  BY DEF Area, given, centre, placed
<1>6. ASSUME centre # NoPlace, reading.at # NoPlace
      PROVE  reading.at \in Area(org, branch) <=>
               CalculateDistance(reading.at, fence.at)
                 <= IF fence.radius = 0 THEN 100 ELSE fence.radius
  BY <1>1, <1>2, <1>3, <1>5, <1>6 DEF CalculateDistance, Larger
<1>7. reading.at \in Area(org, branch) => centre # NoPlace /\ reading.at # NoPlace
  BY <1>1, <1>3, <1>5
<1>8. ValidateGeofence(fence, reading) <=>
        (org.enabled => Inside(org, branch, reading))
  BY <1>2, <1>4, <1>6, <1>7 DEF ValidateGeofence, Inside
<1> QED BY <1>2, <1>8 DEF ValidateGeofence, LetsIn, fence

-----------------------------------------------------------------------------
(* One step of a request *)

\* A request that takes its next step, after a check or a count.
LEMMA Advanced ==
    ASSUME ScanInv, InProgress, Turn(scan) # "clock",
           NEW s \in Requests, s.entry = scan.entry, s.next = scan.next + 1,
           s.end = "none", s.reading = scan.reading, s.ever = scan.ever,
           s.never = scan.never, s.revoked = scan.revoked
    PROVE  /\ Served(s, orgRow, branchRow) /\ Settled(s)
           /\ Turn(s) \in After(Turn(scan))
           /\ Underway(scan)
<1>1. Underway(scan) /\ Served(scan, orgRow, branchRow)
  BY DEF ScanInv, Request, InProgress, Underway
<1>2. scan.entry \in Entries /\ scan.next \in DOMAIN scan.entry
  BY <1>1 DEF Served
<1>3. /\ s.next \in DOMAIN s.entry /\ Turn(s) \in After(Turn(scan))
  BY <1>2, StepsOfEntry DEF Turn
<1>4. Served(s, orgRow, branchRow)
  BY <1>1, <1>3 DEF Served
<1> QED BY <1>1, <1>3, <1>4 DEF Settled

\* A refusal that is due keeps the invariant.
LEMMA RefusedAt ==
    ASSUME ScanInv, InProgress, UNCHANGED Settings,
           NEW why \in {"code", "pin", "fence", "clock", "clocked"},
           Refused(why), Settled(scan')
    PROVE  ScanInv'
<1>1. scan' \in Requests /\ ~Underway(scan')
  BY DEF ScanInv, Request, Requests, Refused, Underway
<1> QED BY <1>1 DEF ScanInv, RowsOK, Request, Settings

\* What a request being served keeps, by its step.
LEMMA Serving ==
    ASSUME ScanInv, InProgress
    PROVE  /\ scan \in Requests /\ Underway(scan) /\ RowsOK
           /\ Served(scan, orgRow, branchRow) /\ Read(scan, orgRow)
           /\ Passed(scan) /\ Counts(scan, code) /\ Settled(scan)
           /\ scan.entry \in Entries /\ scan.next \in DOMAIN scan.entry
           /\ scan.next \in Nat /\ scan.reading \in Readings
           /\ Turn(scan) \in Steps
BY StepsOfEntry DEF ScanInv, Request, InProgress, Underway, Served, Turn

LEMMA StartStep == ASSUME ScanInit PROVE ScanInv
<1>1. NoScan \in Requests /\ ~Underway(NoScan) /\ Settled(NoScan)
  BY DEF NoScan, Requests, Underway, Settled
<1> QED BY <1>1 DEF ScanInit, ScanInv, RowsOK, Request

LEMMA BeginStep ==
    ASSUME ScanInv, NEW entry \in Entries, NEW reading \in Readings,
           Begin(entry, reading)
    PROVE  ScanInv'
<1> DEFINE allowed == Allowed(entry, reading, orgRow, branchRow)
<1>1. /\ scan' = [NoScan EXCEPT !.entry = entry, !.reading = reading,
                                !.ever = allowed, !.never = ~allowed]
      /\ UNCHANGED Settings
  BY DEF Begin
<1>2. allowed \in BOOLEAN
  BY DEF Allowed
<1> HIDE DEF allowed
<1>3. /\ scan' \in Requests /\ scan'.end = "none" /\ scan'.next = 1
      /\ scan'.entry = entry /\ scan'.reading = reading /\ ~scan'.revoked
      /\ scan'.ever = allowed /\ scan'.never = ~allowed
  BY <1>1, <1>2 DEF NoScan, Requests
<1>4. Served(scan', orgRow, branchRow)
  BY <1>3, StepsOfEntry DEF Served, allowed
<1>5. Turn(scan') \in {"code", "pin", "org"} /\ Turn(scan') = entry[1]
  BY <1>3, StepsOfEntry DEF Turn
<1>6. entry = ScanPublic => entry[1] = "code"
  BY DEF ScanPublic
<1>7. Read(scan', orgRow) /\ Passed(scan') /\ Settled(scan')
  BY <1>3, <1>5 DEF Read, Passed, Settled
<1>8. Counts(scan', code)
  BY <1>3, <1>5, <1>6 DEF Counts
<1> QED BY <1>1, <1>3, <1>4, <1>7, <1>8 DEF ScanInv, RowsOK, Request, Settings

\* The same, when the step changes nothing else.
LEMMA ThenAdvances ==
    ASSUME ScanInv, InProgress, Turn(scan) # "clock", Then
    PROVE  /\ scan' \in Requests /\ scan'.end = "none"
           /\ scan'.entry = scan.entry /\ scan'.org = scan.org
           /\ scan'.ever = scan.ever /\ scan'.moved = scan.moved
           /\ scan'.counted = scan.counted /\ scan'.revoked = scan.revoked
           /\ Served(scan', orgRow, branchRow) /\ Settled(scan')
           /\ Turn(scan') \in After(Turn(scan))
<1>1. /\ scan' \in Requests /\ scan'.entry = scan.entry
      /\ scan'.next = scan.next + 1 /\ scan'.end = "none"
      /\ scan'.reading = scan.reading /\ scan'.ever = scan.ever
      /\ scan'.never = scan.never /\ scan'.revoked = scan.revoked
      /\ scan'.org = scan.org /\ scan'.moved = scan.moved
      /\ scan'.counted = scan.counted
  BY Serving DEF Then, Requests, Underway
<1> QED BY <1>1, Advanced

LEMMA ValidateStep == ASSUME ScanInv, ValidateQRPayload PROVE ScanInv'
<1>1. /\ InProgress /\ Turn(scan) = "code" /\ UNCHANGED Settings
  BY DEF ValidateQRPayload, At, Turn
<1>2. CASE code = "active" /\ Then
  <2>1. Turn(scan') \in {"pin", "counted"}
    BY <1>1, <1>2, ThenAdvances DEF After
  <2>2. Read(scan', orgRow) /\ Passed(scan') /\ Counts(scan', code)
    BY <1>1, <1>2, <2>1, ThenAdvances, Serving DEF Read, Passed, Counts
  <2> QED BY <1>1, <1>2, <2>2, ThenAdvances DEF ScanInv, RowsOK, Request, Settings
<1>3. CASE Refused("code")
  <2>1. Settled(scan')
    BY <1>1, <1>3, Serving DEF Refused, Requests, Settled
  <2> QED BY <1>1, <1>3, <2>1, RefusedAt
<1> QED BY <1>2, <1>3 DEF ValidateQRPayload

LEMMA PinStep == ASSUME ScanInv, VerifyPin PROVE ScanInv'
<1>1. /\ InProgress /\ Turn(scan) = "pin" /\ UNCHANGED Settings
  BY DEF VerifyPin, At, Turn
<1>2. CASE Then
  <2>1. Turn(scan') \in {"count", "mode"}
    BY <1>1, <1>2, ThenAdvances DEF After
  <2>2. Turn(scan') = "count" => scan'.entry = ScanPublic
    BY <1>1, <1>2, ThenAdvances, StepsOfMobile DEF Served, Turn
  <2>3. Read(scan', orgRow) /\ Passed(scan') /\ Counts(scan', code)
    BY <1>1, <1>2, <2>1, <2>2, ThenAdvances, Serving DEF Read, Passed, Counts
  <2> QED BY <1>1, <1>2, <2>3, ThenAdvances DEF ScanInv, RowsOK, Request, Settings
<1>3. CASE Refused("pin")
  <2>1. Settled(scan')
    BY <1>1, <1>3, Serving DEF Refused, Requests, Settled
  <2> QED BY <1>1, <1>3, <2>1, RefusedAt
<1> QED BY <1>2, <1>3 DEF VerifyPin

LEMMA CountStep ==
    ASSUME ScanInv, IncrementQRScanCount \/ CountValidated PROVE ScanInv'
<1>1. /\ InProgress /\ Turn(scan) \in {"count", "counted"}
      /\ UNCHANGED Settings
  BY DEF IncrementQRScanCount, CountValidated, At, Turn
<1>2. PICK counted \in BOOLEAN :
        /\ scan' = [scan EXCEPT !.next = @ + 1, !.counted = counted]
        /\ counted \/ (Turn(scan) = "count" /\ code = "revoked")
  BY DEF IncrementQRScanCount, CountValidated, At, Turn
<1>3. /\ scan' \in Requests /\ scan'.entry = scan.entry
      /\ scan'.next = scan.next + 1 /\ scan'.end = "none"
      /\ scan'.reading = scan.reading /\ scan'.ever = scan.ever
      /\ scan'.never = scan.never /\ scan'.revoked = scan.revoked
      /\ scan'.counted = counted
  <2>1. scan \in Requests /\ scan.end = "none"
    BY <1>1, Serving DEF Underway
  <2>2. [scan EXCEPT !.counted = counted] \in Requests
    BY <2>1 DEF Requests
  <2> DEFINE s == [scan EXCEPT !.counted = counted]
  <2>3. /\ s.entry = scan.entry /\ s.next = scan.next /\ s.end = scan.end
        /\ s.reading = scan.reading /\ s.ever = scan.ever
        /\ s.never = scan.never /\ s.revoked = scan.revoked
        /\ s.counted = counted /\ scan' = [s EXCEPT !.next = @ + 1]
    BY <1>2, <2>1 DEF Requests
  <2>4. s \in Requests
    BY <2>2
  <2> HIDE DEF s
  <2> QED BY <2>1, <2>3, <2>4 DEF Requests
<1>4. /\ Served(scan', orgRow, branchRow) /\ Settled(scan')
      /\ Turn(scan') = "org"
  BY <1>1, <1>3, Advanced DEF After
<1>5. counted \/ Missed(scan')
  BY <1>1, <1>2, <1>3, Serving, StepsOfMobile DEF Missed, Counts, Turn
<1>6. Read(scan', orgRow) /\ Passed(scan') /\ Counts(scan', code)
  BY <1>1, <1>3, <1>4, <1>5, Serving DEF Read, Passed, Counts
<1> QED BY <1>1, <1>3, <1>4, <1>6 DEF ScanInv, RowsOK, Request, Settings

LEMMA ReadStep == ASSUME ScanInv, ReadOrg \/ ReadMode PROVE ScanInv'
<1>1. /\ InProgress /\ Turn(scan) \in {"org", "mode"} /\ UNCHANGED Settings
  BY DEF ReadOrg, ReadMode, At, Turn
<1>2. CASE /\ scan' = [scan EXCEPT !.next = @ + 1, !.org = orgRow,
                                   !.moved = FALSE]
           /\ Turn(scan) = "mode" => ~orgRow.qrOnly
  <2>1. /\ scan' \in Requests /\ scan'.entry = scan.entry
        /\ scan'.next = scan.next + 1 /\ scan'.end = "none"
        /\ scan'.reading = scan.reading /\ scan'.ever = scan.ever
        /\ scan'.never = scan.never /\ scan'.revoked = scan.revoked
        /\ scan'.counted = scan.counted /\ scan'.org = orgRow
    <3>1. scan \in Requests /\ scan.end = "none" /\ orgRow \in OrgRows
      BY <1>1, Serving DEF Underway, RowsOK
    <3>2. [scan EXCEPT !.org = orgRow] \in Requests
      BY <3>1 DEF Requests
    <3> DEFINE r == [scan EXCEPT !.org = orgRow]
               s == [r EXCEPT !.moved = FALSE]
    <3>3. /\ s.entry = scan.entry /\ s.next = scan.next /\ s.end = scan.end
          /\ s.reading = scan.reading /\ s.ever = scan.ever
          /\ s.never = scan.never /\ s.revoked = scan.revoked
          /\ s.counted = scan.counted /\ s.org = orgRow
          /\ scan' = [s EXCEPT !.next = @ + 1]
      BY <1>2, <3>1 DEF Requests
    <3> HIDE DEF r
    <3>4. s \in Requests
      BY <3>2 DEF Requests, r
    <3> HIDE DEF s
    <3> QED BY <3>1, <3>3, <3>4 DEF Requests
  <2>2. /\ Served(scan', orgRow, branchRow) /\ Settled(scan')
        /\ Turn(scan') \in {"fence", "configured"}
        /\ Turn(scan') = "configured" => Turn(scan) = "mode"
    BY <1>1, <2>1, Advanced DEF After
  <2>3. Read(scan', orgRow) /\ Passed(scan')
    BY <1>1, <1>2, <2>1, <2>2, Serving DEF Read, Passed, RowsOK
  <2>4. Turn(scan) = "mode" => scan.entry[1] # "code"
    BY <1>1, Serving, StepsOfMobile DEF Turn
  <2>5. Counts(scan', code)
    BY <1>1, <2>1, <2>2, <2>4, Serving DEF Counts, Missed
  <2> QED BY <1>1, <2>1, <2>2, <2>3, <2>5 DEF ScanInv, RowsOK, Request, Settings
<1>3. CASE Turn(scan) = "mode" /\ orgRow.qrOnly /\ Refused("fence")
  <2>1. scan.never
    BY <1>1, <1>3, Serving, StepsOfMobile DEF Served, Allowed, Turn
  <2>2. Settled(scan')
    BY <1>1, <1>3, <2>1, Serving DEF Refused, Requests, Settled
  <2> QED BY <1>1, <1>3, <2>2, RefusedAt
<1> QED BY <1>2, <1>3 DEF ReadOrg, ReadMode, At, Turn

\* The fence of a request, if the organization's row has not changed since it
\* was read, is that of the settings in force.
LEMMA FenceNow ==
    ASSUME ScanInv, InProgress, Turn(scan) \in {"fence", "configured"}
    PROVE  LET lets == /\ ValidateGeofence(Fence, scan.reading)
                       /\ Turn(scan) = "configured" => Fence.enabled
           IN  /\ lets => scan.ever \/ scan.moved
               /\ ~lets => scan.never \/ scan.moved
               /\ ValidateGeofence(Fence, scan.reading) /\ Fence.enabled
                      => Fence.at # NoPlace
<1> DEFINE inside == Inside(scan.org, branchRow, scan.reading)
<1>1. /\ scan.org \in OrgRows /\ branchRow \in BranchRows \cup {NoBranch}
      /\ scan.reading \in Readings /\ (scan.org = orgRow \/ scan.moved)
      /\ Turn(scan) = "configured" => ~scan.org.qrOnly
  BY Serving DEF Read, RowsOK
<1>2. LetsIn(Fence, scan.org, branchRow, scan.reading)
  BY <1>1, FenceIsArea DEF Fence
<1>3. (scan.entry = MobileCheckin) <=> Turn(scan) = "configured"
  BY Serving, StepsOfMobile DEF Turn
<1>4. Allowed(scan.entry, scan.reading, scan.org, branchRow) <=>
        IF Turn(scan) = "configured" THEN scan.org.enabled /\ inside
        ELSE scan.org.enabled => inside
  BY <1>1, <1>3 DEF Allowed, Inside
<1>5. ~scan.moved =>
        /\ Allowed(scan.entry, scan.reading, scan.org, branchRow) => scan.ever
        /\ ~Allowed(scan.entry, scan.reading, scan.org, branchRow) => scan.never
  BY <1>1, Serving DEF Served
<1> QED BY <1>2, <1>4, <1>5 DEF LetsIn

LEMMA FenceStep == ASSUME ScanInv, CheckFence \/ CheckConfigured PROVE ScanInv'
<1> DEFINE lets == /\ ValidateGeofence(Fence, scan.reading)
                   /\ Turn(scan) = "configured" => Fence.enabled
<1>1. /\ InProgress /\ Turn(scan) \in {"fence", "configured"}
      /\ UNCHANGED Settings
  BY DEF CheckFence, CheckConfigured, At, Turn
<1>2. (lets /\ Then) \/ (~lets /\ Refused("fence"))
  BY <1>1, FenceNow DEF CheckFence, CheckConfigured, At, Turn
<1>3. /\ lets => scan.ever \/ scan.moved
      /\ ~lets => scan.never \/ scan.moved
  BY <1>1, FenceNow
<1> HIDE DEF lets
<1>4. CASE lets /\ Then
  <2>1. Turn(scan') = "clock"
    BY <1>1, <1>4, ThenAdvances DEF After
  <2>2. Turn(scan) = "configured" => scan.entry[1] # "code"
    BY <1>1, Serving, StepsOfMobile DEF Turn
  <2>3. Read(scan', orgRow) /\ Passed(scan') /\ Counts(scan', code)
    BY <1>1, <1>3, <1>4, <2>1, <2>2, ThenAdvances, Serving
       DEF Read, Passed, Counts, Missed
  <2> QED BY <1>1, <1>4, <2>3, ThenAdvances DEF ScanInv, RowsOK, Request, Settings
<1>5. CASE ~lets /\ Refused("fence")
  <2>1. Settled(scan')
    BY <1>1, <1>3, <1>5, Serving DEF Refused, Requests, Settled
  <2> QED BY <1>1, <1>5, <2>1, RefusedAt
<1> QED BY <1>2, <1>4, <1>5

LEMMA ClockStep == ASSUME ScanInv, PerformClock PROVE ScanInv'
<1>1. InProgress /\ Turn(scan) = "clock" /\ UNCHANGED Settings
  BY DEF PerformClock, At, Turn
<1>2. PICK why \in {"clocked", "clock"} : Refused(why)
  BY DEF PerformClock
<1>3. Settled(scan')
  BY <1>1, <1>2, Serving
     DEF Refused, Requests, Settled, Passed, Counts, Missed
<1> QED BY <1>1, <1>2, <1>3, RefusedAt

LEMMA ForgetStep == ASSUME ScanInv, Forget PROVE ScanInv'
<1>1. NoScan \in Requests /\ ~Underway(NoScan) /\ Settled(NoScan)
  BY DEF NoScan, Requests, Underway, Settled
<1> QED BY <1>1 DEF Forget, ScanInv, RowsOK, Request, Settings

-----------------------------------------------------------------------------
(* The admins *)

\* A request in progress sees the settings change, and keeps the rest.
LEMMA Witnessed ==
    ASSUME ScanInv, InProgress, NEW org, NEW branch, Witness(org, branch)
    PROVE  /\ scan' \in Requests /\ scan'.entry = scan.entry
           /\ scan'.next = scan.next /\ scan'.end = "none"
           /\ scan'.reading = scan.reading /\ scan'.org = scan.org
           /\ scan'.counted = scan.counted /\ scan'.revoked = scan.revoked
           /\ scan'.moved <=> scan.moved \/ org # orgRow
           /\ scan'.ever <=>
                  scan.ever \/ Allowed(scan.entry, scan.reading, org, branch)
           /\ scan'.never <=>
                  scan.never \/ ~Allowed(scan.entry, scan.reading, org, branch)
<1> DEFINE allowed == Allowed(scan.entry, scan.reading, org, branch)
           ever == scan.ever \/ allowed
           never == scan.never \/ ~allowed
           moved == scan.moved \/ org # orgRow
           r == [scan EXCEPT !.ever = ever]
           s == [r EXCEPT !.never = never]
           t == [s EXCEPT !.moved = moved]
<1>1. scan \in Requests /\ scan.end = "none"
  BY Serving DEF Underway
<1>2. scan' = [scan EXCEPT !.ever = ever, !.never = never, !.moved = moved]
  BY DEF Witness
<1>3. ever \in BOOLEAN /\ never \in BOOLEAN /\ moved \in BOOLEAN
  OBVIOUS
<1> HIDE DEF ever, never, moved
<1>4. /\ t.entry = scan.entry /\ t.next = scan.next /\ t.end = scan.end
      /\ t.reading = scan.reading /\ t.org = scan.org
      /\ t.counted = scan.counted /\ t.revoked = scan.revoked
      /\ t.ever = ever /\ t.never = never /\ t.moved = moved /\ scan' = t
  BY <1>1, <1>2 DEF Requests
<1> HIDE DEF t
<1>5. r \in Requests
  BY <1>1, <1>3 DEF Requests
<1> HIDE DEF r
<1>6. s \in Requests
  BY <1>3, <1>5 DEF Requests
<1> HIDE DEF s
<1>7. t \in Requests
  BY <1>3, <1>6 DEF Requests, t
<1> QED BY <1>1, <1>4, <1>7 DEF ever, never, moved

LEMMA SettingsStep ==
    ASSUME ScanInv, UpdateSettings \/ UpdateGeofence PROVE ScanInv'
<1>1. /\ Witness(orgRow', branchRow') /\ code' = code
      /\ orgRow' \in OrgRows /\ branchRow' \in BranchRows \cup {NoBranch}
  BY DEF UpdateSettings, UpdateGeofence, ScanInv, RowsOK
<1>2. CASE ~InProgress
  <2>1. scan' = scan
    BY <1>1, <1>2 DEF Witness
  <2> QED BY <1>1, <1>2, <2>1
          DEF ScanInv, RowsOK, Request, InProgress, Underway
<1>3. CASE InProgress
  <2>1. /\ scan' \in Requests /\ scan'.entry = scan.entry
        /\ scan'.next = scan.next /\ scan'.end = "none"
        /\ scan'.reading = scan.reading /\ scan'.org = scan.org
        /\ scan'.counted = scan.counted /\ scan'.revoked = scan.revoked
        /\ scan'.moved <=> scan.moved \/ orgRow' # orgRow
        /\ scan.ever => scan'.ever
        /\ Allowed(scan.entry, scan.reading, orgRow', branchRow') => scan'.ever
        /\ ~Allowed(scan.entry, scan.reading, orgRow', branchRow')
               => scan'.never
    BY <1>1, <1>3, Witnessed
  <2>2. Served(scan', orgRow', branchRow') /\ Settled(scan')
    BY <1>3, <2>1, Serving DEF Served, Settled
  <2>3. Read(scan', orgRow')
    BY <1>3, <2>1, Serving DEF Read, Turn
  <2>4. Passed(scan') /\ Counts(scan', code)
    BY <1>3, <2>1, Serving DEF Passed, Counts, Turn, Missed
  <2> QED BY <1>1, <2>1, <2>2, <2>3, <2>4 DEF ScanInv, RowsOK, Request
<1> QED BY <1>2, <1>3

LEMMA CodeStep == ASSUME ScanInv, CodeEnds PROVE ScanInv'
<1>1. /\ code # "revoked" /\ code' \in {"expired", "revoked"}
      /\ UNCHANGED <<orgRow, branchRow>>
  BY DEF CodeEnds
<1>2. CASE ~InProgress
  <2>1. scan' = scan
    BY <1>2 DEF CodeEnds
  <2> QED BY <1>1, <1>2, <2>1
          DEF ScanInv, RowsOK, Request, InProgress, Underway
<1>3. CASE InProgress
  <2>1. PICK revoked \in BOOLEAN :
          /\ scan' = [scan EXCEPT !.revoked = revoked]
          /\ revoked <=> code' = "revoked"
    BY <1>3 DEF CodeEnds
  <2>2. scan \in Requests /\ scan.end = "none"
    BY <1>3, Serving DEF Underway
  <2>3. scan' \in Requests
    BY <2>1, <2>2 DEF Requests
  <2>4. /\ scan'.entry = scan.entry /\ scan'.next = scan.next
        /\ scan'.end = "none" /\ scan'.reading = scan.reading
        /\ scan'.org = scan.org /\ scan'.counted = scan.counted
        /\ scan'.moved = scan.moved /\ scan'.ever = scan.ever
        /\ scan'.never = scan.never /\ scan'.revoked = revoked
    BY <2>1, <2>2 DEF Requests
  <2>5. Served(scan', orgRow, branchRow) /\ Settled(scan')
    BY <1>3, <2>4, Serving DEF Served, Settled
  <2>6. Read(scan', orgRow) /\ Passed(scan')
    BY <1>3, <2>4, Serving DEF Read, Passed, Turn
  <2>7. ~scan.revoked
    BY <1>1, <1>3, Serving DEF Counts
  <2>8. Counts(scan', code')
    BY <1>1, <1>3, <2>1, <2>4, <2>7, Serving DEF Counts, Missed, Turn
  <2> QED BY <1>1, <2>3, <2>5, <2>6, <2>8 DEF ScanInv, RowsOK, Request
<1> QED BY <1>2, <1>3

-----------------------------------------------------------------------------
\* Whatever admins change and whenever, a scan is clocked, or turned away by
\* the fence, as the settings of some moment of it have it, unless the
\* organization's row changed after it was read; and a clock action by a code
\* is counted, unless the code is revoked in between.
THEOREM RightlyJudged == ScanSpec => []ScansJudged
<1>1. ScanInit => ScanInv
  BY StartStep
<1>2. ScanInv /\ [ScanNext]_scanVars => ScanInv'
  <2> SUFFICES ASSUME ScanInv, [ScanNext]_scanVars PROVE ScanInv'
    OBVIOUS
  <2>1. CASE ScanNext
    <3>1. CASE \E entry \in Entries, reading \in Readings : Begin(entry, reading)
      BY <3>1, BeginStep
    <3>2. CASE ValidateQRPayload \/ VerifyPin
      BY <3>2, ValidateStep, PinStep
    <3>3. CASE \/ IncrementQRScanCount \/ CountValidated
               \/ ReadOrg \/ ReadMode \/ CheckFence \/ CheckConfigured
      BY <3>3, CountStep, ReadStep, FenceStep
    <3>4. CASE PerformClock \/ Forget
      BY <3>4, ClockStep, ForgetStep
    <3>5. CASE UpdateSettings \/ UpdateGeofence \/ CodeEnds
      BY <3>5, SettingsStep, CodeStep
    <3> QED BY <2>1, <3>1, <3>2, <3>3, <3>4, <3>5 DEF ScanNext
  <2>2. CASE UNCHANGED scanVars
    BY <2>2 DEF scanVars, ScanInv, RowsOK
  <2> QED BY <2>1, <2>2
<1>3. ScanInv => ScansJudged
  BY DEF ScanInv, Request, Settled, Missed, ScansJudged, FenceInForce,
         ScanCounted
<1> QED BY <1>1, <1>2, <1>3, PTL DEF ScanSpec

-----------------------------------------------------------------------------
(* Documents: the two stores *)

\* What a request that goes on knows of its file, whose row and object are
\* "file": an upload has stored no row, and the object is gone before a row.
Uploading == {"put", "create"}
Filed(req, file, cut) ==
    req.pc # "idle" =>
        /\ req.file \in FileIds /\ file.size > 0
        /\ req.pc \in Uploading =>
              ~file.row /\ (file.object <=> req.pc = "create")
        /\ req.pc = "row" /\ req.file \notin cut => ~file.object
\* A file that is being uploaded is that of one request.
Alone(req, u) ==
    req.pc \in Uploading =>
        \A v \in Uploaders \ {u} : filing[v].file # req.file
FilesInv ==
    /\ DocTypeOK /\ StoresAgree
    /\ \A f \in FileIds : files[f].size = 0 => files[f] = NoFile
    /\ \A u \in Uploaders : /\ Filed(filing[u], files[filing[u].file], adrift)
                            /\ Alone(filing[u], u)
                            /\ filing[u].pc = "idle" => filing[u] = NotFiling

\* What uploads begin with has its type.
LEMMA FilingTypes ==
    /\ NoFile \in File /\ NotFiling \in Filing
    /\ NotFiling.pc = "idle" /\ NotFiling.file = 0 /\ 0 \notin FileIds
BY SizesAssumption DEF NoFile, File, NotFiling, Filing, FileIds

\* A step of one request on one file keeps the invariant if the request knows
\* what it should, the others on the file still do, and the stores agree on
\* it unless somebody is on it.
Works(u, f, file, req) ==
    /\ files' = [files EXCEPT ![f] = file]
    /\ filing' = [filing EXCEPT ![u] = req]
    /\ adrift' \in {adrift, adrift \cup {f}}
    /\ \/ filing[u].file = f
       \/ filing[u].file = 0 /\ (req.pc \in Uploading \/ file.row)
    /\ req = NotFiling \/ (req.pc # "idle" /\ req.file = f)
    /\ file.size > 0 /\ Filed(req, file, adrift')
    /\ req.pc \in Uploading => \A v \in Uploaders \ {u} : filing[v].file # f
    /\ \A v \in Uploaders \ {u} :
          filing[v].file = f => Filed(filing[v], file, adrift')
    /\ f \notin adrift' /\ ~(file.row <=> file.object) =>
          \/ req.pc \in {"create", "object", "row"}
          \/ \E v \in Uploaders \ {u} :
                /\ filing[v].file = f
                /\ filing[v].pc \in {"create", "object", "row"}
LEMMA OneFileStep ==
    ASSUME FilesInv, NEW u \in Uploaders, NEW f \in FileIds,
           NEW file \in File, NEW req \in Filing, Works(u, f, file, req)
    PROVE  FilesInv'
<1> USE DEF Works
<1>1. /\ files \in [FileIds -> File] /\ filing \in [Uploaders -> Filing]
      /\ adrift \subseteq FileIds
    BY DEF FilesInv, DocTypeOK
<1>2. DocTypeOK'
    BY <1>1 DEF DocTypeOK
<1>3. /\ files'[f] = file /\ \A g \in FileIds \ {f} : files'[g] = files[g]
      /\ filing'[u] = req /\ \A v \in Uploaders \ {u} : filing'[v] = filing[v]
    BY <1>1
<1>4. ASSUME NEW g \in FileIds
      PROVE  files'[g].size = 0 => files'[g] = NoFile
    BY <1>1, <1>3 DEF FilesInv, File
<1>5. ASSUME NEW v \in Uploaders
      PROVE  Filed(filing'[v], files'[filing'[v].file], adrift')
    <2>1. CASE v = u
        BY <1>3, <2>1, FilingTypes DEF Filed
    <2>2. CASE v # u /\ filing[v].file = f
        BY <1>3, <2>2
    <2>3. CASE v # u /\ filing[v].file # f
        <3>1. Filed(filing[v], files[filing[v].file], adrift)
              /\ filing'[v] = filing[v]
            BY <1>3, <2>3 DEF FilesInv
        <3> QED BY <1>3, <2>3, <3>1 DEF Filed
    <2> QED BY <2>1, <2>2, <2>3
<1>6. ASSUME NEW v \in Uploaders PROVE Alone(filing[v], v)'
    <2>1. CASE v = u
        BY <1>3, <2>1, FilingTypes DEF Alone, Uploading
    <2>2. CASE v # u
        <3>1. Alone(filing[v], v) /\ filing'[v] = filing[v] /\ v \in Uploaders \ {u}
            BY <1>3, <2>2 DEF FilesInv
        <3>2. filing[v].pc \in Uploading => filing[v].file \in FileIds
            BY DEF FilesInv, Filed, Uploading
        <3>3. CASE req = NotFiling
            BY <1>3, <3>1, <3>2, <3>3, FilingTypes DEF Alone
        <3>4. CASE req.file = f /\ filing[u].file = f
            BY <1>3, <3>1, <3>4 DEF Alone
        <3>5. CASE req.file = f /\ filing[u].file = 0 /\ filing[v].file = f
            <4>1. ~(filing[v].pc \in Uploading)
                BY <3>1, <3>5, FilingTypes DEF Filed, Uploading
            <4> QED BY <1>3, <3>1, <4>1 DEF Alone
        <3>6. CASE req.file = f /\ filing[v].file # f
            BY <1>3, <3>1, <3>6 DEF Alone
        <3> QED BY <3>3, <3>4, <3>5, <3>6
    <2> QED BY <2>1, <2>2
<1>7. ASSUME NEW v \in Uploaders
      PROVE  filing'[v].pc = "idle" => filing'[v] = NotFiling
    BY <1>3 DEF FilesInv
<1>8. StoresAgree'
    <2> SUFFICES ASSUME NEW g \in FileIds \ adrift', files'[g].row # files'[g].object
                 PROVE  Busy(g, {"create", "object", "row"})'
        BY <1>2 DEF StoresAgree
    <2>1. CASE g = f
        <3>1. ~(file.row <=> file.object)
            BY <1>3, <2>1 DEF File
        <3> QED BY <1>3, <2>1, <3>1, FilingTypes DEF Busy
    <2>2. CASE g # f
        <3>1. Busy(g, {"create", "object", "row"})
            BY <1>3, <2>2 DEF FilesInv, StoresAgree
        <3>2. PICK v \in Uploaders : /\ filing[v].file = g
                                     /\ filing[v].pc \in {"create", "object", "row"}
            BY <3>1 DEF Busy
        <3>3. v # u
            BY <2>2, <3>2, FilingTypes
        <3> QED BY <1>3, <3>2, <3>3 DEF Busy
    <2> QED BY <2>1, <2>2
<1> QED BY <1>2, <1>4, <1>5, <1>6, <1>7, <1>8 DEF FilesInv

LEMMA FilesInit == DocInit => FilesInv
<1> SUFFICES ASSUME DocInit PROVE FilesInv
    OBVIOUS
<1>1. DocTypeOK
    BY FilingTypes DEF DocInit, DocTypeOK
<1>2. \A f \in FileIds : files[f] = NoFile
    BY DEF DocInit
<1>3. \A u \in Uploaders : filing[u] = NotFiling
    BY DEF DocInit
<1>4. StoresAgree
    <2>1. NoFile.row = NoFile.object
        BY DEF NoFile
    <2> QED BY <1>2, <2>1, Zenon DEF StoresAgree
<1> QED BY <1>1, <1>2, <1>3, <1>4, FilingTypes DEF FilesInv, Filed, Alone, Uploading

\* What a request in progress knows of its file.
LEMMA OnAFile ==
    ASSUME FilesInv, NEW u \in Uploaders, filing[u].pc # "idle"
    PROVE  /\ filing[u].file \in FileIds /\ files[filing[u].file] \in File
           /\ filing[u] \in Filing
           /\ Filed(filing[u], files[filing[u].file], adrift)
           /\ Alone(filing[u], u)
           /\ files[filing[u].file].size > 0
BY DEF FilesInv, DocTypeOK, Filed

\* An upload starts on a file of its own.
LEMMA UploadCheckStep ==
    ASSUME FilesInv, NEW u \in Uploaders, NEW f \in FileIds,
           NEW size \in 1..MaxFileSize, UploadCheck(u, f, size)
    PROVE  FilesInv'
<1> DEFINE file == [files[f] EXCEPT !.size = size]
           req == [pc |-> "put", file |-> f]
<1>1. files[f].size = 0 /\ filing[u] = NotFiling /\ adrift' = adrift
    BY SizesAssumption DEF UploadCheck, FileIds
<1>2. files \in [FileIds -> File] /\ files[f] = NoFile
    BY <1>1 DEF FilesInv, DocTypeOK
<1>3. file.size = size /\ ~file.row /\ ~file.object
    BY <1>2 DEF NoFile
<1>4. file \in File /\ file.size > 0 /\ req \in Filing
    BY <1>2, <1>3, FilingTypes, SizesAssumption DEF File, Filing
<1>5. /\ files' = [files EXCEPT ![f] = file]
      /\ filing' = [filing EXCEPT ![u] = req]
    BY <1>2 DEF UploadCheck, Goes
<1>6. \A v \in Uploaders : filing[v].file # f
    <2> SUFFICES ASSUME NEW v \in Uploaders, filing[v].file = f PROVE FALSE
        OBVIOUS
    <2>1. filing[v].pc = "idle"
        BY <1>1, OnAFile
    <2> QED BY <2>1, FilingTypes DEF FilesInv
<1>7. Filed(req, file, adrift')
    BY <1>3, <1>4 DEF Filed, Uploading
<1>8. filing[u].file = 0 /\ req.pc \in Uploading /\ req.pc # "idle" /\ req.file = f
      /\ (file.row <=> file.object) /\ adrift' \in {adrift, adrift \cup {f}}
    BY <1>1, <1>3, FilingTypes DEF Uploading
<1> HIDE DEF file, req
<1>9. Works(u, f, file, req)
    BY <1>1, <1>4, <1>5, <1>6, <1>7, <1>8 DEF Works
<1> QED BY <1>9, <1>4, OneFileStep

\* S3 has the file, or the upload is over.
LEMMA UploadPutStep ==
    ASSUME FilesInv, NEW u \in Uploaders, UploadPut(u)
    PROVE  FilesInv'
<1>1. PICK f \in FileIds : filing[u].file = f
    BY OnAFile DEF UploadPut
<1>2. PICK old \in File : files[f] = old
    BY <1>1, OnAFile DEF UploadPut
<1>3. /\ ~old.row /\ ~old.object /\ old.size > 0
      /\ \A v \in Uploaders \ {u} : filing[v].file # f
      /\ adrift' = adrift /\ filing[u].pc = "put"
    BY <1>1, <1>2, OnAFile DEF UploadPut, Filed, Alone, Uploading
<1>4. CASE /\ files' = [files EXCEPT ![filing[u].file].object = TRUE]
           /\ Goes(u, "create", filing[u].file)
    <2> DEFINE file == [old EXCEPT !.object = TRUE]
               req == [pc |-> "create", file |-> f]
    <2>1. file \in File /\ file.size = old.size /\ ~file.row /\ file.object
          /\ req \in Filing
        BY <1>3 DEF File, Filing
    <2>2. files' = [files EXCEPT ![f] = file] /\ filing' = [filing EXCEPT ![u] = req]
        BY <1>1, <1>2, <1>4 DEF Goes
    <2>3. Filed(req, file, adrift') /\ req.pc = "create" /\ req.file = f
        BY <1>3, <2>1 DEF Filed, Uploading
    <2> HIDE DEF file, req
    <2>4. Works(u, f, file, req)
        BY <1>1, <1>3, <2>1, <2>2, <2>3 DEF Works
    <2> QED BY <2>4, <2>1, OneFileStep
<1>5. CASE Ends(u) /\ UNCHANGED files
    <2>1. files' = [files EXCEPT ![f] = old]
          /\ filing' = [filing EXCEPT ![u] = NotFiling]
        BY <1>2, <1>5 DEF Ends, FilesInv, DocTypeOK
    <2>2. Filed(NotFiling, old, adrift') /\ ~(NotFiling.pc \in Uploading)
        BY FilingTypes DEF Filed, Uploading
    <2>3. Works(u, f, old, NotFiling)
        BY <1>1, <1>3, <2>1, <2>2, FilingTypes DEF Works
    <2> QED BY <2>3, FilingTypes, OneFileStep
<1> QED BY <1>4, <1>5 DEF UploadPut

\* The row is created for an object that is there.
LEMMA UploadCreateStep ==
    ASSUME FilesInv, NEW u \in Uploaders, UploadCreate(u)
    PROVE  FilesInv'
<1>1. PICK f \in FileIds : filing[u].file = f
    BY OnAFile DEF UploadCreate
<1>2. PICK old \in File : files[f] = old
    BY <1>1, OnAFile DEF UploadCreate
<1>3. /\ ~old.row /\ old.object /\ old.size > 0
      /\ \A v \in Uploaders \ {u} : filing[v].file # f
      /\ adrift' = adrift
    BY <1>1, <1>2, OnAFile DEF UploadCreate, Filed, Alone, Uploading
<1> DEFINE file == [old EXCEPT !.row = TRUE]
<1>4. file \in File /\ file.size = old.size /\ file.row /\ file.object
    BY <1>3 DEF File
<1>5. files' = [files EXCEPT ![f] = file] /\ filing' = [filing EXCEPT ![u] = NotFiling]
    BY <1>1, <1>2 DEF UploadCreate, Ends
<1>6. Filed(NotFiling, file, adrift') /\ ~(NotFiling.pc \in Uploading)
    BY FilingTypes DEF Filed, Uploading
<1> HIDE DEF file
<1>7. Works(u, f, file, NotFiling)
    BY <1>1, <1>3, <1>4, <1>5, <1>6, FilingTypes DEF Works
<1> QED BY <1>7, <1>4, FilingTypes, OneFileStep

\* A deletion starts on a file that has its row: nobody is uploading it.
LEMMA DeleteReadStep ==
    ASSUME FilesInv, NEW u \in Uploaders, NEW f \in FileIds, DeleteRead(u, f)
    PROVE  FilesInv'
<1> DEFINE req == [pc |-> "object", file |-> f]
<1>1. PICK old \in File : files[f] = old
    BY DEF FilesInv, DocTypeOK
<1>2. old.row /\ adrift' = adrift /\ filing[u].file = 0
    BY <1>1, FilingTypes DEF DeleteRead
<1>3. old.size > 0
    BY <1>1, <1>2 DEF FilesInv, File, NoFile
<1>4. files' = [files EXCEPT ![f] = old] /\ filing' = [filing EXCEPT ![u] = req]
    BY <1>1 DEF DeleteRead, Goes, FilesInv, DocTypeOK
<1>5. Filed(req, old, adrift') /\ req \in Filing /\ ~(req.pc \in Uploading)
      /\ req.pc = "object" /\ req.file = f
    BY <1>3 DEF Filed, Filing, Uploading
<1>6. \A v \in Uploaders \ {u} : filing[v].file = f => Filed(filing[v], old, adrift')
    BY <1>1, <1>2 DEF FilesInv
<1> HIDE DEF req
<1>7. Works(u, f, old, req)
    BY <1>2, <1>3, <1>4, <1>5, <1>6 DEF Works
<1> QED BY <1>7, <1>5, OneFileStep

\* A deletion, or its end, when the others on the file know no less of it.
LEMMA DeletionStep ==
    ASSUME FilesInv, NEW u \in Uploaders, filing[u].pc \in {"create", "object", "row"},
           NEW f \in FileIds, filing[u].file = f,
           NEW file \in File, file.size = files[f].size,
           files' = [files EXCEPT ![f] = file],
           file.row => files[f].row, file.object => files[f].object,
           files[f].object /\ ~file.object => filing[u].pc = "object",
           files[f].row /\ ~file.row => filing[u].pc = "row",
           NEW req \in Filing, filing' = [filing EXCEPT ![u] = req],
           \/ req = NotFiling
           \/ req = [pc |-> "row", file |-> f]
              /\ (f \in adrift' \/ ~file.object),
           adrift' \in {adrift, adrift \cup {f}},
           req = NotFiling => f \in adrift' \/ (~file.row /\ ~file.object)
    PROVE  FilesInv'
<1>1. file.size > 0 /\ Filed(filing[u], files[f], adrift)
    BY OnAFile
<1>2. Filed(req, file, adrift') /\ ~(req.pc \in Uploading)
      /\ (req = NotFiling \/ (req.pc = "row" /\ req.file = f))
    BY <1>1, FilingTypes DEF Filed, Uploading
<1>3. ASSUME NEW v \in Uploaders \ {u}, filing[v].file = f
      PROVE  Filed(filing[v], file, adrift')
    <2>1. Filed(filing[v], files[f], adrift) /\ Alone(filing[v], v) /\ f \in FileIds
        BY <1>3 DEF FilesInv
    <2>2. ~(filing[v].pc \in Uploading)
        BY <1>3, <2>1 DEF Alone
    <2>3. filing[v].pc = "row" /\ f \notin adrift' => ~file.object
        BY <1>3, <2>1 DEF Filed
    <2> QED BY <1>1, <1>3, <2>2, <2>3 DEF Filed
<1>4. Works(u, f, file, req)
    BY <1>1, <1>2, <1>3 DEF Works
<1> QED BY <1>4, OneFileStep

\* The object is gone, or the file is adrift.
LEMMA DeleteObjectStep ==
    ASSUME FilesInv, NEW u \in Uploaders, DeleteObject(u)
    PROVE  FilesInv'
<1>1. PICK f \in FileIds : filing[u].file = f
    BY OnAFile DEF DeleteObject
<1>2. PICK old \in File : files[f] = old
    BY <1>1, OnAFile DEF DeleteObject
<1> DEFINE req == [pc |-> "row", file |-> f]
<1>3. filing[u].pc = "object" /\ filing' = [filing EXCEPT ![u] = req]
      /\ req \in Filing /\ req # NotFiling
    BY <1>1 DEF DeleteObject, Goes, Filing, NotFiling
<1>4. CASE files' = [files EXCEPT ![f].object = FALSE] /\ UNCHANGED adrift
    <2> DEFINE file == [old EXCEPT !.object = FALSE]
    <2>1. file \in File /\ file.size = old.size /\ ~file.object
          /\ (file.row <=> old.row)
        BY DEF File
    <2>2. files' = [files EXCEPT ![f] = file]
        BY <1>2, <1>4
    <2> HIDE DEF file
    <2> QED BY <1>1, <1>2, <1>3, <1>4, <2>1, <2>2, DeletionStep
<1>5. CASE adrift' = adrift \cup {f} /\ UNCHANGED files
    <2>1. files' = [files EXCEPT ![f] = old]
        BY <1>2, <1>5 DEF FilesInv, DocTypeOK
    <2> QED BY <1>1, <1>2, <1>3, <1>5, <2>1, DeletionStep
<1> QED BY <1>1, <1>4, <1>5 DEF DeleteObject

\* The row is gone after the object.
LEMMA DeleteRowStep ==
    ASSUME FilesInv, NEW u \in Uploaders, DeleteRow(u)
    PROVE  FilesInv'
<1>1. PICK f \in FileIds : filing[u].file = f
    BY OnAFile DEF DeleteRow
<1>2. PICK old \in File : files[f] = old
    BY <1>1, OnAFile DEF DeleteRow
<1> DEFINE file == [old EXCEPT !.row = FALSE]
<1>3. file \in File /\ file.size = old.size /\ ~file.row
      /\ (file.object <=> old.object)
    BY DEF File
<1>4. /\ files' = [files EXCEPT ![f] = file] /\ filing[u].pc = "row"
      /\ filing' = [filing EXCEPT ![u] = NotFiling] /\ adrift' = adrift
    BY <1>1, <1>2 DEF DeleteRow, Ends
<1>5. f \in adrift \/ ~old.object
    BY <1>1, <1>2, <1>4, OnAFile DEF Filed
<1> HIDE DEF file
<1> QED BY <1>1, <1>2, <1>3, <1>4, <1>5, FilingTypes, DeletionStep

\* A request that was cut short sets its file adrift.
LEMMA FilingFailsStep ==
    ASSUME FilesInv, NEW u \in Uploaders, FilingFails(u)
    PROVE  FilesInv'
<1>1. PICK f \in FileIds : filing[u].file = f
    BY OnAFile DEF FilingFails
<1>2. PICK old \in File : files[f] = old
    BY <1>1, OnAFile DEF FilingFails
<1>3. files' = [files EXCEPT ![f] = old]
    BY <1>2 DEF FilingFails, FilesInv, DocTypeOK
<1>4. /\ filing[u].pc \in {"create", "object", "row"}
      /\ filing' = [filing EXCEPT ![u] = NotFiling] /\ adrift' = adrift \cup {f}
    BY <1>1 DEF FilingFails, Ends
<1> QED BY <1>1, <1>2, <1>3, <1>4, FilingTypes, DeletionStep

LEMMA FilesStep == FilesInv /\ [DocNext]_docVars => FilesInv'
<1> SUFFICES ASSUME FilesInv, [DocNext]_docVars PROVE FilesInv'
    OBVIOUS
<1>1. CASE UNCHANGED docVars
    BY <1>1 DEF docVars, FilesInv, DocTypeOK, StoresAgree, Busy, Alone
<1>2. ASSUME DocNext PROVE FilesInv'
    <2>1. PICK u \in Uploaders :
            \/ \E f \in FileIds, size \in 1..MaxFileSize : UploadCheck(u, f, size)
            \/ UploadPut(u) \/ UploadCreate(u)
            \/ \E f \in FileIds : DeleteRead(u, f)
            \/ DeleteObject(u) \/ DeleteRow(u) \/ FilingFails(u)
        BY <1>2 DEF DocNext
    <2> QED BY <2>1, UploadCheckStep, UploadPutStep, UploadCreateStep,
               DeleteReadStep, DeleteObjectStep, DeleteRowStep, FilingFailsStep
<1> QED BY <1>1, <1>2

\* The database and S3 disagree on a file only while a request is on it or
\* after one was cut short (uploadDocument, deleteDocument).
THEOREM StoresOnlyDriftWhenCut == DocSpec => []StoresAgree
<1>1. FilesInv => StoresAgree
    BY DEF FilesInv
<1> QED BY <1>1, FilesInit, FilesStep, PTL DEF DocSpec
-----------------------------------------------------------------------------
(* Documents: the quota *)

\* Files that have a place in S3, or are about to, and no row yet.
OnTheWay == {f \in FileIds : Busy(f, Uploading)}
Overshoot == (Cardinality(Uploaders) - 1) * MaxFileSize
SizeOfFiles == [f \in FileIds |-> files[f].size]
QuotaInv ==
    FilesInv /\ SizeOf(Rowed \cup OnTheWay) <= MaxTotalSize + Overshoot

\* The size of a set of files as a sum.
LEMMA FileSizes ==
    ASSUME DocTypeOK
    PROVE  /\ IsFiniteSet(FileIds)
           /\ \A f \in FileIds : /\ SizeOfFiles[f] = files[f].size
                                 /\ SizeOfFiles[f] \in Nat
                                 /\ SizeOfFiles[f] <= MaxFileSize
           /\ \A set : SizeOf(set) = SumFunctionOnSet(SizeOfFiles, set)
           /\ Overshoot \in Nat
<1>1. IsFiniteSet(FileIds)
    BY SizesAssumption, FS_Interval DEF FileIds
<1>2. \A f \in FileIds : files[f].size \in Nat /\ files[f].size <= MaxFileSize
    BY SizesAssumption DEF DocTypeOK, File
<1>3. Cardinality(Uploaders) \in Nat \ {0}
    BY SizesAssumption, FS_CardinalityType, FS_EmptySet
<1>4. \A n \in Nat \ {0}, m \in Nat : (n - 1) * m \in Nat
    OBVIOUS
<1> QED BY <1>1, <1>2, <1>3, <1>4, SizesAssumption DEF SizeOfFiles, SizeOf, Overshoot

\* The files on the way while a request is idle are those of the others.
LEMMA OthersOnTheWay ==
    ASSUME FilesInv, NEW u \in Uploaders, filing[u] = NotFiling
    PROVE  IsFiniteSet(OnTheWay) /\ SizeOf(OnTheWay) <= Overshoot
<1> DEFINE others == {v \in Uploaders : filing[v].pc \in Uploading}
           fileOf == [v \in others |-> filing[v].file]
<1>1. fileOf \in Surjection(others, OnTheWay)
    <2>1. ASSUME NEW v \in others PROVE filing[v].file \in OnTheWay
        BY OnAFile DEF OnTheWay, Busy, Uploading
    <2>2. ASSUME NEW f \in OnTheWay PROVE \E v \in others : fileOf[v] = f
        BY DEF OnTheWay, Busy
    <2> QED BY <2>1, <2>2 DEF Surjection
<1>2. others \subseteq Uploaders \ {u}
    BY FilingTypes DEF Uploading
<1>3. /\ IsFiniteSet(Uploaders \ {u})
      /\ Cardinality(Uploaders \ {u}) = Cardinality(Uploaders) - 1
      /\ Cardinality(Uploaders) \in Nat
    BY SizesAssumption, FS_RemoveElement, FS_CardinalityType
<1> HIDE DEF others, fileOf
<1>4. /\ IsFiniteSet(others)
      /\ Cardinality(others) <= Cardinality(Uploaders) - 1
      /\ Cardinality(others) \in Nat
    BY <1>2, <1>3, FS_Subset, FS_CardinalityType
<1>5. /\ IsFiniteSet(OnTheWay) /\ Cardinality(OnTheWay) \in Nat
      /\ Cardinality(OnTheWay) <= Cardinality(Uploaders) - 1
    <2>1. IsFiniteSet(OnTheWay) /\ Cardinality(OnTheWay) <= Cardinality(others)
        BY <1>1, <1>4, FS_Surjection, Zenon
    <2>2. Cardinality(OnTheWay) \in Nat
        BY <2>1, FS_CardinalityType
    <2> QED BY <1>3, <1>4, <2>1, <2>2
<1>6. SizeOf(OnTheWay) <= Cardinality(OnTheWay) * MaxFileSize
    <2>1. DocTypeOK /\ OnTheWay \subseteq FileIds /\ MaxFileSize \in Nat
        BY SizesAssumption DEF FilesInv, OnTheWay
    <2>2. SumFunctionOnSet(SizeOfFiles, OnTheWay) <= Cardinality(OnTheWay) * MaxFileSize
        BY <1>5, <2>1, FileSizes, SumLimit
    <2> QED BY <2>1, <2>2, FileSizes
<1>7. \A c, n, m \in Nat : c <= n - 1 => c * m <= (n - 1) * m
    OBVIOUS
<1>8. SizeOf(OnTheWay) \in Nat
    BY <1>5, FileSizes, SumType DEF FilesInv, OnTheWay
<1>9. Cardinality(OnTheWay) * MaxFileSize <= Overshoot
    BY <1>3, <1>5, <1>7, SizesAssumption DEF Overshoot
<1>10. Overshoot \in Nat /\ Cardinality(OnTheWay) * MaxFileSize \in Nat
    BY <1>5, FileSizes, SizesAssumption DEF FilesInv
<1> QED BY <1>5, <1>6, <1>8, <1>9, <1>10

\* A step that neither adds a file nor changes a size keeps the quota.
LEMMA FewerFiles ==
    ASSUME QuotaInv, FilesInv',
           \A f \in FileIds : files'[f].size = files[f].size,
           (Rowed \cup OnTheWay)' \subseteq Rowed \cup OnTheWay
    PROVE  QuotaInv'
<1>1. SizeOfFiles' = SizeOfFiles /\ DocTypeOK /\ DocTypeOK'
    BY DEF SizeOfFiles, QuotaInv, FilesInv
<1>2. PICK w : w = SizeOfFiles
    OBVIOUS
<1>3. PICK old \in SUBSET FileIds : old = Rowed \cup OnTheWay
    BY DEF Rowed, OnTheWay
<1>4. PICK new \in SUBSET FileIds : new = (Rowed \cup OnTheWay)'
    BY DEF Rowed, OnTheWay
<1>5. /\ IsFiniteSet(FileIds) /\ \A f \in FileIds : w[f] \in Nat
      /\ SizeOf(old) = SumFunctionOnSet(w, old) /\ Overshoot \in Nat
    BY <1>1, <1>2, FileSizes
<1>6. SizeOf(Rowed \cup OnTheWay)' = SumFunctionOnSet(w, new)
    BY <1>1, <1>2, <1>4 DEF SizeOf, SizeOfFiles
<1>7. IsFiniteSet(old) /\ new \in SUBSET old
    BY <1>3, <1>4, <1>5, FS_Subset
<1>8. /\ SumFunctionOnSet(w, new) <= SumFunctionOnSet(w, old)
      /\ SumFunctionOnSet(w, new) \in Nat /\ SumFunctionOnSet(w, old) \in Nat
    BY <1>5, <1>7, SumOfPart, SumType, FS_Subset
<1>9. SumFunctionOnSet(w, old) <= MaxTotalSize + Overshoot
    BY <1>3, <1>5 DEF QuotaInv
<1>10. SumFunctionOnSet(w, new) <= MaxTotalSize + Overshoot
    BY <1>5, <1>8, <1>9, SizesAssumption
<1> QED BY <1>6, <1>10 DEF QuotaInv, Overshoot

\* An upload that was checked fits, but for the files of the others.
LEMMA QuotaCheck ==
    ASSUME QuotaInv, FilesInv', NEW u \in Uploaders, NEW f \in FileIds,
           NEW size \in 1..MaxFileSize, UploadCheck(u, f, size)
    PROVE  QuotaInv'
<1>0. DocTypeOK /\ FilesInv
    BY DEF QuotaInv, FilesInv
<1>1. /\ filing[u] = NotFiling /\ files[f].size = 0
      /\ SizeOf(Rowed) + size <= MaxTotalSize
      /\ files' = [files EXCEPT ![f].size = size]
      /\ filing' = [filing EXCEPT ![u] = [pc |-> "put", file |-> f]]
    BY SizesAssumption DEF UploadCheck, Fits, Goes, FileIds
<1>2. Rowed \subseteq FileIds /\ OnTheWay \subseteq FileIds
      /\ IsFiniteSet(FileIds)
    BY <1>0, FileSizes DEF Rowed, OnTheWay
<1>3. f \notin Rowed \cup OnTheWay
    <2>1. ~files[f].row
        BY <1>0, <1>1 DEF FilesInv, NoFile
    <2>2. ~Busy(f, Uploading)
        BY <1>0, <1>1, OnAFile DEF Busy, Uploading
    <2> QED BY <2>1, <2>2 DEF Rowed, OnTheWay
<1>4. Rowed' = Rowed /\ OnTheWay' \subseteq OnTheWay \cup {f}
    <2>1. \A g \in FileIds : files'[g].row = files[g].row
        BY <1>0, <1>1 DEF DocTypeOK, File
    <2>2. \A v \in Uploaders : filing'[v].pc \in Uploading /\ filing'[v].file # f
                               => filing'[v] = filing[v]
        BY <1>0, <1>1 DEF DocTypeOK
    <2> QED BY <2>1, <2>2 DEF Rowed, OnTheWay, Busy
<1>5. PICK w : w = SizeOfFiles
    OBVIOUS
<1>6. PICK v : v = SizeOfFiles'
    OBVIOUS
<1>7. /\ \A g \in FileIds : w[g] \in Nat
      /\ \A g \in FileIds \ {f} : v[g] = w[g]
      /\ v[f] = size /\ size \in Nat
    BY <1>0, <1>1, <1>5, <1>6, FileSizes, SizesAssumption DEF SizeOfFiles, DocTypeOK
<1>8. PICK both \in SUBSET FileIds : both = Rowed \cup OnTheWay
    BY <1>2
<1>9. PICK new \in SUBSET FileIds : new = (Rowed \cup OnTheWay)'
    BY DEF Rowed, OnTheWay
<1>10. new \in SUBSET (both \cup {f}) /\ f \notin both /\ IsFiniteSet(both)
       /\ IsFiniteSet(both \cup {f})
    BY <1>2, <1>3, <1>4, <1>8, <1>9, FS_Subset, FS_AddElement
<1>11. /\ SumFunctionOnSet(v, both) = SumFunctionOnSet(w, both)
       /\ SumFunctionOnSet(v, both \cup {f}) = size + SumFunctionOnSet(v, both)
       /\ SumFunctionOnSet(v, new) <= SumFunctionOnSet(v, both \cup {f})
       /\ SumFunctionOnSet(v, new) \in Nat /\ SumFunctionOnSet(w, both) \in Nat
    <2>1. \A g \in both : w[g] \in Nat /\ v[g] = w[g]
        BY <1>7, <1>10
    <2>2. \A g \in both \cup {f} : v[g] \in Nat
        BY <1>7, <2>1
    <2>3. IsFiniteSet(new) /\ \A g \in new : v[g] \in Nat
        BY <1>10, <2>2, FS_Subset
    <2>4. SumFunctionOnSet(v, both) = SumFunctionOnSet(w, both)
        BY <1>10, <2>1, SumSame
    <2>5. SumFunctionOnSet(v, both \cup {f}) = size + SumFunctionOnSet(v, both)
        BY <1>7, <1>10, <2>2, SumAdd
    <2>6. SumFunctionOnSet(v, new) <= SumFunctionOnSet(v, both \cup {f})
        BY <1>10, <2>2, SumOfPart
    <2> QED BY <1>10, <2>1, <2>3, <2>4, <2>5, <2>6, SumType
<1>12. /\ IsFiniteSet(OnTheWay) /\ SizeOf(OnTheWay) <= Overshoot
       /\ Overshoot \in Nat
    BY <1>0, <1>1, OthersOnTheWay, FileSizes
<1>13. /\ SumFunctionOnSet(w, both) <= SumFunctionOnSet(w, Rowed)
                                        + SumFunctionOnSet(w, OnTheWay)
       /\ SumFunctionOnSet(w, Rowed) \in Nat
       /\ SumFunctionOnSet(w, OnTheWay) \in Nat
    <2>1. IsFiniteSet(Rowed) /\ \A g \in Rowed \cup OnTheWay : w[g] \in Nat
        BY <1>2, <1>7, FS_Subset
    <2> QED BY <1>8, <1>12, <2>1, SumOfBoth, SumType
<1>14. /\ SizeOf(Rowed) = SumFunctionOnSet(w, Rowed)
       /\ SizeOf(OnTheWay) = SumFunctionOnSet(w, OnTheWay)
    BY <1>0, <1>5, FileSizes
<1>15. SumFunctionOnSet(v, new) <= MaxTotalSize + Overshoot
    BY <1>1, <1>7, <1>11, <1>12, <1>13, <1>14, SizesAssumption
<1>16. SizeOf(Rowed \cup OnTheWay)' = SumFunctionOnSet(v, new)
    BY <1>6, <1>9 DEF SizeOf, SizeOfFiles
<1> QED BY <1>15, <1>16 DEF QuotaInv, Overshoot

\* The invariant about the quota is inductive.
LEMMA QuotaStep == QuotaInv /\ [DocNext]_docVars => QuotaInv'
<1> SUFFICES ASSUME QuotaInv, [DocNext]_docVars PROVE QuotaInv'
    OBVIOUS
<1>1. FilesInv /\ FilesInv' /\ DocTypeOK
    BY FilesStep DEF QuotaInv, FilesInv
<1>2. CASE UNCHANGED docVars
    BY <1>1, <1>2, FewerFiles DEF docVars, Rowed, OnTheWay, Busy
<1>3. ASSUME NEW u \in Uploaders, NEW f \in FileIds, NEW size \in 1..MaxFileSize,
             UploadCheck(u, f, size)
      PROVE  QuotaInv'
    BY <1>1, <1>3, QuotaCheck
<1>4. ASSUME NEW u \in Uploaders, UploadPut(u) PROVE QuotaInv'
    <2>1. \A f \in FileIds : /\ files'[f].size = files[f].size
                             /\ files'[f].row = files[f].row
        BY <1>1, <1>4 DEF UploadPut, DocTypeOK, File
    <2>2. OnTheWay' \subseteq OnTheWay
        BY <1>1, <1>4 DEF UploadPut, Goes, Ends, OnTheWay, Busy, DocTypeOK,
              Uploading, NotFiling
    <2> QED BY <1>1, <2>1, <2>2, FewerFiles DEF Rowed
<1>5. ASSUME NEW u \in Uploaders, UploadCreate(u) PROVE QuotaInv'
    <2>1. \A f \in FileIds :
            /\ files'[f].size = files[f].size
            /\ files'[f].row => files[f].row \/ f = filing[u].file
        BY <1>1, <1>5 DEF UploadCreate, DocTypeOK, File
    <2>2. OnTheWay' \subseteq OnTheWay
        BY <1>1, <1>5 DEF UploadCreate, Ends, OnTheWay, Busy, DocTypeOK,
              Uploading, NotFiling
    <2>3. filing[u].file \in OnTheWay
        BY <1>1, <1>5, OnAFile DEF UploadCreate, OnTheWay, Busy, Uploading
    <2> QED BY <1>1, <2>1, <2>2, <2>3, FewerFiles DEF Rowed
<1>6. ASSUME NEW u \in Uploaders,
             \/ \E f \in FileIds : DeleteRead(u, f)
             \/ DeleteObject(u) \/ DeleteRow(u) \/ FilingFails(u)
      PROVE  QuotaInv'
    <2>1. \A f \in FileIds : /\ files'[f].size = files[f].size
                             /\ files'[f].row => files[f].row
        BY <1>1, <1>6 DEF DeleteRead, DeleteObject, DeleteRow, FilingFails,
              DocTypeOK, File
    <2>2. filing' = [filing EXCEPT ![u] = filing'[u]]
          /\ ~(filing'[u].pc \in Uploading)
        BY <1>1, <1>6 DEF DeleteRead, DeleteObject, DeleteRow, FilingFails,
              Goes, Ends, DocTypeOK, Uploading, NotFiling
    <2>3. OnTheWay' \subseteq OnTheWay
        BY <1>1, <2>2 DEF OnTheWay, Busy, DocTypeOK
    <2> QED BY <1>1, <2>1, <2>3, FewerFiles DEF Rowed
<1> QED BY <1>2, <1>3, <1>4, <1>5, <1>6 DEF DocNext

\* The files of an employee exceed the limit by one file for each other
\* request at most, with any number of requests (uploadDocument checks before
\* it stores).
THEOREM QuotaOvershootBounded == DocSpec => []QuotaBounded
<1>1. DocInit => QuotaInv
    <2> SUFFICES ASSUME DocInit PROVE QuotaInv
        OBVIOUS
    <2>1. FilesInv /\ DocTypeOK
        BY FilesInit DEF FilesInv
    <2>2. Rowed \cup OnTheWay = {}
        BY FilingTypes DEF DocInit, Rowed, OnTheWay, Busy, NoFile, Uploading
    <2>3. SizeOf(Rowed \cup OnTheWay) = 0
        BY <2>1, <2>2, FileSizes, SumEmpty
    <2> QED BY <2>1, <2>3, FileSizes, SizesAssumption DEF QuotaInv
<1>2. QuotaInv => QuotaBounded
    <2> SUFFICES ASSUME QuotaInv PROVE QuotaBounded
        OBVIOUS
    <2>1. DocTypeOK /\ Rowed \subseteq Rowed \cup OnTheWay
          /\ Rowed \cup OnTheWay \subseteq FileIds
        BY DEF QuotaInv, FilesInv, Rowed, OnTheWay
    <2>2. IsFiniteSet(Rowed \cup OnTheWay) /\ IsFiniteSet(Rowed)
        BY <2>1, FileSizes, FS_Subset
    <2>3. SumFunctionOnSet(SizeOfFiles, Rowed)
            <= SumFunctionOnSet(SizeOfFiles, Rowed \cup OnTheWay)
        BY <2>1, <2>2, FileSizes, SumOfPart
    <2>4. /\ SumFunctionOnSet(SizeOfFiles, Rowed) \in Nat
          /\ SumFunctionOnSet(SizeOfFiles, Rowed \cup OnTheWay) \in Nat
        BY <2>1, <2>2, FileSizes, SumType
    <2> QED BY <2>1, <2>3, <2>4, FileSizes, SizesAssumption
            DEF QuotaInv, QuotaBounded, Overshoot
<1> QED BY <1>1, <1>2, QuotaStep, PTL DEF DocSpec

-----------------------------------------------------------------------------
(* Roster *)

\* A plan that no write has outdated is apart from the schedules it was
\* compared with, as they are now.
Apart(plan) ==
    ~plan.late => \A x \in schedules :
        x.scope = plan.scope /\ x.id # plan.id => ~Conflict(plan.shift, x.shift)
\* A plan creates a row that nobody else writes, or keeps the scope of its row.
OwnPlace(plan, p) ==
    /\ plan.id <= created
    /\ plan.creates => /\ \A x \in schedules : x.id # plan.id
                       /\ \A q \in Planners \ {p} :
                            \A other \in planning[q] : other.id # plan.id
RosterInv ==
    /\ RosterTypeOK
    /\ \A x \in schedules : x.id <= created
    /\ \A x, y \in schedules : x.id = y.id => x = y
    /\ \A x, y \in schedules :
         x.scope = y.scope /\ x # y /\ Conflict(x.shift, y.shift) =>
            x.unseen \/ y.unseen
    /\ \A p \in Planners : \A plan \in planning[p] :
         /\ planning[p] = {plan} /\ Apart(plan) /\ OwnPlace(plan, p)
         /\ \A x \in schedules : x.id = plan.id => x.scope = plan.scope

\* A conflict is mutual.
LEMMA ConflictSymmetric ==
    ASSUME NEW a \in ShiftType, NEW b \in ShiftType, Conflict(a, b)
    PROVE  Conflict(b, a)
BY DEF Conflict, RangesOverlap, ShiftType

\* What starts a plan: it has been compared, and its id is new or that of a row.
Starts(p, plan) ==
    /\ planning[p] = {} /\ planning' = [planning EXCEPT ![p] = {plan}]
    /\ UNCHANGED schedules /\ ~plan.late
    /\ created' \in {created, created + 1} /\ created' \in 0 .. MaxSchedules
    /\ IF plan.creates THEN plan.id = created + 1 /\ created' = plan.id
       ELSE \E x \in schedules : x.id = plan.id
    /\ \A x \in schedules :
        /\ x.scope = plan.scope /\ x.id # plan.id => ~Conflict(plan.shift, x.shift)
        /\ x.id = plan.id => x.scope = plan.scope
\* A plan that has been compared may start.
LEMMA PlanReadStep ==
    ASSUME RosterInv, NEW p \in Planners, NEW plan \in Plan, Starts(p, plan)
    PROVE  RosterInv'
<1> USE DEF Starts
<1>1. /\ RosterTypeOK /\ created \in Nat /\ schedules' = schedules
      /\ \A x \in schedules : x.id \in Nat
      /\ \A q \in Planners : \A x \in planning[q] : x.id \in Nat /\ x.id <= created
      /\ plan.id \in Nat /\ created <= created' /\ plan.id <= created'
    BY DEF RosterInv, RosterTypeOK, Schedule, Plan, OwnPlace
<1>2. RosterTypeOK'
    BY <1>1 DEF RosterTypeOK
<1>3. /\ planning'[p] = {plan}
      /\ \A q \in Planners \ {p} : planning'[q] = planning[q]
    BY <1>1 DEF RosterTypeOK
<1>4. /\ \A x \in schedules : x.id <= created /\ x.id <= created'
      /\ \A x, y \in schedules : x.id = y.id => x = y
      /\ \A x, y \in schedules :
           x.scope = y.scope /\ x # y /\ Conflict(x.shift, y.shift) =>
              x.unseen \/ y.unseen
    BY <1>1 DEF RosterInv
<1>5. ASSUME NEW q \in Planners, NEW other \in planning'[q]
      PROVE  /\ planning'[q] = {other} /\ Apart(other)' /\ OwnPlace(other, q)'
             /\ \A x \in schedules' : x.id = other.id => x.scope = other.scope
    <2>1. CASE q = p
        <3>1. other = plan /\ planning'[q] = {other}
            BY <1>3, <1>5, <2>1
        <3>2. plan.creates => /\ \A x \in schedules : x.id # plan.id
                              /\ \A r \in Planners \ {p} :
                                   \A o \in planning'[r] : o.id # plan.id
            BY <1>1, <1>3, <1>4
        <3>3. Apart(plan)'
            BY <1>1 DEF Apart
        <3> QED BY <1>1, <2>1, <3>1, <3>2, <3>3 DEF OwnPlace
    <2>2. CASE q # p
        <3>1. /\ other \in planning[q] /\ planning[q] = {other}
              /\ planning'[q] = {other}
              /\ Apart(other) /\ OwnPlace(other, q)
              /\ \A x \in schedules : x.id = other.id => x.scope = other.scope
            BY <1>3, <1>5, <2>2 DEF RosterInv
        <3>2. Apart(other)'
            BY <1>1, <3>1 DEF Apart
        <3>3. other.id # plan.id \/ ~other.creates
            <4>1. CASE plan.creates
                BY <1>1, <3>1, <4>1
            <4>2. CASE ~plan.creates
                BY <1>1, <3>1, <4>2 DEF OwnPlace
            <4> QED BY <4>1, <4>2
        <3>4. OwnPlace(other, q)'
            BY <1>1, <1>3, <3>1, <3>3 DEF OwnPlace
        <3> QED BY <1>1, <3>1, <3>2, <3>4
    <2> QED BY <2>1, <2>2
<1> QED BY <1>1, <1>2, <1>4, <1>5 DEF RosterInv

LEMMA CreateReadStep ==
    ASSUME RosterInv, NEW p \in Planners, NEW scope \in AnyScope, NEW shift \in Shifts,
           CreateRead(p, scope, shift)
    PROVE  RosterInv'
<1> DEFINE plan == [id |-> created + 1, scope |-> scope, shift |-> shift,
                    creates |-> TRUE, late |-> FALSE]
<1>1. created \in 0 .. MaxSchedules /\ created < MaxSchedules
      /\ \A x \in schedules : x.id \in Nat \ {0} /\ x.id <= created
    BY DEF RosterInv, RosterTypeOK, CreateRead, Schedule
<1>2. plan \in Plan /\ created + 1 \in 0 .. MaxSchedules
    BY <1>1, RosterAssumption DEF Plan
<1>3. planning[p] = {} /\ planning' = [planning EXCEPT ![p] = {plan}]
      /\ UNCHANGED schedules /\ created' = created + 1
    BY DEF CreateRead
<1>4. \A x \in schedules : x.scope = scope => ~Conflict(shift, x.shift)
    BY <1>1 DEF CreateRead, AssertNoOverlap
<1>5. ~plan.late /\ plan.creates /\ plan.id = created + 1
      /\ plan.scope = scope /\ plan.shift = shift
    OBVIOUS
<1> HIDE DEF plan
<1>6. Starts(p, plan)
    BY <1>1, <1>2, <1>3, <1>4, <1>5 DEF Starts
<1> QED BY <1>2, <1>6, PlanReadStep

LEMMA UpdateReadStep ==
    ASSUME RosterInv, NEW p \in Planners, NEW x \in schedules, NEW shift \in Shifts,
           UpdateRead(p, x, shift)
    PROVE  RosterInv'
<1> DEFINE plan == [id |-> x.id, scope |-> x.scope, shift |-> shift,
                    creates |-> FALSE, late |-> FALSE]
<1>1. x \in Schedule /\ created \in 0 .. MaxSchedules
      /\ \A y \in schedules : y.id = x.id => y = x
    BY DEF RosterInv, RosterTypeOK
<1>2. plan \in Plan
    BY <1>1 DEF Plan, Schedule
<1>3. planning[p] = {} /\ planning' = [planning EXCEPT ![p] = {plan}]
      /\ UNCHANGED <<schedules, created>>
    BY DEF UpdateRead
<1>4. \A y \in schedules : y.scope = x.scope /\ y.id # x.id => ~Conflict(shift, y.shift)
    BY DEF UpdateRead, AssertNoOverlap
<1>5. ~plan.late /\ ~plan.creates /\ plan.id = x.id
      /\ plan.scope = x.scope /\ plan.shift = shift
    OBVIOUS
<1> HIDE DEF plan
<1>6. Starts(p, plan)
    BY <1>1, <1>2, <1>3, <1>4, <1>5 DEF Starts
<1> QED BY <1>2, <1>6, PlanReadStep

\* What the plans of the others are after a write.
LEMMA OutdatedPlans ==
    ASSUME RosterInv, NEW scope,
           NEW q \in Planners, NEW new \in Outdated(scope)[q]
    PROVE  \E plan \in planning[q] :
             /\ Outdated(scope)[q] = {new} /\ new \in Plan
             /\ new = [plan EXCEPT !.late = new.late]
             /\ new.id = plan.id /\ new.scope = plan.scope /\ new.shift = plan.shift
             /\ (new.creates <=> plan.creates)
             /\ new.late <=> (plan.late \/ plan.scope = scope)
<1>1. PICK plan \in planning[q] : new = [plan EXCEPT !.late = @ \/ plan.scope = scope]
    BY DEF Outdated
<1>2. planning[q] = {plan} /\ plan \in Plan
    BY DEF RosterInv, RosterTypeOK
<1>3. Outdated(scope)[q] = {new}
    BY <1>1, <1>2 DEF Outdated
<1>4. new \in Plan
    BY <1>1, <1>2 DEF Plan
<1>5. /\ new.id = plan.id /\ new.scope = plan.scope /\ new.shift = plan.shift
      /\ (new.creates <=> plan.creates)
      /\ new.late <=> (plan.late \/ plan.scope = scope)
    BY <1>1, <1>2 DEF Plan
<1>6. new = [plan EXCEPT !.late = new.late]
    BY <1>1, <1>2 DEF Plan
<1> QED BY <1>1, <1>3, <1>4, <1>5, <1>6

\* A write puts its row next to those it has been compared with, or is marked.
LEMMA WriteStep ==
    ASSUME RosterInv, NEW p \in Planners, Write(p)
    PROVE  RosterInv'
<1>1. PICK plan \in planning[p] :
        LET old == {x \in schedules : x.id = plan.id} IN
        /\ schedules' = IF plan.creates \/ old # {}
                        THEN (schedules \ old) \cup
                             {[id |-> plan.id, scope |-> plan.scope,
                               shift |-> plan.shift, unseen |-> plan.late]}
                        ELSE schedules
        /\ planning' = [Outdated(plan.scope) EXCEPT ![p] = {}]
        /\ UNCHANGED created
    BY DEF Write
<1>2. PICK row : row = [id |-> plan.id, scope |-> plan.scope,
                        shift |-> plan.shift, unseen |-> plan.late]
    OBVIOUS
<1>3. /\ plan \in Plan /\ Apart(plan) /\ OwnPlace(plan, p)
      /\ \A x \in schedules : x.id = plan.id => x.scope = plan.scope
      /\ RosterTypeOK
    BY DEF RosterInv, RosterTypeOK
<1>4. /\ row \in Schedule /\ row.id = plan.id /\ row.scope = plan.scope
      /\ row.shift = plan.shift /\ (row.unseen <=> plan.late)
      /\ row.shift \in ShiftType /\ row.id <= created
    BY <1>2, <1>3, RosterAssumption DEF Plan, Schedule, OwnPlace
<1>5. \A x \in schedules' : \/ x \in schedules /\ x.id # row.id
                            \/ x = row
                            \/ x \in schedules /\ x.id = row.id /\ schedules' = schedules
    BY <1>1, <1>2, <1>4
<1>6. schedules' = schedules => \A x \in schedules' : x = row \/ x.id # row.id
    <2> SUFFICES ASSUME schedules' = schedules, NEW x \in schedules, x.id = row.id
                 PROVE  x = row
        OBVIOUS
    <2>1. x \in {y \in schedules : y.id = plan.id}
        BY <1>4
    <2>2. row \in schedules
        BY <1>1, <1>2, <2>1
    <2> QED BY <1>4, <2>2 DEF RosterInv
<1>7. \A x \in schedules' : x = row \/ (x \in schedules /\ x.id # row.id)
    BY <1>5, <1>6
<1>8. /\ \A q \in Planners \ {p} : planning'[q] = Outdated(plan.scope)[q]
      /\ planning'[p] = {} /\ DOMAIN planning' = Planners
      /\ planning' = [q \in Planners |-> planning'[q]] /\ created' = created
    BY <1>1 DEF Outdated
<1>9. RosterTypeOK'
    <2>1. schedules' \subseteq Schedule
        BY <1>3, <1>4, <1>7 DEF RosterTypeOK
    <2>2. \A q \in Planners : planning'[q] \subseteq Plan
        BY <1>8, OutdatedPlans
    <2> QED BY <1>3, <1>8, <2>1, <2>2 DEF RosterTypeOK
<1>10. \A x \in schedules' : x.id <= created'
    BY <1>4, <1>7, <1>8 DEF RosterInv
<1>11. ASSUME NEW x \in schedules', NEW y \in schedules', x.id = y.id
       PROVE  x = y
    BY <1>7, <1>11 DEF RosterInv
<1>12. ASSUME NEW x \in schedules', NEW y \in schedules',
              x.scope = y.scope, x # y, Conflict(x.shift, y.shift)
       PROVE  x.unseen \/ y.unseen
    <2>1. x.shift \in ShiftType /\ y.shift \in ShiftType
        BY <1>9, RosterAssumption DEF RosterTypeOK, Schedule
    <2>2. Conflict(y.shift, x.shift)
        BY <1>12, <2>1, ConflictSymmetric
    <2>3. CASE x = row
        BY <1>3, <1>4, <1>7, <1>12, <2>3 DEF Apart
    <2>4. CASE y = row
        BY <1>3, <1>4, <1>7, <1>12, <2>2, <2>4 DEF Apart
    <2>5. CASE x # row /\ y # row
        BY <1>7, <1>12, <2>5 DEF RosterInv
    <2> QED BY <2>3, <2>4, <2>5
<1>13. ASSUME NEW q \in Planners, NEW new \in planning'[q]
       PROVE  /\ planning'[q] = {new} /\ Apart(new)' /\ OwnPlace(new, q)'
              /\ \A x \in schedules' : x.id = new.id => x.scope = new.scope
    <2>1. q # p /\ new \in Outdated(plan.scope)[q] /\ planning'[q] = Outdated(plan.scope)[q]
        BY <1>8, <1>13
    <2>2. PICK mine \in planning[q] :
             /\ Outdated(plan.scope)[q] = {new}
             /\ new.id = mine.id /\ new.scope = mine.scope /\ new.shift = mine.shift
             /\ (new.creates <=> mine.creates)
             /\ new.late <=> (mine.late \/ mine.scope = plan.scope)
        BY <2>1, OutdatedPlans
    <2>3. /\ Apart(mine) /\ OwnPlace(mine, q)
          /\ \A x \in schedules : x.id = mine.id => x.scope = mine.scope
        BY DEF RosterInv
    <2>4. Apart(new)'
        BY <1>4, <1>7, <2>2, <2>3 DEF Apart
    <2>5. new.creates => new.id # row.id
        BY <1>4, <2>1, <2>2, <2>3 DEF OwnPlace
    <2>6. OwnPlace(new, q)'
        <3>1. new.id <= created'
            BY <1>8, <2>2, <2>3 DEF OwnPlace
        <3>2. new.creates => \A x \in schedules' : x.id # new.id
            BY <1>7, <2>2, <2>3, <2>5 DEF OwnPlace
        <3>3. ASSUME new.creates, NEW r \in Planners \ {q}, NEW other \in planning'[r]
              PROVE  other.id # new.id
            <4>1. r # p /\ other \in Outdated(plan.scope)[r]
                BY <1>8, <3>3
            <4>2. PICK o \in planning[r] : other.id = o.id
                BY <4>1, OutdatedPlans
            <4> QED BY <2>2, <2>3, <3>3, <4>2 DEF OwnPlace
        <3> QED BY <3>1, <3>2, <3>3 DEF OwnPlace
    <2>7. ASSUME NEW x \in schedules', x.id = new.id
          PROVE  x.scope = new.scope
        <3>1. CASE x = row
            <4>1. mine.id = plan.id /\ ~plan.creates
                BY <1>3, <1>4, <2>1, <2>2, <2>7, <3>1 DEF OwnPlace
            <4>2. PICK y \in schedules : y.id = plan.id
                BY <1>1, <1>4, <2>7, <3>1, <4>1
            <4> QED BY <1>3, <1>4, <2>2, <2>3, <3>1, <4>1, <4>2
        <3>2. CASE x # row
            BY <1>7, <2>2, <2>3, <2>7, <3>2
        <3> QED BY <3>1, <3>2
    <2> QED BY <2>1, <2>2, <2>4, <2>6, <2>7
<1> QED BY <1>9, <1>10, <1>11, <1>12, <1>13 DEF RosterInv

LEMMA DeleteScheduleStep ==
    ASSUME RosterInv, NEW gone \in schedules, DeleteSchedule(gone)
    PROVE  RosterInv'
<1>1. schedules' \subseteq schedules /\ UNCHANGED <<created, planning>>
    BY DEF DeleteSchedule
<1> QED BY <1>1 DEF RosterInv, RosterTypeOK, Apart, OwnPlace

LEMMA RosterStep == RosterInv /\ [RosterNext]_rosterVars => RosterInv'
<1> SUFFICES ASSUME RosterInv, [RosterNext]_rosterVars PROVE RosterInv'
    OBVIOUS
<1>1. CASE UNCHANGED rosterVars
    BY <1>1 DEF rosterVars, RosterInv, RosterTypeOK, Apart, OwnPlace
<1>2. CASE RosterNext
    BY <1>2, CreateReadStep, UpdateReadStep, WriteStep, DeleteScheduleStep
       DEF RosterNext
<1> QED BY <1>1, <1>2

LEMMA RosterStart == RosterInit => RosterInv
BY RosterAssumption DEF RosterInit, RosterInv, RosterTypeOK

\* Two schedules that compete for a date of a member either share no weekday
\* or were written side by side, for any number of planners (RosterService
\* compares, and writes in a later statement).
THEOREM DatesResolveToOne == RosterSpec => []ResolvesToOne
<1>1. RosterInv => ResolvesToOne
    <2> SUFFICES ASSUME RosterInv, NEW member \in Scopes, NEW date \in 1 .. LastDate,
                        NEW x \in Found(member, date), NEW y \in Found(member, date),
                        x # y, x.shift.days \cap y.shift.days # {}
                 PROVE  x.unseen \/ y.unseen
        BY DEF ResolvesToOne
    <2>1. /\ x \in schedules /\ y \in schedules /\ x.scope = y.scope
          /\ x.shift.from <= date /\ date <= x.shift.to
          /\ y.shift.from <= date /\ date <= y.shift.to
        BY DEF Found, InForce
    <2>2. x.shift \in ShiftType /\ y.shift \in ShiftType
        BY <2>1, RosterAssumption DEF RosterInv, RosterTypeOK, Schedule
    <2>3. RangesOverlap(x.shift, y.shift)
        BY <2>1, <2>2 DEF RangesOverlap, ShiftType
    <2> QED BY <2>1, <2>3 DEF RosterInv, Conflict
<1> QED BY <1>1, RosterStart, RosterStep, PTL DEF RosterSpec

-----------------------------------------------------------------------------
(* Holidays *)

\* Rows and requests have their types, and each list is gone through by one
\* request at a time.
HolidayInv ==
    /\ HolidayTypeOK
    /\ listing \in [Lists -> SUBSET Listing]
    /\ \A l \in Lists : \A r \in listing[l] : listing[l] = {r}

\* The row of one organization on one date is written, or is gone.
OwnChanges(o, d) ==
    \E rows \in SUBSET OwnRow : /\ rows = {} \/ \E row \in OwnRow : rows = {row}
                                /\ own' = [own EXCEPT ![o][d] = rows]
\* A list is at rest, or is gone through by this request.
ListChanges ==
    \/ UNCHANGED listing
    \/ \E l \in Lists : \/ Becomes(l, {})
                        \/ \E r \in Listing : Becomes(l, {r})

\* A change of the master list and of at most one day of one organization.
LEMMA RowStep ==
    ASSUME HolidayInv, masters' \subseteq MasterRow, made' \in 0 .. MaxHolidays,
           \/ UNCHANGED own
           \/ \E o \in Orgs, d \in Dates : OwnChanges(o, d),
           ListChanges
    PROVE  HolidayInv'
<1>1. /\ own \in [Orgs -> [Dates -> SUBSET OwnRow]]
      /\ \A o \in Orgs, d \in Dates : Cardinality(own[o][d]) <= 1
    BY DEF HolidayInv, HolidayTypeOK
<1>2. /\ own' \in [Orgs -> [Dates -> SUBSET OwnRow]]
      /\ \A o \in Orgs, d \in Dates : Cardinality(own'[o][d]) <= 1
    <2>1. CASE UNCHANGED own
        BY <1>1, <2>1
    <2>2. ASSUME NEW o \in Orgs, NEW d \in Dates, OwnChanges(o, d)
          PROVE  /\ own' \in [Orgs -> [Dates -> SUBSET OwnRow]]
                 /\ \A p \in Orgs, e \in Dates : Cardinality(own'[p][e]) <= 1
        <3>1. PICK rows \in SUBSET OwnRow :
                /\ rows = {} \/ \E row \in OwnRow : rows = {row}
                /\ own' = [own EXCEPT ![o][d] = rows]
            BY <2>2 DEF OwnChanges
        <3>2. Cardinality(rows) = 0 \/ Cardinality(rows) = 1
            BY <3>1, FS_EmptySet, FS_Singleton
        <3>3. \A p \in Orgs, e \in Dates : \/ own'[p][e] = own[p][e]
                                           \/ own'[p][e] = rows
            BY <1>1, <3>1
        <3>4. own' \in [Orgs -> [Dates -> SUBSET OwnRow]]
            BY <1>1, <3>1
        <3>5. ASSUME NEW p \in Orgs, NEW e \in Dates
              PROVE  Cardinality(own'[p][e]) <= 1
            <4>1. CASE own'[p][e] = own[p][e]
                BY <1>1, <4>1
            <4>2. CASE own'[p][e] = rows
                BY <3>2, <4>2
            <4> QED BY <3>3, <4>1, <4>2
        <3> QED BY <3>4, <3>5
    <2> QED BY <2>1, <2>2
<1>3. /\ listing' \in [Lists -> SUBSET Listing]
      /\ \A l \in Lists : \A r \in listing'[l] : listing'[l] = {r}
    BY DEF ListChanges, Becomes, HolidayInv
<1> QED BY <1>2, <1>3 DEF HolidayInv, HolidayTypeOK

\* A new master row has its types.
LEMMA NewMasterStep ==
    ASSUME HolidayInv, NEW d \in Dates, NEW name \in Names, NEW type \in Types,
           NewMaster(d, name, type)
    PROVE  /\ made' \in 0 .. MaxHolidays /\ masters' \subseteq MasterRow
           /\ \E m \in MasterRow : m.date = d /\ masters' = masters \cup {m}
<1> DEFINE m == [id |-> made + 1, date |-> d, name |-> name, type |-> type,
                 active |-> TRUE]
<1>1. made \in 0 .. MaxHolidays /\ made < MaxHolidays /\ made' = made + 1
    BY DEF NewMaster, Made, HolidayInv, HolidayTypeOK
<1>2. made + 1 \in 1 .. MaxHolidays
    BY <1>1, HolidaysAssumption
<1>3. m \in MasterRow /\ m.date = d /\ masters' = masters \cup {m}
    BY <1>1, <1>2 DEF NewMaster, MasterRow
<1> HIDE DEF m
<1> QED BY <1>1, <1>2, <1>3, HolidaysAssumption DEF HolidayInv, HolidayTypeOK

\* What a step of an organization's admin may do to the rows: add a listed
\* date to the master holidays, or write a row of their own.
LEMMA OrgStepRows ==
    ASSUME HolidayInv, NEW o \in Orgs, OrgStep(o)
    PROVE  /\ HolidayInv'
           /\ \/ UNCHANGED <<masters, own>>
              \/ /\ UNCHANGED own
                 /\ \E m \in MasterRow : m.date \in Listed /\ masters' = masters \cup {m}
              \/ UNCHANGED masters /\ \E d \in Dates : OwnChanges(o, d)
<1>0. /\ masters \subseteq MasterRow /\ made \in 0 .. MaxHolidays
      /\ o # SuperAdmin /\ Listed \subseteq Dates /\ listing \in [Lists -> SUBSET Listing]
      /\ own \in [Orgs -> [Dates -> SUBSET OwnRow]]
    BY HolidaysAssumption DEF HolidayInv, HolidayTypeOK
<1>1. ASSUME NEW l \in Lists, NEW d \in Dates, MasterRead(l, o, d)
      PROVE  HolidayInv' /\ UNCHANGED <<masters, own>>
    <2>1. [by |-> o, todo |-> {}, found |-> {d}] \in Listing
        BY DEF Listing
    <2> QED BY <1>0, <1>1, <2>1, RowStep DEF MasterRead, ListChanges
<1>2. ASSUME NEW l \in Lists, ImportRead(l, o)
      PROVE  HolidayInv' /\ UNCHANGED <<masters, own>>
    <2>1. [by |-> o, todo |-> {m \in masters : m.active}, found |-> {}] \in Listing
        BY <1>0 DEF Listing
    <2> QED BY <1>0, <1>2, <2>1, RowStep DEF ImportRead, ListChanges
<1>3. ASSUME NEW l \in Lists, NEW r \in listing[l], r.by = o, MasterCreate(l)
      PROVE  /\ HolidayInv' /\ UNCHANGED own
             /\ \E m \in MasterRow : m.date \in Listed /\ masters' = masters \cup {m}
    <2>1. PICK s \in listing[l] : \E d \in s.found :
            /\ \/ d \in Listed /\ NewMaster(d, "listed", "PUBLIC_HOLIDAY")
               \/ /\ s.by = SuperAdmin
                  /\ \E type \in MasterTypes : NewMaster(d, "other", type)
            /\ Becomes(l, {})
            /\ UNCHANGED own
        BY <1>3 DEF MasterCreate
    <2>2. s = r
        BY <1>3 DEF HolidayInv
    <2>3. PICK d \in Listed : /\ NewMaster(d, "listed", "PUBLIC_HOLIDAY")
                              /\ Becomes(l, {})
                              /\ UNCHANGED own
        BY <1>0, <1>3, <2>1, <2>2
    <2>4. /\ made' \in 0 .. MaxHolidays /\ masters' \subseteq MasterRow
          /\ \E m \in MasterRow : m.date = d /\ masters' = masters \cup {m}
        BY <1>0, <2>3, NewMasterStep DEF Names, Types, MasterTypes
    <2>5. HolidayInv'
        BY <2>3, <2>4, RowStep DEF ListChanges
    <2> QED BY <2>3, <2>4, <2>5
<1>4. ASSUME NEW l \in Lists, NEW r \in listing[l], r.by = o, ImportNext(l)
      PROVE  /\ HolidayInv' /\ UNCHANGED masters
             /\ UNCHANGED own \/ \E d \in Dates : OwnChanges(o, d)
    <2>1. PICK s \in listing[l] : \E m \in s.todo :
            LET before == own[s.by][m.date]
                rest == {[s EXCEPT !.todo = @ \ {m}]}
            IN  /\ \/ /\ before = {} /\ Made
                      /\ own' = [own EXCEPT ![s.by][m.date] =
                                   {[name |-> m.name, type |-> m.type,
                                     active |-> TRUE]}]
                   \/ before # {} /\ UNCHANGED <<own, made>>
                /\ Becomes(l, IF \A b \in before : b.name = m.name
                              THEN {x \in rest : x.todo # {}} ELSE {})
                /\ UNCHANGED masters
        BY <1>4 DEF ImportNext
    <2>2. PICK m \in s.todo :
            LET before == own[s.by][m.date]
                rest == {[s EXCEPT !.todo = @ \ {m}]}
            IN  /\ \/ /\ before = {} /\ Made
                      /\ own' = [own EXCEPT ![s.by][m.date] =
                                   {[name |-> m.name, type |-> m.type,
                                     active |-> TRUE]}]
                   \/ before # {} /\ UNCHANGED <<own, made>>
                /\ Becomes(l, IF \A b \in before : b.name = m.name
                              THEN {x \in rest : x.todo # {}} ELSE {})
                /\ UNCHANGED masters
        BY <2>1
    <2>3. s = r /\ s \in Listing /\ s.by = o /\ m \in MasterRow /\ m.date \in Dates
        BY <1>0, <1>4 DEF HolidayInv, Listing, MasterRow
    <2>4. PICK next : next = [s EXCEPT !.todo = @ \ {m}]
        OBVIOUS
    <2>5. next \in Listing
        BY <2>3, <2>4 DEF Listing
    <2>6. ListChanges
        <3>1. Becomes(l, {}) \/ Becomes(l, {next})
            <4>1. {x \in {next} : x.todo # {}} \in {{}, {next}}
                OBVIOUS
            <4> QED BY <2>2, <2>4, <4>1
        <3> QED BY <2>5, <3>1 DEF ListChanges
    <2>7. [name |-> m.name, type |-> m.type, active |-> TRUE] \in OwnRow
        BY <2>3 DEF MasterRow, OwnRow
    <2>8. UNCHANGED own \/ OwnChanges(o, m.date)
        BY <2>2, <2>3, <2>7 DEF OwnChanges
    <2>9. made' \in 0 .. MaxHolidays /\ UNCHANGED masters
        BY <1>0, <2>2, HolidaysAssumption DEF Made
    <2>10. HolidayInv'
        BY <1>0, <2>3, <2>6, <2>8, <2>9, RowStep
    <2> QED BY <2>3, <2>8, <2>9, <2>10
<1>5. ASSUME NEW d \in Dates, NEW row \in OwnRow, CreateOwn(o, d, row)
      PROVE  HolidayInv' /\ UNCHANGED masters /\ OwnChanges(o, d)
    <2>1. OwnChanges(o, d)
        BY <1>5 DEF CreateOwn, OwnChanges
    <2>2. made' \in 0 .. MaxHolidays /\ UNCHANGED <<masters, listing>>
        BY <1>0, <1>5, HolidaysAssumption DEF CreateOwn, Made
    <2> QED BY <1>0, <2>1, <2>2, RowStep DEF ListChanges
<1>6. ASSUME NEW of \in Orgs, NEW d \in Dates, EditOwn(o, of, d)
      PROVE  HolidayInv' /\ UNCHANGED masters /\ OwnChanges(o, d)
    <2>1. of = o
        BY <1>0, <1>6 DEF EditOwn, MayEdit
    <2>2. OwnChanges(o, d)
        <3>1. PICK row \in own[o][d] :
                \/ own' = [own EXCEPT ![o][d] = {}]
                \/ \E on \in BOOLEAN :
                    own' = [own EXCEPT ![o][d] = {[row EXCEPT !.active = on]}]
            BY <1>6, <2>1 DEF EditOwn
        <3>2. \A on \in BOOLEAN : [row EXCEPT !.active = on] \in OwnRow
            BY <1>0 DEF OwnRow
        <3> QED BY <3>1, <3>2 DEF OwnChanges
    <2>3. UNCHANGED <<masters, made, listing>>
        BY <1>6 DEF EditOwn
    <2> QED BY <1>0, <2>2, <2>3, RowStep DEF ListChanges
<1>7. ASSUME NEW m \in masters PROVE ~EditMaster(o, m)
    BY <1>0 DEF EditMaster, MayEdit
<1> QED BY <1>1, <1>2, <1>3, <1>4, <1>5, <1>6, <1>7 DEF OrgStep

LEMMA SuperAdminStepTypes ==
    ASSUME HolidayInv, SuperAdminStep
    PROVE  HolidayInv'
<1>0. /\ masters \subseteq MasterRow /\ made \in 0 .. MaxHolidays
      /\ listing \in [Lists -> SUBSET Listing] /\ Listed \subseteq Dates
      /\ own \in [Orgs -> [Dates -> SUBSET OwnRow]]
    BY HolidaysAssumption DEF HolidayInv, HolidayTypeOK
<1>1. ASSUME NEW l \in Lists, NEW d \in Dates, MasterRead(l, SuperAdmin, d)
      PROVE  HolidayInv'
    <2>1. [by |-> SuperAdmin, todo |-> {}, found |-> {d}] \in Listing
        BY DEF Listing
    <2> QED BY <1>0, <1>1, <2>1, RowStep DEF MasterRead, ListChanges
<1>2. ASSUME NEW l \in Lists, MasterCreate(l)
      PROVE  HolidayInv'
    <2>1. PICK s \in listing[l] : \E d \in s.found :
            /\ \/ d \in Listed /\ NewMaster(d, "listed", "PUBLIC_HOLIDAY")
               \/ /\ s.by = SuperAdmin
                  /\ \E type \in MasterTypes : NewMaster(d, "other", type)
            /\ Becomes(l, {})
            /\ UNCHANGED own
        BY <1>2 DEF MasterCreate
    <2>2. s \in Listing
        BY <1>0
    <2>3. PICK d \in Dates : /\ \E name \in Names, type \in Types :
                                    NewMaster(d, name, type)
                             /\ Becomes(l, {})
                             /\ UNCHANGED own
        BY <1>0, <2>1, <2>2 DEF Names, Types, MasterTypes, Listing
    <2>4. made' \in 0 .. MaxHolidays /\ masters' \subseteq MasterRow
        BY <1>0, <2>3, NewMasterStep
    <2> QED BY <2>3, <2>4, RowStep DEF ListChanges
<1>3. ASSUME NEW d \in Dates, CreateNational(d)
      PROVE  HolidayInv'
    <2>1. made' \in 0 .. MaxHolidays /\ masters' \subseteq MasterRow
        BY <1>3, NewMasterStep DEF CreateNational, Names
    <2> QED BY <1>3, <2>1, RowStep DEF CreateNational, ListChanges
<1>4. ASSUME NEW of \in Orgs, NEW d \in Dates, EditOwn(SuperAdmin, of, d)
      PROVE  HolidayInv'
    <2>1. OwnChanges(of, d)
        <3>1. PICK row \in own[of][d] :
                \/ own' = [own EXCEPT ![of][d] = {}]
                \/ \E on \in BOOLEAN :
                    own' = [own EXCEPT ![of][d] = {[row EXCEPT !.active = on]}]
            BY <1>4 DEF EditOwn
        <3>2. \A on \in BOOLEAN : [row EXCEPT !.active = on] \in OwnRow
            BY <1>0 DEF OwnRow
        <3> QED BY <3>1, <3>2 DEF OwnChanges
    <2> QED BY <1>0, <1>4, <2>1, RowStep DEF EditOwn, ListChanges
<1>5. ASSUME NEW m \in masters, EditMaster(SuperAdmin, m)
      PROVE  HolidayInv'
    <2>1. \A on \in BOOLEAN : [m EXCEPT !.active = on] \in MasterRow
        BY <1>0 DEF MasterRow
    <2>2. masters' \subseteq MasterRow /\ UNCHANGED <<own, made, listing>>
        BY <1>0, <1>5, <2>1 DEF EditMaster
    <2> QED BY <1>0, <2>2, RowStep DEF ListChanges
<1> QED BY <1>1, <1>2, <1>3, <1>4, <1>5 DEF SuperAdminStep

LEMMA HolidayStep == HolidayInv /\ [HolidayNext]_holidayVars => HolidayInv'
<1> SUFFICES ASSUME HolidayInv, [HolidayNext]_holidayVars PROVE HolidayInv'
    OBVIOUS
<1>1. CASE UNCHANGED holidayVars
    BY <1>1 DEF holidayVars, HolidayInv, HolidayTypeOK
<1>2. ASSUME NEW l \in Lists, ListingFails(l) PROVE HolidayInv'
    BY <1>2, RowStep DEF ListingFails, ListChanges, HolidayInv, HolidayTypeOK
<1> QED BY <1>1, <1>2, OrgStepRows, SuperAdminStepTypes DEF HolidayNext

LEMMA HolidayStart == HolidayInit => HolidayInv
<1> SUFFICES ASSUME HolidayInit PROVE HolidayInv
    OBVIOUS
<1>1. /\ masters = {} /\ made = 0
      /\ own = [o \in Orgs |-> [d \in Dates |-> {}]]
      /\ listing = [l \in Lists |-> {}]
    BY DEF HolidayInit
<1>2. \A o \in Orgs, d \in Dates : Cardinality(own[o][d]) <= 1
    BY <1>1, FS_EmptySet
<1> QED BY <1>1, <1>2, HolidaysAssumption DEF HolidayInv, HolidayTypeOK

\* Types, and one row of an organization for a date, as the key of the table
\* has it.
THEOREM HolidayTypes == HolidaySpec => []HolidayTypeOK
<1>1. HolidayInv => HolidayTypeOK
    BY DEF HolidayInv
<1> QED BY <1>1, HolidayStart, HolidayStep, PTL DEF HolidaySpec

\* A step of one organization's admin takes no day off from another one and
\* gives it only a listed one (createHoliday, syncNepalHolidays, importHolidays,
\* updateHoliday, deleteHoliday).
THEOREM OrganizationsApart == HolidaySpec => OthersUnaffected
<1> DEFINE Affects == \A o \in Orgs : DaysOff(o)' # DaysOff(o) =>
                        \A other \in Orgs \ {o} : OrgStep(other) =>
                           /\ DaysOff(o) \subseteq DaysOff(o)'
                           /\ DaysOff(o)' \subseteq DaysOff(o) \cup Listed
<1>1. HolidayInv /\ [HolidayNext]_holidayVars => [Affects]_holidayVars
    <2> SUFFICES ASSUME HolidayInv, NEW o \in Orgs, NEW other \in Orgs \ {o},
                        OrgStep(other)
                 PROVE  /\ DaysOff(o) \subseteq DaysOff(o)'
                        /\ DaysOff(o)' \subseteq DaysOff(o) \cup Listed
        OBVIOUS
    <2>1. \A d \in Dates : OwnChanges(other, d) => own'[o] = own[o]
        BY DEF OwnChanges, HolidayInv, HolidayTypeOK
    <2>2. own'[o] = own[o]
        BY <2>1, OrgStepRows
    <2>4. UNCHANGED masters
          \/ \E m \in MasterRow : m.date \in Listed /\ masters' = masters \cup {m}
        BY OrgStepRows
    <2>5. ASSUME NEW d \in Dates
          PROVE  /\ MasterOn(d) \subseteq MasterOn(d)'
                 /\ d \notin Listed => MasterOn(d)' = MasterOn(d)
        BY <2>4 DEF MasterOn
    <2>6. \A d \in Dates : Overridden(o, d)' <=> Overridden(o, d)
        BY <2>2 DEF Overridden
    <2> QED BY <2>2, <2>5, <2>6 DEF DaysOff
<1> QED BY <1>1, HolidayStart, HolidayStep, PTL DEF HolidaySpec, OthersUnaffected

-----------------------------------------------------------------------------
(* BSCalendar *)

\* Months of the table have 29 to 32 days.
LEMMA TableTyped ==
    /\ Len(BS_CALENDAR_DATA) = 21
    /\ \A i \in 1..21, j \in 1..12 : BS_CALENDAR_DATA[i][j] \in 29..32
<1>1. ASSUME NEW i \in 1..21, NEW j \in 1..12
      PROVE  BS_CALENDAR_DATA[i][j] \in 29..32
    <2>1. j \in {1, 2, 3, 4, 5, 6, 7, 8, 9, 10, 11, 12}
        OBVIOUS
    <2>2. i \in {1, 2, 3, 4, 5, 6, 7, 8, 9, 10, 11, 12, 13, 14, 15, 16, 17, 18,
                 19, 20, 21}
        OBVIOUS
    <2> QED BY <2>1, <2>2 DEF BS_CALENDAR_DATA
<1> QED BY <1>1 DEF BS_CALENDAR_DATA

LEMMA MonthsTyped ==
    /\ Months = 0..251
    /\ \A i \in Months : DaysInBSMonth(i) \in 29..32
<1>1. Months = 0..251
    BY TableTyped DEF Months
<1>2. ASSUME NEW i \in Months PROVE DaysInBSMonth(i) \in 29..32
    <2>1. 1 + i \div 12 \in 1..21 /\ 1 + (i % 12) \in 1..12
        BY <1>1
    <2> QED BY <2>1, TableTyped DEF DaysInBSMonth
<1> QED BY <1>1, <1>2

\* The days before a month; for the one after the last, of the whole table.
Lengths == [i \in Months |-> DaysInBSMonth(i)]
Start(i) == SumFunctionOnSet(Lengths, 0..i - 1)

LEMMA LengthsSum ==
    ASSUME NEW S \in SUBSET Months
    PROVE  /\ IsFiniteSet(S) /\ \A i \in S : Lengths[i] \in Nat
           /\ MapThenSumSet(DaysInBSMonth, S) = SumFunctionOnSet(Lengths, S)
<1>1. IsFiniteSet(S) /\ \A i \in S : Lengths[i] \in Nat
    <2>1. IsFiniteSet(0..251)
        <3>1. 0 \in Int /\ 251 \in Int
            OBVIOUS
        <3> QED BY <3>1, FS_Interval, Zenon
    <2>2. IsFiniteSet(S)
        BY <2>1, MonthsTyped, FS_Subset
    <2>3. \A i \in S : Lengths[i] = DaysInBSMonth(i)
        BY DEF Lengths
    <2> QED BY <2>2, <2>3, MonthsTyped
<1> DEFINE Solves(g) == g = [s \in SUBSET S |-> IF s = {} THEN 0 ELSE
                                DaysInBSMonth(Pick(s)) + g[s \ {Pick(s)}]]
           sums == CHOOSE g : Solves(g)
           count == [s \in SUBSET S |-> Cardinality(Units(Lengths, s))]
<1>2. MapThenSumSet(DaysInBSMonth, S) = sums[S]
    BY DEF MapThenSumSet, MapThenFoldSet, Pick
<1>3. \A s \in SUBSET S : s # {} => Lengths[Pick(s)] = DaysInBSMonth(Pick(s))
    BY DEF Pick, Lengths
<1>4. Solves(count)
    <2>1. SumsUp(count, Lengths, S)
        BY <1>1, CountSumsUp
    <2> HIDE DEF count
    <2> QED BY <1>3, <2>1 DEF SumsUp
<1>5. Solves(sums)
    <2> HIDE DEF Solves, count
    <2> QED BY <1>4
<1>6. SumsUp(sums, Lengths, S)
    <2> HIDE DEF sums
    <2> QED BY <1>3, <1>5 DEF SumsUp
<1> HIDE DEF sums
<1> QED BY <1>1, <1>2, <1>6, SumsUpToUnits, SumCountsUnits

\* A month starts where the one before it has ended.
LEMMA MonthsStart ==
    /\ Start(0) = 0
    /\ \A i \in 0..252 : Start(i) \in Nat
    /\ \A i \in Months : Start(i + 1) = Start(i) + DaysInBSMonth(i)
    /\ \A i, j \in 0..252 : i <= j => Start(i) <= Start(j)
    /\ \A i \in Months : WholeMonths[i] = Start(i)
<1>1. Start(0) = 0
    <2>1. 0..0 - 1 = {}
        OBVIOUS
    <2> QED BY <2>1, SumEmpty DEF Start
<1>2. ASSUME NEW i \in 0..252
      PROVE  0..i - 1 \in SUBSET Months
    BY MonthsTyped
<1>3. ASSUME NEW i \in 0..252 PROVE Start(i) \in Nat
    BY <1>2, LengthsSum, SumType DEF Start
<1>4. ASSUME NEW i \in Months PROVE Start(i + 1) = Start(i) + DaysInBSMonth(i)
    <2> DEFINE before == 0..i - 1
    <2>1. i \in 0..252 /\ i \notin before /\ before \cup {i} = 0..(i + 1) - 1
        BY MonthsTyped
    <2>2. IsFiniteSet(before) /\ \A k \in before : Lengths[k] \in Nat
        BY <1>2, <2>1, LengthsSum
    <2>3. Lengths[i] = DaysInBSMonth(i) /\ Lengths[i] \in Nat
        BY MonthsTyped DEF Lengths
    <2>4. before = 0..i - 1
        OBVIOUS
    <2> HIDE DEF before
    <2>5. SumFunctionOnSet(Lengths, before \cup {i})
            = Lengths[i] + SumFunctionOnSet(Lengths, before)
        BY <2>1, <2>2, <2>3, SumAdd
    <2>6. Start(i + 1) = Lengths[i] + Start(i)
        BY <2>1, <2>4, <2>5 DEF Start
    <2> QED BY <1>3, <2>1, <2>3, <2>6
<1>5. ASSUME NEW i \in 0..252, NEW j \in 0..252, i <= j PROVE Start(i) <= Start(j)
    <2>1. 0..i - 1 \in SUBSET (0..j - 1) /\ 0..j - 1 \in SUBSET Months
        BY <1>2, <1>5
    <2> QED BY <2>1, LengthsSum, SumOfPart DEF Start
<1>6. ASSUME NEW i \in Months PROVE WholeMonths[i] = Start(i)
    <2>1. WholeMonths[i] = MapThenSumSet(DaysInBSMonth, 0..i - 1)
        BY DEF WholeMonths
    <2>2. 0..i - 1 \in SUBSET Months
        BY MonthsTyped
    <2> QED BY <2>1, <2>2, LengthsSum DEF Start
<1> QED BY <1>1, <1>3, <1>4, <1>5, <1>6

LEMMA OneMonth ==
    ASSUME NEW i \in Months
    PROVE  /\ i \in 0..252 /\ i + 1 \in 0..252 /\ i \in Nat
           /\ i + 1 \in Months <=> i # 251
           /\ Start(i) \in Nat /\ DaysInBSMonth(i) \in Nat \ {0}
           /\ Start(i + 1) = Start(i) + DaysInBSMonth(i)
<1>1. i \in 0..251 /\ DaysInBSMonth(i) \in 29..32
    BY MonthsTyped
<1>2. i \in 0..252 /\ i + 1 \in 0..252
    BY <1>1
<1>3. Start(i) \in Nat
    BY <1>2, MonthsStart
<1>4. Start(i + 1) = Start(i) + DaysInBSMonth(i)
    BY MonthsStart
<1>5. i + 1 \in Months <=> i # 251
    BY <1>1, MonthsTyped
<1> QED BY <1>1, <1>2, <1>3, <1>4, <1>5

\* The walk of adToBS: it has a solution, which finds the month that a number
\* of days from the start of another one falls into.
WalkOf(walk) ==
    walk = [at \in Nat \X Nat |->
              IF at[1] \notin Months THEN {}
              ELSE IF at[2] < DaysInBSMonth(at[1]) THEN {Date(at[1], at[2] + 1)}
              ELSE walk[<<at[1] + 1, at[2] - DaysInBSMonth(at[1])>>]]
Hit(i, left) ==
    {j \in Months : i <= j /\ Start(j) <= Start(i) + left
                    /\ Start(i) + left < Start(j) + DaysInBSMonth(j)}
DatesIn(n, H) == {Date(j, n - Start(j) + 1) : j \in H}
DateFrom(i, left) ==
    IF i \notin Months THEN {} ELSE DatesIn(Start(i) + left, Hit(i, left))

LEMMA WalkExists == \E walk : WalkOf(walk)
<1> DEFINE walk == [at \in Nat \X Nat |-> DateFrom(at[1], at[2])]
<1>1. ASSUME NEW i \in Nat, NEW left \in Nat, i \in Months,
             left < DaysInBSMonth(i)
      PROVE  DateFrom(i, left) = {Date(i, left + 1)}
    <2>1. /\ i \in 0..252 /\ i + 1 \in 0..252 /\ Start(i) \in Nat
          /\ Start(i + 1) = Start(i) + DaysInBSMonth(i) /\ DaysInBSMonth(i) \in Nat
        BY <1>1, OneMonth
    <2>2. ASSUME NEW j \in Hit(i, left) PROVE j = i
        <3>1. j \in Months /\ i <= j /\ j \in 0..252 /\ Start(j) <= Start(i) + left
            BY MonthsTyped DEF Hit
        <3>2. i + 1 <= j => Start(i + 1) <= Start(j)
            BY <2>1, <3>1, MonthsStart
        <3>3. Start(j) \in Nat
            BY <3>1, MonthsStart
        <3> QED BY <1>1, <2>1, <3>1, <3>2, <3>3
    <2>3. i \in Hit(i, left)
        BY <1>1, <2>1 DEF Hit
    <2> DEFINE n == Start(i) + left
    <2>4. n - Start(i) + 1 = left + 1
        BY <2>1
    <2>5. Hit(i, left) = {i}
        BY <2>2, <2>3
    <2>6. DateFrom(i, left) = DatesIn(n, {i})
        BY <1>1, <2>5 DEF DateFrom
    <2> HIDE DEF n
    <2>7. DatesIn(n, {i}) = {Date(i, n - Start(i) + 1)}
        BY DEF DatesIn
    <2> QED BY <2>4, <2>6, <2>7
<1>2. ASSUME NEW i \in Nat, NEW left \in Nat, i \in Months,
             ~(left < DaysInBSMonth(i))
      PROVE  DateFrom(i, left) = DateFrom(i + 1, left - DaysInBSMonth(i))
    <2> DEFINE rest == left - DaysInBSMonth(i)
    <2>0. /\ Start(i) \in Nat /\ DaysInBSMonth(i) \in Nat
          /\ Start(i + 1) = Start(i) + DaysInBSMonth(i)
          /\ i + 1 \in Months <=> i # 251
        BY <1>2, OneMonth
    <2>1. rest \in Nat /\ Start(i + 1) + rest = Start(i) + left
        BY <1>2, <2>0
    <2>2. \A j \in Months : Start(j) \in Nat /\ DaysInBSMonth(j) \in Nat
        BY OneMonth
    <2> HIDE DEF rest
    <2>3. Hit(i, left) = Hit(i + 1, rest)
        <3>1. ASSUME NEW j \in Months, i <= j, Start(i) + left < Start(j) + DaysInBSMonth(j)
              PROVE  i + 1 <= j
            <4>1. j # i
                BY <1>2, <2>0, <3>1
            <4> QED BY <3>1, <4>1, MonthsTyped
        <3>2. \A j \in Months : i + 1 <= j => i <= j
            BY MonthsTyped
        <3>3. \A j : j \in Hit(i, left) <=> j \in Hit(i + 1, rest)
            BY <2>1, <3>1, <3>2 DEF Hit
        <3> QED BY <3>3
    <2>4. ASSUME i + 1 \in Months
          PROVE  DateFrom(i, left) = DateFrom(i + 1, rest)
        <3>1. DateFrom(i, left) = DatesIn(Start(i) + left, Hit(i, left))
            BY <1>2 DEF DateFrom
        <3>2. DateFrom(i + 1, rest) = DatesIn(Start(i + 1) + rest, Hit(i + 1, rest))
            BY <2>4 DEF DateFrom
        <3> QED BY <2>1, <2>3, <3>1, <3>2
    <2>5. ASSUME i + 1 \notin Months
          PROVE  DateFrom(i, left) = DateFrom(i + 1, rest)
        <3>1. Hit(i + 1, rest) = {}
            <4>1. \A j \in Months : ~(i + 1 <= j)
                BY <1>2, <2>0, <2>5, MonthsTyped
            <4> QED BY <4>1 DEF Hit
        <3> QED BY <1>2, <2>3, <2>5, <3>1 DEF DateFrom, DatesIn
    <2>6. DateFrom(i, left) = DateFrom(i + 1, rest)
        BY <2>4, <2>5
    <2> QED BY <2>6 DEF rest
<1>3. ASSUME NEW i \in Nat, NEW left \in Nat
      PROVE  walk[<<i, left>>] = IF i \notin Months THEN {}
                             ELSE IF left < DaysInBSMonth(i) THEN {Date(i, left + 1)}
                             ELSE walk[<<i + 1, left - DaysInBSMonth(i)>>]
    <2>1. i \in Months => DaysInBSMonth(i) \in Nat
        BY MonthsTyped
    <2>2. walk[<<i, left>>] = DateFrom(i, left)
        OBVIOUS
    <2>3. CASE i \notin Months
        BY <2>2, <2>3 DEF DateFrom
    <2>4. CASE i \in Months /\ left < DaysInBSMonth(i)
        BY <1>1, <2>2, <2>4
    <2>5. CASE i \in Months /\ ~(left < DaysInBSMonth(i))
        <3>1. i + 1 \in Nat /\ left - DaysInBSMonth(i) \in Nat
            BY <2>1, <2>5
        <3>2. walk[<<i + 1, left - DaysInBSMonth(i)>>] = DateFrom(i + 1, left - DaysInBSMonth(i))
            BY <3>1
        <3> QED BY <1>2, <2>2, <2>5, <3>2
    <2> QED BY <2>3, <2>4, <2>5
<1> HIDE DEF walk
<1>4. walk = [at \in Nat \X Nat |-> walk[at]]
    BY DEF walk
<1>5. \A at \in Nat \X Nat : at = <<at[1], at[2]>> /\ at[1] \in Nat /\ at[2] \in Nat
    OBVIOUS
<1>6. \A at \in Nat \X Nat :
        walk[at] = IF at[1] \notin Months THEN {}
                   ELSE IF at[2] < DaysInBSMonth(at[1]) THEN {Date(at[1], at[2] + 1)}
                   ELSE walk[<<at[1] + 1, at[2] - DaysInBSMonth(at[1])>>]
    BY <1>3, <1>5, Zenon
<1>7. WalkOf(walk)
    BY <1>4, <1>6 DEF WalkOf
<1> QED BY <1>7

\* adToBS finds the date: of all months the one that has it.
LEMMA AdToBSFinds ==
    ASSUME NEW i \in Months, NEW day \in 1..DaysInBSMonth(i)
    PROVE  AdToBS(Start(i) + day - 1) = {Date(i, day)}
<1> DEFINE date == Start(i) + day - 1
           walk == CHOOSE f : WalkOf(f)
<1>1. WalkOf(walk)
    BY WalkExists
<1>2. AdToBS(date) = walk[<<0, date>>]
    BY DEF AdToBS, WalkOf
<1>3. /\ i \in Nat /\ Start(i) \in Nat /\ DaysInBSMonth(i) \in Nat
      /\ date \in Nat /\ date - Start(i) = day - 1 /\ Start(i) <= date
    BY OneMonth
<1>4. \A j \in Nat, left \in Nat :
        walk[<<j, left>>] = IF j \notin Months THEN {}
                            ELSE IF left < DaysInBSMonth(j) THEN {Date(j, left + 1)}
                            ELSE walk[<<j + 1, left - DaysInBSMonth(j)>>]
    <2>1. ASSUME NEW f, WalkOf(f), NEW j \in Nat, NEW left \in Nat
          PROVE  f[<<j, left>>] = IF j \notin Months THEN {}
                                  ELSE IF left < DaysInBSMonth(j) THEN {Date(j, left + 1)}
                                  ELSE f[<<j + 1, left - DaysInBSMonth(j)>>]
        BY <2>1 DEF WalkOf
    <2> HIDE DEF walk
    <2> QED BY <1>1, <2>1
<1> HIDE DEF walk, date
<1> DEFINE Passes(j) == walk[<<0, date>>] = walk[<<j, date - Start(j)>>]
           Fails == {j \in 0..i : ~Passes(j)}
<1>5. Fails = {}
    <2>1. SUFFICES ASSUME Fails # {} PROVE FALSE
        OBVIOUS
    <2>2. PICK j \in Fails : \A k \in Fails : j <= k
        <3>1. Fails \subseteq Nat
            BY <1>3
        <3> QED BY <2>1, <3>1, LeastNumber
    <2>3. j \in 0..i /\ ~Passes(j)
        OBVIOUS
    <2>4. Passes(0)
        <3>1. date - Start(0) = date
            BY <1>3, MonthsStart
        <3> QED BY <3>1
    <2>5. j # 0
        BY <2>3, <2>4
    <2> DEFINE h == j - 1
    <2>6. h \in 0..i /\ h + 1 = j /\ h \in Months /\ h \in Nat
        BY <2>3, <2>5, MonthsTyped
    <2>7. Passes(h)
        <3>1. ~(j <= h)
            BY <2>3
        <3> HIDE DEF h
        <3> QED BY <2>2, <2>6, <3>1
    <2>8. Start(h) \in Nat /\ DaysInBSMonth(h) \in Nat /\ Start(j) = Start(h) + DaysInBSMonth(h)
        <3> HIDE DEF h
        <3> QED BY <2>6, OneMonth
    <2>9. Start(j) <= date
        <3>1. i \in 0..252 /\ j \in 0..252 /\ j <= i
            BY <2>3, MonthsTyped
        <3>2. Start(j) <= Start(i) /\ Start(j) \in Nat
            BY <3>1, MonthsStart
        <3> QED BY <1>3, <3>2
    <2> HIDE DEF h
    <2>10. /\ date - Start(h) \in Nat /\ ~(date - Start(h) < DaysInBSMonth(h))
           /\ date - Start(h) - DaysInBSMonth(h) = date - Start(j)
        BY <1>3, <2>8, <2>9
    <2>11. walk[<<h, date - Start(h)>>]
             = walk[<<h + 1, date - Start(h) - DaysInBSMonth(h)>>]
        <3> DEFINE left == date - Start(h)
        <3> HIDE DEF left
        <3>1. left \in Nat /\ ~(left < DaysInBSMonth(h))
            BY <2>10 DEF left
        <3>2. walk[<<h, left>>] = walk[<<h + 1, left - DaysInBSMonth(h)>>]
            BY <1>4, <2>6, <3>1
        <3> QED BY <3>2 DEF left
    <2>12. Passes(j)
        BY <2>6, <2>7, <2>10, <2>11
    <2> QED BY <2>3, <2>12
<1>6. walk[<<0, date>>] = walk[<<i, day - 1>>]
    <2>1. Passes(i)
        BY <1>3, <1>5
    <2> QED BY <1>3, <2>1
<1>7. walk[<<i, day - 1>>] = {Date(i, day)}
    <2>1. day - 1 \in Nat /\ day - 1 < DaysInBSMonth(i) /\ (day - 1) + 1 = day
        BY <1>3
    <2>2. walk[<<i, day - 1>>] = {Date(i, (day - 1) + 1)}
        BY <1>3, <1>4, <2>1
    <2> QED BY <2>1, <2>2
<1> QED BY <1>2, <1>6, <1>7 DEF date

\* bsToAD counts back to the same day.
LEMMA MonthsOfDates ==
    ASSUME NEW i \in Months, NEW day
    PROVE  MonthOf(Date(i, day)) = i /\ Date(i, day).day = day
<1>1. i \in Nat /\ 12 * (i \div 12) + (i % 12) = i
    BY MonthsTyped
<1>2. /\ Date(i, day).year = FirstYear + i \div 12 /\ Date(i, day).month = 1 + (i % 12)
      /\ Date(i, day).day = day
    BY DEF Date
<1>3. MonthOf(Date(i, day)) = i
    BY <1>1, <1>2 DEF MonthOf, FirstYear
<1> QED BY <1>2, <1>3

LEMMA BsToADFinds ==
    ASSUME NEW i \in Months, NEW day \in 1..DaysInBSMonth(i)
    PROVE  BsToAD(Date(i, day)) = {Start(i) + day - 1}
<1>1. IsValidBSDate(Date(i, day)) /\ MonthOf(Date(i, day)) = i /\ Date(i, day).day = day
    BY MonthsOfDates DEF IsValidBSDate
<1> QED BY <1>1, MonthsStart DEF BsToAD

\* A month's first day that payroll looks at is its start, and its days are
\* those up to the start of the next.
LEMMA MonthRange ==
    ASSUME NEW i \in Months
    PROVE  BSMonthADRange(i) = Start(i)..Start(i) + DaysInBSMonth(i) - 1
<1>1. /\ Start(i) \in Nat /\ DaysInBSMonth(i) \in Nat \ {0}
    BY OneMonth
<1>2. 1 \in 1..DaysInBSMonth(i)
    BY <1>1
<1>3. BsToAD(Date(i, 1)) = {Start(i) + 1 - 1}
    BY <1>2, BsToADFinds
<1>4. Start(i) + 1 - 1 = Start(i)
    BY <1>1
<1>5. BsToAD(Date(i, 1)) = {Start(i)}
    BY <1>3, <1>4
<1> QED BY <1>5 DEF BSMonthADRange

\* The days worked among those of a range.
WorkedDays(first, last) ==
    {d \in first..last : d % 7 \in WorkingDays /\ d \notin HolidayDates}

LEMMA MonthCounts ==
    ASSUME NEW i \in Months
    PROVE  /\ IsFiniteSet(WorkingDaysInBSMonth(i))
           /\ WorkedDays(Start(i), Start(i) + DaysInBSMonth(i) - 1)
                = {d \in WorkingDaysInBSMonth(i) : d \notin HolidayDates}
           /\ Behind = 0 => EffectiveWorkingDays(i)
                               = {d \in WorkingDaysInBSMonth(i) : d \notin HolidayDates}
<1>1. Start(i) \in Nat /\ DaysInBSMonth(i) \in Nat
    BY OneMonth
<1> DEFINE first == Start(i)
           last == Start(i) + DaysInBSMonth(i) - 1
<1>2. first \in Nat /\ last \in Int /\ BSMonthADRange(i) = first..last
    BY <1>1, MonthRange
<1> HIDE DEF first, last
<1>3. IsFiniteSet(first..last)
    BY <1>2, FS_Interval
<1>4. IsFiniteSet(WorkingDaysInBSMonth(i))
    BY <1>2, <1>3, FS_Subset DEF WorkingDaysInBSMonth
<1>5. WorkedDays(first, last) = {d \in WorkingDaysInBSMonth(i) : d \notin HolidayDates}
    BY <1>2 DEF WorkedDays, WorkingDaysInBSMonth
<1>6. ASSUME Behind = 0
      PROVE  EffectiveWorkingDays(i)
               = {d \in WorkingDaysInBSMonth(i) : d \notin HolidayDates}
    <2>1. \A d \in WorkingDaysInBSMonth(i) : d - Behind = d
        BY <1>2, <1>6 DEF WorkingDaysInBSMonth
    <2> QED BY <2>1 DEF EffectiveWorkingDays
<1> QED BY <1>4, <1>5, <1>6 DEF first, last

\* What two parts of a finite set have alone makes the difference between
\* their sizes.
LEMMA DifferenceOfSizes ==
    ASSUME NEW W, IsFiniteSet(W), NEW A \in SUBSET W, NEW B \in SUBSET W
    PROVE  Cardinality(A) + Cardinality(B \ A) = Cardinality(B) + Cardinality(A \ B)
<1>1. IsFiniteSet(A) /\ IsFiniteSet(B) /\ IsFiniteSet(A \ B) /\ IsFiniteSet(B \ A)
    BY FS_Subset
<1>2. ASSUME NEW S, IsFiniteSet(S), NEW T, IsFiniteSet(T), S \cap T = {}
      PROVE  Cardinality(S \cup T) = Cardinality(S) + Cardinality(T)
    <2>1. Cardinality(S) \in Nat /\ Cardinality(T) \in Nat
        BY <1>2, FS_CardinalityType
    <2>2. Cardinality(S \cap T) = 0
        BY <1>2, FS_EmptySet
    <2>3. Cardinality(S \cup T) = Cardinality(S) + Cardinality(T) - Cardinality(S \cap T)
        BY <1>2, FS_Union
    <2> DEFINE s == Cardinality(S)
               t == Cardinality(T)
               common == Cardinality(S \cap T)
    <2>4. s \in Nat /\ t \in Nat /\ common = 0 /\ Cardinality(S \cup T) = s + t - common
        BY <2>1, <2>2, <2>3, Zenon
    <2> HIDE DEF s, t, common
    <2>5. Cardinality(S \cup T) = s + t
        BY <2>4
    <2> QED BY <2>5 DEF s, t
<1>3. Cardinality(A \cup (B \ A)) = Cardinality(A) + Cardinality(B \ A)
    BY <1>1, <1>2
<1>4. Cardinality(B \cup (A \ B)) = Cardinality(B) + Cardinality(A \ B)
    BY <1>1, <1>2
<1>5. A \cup (B \ A) = B \cup (A \ B)
    OBVIOUS
<1> QED BY <1>3, <1>4, <1>5, Zenon

LEMMA OneDayMore ==
    ASSUME NEW first \in Nat, NEW last \in Nat, first <= last + 1
    PROVE  /\ Cardinality(WorkedDays(first, last)) \in Nat
           /\ Cardinality(WorkedDays(first, last + 1))
                = Cardinality(WorkedDays(first, last)) + Worked(last + 1)
<1> DEFINE before == WorkedDays(first, last)
           after == WorkedDays(first, last + 1)
<1>1. IsFiniteSet(first..last)
    BY FS_Interval
<1>2. IsFiniteSet(before)
    BY <1>1, FS_Subset DEF WorkedDays
<1>3. Cardinality(before) \in Nat
    BY <1>2, FS_CardinalityType
<1>4. CASE (last + 1) % 7 \in WorkingDays /\ last + 1 \notin HolidayDates
    <2>1. Worked(last + 1) = 1
        BY <1>4 DEF Worked
    <2>2. after = before \cup {last + 1} /\ last + 1 \notin before
        BY <1>4 DEF WorkedDays
    <2> HIDE DEF before, after
    <2>3. Cardinality(after) = Cardinality(before) + 1
        BY <1>2, <2>2, FS_AddElement
    <2> QED BY <1>3, <2>1, <2>3 DEF before, after
<1>5. CASE ~((last + 1) % 7 \in WorkingDays /\ last + 1 \notin HolidayDates)
    <2>1. Worked(last + 1) = 0
        BY <1>5 DEF Worked
    <2>2. after = before
        BY <1>5 DEF WorkedDays
    <2> HIDE DEF before, after
    <2> QED BY <1>3, <2>1, <2>2 DEF before, after
<1> QED BY <1>4, <1>5

LEMMA OneDayCounts ==
    ASSUME NEW first \in Nat
    PROVE  Cardinality(WorkedDays(first, first)) = Worked(first)
<1>1. WorkedDays(first, first) = IF first % 7 \in WorkingDays /\ first \notin HolidayDates
                                 THEN {first} ELSE {}
    BY DEF WorkedDays
<1>2. Cardinality({first}) = 1 /\ Cardinality({}) = 0
    BY FS_Singleton, FS_EmptySet
<1> QED BY <1>1, <1>2 DEF Worked

\* The wall calendar: today is a day of a month of the table, at its distance
\* from the month's start, and the days worked since then are counted.
WallCalendar(today, date, count) ==
    \E i \in Months : \E day \in 1..DaysInBSMonth(i) :
        /\ date = Date(i, day)
        /\ today = Start(i) + day - 1
        /\ count = Cardinality(WorkedDays(Start(i), today))

LEMMA FirstOfMonth ==
    ASSUME NEW i \in Months
    PROVE  WallCalendar(Start(i), Date(i, 1), Worked(Start(i)))
<1>1. Start(i) \in Nat /\ 1 \in 1..DaysInBSMonth(i) /\ Start(i) = Start(i) + 1 - 1
    BY OneMonth
<1>2. Worked(Start(i)) = Cardinality(WorkedDays(Start(i), Start(i)))
    BY <1>1, OneDayCounts
<1> QED BY <1>1, <1>2 DEF WallCalendar

\* The calendar turns a month, within a year or into the next one.
LEMMA NextFirst ==
    ASSUME NEW i \in Months, NEW day
    PROVE  /\ Date(i, day).month < 12 =>
                /\ i + 1 \in Months
                /\ [Date(i, day) EXCEPT !.month = @ + 1, !.day = 1] = Date(i + 1, 1)
           /\ Date(i, day).month = 12 /\ Date(i, day).year < FirstYear + Len(BS_CALENDAR_DATA) - 1 =>
                /\ i + 1 \in Months
                /\ [year |-> Date(i, day).year + 1, month |-> 1, day |-> 1] = Date(i + 1, 1)
<1>1. i \in 0..251 /\ Len(BS_CALENDAR_DATA) = 21
    BY MonthsTyped, TableTyped
<1>2. /\ Date(i, day) = [year |-> 2070 + i \div 12, month |-> 1 + (i % 12), day |-> day]
      /\ Date(i + 1, 1) = [year |-> 2070 + (i + 1) \div 12, month |-> 1 + ((i + 1) % 12), day |-> 1]
    BY DEF Date, FirstYear
<1>3. ASSUME Date(i, day).month < 12
      PROVE  /\ i + 1 \in Months
             /\ [Date(i, day) EXCEPT !.month = @ + 1, !.day = 1] = Date(i + 1, 1)
    <2>1. i % 12 < 11
        BY <1>1, <1>2, <1>3
    <2>2. (i + 1) \div 12 = i \div 12 /\ (i + 1) % 12 = (i % 12) + 1 /\ i # 251
        BY <1>1, <2>1
    <2>3. i + 1 \in Months
        BY <1>1, <2>2, MonthsTyped
    <2>4. [Date(i, day) EXCEPT !.month = @ + 1, !.day = 1]
            = [year |-> 2070 + i \div 12, month |-> 1 + (i % 12) + 1, day |-> 1]
        <3> DEFINE d == Date(i, day)
                   turned == [d EXCEPT !.month = @ + 1, !.day = 1]
        <3>1. /\ turned = [field \in DOMAIN d |-> turned[field]]
              /\ DOMAIN d = {"year", "month", "day"}
            BY DEF Date
        <3>2. turned.year = d.year /\ turned.month = d.month + 1 /\ turned.day = 1
            BY <3>1
        <3>3. d.year = 2070 + i \div 12 /\ d.month = 1 + (i % 12)
            BY <1>2
        <3> HIDE DEF turned, d
        <3>4. turned = [year |-> 2070 + i \div 12, month |-> 1 + (i % 12) + 1, day |-> 1]
            BY <3>1, <3>2, <3>3
        <3> QED BY <3>4 DEF turned, d
    <2> QED BY <1>1, <1>2, <2>2, <2>3, <2>4
<1>4. ASSUME Date(i, day).month = 12,
             Date(i, day).year < FirstYear + Len(BS_CALENDAR_DATA) - 1
      PROVE  /\ i + 1 \in Months
             /\ [year |-> Date(i, day).year + 1, month |-> 1, day |-> 1] = Date(i + 1, 1)
    <2>1. i % 12 = 11 /\ i \div 12 < 20
        BY <1>1, <1>2, <1>4 DEF FirstYear
    <2>2. (i + 1) \div 12 = i \div 12 + 1 /\ (i + 1) % 12 = 0 /\ i # 251
        BY <1>1, <2>1
    <2>3. i + 1 \in Months
        BY <1>1, <2>2, MonthsTyped
    <2> QED BY <1>1, <1>2, <2>2, <2>3
<1> QED BY <1>3, <1>4

CalendarInv == WallCalendar(ad, bs, worked)

LEMMA CalendarStep == CalendarInv /\ [CalendarNext]_calendarVars => CalendarInv'
<1> SUFFICES ASSUME CalendarInv, [CalendarNext]_calendarVars PROVE CalendarInv'
    OBVIOUS
<1>0. PICK i \in Months :
        \E day \in 1..DaysInBSMonth(i) :
            /\ bs = Date(i, day)
            /\ ad = Start(i) + day - 1
            /\ worked = Cardinality(WorkedDays(Start(i), ad))
    BY DEF CalendarInv, WallCalendar
<1>1. PICK day \in 1..DaysInBSMonth(i) :
        /\ bs = Date(i, day)
        /\ ad = Start(i) + day - 1
        /\ worked = Cardinality(WorkedDays(Start(i), ad))
    BY <1>0
<1>2. MonthOf(bs) = i /\ bs.day = day
    BY <1>1, MonthsOfDates
<1>3. /\ Start(i) \in Nat /\ DaysInBSMonth(i) \in Nat \ {0} /\ ad \in Nat
      /\ Start(i) <= ad /\ Start(i + 1) = Start(i) + DaysInBSMonth(i)
    <2>1. Start(i) \in Nat /\ DaysInBSMonth(i) \in Nat \ {0}
        BY OneMonth
    <2> QED BY <1>1, <2>1, OneMonth
<1>4. CASE bs.day < DaysInBSMonth(MonthOf(bs)) /\ NextDay
    <2>1. day + 1 \in 1..DaysInBSMonth(i) /\ ad' = Start(i) + (day + 1) - 1
        BY <1>1, <1>2, <1>3, <1>4 DEF NextDay
    <2>2. bs' = Date(i, day + 1)
        BY <1>1, <1>2, <1>4 DEF NextDay, Date
    <2>3. worked' = Cardinality(WorkedDays(Start(i), ad'))
        BY <1>1, <1>3, <1>4, OneDayMore DEF NextDay
    <2> QED BY <2>1, <2>2, <2>3 DEF CalendarInv, WallCalendar
<1>5. ASSUME bs.day = DaysInBSMonth(MonthOf(bs)), i + 1 \in Months,
             ad' = ad + 1, bs' = Date(i + 1, 1), worked' = Worked(ad')
      PROVE  CalendarInv'
    <2>1. day = DaysInBSMonth(i)
        BY <1>2, <1>5
    <2>2. ad' = Start(i) + DaysInBSMonth(i)
        BY <1>1, <1>3, <1>5, <2>1
    <2>3. ad' = Start(i + 1)
        BY <1>3, <2>2
    <2>4. WallCalendar(Start(i + 1), Date(i + 1, 1), Worked(Start(i + 1)))
        BY <1>5, FirstOfMonth
    <2>5. WallCalendar(ad', bs', worked')
        BY <1>5, <2>3, <2>4
    <2> QED BY <2>5 DEF CalendarInv, WallCalendar
<1>6. CASE bs.day = DaysInBSMonth(MonthOf(bs)) /\ bs.month < 12 /\ NextMonth
    <2>1. i + 1 \in Months /\ bs' = Date(i + 1, 1)
        BY <1>1, <1>6, NextFirst DEF NextMonth
    <2> QED BY <1>5, <1>6, <2>1 DEF NextMonth
<1>7. CASE /\ bs.day = DaysInBSMonth(MonthOf(bs)) /\ bs.month = 12
           /\ bs.year < FirstYear + Len(BS_CALENDAR_DATA) - 1
           /\ NextYear
    <2>1. i + 1 \in Months /\ bs' = Date(i + 1, 1)
        BY <1>1, <1>7, NextFirst DEF NextYear
    <2> QED BY <1>5, <1>7, <2>1 DEF NextYear
<1>8. CASE UNCHANGED calendarVars
    BY <1>1, <1>8 DEF CalendarInv, WallCalendar, calendarVars
<1> QED BY <1>4, <1>6, <1>7, <1>8 DEF CalendarNext

LEMMA CalendarIsWall == CalendarSpec => []CalendarInv
<1>1. CalendarInit => CalendarInv
    <2> SUFFICES ASSUME CalendarInit PROVE CalendarInv
        OBVIOUS
    <2>1. 0 \in Months
        <3>1. 0 \in 0..251
            OBVIOUS
        <3> QED BY <3>1, MonthsTyped
    <2>2. WallCalendar(Start(0), Date(0, 1), Worked(Start(0)))
        BY <2>1, FirstOfMonth
    <2> QED BY <2>2, MonthsStart DEF CalendarInit, CalendarInv
<1> QED BY <1>1, CalendarStep, PTL DEF CalendarSpec

\* Both conversions agree with the wall calendar on every date of the table,
\* in whatever timezone the server is (adToBS, bsToAD).
THEOREM ConversionsAgree == CalendarSpec => []CalendarAgrees
<1>1. CalendarInv => CalendarAgrees
    BY AdToBSFinds, BsToADFinds DEF CalendarInv, WallCalendar, CalendarAgrees
<1> QED BY <1>1, CalendarIsWall, PTL

\* For every week worked, every set of holidays and every time zone: the
\* effective working days of a month, which payroll divides by, are the days
\* worked that were no holiday, but for the holidays that take effect a day
\* late.  Over the table's 21 years nothing is bounded.
THEOREM CalendarIsRight == CalendarSpec => []CalendarRight
<1>1. ASSUME CalendarInv, bs.day = DaysInBSMonth(MonthOf(bs))
      PROVE  /\ MonthOf(bs) \in Months
             /\ worked = Cardinality({d \in WorkingDaysInBSMonth(MonthOf(bs)) :
                                         d \notin HolidayDates})
    <2>0. PICK i \in Months :
            \E day \in 1..DaysInBSMonth(i) :
                /\ bs = Date(i, day)
                /\ ad = Start(i) + day - 1
                /\ worked = Cardinality(WorkedDays(Start(i), ad))
        BY <1>1 DEF CalendarInv, WallCalendar
    <2>1. PICK day \in 1..DaysInBSMonth(i) :
            /\ bs = Date(i, day)
            /\ ad = Start(i) + day - 1
            /\ worked = Cardinality(WorkedDays(Start(i), ad))
        BY <2>0
    <2>2. MonthOf(bs) = i /\ bs.day = day
        BY <2>1, MonthsOfDates
    <2>3. ad = Start(i) + DaysInBSMonth(i) - 1
        BY <1>1, <2>1, <2>2
    <2> QED BY <2>1, <2>2, <2>3, MonthCounts
<1>2. CalendarInv => MonthShifted
    <2> SUFFICES ASSUME CalendarInv, bs.day = DaysInBSMonth(MonthOf(bs))
                 PROVE  MonthShifted
        BY DEF MonthShifted
    <2> DEFINE i == MonthOf(bs)
               W == WorkingDaysInBSMonth(i)
               open == {d \in W : d \notin HolidayDates}
               effective == EffectiveWorkingDays(i)
               regained == {d \in W : d \in HolidayDates /\ ~(d - Behind \in HolidayDates)}
               lost == {d \in W : d \notin HolidayDates /\ d - Behind \in HolidayDates}
    <2>1. i \in Months /\ worked = Cardinality(open)
        BY <1>1
    <2>2. IsFiniteSet(W)
        BY <2>1, MonthCounts
    <2>3. /\ open \in SUBSET W /\ effective \in SUBSET W
          /\ regained = effective \ open /\ lost = open \ effective
        BY DEF EffectiveWorkingDays
    <2>4. Behind = 0 => effective = open
        BY <2>1, MonthCounts
    <2>5. MonthShifted <=>
            /\ worked + Cardinality(regained) = Cardinality(effective) + Cardinality(lost)
            /\ Behind = 0 => MonthCounted
        BY DEF MonthShifted
    <2>6. MonthCounted <=> worked = Cardinality(effective)
        BY DEF MonthCounted
    <2> HIDE DEF i, W, open, effective, regained, lost
    <2>7. Cardinality(open) + Cardinality(regained) = Cardinality(effective) + Cardinality(lost)
        BY <2>2, <2>3, DifferenceOfSizes
    <2> QED BY <2>1, <2>4, <2>5, <2>6, <2>7
<1>3. CalendarInv /\ CalendarAgrees => CalendarRight
    BY <1>2 DEF CalendarRight
<1> QED BY <1>3, CalendarIsWall, ConversionsAgree, PTL

-----------------------------------------------------------------------------
(* PayFigures: the tax *)

\* What holds for the last of some numbers, and for one if for the next, does
\* for all of them.
LEMMA Backwards ==
    ASSUME NEW n \in Nat, NEW S, n \in S,
           \A i \in 1..n - 1 : i + 1 \in S => i \in S
    PROVE  1..n \subseteq S
<1> SUFFICES ASSUME NEW k \in 1..n, k \notin S PROVE FALSE
    OBVIOUS
<1> DEFINE Backs == {m \in 0..n - 1 : n - m \notin S}
<1>1. n - k \in Backs
    <2>1. n - (n - k) = k /\ n - k \in 0..n - 1
        OBVIOUS
    <2> QED BY <2>1
<1>2. PICK m \in Backs : \A j \in Backs : m <= j
    <2>1. Backs \subseteq Nat
        OBVIOUS
    <2> HIDE DEF Backs
    <2> QED BY <1>1, <2>1, LeastNumber
<1>3. m \in 0..n - 1 /\ n - m \notin S
    BY <1>2
<1>4. m # 0
    <2>1. n - 0 = n
        OBVIOUS
    <2> QED BY <1>3, <2>1
<1>5. /\ n - m \in 1..n - 1 /\ (n - m) + 1 = n - (m - 1)
      /\ m - 1 \in 0..n - 1 /\ ~(m <= m - 1)
    BY <1>3, <1>4
<1>6. n - (m - 1) \notin S
    BY <1>3, <1>5
<1> QED BY <1>2, <1>5, <1>6

\* The loop of calculateNepalTDS has a result.
Rates == [limit: Nat, rate: Nat]
Places(slabs) == (1..Len(slabs) + 1) \X Int
Owed(tax, slabs, i, remaining) ==
    IF i > Len(slabs) \/ remaining <= 0 THEN 0
    ELSE Taxable(remaining, slabs[i]) * slabs[i].rate
         + tax[<<i + 1, remaining - Taxable(remaining, slabs[i])>>]
Taxes(tax, slabs) ==
    tax = [at \in Places(slabs) |->
             IF at[1] > Len(slabs) \/ at[2] <= 0 THEN 0
             ELSE Taxable(at[2], slabs[at[1]]) * slabs[at[1]].rate
                  + tax[<<at[1] + 1, at[2] - Taxable(at[2], slabs[at[1]])>>]]

LEMMA PartOfRest ==
    ASSUME NEW slab \in Rates, NEW remaining \in Int, remaining > 0
    PROVE  /\ Taxable(remaining, slab) \in Nat
           /\ Taxable(remaining, slab) <= remaining
           /\ remaining - Taxable(remaining, slab) \in Nat
           /\ slab.rate \in Nat /\ Taxable(remaining, slab) * slab.rate \in Nat
<1>1. slab.limit \in Nat /\ slab.rate \in Nat
    BY DEF Rates
<1>2. /\ Taxable(remaining, slab) \in Nat
      /\ Taxable(remaining, slab) <= remaining
    BY <1>1 DEF Taxable
<1>3. \A x, y \in Nat : x * y \in Nat
    OBVIOUS
<1>4. remaining - Taxable(remaining, slab) \in Nat
    BY <1>2
<1> QED BY <1>1, <1>2, <1>3, <1>4

LEMMA TaxOwed ==
    ASSUME NEW slabs, NEW tax, Taxes(tax, slabs),
           NEW i \in 1..Len(slabs) + 1, NEW remaining \in Int
    PROVE  tax[<<i, remaining>>] = Owed(tax, slabs, i, remaining)
<1>1. <<i, remaining>> \in Places(slabs)
    BY DEF Places
<1>2. tax[<<i, remaining>>]
        = IF i > Len(slabs) \/ remaining <= 0 THEN 0
          ELSE Taxable(remaining, slabs[i]) * slabs[i].rate
               + tax[<<i + 1, remaining - Taxable(remaining, slabs[i])>>]
    BY <1>1 DEF Taxes
<1> QED BY <1>2, Zenon DEF Owed

LEMMA TaxesExist ==
    ASSUME NEW slabs \in Seq(Rates)
    PROVE  \E tax : Taxes(tax, slabs)
<1> DEFINE last == Len(slabs) + 1
           Right(tax, n) ==
               /\ tax = [at \in Places(slabs) |-> tax[at]]
               /\ \A i \in n..last, remaining \in Int :
                    tax[<<i, remaining>>] = Owed(tax, slabs, i, remaining)
           S == {n \in 1..last : \E tax : Right(tax, n)}
<1>1. last \in Nat /\ last \in 1..last /\ 1 \in 1..last /\ Len(slabs) \in Nat
    OBVIOUS
<1>2. last \in S
    <2> DEFINE none == [at \in Places(slabs) |-> 0]
    <2>1. \A i \in last..last, remaining \in Int :
            <<i, remaining>> \in Places(slabs) /\ i > Len(slabs)
        BY <1>1 DEF Places
    <2>2. Right(none, last)
        BY <2>1 DEF Owed
    <2> HIDE DEF none, Right, last
    <2> QED BY <1>1, <2>2
<1>3. ASSUME NEW n \in 1..last - 1, n + 1 \in S
      PROVE  n \in S
    <2>1. PICK tax : Right(tax, n + 1)
        BY <1>3
    <2> DEFINE more == [at \in Places(slabs) |->
                          IF at[1] = n THEN Owed(tax, slabs, n, at[2]) ELSE tax[at]]
    <2>2. more = [at \in Places(slabs) |-> more[at]]
        OBVIOUS
    <2>3. \A i \in 1..last, remaining \in Int :
            more[<<i, remaining>>] = IF i = n THEN Owed(tax, slabs, n, remaining)
                                     ELSE tax[<<i, remaining>>]
        <3>1. \A i \in 1..last, remaining \in Int :
                /\ <<i, remaining>> \in Places(slabs)
                /\ <<i, remaining>>[1] = i /\ <<i, remaining>>[2] = remaining
            BY DEF Places
        <3> QED BY <3>1
    <2> HIDE DEF more
    <2>4. ASSUME NEW i \in n..last, NEW remaining \in Int
          PROVE  Owed(more, slabs, i, remaining) = Owed(tax, slabs, i, remaining)
        <3>1. CASE i > Len(slabs) \/ remaining <= 0
            BY <3>1 DEF Owed
        <3>2. CASE ~(i > Len(slabs) \/ remaining <= 0)
            <4> DEFINE rest == remaining - Taxable(remaining, slabs[i])
            <4>1. i \in 1..Len(slabs) /\ i + 1 \in 1..last /\ i + 1 # n
                BY <1>1, <3>2
            <4>2. slabs[i] \in Rates
                BY <4>1
            <4>3. rest \in Int
                <5>1. remaining > 0
                    BY <3>2
                <5>2. rest \in Nat
                    BY <4>2, <5>1, PartOfRest
                <5> HIDE DEF rest
                <5> QED BY <5>2
            <4> HIDE DEF rest, last
            <4>4. more[<<i + 1, rest>>] = tax[<<i + 1, rest>>]
                BY <2>3, <4>1, <4>3
            <4> QED BY <3>2, <4>4 DEF Owed, rest
        <3> QED BY <3>1, <3>2
    <2>5. ASSUME NEW i \in n..last, NEW remaining \in Int
          PROVE  more[<<i, remaining>>] = Owed(more, slabs, i, remaining)
        <3>1. i # n => i \in n + 1..last
            BY <1>1
        <3>2. i # n => tax[<<i, remaining>>] = Owed(tax, slabs, i, remaining)
            BY <2>1, <3>1
        <3>3. i \in 1..last
            BY <1>1
        <3> HIDE DEF last
        <3> QED BY <2>3, <2>4, <3>2, <3>3
    <2>6. Right(more, n)
        BY <2>2, <2>5
    <2>7. n \in 1..last
        BY <1>1
    <2> HIDE DEF Right, last
    <2> QED BY <2>6, <2>7
<1>4. 1..last \subseteq S
    <2> HIDE DEF S, last
    <2> QED BY <1>1, <1>2, <1>3, Backwards
<1>5. PICK tax : Right(tax, 1)
    <2> HIDE DEF last, Right
    <2> QED BY <1>1, <1>4
<1>6. \A at \in Places(slabs) :
        /\ at = <<at[1], at[2]>> /\ at[1] \in 1..last /\ at[2] \in Int
    BY DEF Places
<1>7. \A at \in Places(slabs) :
        tax[at] = IF at[1] > Len(slabs) \/ at[2] <= 0 THEN 0
                  ELSE Taxable(at[2], slabs[at[1]]) * slabs[at[1]].rate
                       + tax[<<at[1] + 1, at[2] - Taxable(at[2], slabs[at[1]])>>]
    <2>1. \A at \in Places(slabs) : tax[at] = Owed(tax, slabs, at[1], at[2])
        BY <1>5, <1>6, Zenon
    <2> QED BY <2>1, Zenon DEF Owed
<1>8. Taxes(tax, slabs)
    BY <1>5, <1>7 DEF Taxes
<1> QED BY <1>8

\* What is taxed at a rate of up to 100 percent rises with the amount, and no
\* faster.
LEMMA TaxedAt ==
    ASSUME NEW p \in Nat, NEW q \in Nat, p <= q, NEW rate \in 0..100
    PROVE  /\ p * rate \in Nat /\ q * rate \in Nat /\ p * rate <= q * rate
           /\ q * rate - p * rate <= 100 * (q - p)
<1> DEFINE d == q - p
<1>1. d \in Nat /\ q = p + d
    OBVIOUS
<1> HIDE DEF d
<1>2. (p + d) * rate = p * rate + d * rate
    BY <1>1
<1>3. \A x, y \in Nat : x * y \in Nat
    OBVIOUS
<1>4. p * rate \in Nat /\ d * rate \in Nat
    BY <1>1, <1>3
<1>5. \A x \in Nat, y \in 0..100 : x * y <= x * 100
    OBVIOUS
<1>6. d * rate <= d * 100
    BY <1>1, <1>5
<1>7. q * rate = p * rate + d * rate
    BY <1>1, <1>2
<1> QED BY <1>1, <1>4, <1>6, <1>7

\* The slabs nobody is taxed more than 100 percent by.
Fair(slabs) ==
    slabs \in Seq(Rates) /\ \A i \in 1..Len(slabs) : slabs[i].rate \in 0..100

LEMMA TaxRises ==
    ASSUME NEW slabs, Fair(slabs), NEW tax, Taxes(tax, slabs)
    PROVE  \A i \in 1..Len(slabs) + 1, x \in Int, y \in Int :
             x <= y => /\ tax[<<i, x>>] \in Nat /\ tax[<<i, y>>] \in Nat
                       /\ tax[<<i, x>>] <= tax[<<i, y>>]
                       /\ tax[<<i, y>>] - tax[<<i, x>>] <= 100 * (y - x)
<1> DEFINE last == Len(slabs) + 1
           Rises(i) ==
             \A x \in Int, y \in Int :
               x <= y => /\ tax[<<i, x>>] \in Nat /\ tax[<<i, y>>] \in Nat
                         /\ tax[<<i, x>>] <= tax[<<i, y>>]
                         /\ tax[<<i, y>>] - tax[<<i, x>>] <= 100 * (y - x)
           S == {i \in 1..last : Rises(i)}
<1>1. /\ slabs \in Seq(Rates) /\ Len(slabs) \in Nat /\ last \in Nat /\ last \in 1..last
      /\ \A i \in 1..Len(slabs) : slabs[i].rate \in 0..100
    BY DEF Fair
<1>2. \A i \in 1..last, x \in Int : tax[<<i, x>>] = Owed(tax, slabs, i, x)
    BY TaxOwed
<1>3. last \in S
    <2>1. \A x \in Int : tax[<<last, x>>] = 0
        <3>1. last > Len(slabs)
            BY <1>1
        <3> HIDE DEF last
        <3> QED BY <1>1, <1>2, <3>1 DEF Owed
    <2>2. Rises(last)
        <3> HIDE DEF last
        <3> QED BY <2>1
    <2> HIDE DEF Rises, last
    <2> QED BY <1>1, <2>2
<1>4. ASSUME NEW i \in 1..last - 1, i + 1 \in S
      PROVE  i \in S
    <2>1. i \in 1..Len(slabs) /\ i \in 1..last /\ i + 1 \in 1..last /\ ~(i > Len(slabs))
        BY <1>1
    <2>2. slabs[i] \in Rates /\ slabs[i].limit \in Nat /\ slabs[i].rate \in 0..100
        <3>1. slabs[i] \in Rates
            BY <1>1, <2>1
        <3> QED BY <1>1, <2>1, <3>1 DEF Rates
    <2>3. Rises(i + 1)
        BY <1>4
    <2> DEFINE rate == slabs[i].rate
               Part(x) == Taxable(x, slabs[i])
    <2>4. \A x \in Int : x <= 0 => tax[<<i, x>>] = 0
        <3> HIDE DEF last
        <3> QED BY <1>2, <2>1 DEF Owed
    <2>5. \A x \in Int : x > 0 =>
            tax[<<i, x>>] = Part(x) * rate + tax[<<i + 1, x - Part(x)>>]
        <3> HIDE DEF last
        <3> QED BY <1>2, <2>1 DEF Owed
    <2>6. tax[<<i + 1, 0>>] = 0
        <3> HIDE DEF last
        <3>1. Owed(tax, slabs, i + 1, 0) = 0
            BY DEF Owed
        <3> QED BY <1>2, <2>1, <3>1
    <2>7. ASSUME NEW y \in Int, y > 0
          PROVE  /\ tax[<<i, y>>] \in Nat /\ tax[<<i, y>>] <= 100 * y
        <3> DEFINE part == Part(y)
                   rest == y - part
        <3>1. part \in Nat /\ part <= y /\ rest \in Nat
            BY <2>2, <2>7, PartOfRest
        <3>2. tax[<<i, y>>] = part * rate + tax[<<i + 1, rest>>]
            BY <2>5, <2>7
        <3>3. part + rest = y
            BY <3>1
        <3>9. rate \in 0..100
            BY <2>2
        <3> HIDE DEF part, rest, rate
        <3>4. part * rate \in Nat /\ part * rate <= 100 * part
            <4>1. 0 * rate = 0 /\ 0 <= part
                BY <3>9, <3>1
            <4>2. part * rate \in Nat /\ part * rate - 0 * rate <= 100 * (part - 0)
                BY <3>9, <3>1, <4>1, TaxedAt
            <4> QED BY <3>1, <4>1, <4>2
        <3>5. tax[<<i + 1, rest>>] \in Nat /\ tax[<<i + 1, rest>>] <= 100 * rest
            BY <2>3, <2>6, <3>1
        <3> QED BY <3>1, <3>2, <3>3, <3>4, <3>5
    <2>8. ASSUME NEW x \in Int, NEW y \in Int, x <= y, x > 0
          PROVE  /\ tax[<<i, x>>] <= tax[<<i, y>>]
                 /\ tax[<<i, y>>] - tax[<<i, x>>] <= 100 * (y - x)
        <3> DEFINE p == Part(x)
                   q == Part(y)
                   r == x - p
                   s == y - q
        <3>0. y > 0
            BY <2>8
        <3>1. /\ p \in Nat /\ q \in Nat /\ r \in Nat /\ s \in Nat
            BY <2>2, <2>8, <3>0, PartOfRest
        <3>2. p <= q /\ r <= s
            BY <2>2, <2>8 DEF Taxable
        <3>3. p + r = x /\ q + s = y
            BY <3>1
        <3>4. /\ tax[<<i, x>>] = p * rate + tax[<<i + 1, r>>]
              /\ tax[<<i, y>>] = q * rate + tax[<<i + 1, s>>]
            BY <2>5, <2>8, <3>0
        <3> HIDE DEF p, q, r, s
        <3>5. /\ p * rate \in Nat /\ q * rate \in Nat /\ p * rate <= q * rate
              /\ q * rate - p * rate <= 100 * (q - p)
            BY <2>2, <3>1, <3>2, TaxedAt
        <3>6. /\ tax[<<i + 1, r>>] \in Nat /\ tax[<<i + 1, s>>] \in Nat
              /\ tax[<<i + 1, r>>] <= tax[<<i + 1, s>>]
              /\ tax[<<i + 1, s>>] - tax[<<i + 1, r>>] <= 100 * (s - r)
            BY <2>3, <3>1, <3>2
        <3>7. \A a, b, c, d \in Nat :
                a <= b /\ b - a <= 100 * (q - p) /\ c <= d /\ d - c <= 100 * (s - r) =>
                    a + c <= b + d /\ (b + d) - (a + c) <= 100 * ((q + s) - (p + r))
            BY <3>1
        <3> HIDE DEF rate
        <3>8. /\ p * rate + tax[<<i + 1, r>>] <= q * rate + tax[<<i + 1, s>>]
              /\ (q * rate + tax[<<i + 1, s>>]) - (p * rate + tax[<<i + 1, r>>])
                    <= 100 * ((q + s) - (p + r))
            BY <3>5, <3>6, <3>7
        <3> QED BY <3>3, <3>4, <3>8
    <2>9. Rises(i)
        <3> SUFFICES ASSUME NEW x \in Int, NEW y \in Int, x <= y
                     PROVE  /\ tax[<<i, x>>] \in Nat /\ tax[<<i, y>>] \in Nat
                            /\ tax[<<i, x>>] <= tax[<<i, y>>]
                            /\ tax[<<i, y>>] - tax[<<i, x>>] <= 100 * (y - x)
            OBVIOUS
        <3>1. CASE y <= 0
            BY <2>4, <3>1
        <3>2. CASE x <= 0 /\ y > 0
            BY <2>4, <2>7, <3>2
        <3>3. CASE x > 0
            BY <2>7, <2>8, <3>3
        <3> QED BY <3>1, <3>2, <3>3
    <2> HIDE DEF Rises, last
    <2> QED BY <2>1, <2>9
<1>5. 1..last \subseteq S
    <2> HIDE DEF S, last
    <2> QED BY <1>1, <1>3, <1>4, Backwards
<1> QED BY <1>5

\* Each month's tax is a twelfth: of a month's pay more, nobody is taxed more.
LEMMA MonthlyTaxRises ==
    ASSUME NEW slabs, Fair(slabs), NEW x \in Int, NEW y \in Int, x <= y
    PROVE  /\ CalculateNepalTDS(12 * x, slabs) \in Nat
           /\ CalculateNepalTDS(12 * y, slabs) \in Nat
           /\ CalculateNepalTDS(12 * x, slabs) <= CalculateNepalTDS(12 * y, slabs)
           /\ CalculateNepalTDS(12 * y, slabs) - CalculateNepalTDS(12 * x, slabs) <= y - x
<1> DEFINE tax == CHOOSE t : Taxes(t, slabs)
           a == tax[<<1, 12 * x>>]
           b == tax[<<1, 12 * y>>]
<1>1. Taxes(tax, slabs)
    BY TaxesExist DEF Fair
<1>2. /\ CalculateNepalTDS(12 * x, slabs) = Monthly(a)
      /\ CalculateNepalTDS(12 * y, slabs) = Monthly(b)
    BY DEF CalculateNepalTDS, Taxes, Places
<1>3. 1 \in 1..Len(slabs) + 1 /\ 12 * x \in Int /\ 12 * y \in Int /\ 12 * x <= 12 * y
    BY DEF Fair
<1> HIDE DEF tax
<1>4. a \in Nat /\ b \in Nat /\ a <= b /\ b - a <= 100 * (12 * y - 12 * x)
    BY <1>1, <1>3, TaxRises
<1> HIDE DEF a, b
<1>5. /\ Monthly(a) \in Nat /\ Monthly(b) \in Nat /\ Monthly(a) <= Monthly(b)
      /\ Monthly(b) - Monthly(a) <= y - x
    BY <1>4 DEF Monthly
<1> QED BY <1>2, <1>5

\* The walk of an income: a slab is not stepped over, and the income taxed
\* beyond the slabs that are full is taxed as on its own.
Multiple(amount) == \E n \in Nat : amount = n * Step
RateIn(slabs, i) == IF i <= Len(slabs) THEN slabs[i].rate ELSE 0
Billed(f, tax) ==
    \A x \in Nat : tax[<<1, f.annual - f.within + x>>]
                     = f.tax - f.within * RateIn(f.slabs, f.slab) + tax[<<f.slab, x>>]
IncomeTyped(f) ==
    /\ f \in [of: {"income"}, slabs: Seq(Rates), annual: Nat, tax: Nat,
              slab: Nat, within: Nat]
    /\ f.slab \in 1..Len(f.slabs) + 1
    /\ f.within <= f.annual
IncomeInv(f) ==
    /\ IncomeTyped(f)
    /\ Fair(f.slabs)
    /\ \A i \in 1..Len(f.slabs) : Multiple(f.slabs[i].limit)
    /\ Multiple(f.within)
    /\ f.slab <= Len(f.slabs) =>
         f.slabs[f.slab].limit = 0 \/ f.within <= f.slabs[f.slab].limit
    /\ \A tax : Taxes(tax, f.slabs) => Billed(f, tax)

LEMMA NextMultiple ==
    ASSUME NEW x \in Nat, NEW y \in Nat, Multiple(x), Multiple(y), x <= y
    PROVE  /\ Multiple(x + Step)
           /\ x # y => x + Step <= y
<1>1. Step \in Nat \ {0}
    BY TaxAssumption
<1>2. PICK k \in Nat : x = k * Step
    BY DEF Multiple
<1>3. PICK l \in Nat : y = l * Step
    BY DEF Multiple
<1>4. (k + 1) * Step = x + Step /\ k + 1 \in Nat
    BY <1>1, <1>2
<1>5. \A a, b, s \in Nat : a <= b => a * s <= b * s
    OBVIOUS
<1>6. ASSUME x # y PROVE x + Step <= y
    <2>1. k # l
        BY <1>2, <1>3, <1>6
    <2>2. ~(l <= k)
        <3>1. SUFFICES ASSUME l <= k PROVE FALSE
            OBVIOUS
        <3>2. l * Step <= k * Step
            BY <1>1, <1>5, <3>1
        <3>3. x = y
            BY <1>2, <1>3, <3>2
        <3> QED BY <1>6, <3>3
    <2>3. k + 1 <= l
        BY <2>2
    <2>4. (k + 1) * Step <= l * Step
        BY <1>1, <1>4, <1>5, <2>3
    <2> QED BY <1>3, <1>4, <2>4
<1> QED BY <1>4, <1>6 DEF Multiple

LEMMA FirstMultiples ==
    /\ Multiple(0) /\ Multiple(Step)
    /\ \A n \in Nat : Multiple(n * Lakh)
    /\ \A n \in Nat : InSteps(n) => Multiple(n)
<1>1. Step \in Nat \ {0} /\ 0 * Step = 0 /\ 1 * Step = Step
    BY TaxAssumption
<1>2. PICK k \in Nat : Lakh = k * Step
    <2>1. InSteps(Lakh)
        BY TaxAssumption
    <2>2. 0..Lakh \subseteq Nat
        BY DEF Lakh
    <2> QED BY <2>1, <2>2 DEF InSteps
<1>3. ASSUME NEW n \in Nat PROVE Multiple(n * Lakh)
    <2>1. n * Lakh = (n * k) * Step /\ n * k \in Nat
        BY <1>1, <1>2
    <2> QED BY <2>1 DEF Multiple
<1>4. ASSUME NEW n \in Nat, InSteps(n) PROVE Multiple(n)
    BY <1>4 DEF InSteps, Multiple
<1> QED BY <1>1, <1>3, <1>4 DEF Multiple

\* The slabs of an income are all of this kind.
Proper(row) ==
    /\ row.firstSlabRate \in Nat /\ row.firstSlabRate <= 50
    /\ \A first \in {row.unmarried, row.married} :
         first \in Nat \ {0} /\ Multiple(first)
    /\ row.slabs \in Seq(Rates)
    /\ \A i \in 1..Len(row.slabs) :
         row.slabs[i].rate <= 50 /\ Multiple(row.slabs[i].limit)

LEMMA DefaultProper == Proper(DefaultConfig)
<1>1. /\ Multiple(5 * Lakh) /\ Multiple(6 * Lakh) /\ Multiple(2 * Lakh)
      /\ Multiple(3 * Lakh) /\ Multiple(10 * Lakh) /\ Multiple(30 * Lakh) /\ Multiple(0)
    BY FirstMultiples
<1> DEFINE slabs == DefaultConfig.slabs
<1>2. /\ DefaultConfig.firstSlabRate = 1 /\ DefaultConfig.unmarried = 5 * Lakh
      /\ DefaultConfig.married = 6 * Lakh
      /\ slabs = <<Slab(2 * Lakh, 10), Slab(3 * Lakh, 20), Slab(10 * Lakh, 30),
                   Slab(30 * Lakh, 36), Slab(0, 39)>>
    BY DEF DefaultConfig
<1>3. Lakh \in Nat \ {0}
    BY DEF Lakh
<1>4. \A limit, rate \in Nat : Slab(limit, rate) \in Rates
    BY DEF Slab, Rates
<1>5. \A limit, rate : Slab(limit, rate).limit = limit /\ Slab(limit, rate).rate = rate
    BY DEF Slab
<1> HIDE DEF slabs
<1>6. slabs \in Seq(Rates) /\ Len(slabs) = 5
    BY <1>2, <1>3, <1>4
<1>7. ASSUME NEW i \in 1..Len(slabs)
      PROVE  slabs[i].rate <= 50 /\ Multiple(slabs[i].limit)
    <2>1. i \in {1, 2, 3, 4, 5}
        BY <1>6
    <2> QED BY <1>1, <1>2, <1>5, <2>1
<1> QED BY <1>1, <1>2, <1>3, <1>6, <1>7 DEF Proper, slabs

LEMMA SlabsOf ==
    ASSUME NEW row, Proper(row), NEW isMarried \in BOOLEAN, NEW ssf \in BOOLEAN,
           ValidConfig(row)
    PROVE  LET slabs == SlabsFor(row, isMarried, ssf) IN
           /\ Fair(slabs) /\ Len(slabs) >= 1
           /\ slabs[1].limit \in Nat \ {0}
           /\ \A i \in 1..Len(slabs) : Multiple(slabs[i].limit)
<1> DEFINE first == IF isMarried THEN row.married ELSE row.unmarried
           least == IF ssf THEN 0 ELSE row.firstSlabRate
           slabs == SlabsFor(row, isMarried, ssf)
<1>1. slabs = <<Slab(first, least)>> \o row.slabs
    BY DEF SlabsFor
<1>2. first \in Nat \ {0} /\ Multiple(first) /\ least \in 0..50
    <2>1. first \in {row.unmarried, row.married}
        OBVIOUS
    <2>2. row.firstSlabRate \in 0..50
        <3>1. \A n \in Nat : n <= 50 => n \in 0..50
            OBVIOUS
        <3> QED BY <3>1, Zenon DEF Proper
    <2>3. least \in 0..50
        BY <2>2
    <2> HIDE DEF first, least
    <2> QED BY <2>1, <2>3 DEF Proper
<1> HIDE DEF first, least, slabs
<1>3. Slab(first, least) \in Rates /\ Slab(first, least).limit = first
      /\ Slab(first, least).rate = least
    BY <1>2 DEF Slab, Rates
<1>4. row.slabs \in Seq(Rates)
    BY DEF Proper
<1>5. /\ slabs \in Seq(Rates) /\ Len(slabs) = Len(row.slabs) + 1
      /\ slabs[1] = Slab(first, least)
      /\ \A i \in 1..Len(row.slabs) : slabs[i + 1] = row.slabs[i]
    BY <1>1, <1>3, <1>4
<1>6. ASSUME NEW i \in 1..Len(slabs)
      PROVE  slabs[i].rate \in 0..100 /\ Multiple(slabs[i].limit)
    <2>1. CASE i = 1
        <3>1. slabs[i] = Slab(first, least)
            BY <1>5, <2>1
        <3>2. slabs[i].rate = least /\ slabs[i].limit = first
            BY <1>3, <3>1
        <3>3. least \in 0..100
            BY <1>2
        <3> QED BY <1>2, <3>2, <3>3
    <2>2. CASE i # 1
        <3> DEFINE j == i - 1
        <3>1. j \in 1..Len(row.slabs) /\ j + 1 = i
            BY <1>4, <1>5, <2>2
        <3> HIDE DEF j
        <3>2. slabs[i] = row.slabs[j] /\ row.slabs[j] \in Rates
            BY <1>4, <1>5, <3>1
        <3>3. row.slabs[j].rate <= 50 /\ Multiple(row.slabs[j].limit)
            BY <3>1 DEF Proper
        <3>4. row.slabs[j].rate \in Nat
            BY <3>2 DEF Rates
        <3>5. row.slabs[j].rate \in 0..100
            <4>1. \A n \in Nat : n <= 50 => n \in 0..100
                OBVIOUS
            <4> QED BY <3>3, <3>4, <4>1, Zenon
        <3> QED BY <3>2, <3>3, <3>5
    <2> QED BY <2>1, <2>2
<1>7. Fair(slabs) /\ Len(slabs) >= 1 /\ slabs[1].limit \in Nat \ {0}
    BY <1>2, <1>3, <1>4, <1>5, <1>6 DEF Fair
<1> QED BY <1>6, <1>7 DEF slabs

LEMMA DefaultValid == ValidConfig(DefaultConfig)
<1>1. /\ DefaultConfig.firstSlabRate <= 50
      /\ DefaultConfig.slabs \in Seq(Rates)
      /\ \A i \in 1..Len(DefaultConfig.slabs) : DefaultConfig.slabs[i].rate <= 50
    BY DefaultProper DEF Proper
<1>2. DOMAIN DefaultConfig.slabs = 1..Len(DefaultConfig.slabs)
    BY <1>1
<1> QED BY <1>1, <1>2 DEF ValidConfig

LEMMA FairSlabs ==
    ASSUME NEW slabs, Fair(slabs)
    PROVE  /\ slabs \in Seq(Rates) /\ Len(slabs) \in Nat
           /\ \A i \in 1..Len(slabs) :
                slabs[i] \in Rates /\ slabs[i].limit \in Nat /\ slabs[i].rate \in Nat
           /\ \A i \in Nat \ {0} : RateIn(slabs, i) \in Nat
<1>1. slabs \in Seq(Rates)
    BY DEF Fair
<1>2. Len(slabs) \in Nat /\ \A i \in 1..Len(slabs) : slabs[i] \in Rates
    BY <1>1
<1>3. \A slab \in Rates : slab.limit \in Nat /\ slab.rate \in Nat
    BY DEF Rates
<1>4. ASSUME NEW i \in Nat \ {0} PROVE RateIn(slabs, i) \in Nat
    <2>1. i <= Len(slabs) => i \in 1..Len(slabs)
        BY <1>2
    <2> QED BY <1>2, <1>3, <2>1 DEF RateIn
<1> QED BY <1>1, <1>2, <1>3, <1>4

LEMMA TaxIsNat ==
    ASSUME NEW slabs, Fair(slabs), NEW tax, Taxes(tax, slabs),
           NEW i \in 1..Len(slabs) + 1, NEW x \in Int
    PROVE  tax[<<i, x>>] \in Nat
<1>1. x <= x
    OBVIOUS
<1> QED BY <1>1, TaxRises

\* The slabs of any row of the configuration, valid or not.
LEMMA ConfiguredSlabs ==
    ASSUME NEW row \in TaxConfigs, NEW isMarried \in BOOLEAN, NEW ssf \in BOOLEAN
    PROVE  LET slabs == SlabsFor(row, isMarried, ssf) IN
           /\ Fair(slabs) /\ Len(slabs) >= 1
           /\ slabs[1].limit \in Nat \ {0}
           /\ \A i \in 1..Len(slabs) : Multiple(slabs[i].limit)
<1> DEFINE config == IF ValidConfig(row) THEN row ELSE DefaultConfig
<1>1. Proper(config) /\ ValidConfig(config)
    <2>1. CASE ValidConfig(row)
        <3>1. /\ row.firstSlabRate \in Nat
              /\ \A first \in {row.unmarried, row.married} :
                    first \in Nat \ {0} /\ InSteps(first)
              /\ row.slabs \in Seq(Rates)
              /\ \A i \in DOMAIN row.slabs : InSteps(row.slabs[i].limit)
            BY TaxAssumption DEF Rates
        <3>2. row.firstSlabRate <= 50 /\ \A i \in DOMAIN row.slabs : row.slabs[i].rate <= 50
            BY <2>1 DEF ValidConfig
        <3>3. DOMAIN row.slabs = 1..Len(row.slabs)
            BY <3>1
        <3>4. \A i \in 1..Len(row.slabs) : row.slabs[i].limit \in Nat
            <4>1. \A i \in 1..Len(row.slabs) : row.slabs[i] \in Rates
                BY <3>1
            <4> QED BY <4>1 DEF Rates
        <3>5. \A n \in Nat : InSteps(n) => Multiple(n)
            BY FirstMultiples
        <3>6. \A i \in 1..Len(row.slabs) :
                row.slabs[i].rate <= 50 /\ Multiple(row.slabs[i].limit)
            BY <3>1, <3>2, <3>3, <3>4, <3>5, Zenon
        <3>7. \A first \in {row.unmarried, row.married} :
                first \in Nat \ {0} /\ Multiple(first)
            BY <3>1, <3>5
        <3>8. Proper(row)
            BY <3>1, <3>2, <3>6, <3>7 DEF Proper
        <3> QED BY <2>1, <3>8
    <2>2. CASE ~ValidConfig(row)
        BY <2>2, DefaultProper, DefaultValid
    <2> QED BY <2>1, <2>2
<1>2. SlabsFor(row, isMarried, ssf) = SlabsFor(config, isMarried, ssf)
    <2>1. CASE ValidConfig(row)
        BY <2>1
    <2>2. CASE ~ValidConfig(row)
        BY <2>2, DefaultValid, Zenon DEF SlabsFor
    <2> QED BY <2>1, <2>2
<1> HIDE DEF config
<1> QED BY <1>1, <1>2, SlabsOf

LEMMA IncomeStarts ==
    ASSUME NEW f \in Incomes
    PROVE  IncomeInv(f)
<1>1. PICK row \in TaxConfigs, isMarried \in BOOLEAN, ssf \in BOOLEAN :
        f = [of |-> "income", slabs |-> SlabsFor(row, isMarried, ssf),
             annual |-> 0, tax |-> 0, slab |-> 1, within |-> 0]
    BY DEF Incomes
<1>2. /\ Fair(f.slabs) /\ Len(f.slabs) >= 1
      /\ f.slabs[1].limit \in Nat \ {0}
      /\ \A i \in 1..Len(f.slabs) : Multiple(f.slabs[i].limit)
    BY <1>1, ConfiguredSlabs
<1>3. f.slabs \in Seq(Rates) /\ Len(f.slabs) \in Nat
    BY <1>2 DEF Fair
<1>4. /\ f.of = "income" /\ f.annual = 0 /\ f.tax = 0 /\ f.slab = 1 /\ f.within = 0
      /\ f = [of |-> f.of, slabs |-> f.slabs, annual |-> f.annual, tax |-> f.tax,
              slab |-> f.slab, within |-> f.within]
    BY <1>1
<1>5. IncomeTyped(f)
    BY <1>2, <1>3, <1>4 DEF IncomeTyped
<1>6. f.slab <= Len(f.slabs) =>
         f.slabs[f.slab].limit = 0 \/ f.within <= f.slabs[f.slab].limit
    BY <1>2, <1>4
<1>7. ASSUME NEW tax, Taxes(tax, f.slabs) PROVE Billed(f, tax)
    <2>1. RateIn(f.slabs, 1) \in Nat
        BY <1>2, FairSlabs
    <2>2. SUFFICES ASSUME NEW x \in Nat
                   PROVE  tax[<<1, 0 - 0 + x>>] = 0 - 0 * RateIn(f.slabs, 1) + tax[<<1, x>>]
        BY <1>4 DEF Billed
    <2>3. 0 - 0 + x = x /\ 0 * RateIn(f.slabs, 1) = 0
        BY <2>1
    <2>4. tax[<<1, x>>] \in Nat
        <3>1. 1 \in 1..Len(f.slabs) + 1 /\ x \in Int
            BY <1>3
        <3> QED BY <1>2, <1>7, <3>1, TaxIsNat
    <2> QED BY <2>3, <2>4
<1>8. Multiple(f.within)
    BY <1>4, FirstMultiples
<1> QED BY <1>2, <1>5, <1>6, <1>7, <1>8 DEF IncomeInv

\* The tax of an income whose last slab may be full.
LEMMA LastSlab ==
    ASSUME NEW f, IncomeInv(f), NEW tax, Taxes(tax, f.slabs), NEW x \in Nat,
           f.slab <= Len(f.slabs), f.slabs[f.slab].limit = f.within, f.within > 0
    PROVE  tax[<<f.slab, f.within + x>>]
             = f.within * RateIn(f.slabs, f.slab) + tax[<<f.slab + 1, x>>]
<1> DEFINE slab == f.slabs[f.slab]
<1>1. f.slab \in 1..Len(f.slabs) /\ f.within \in Nat
    BY DEF IncomeInv, IncomeTyped
<1>2. slab \in Rates /\ slab.limit = f.within
    BY <1>1 DEF IncomeInv, Fair
<1>3. Taxable(f.within + x, slab) = f.within
    BY <1>1, <1>2 DEF Taxable
<1>4. f.slab \in 1..Len(f.slabs) + 1 /\ f.within + x \in Int /\ ~(f.slab > Len(f.slabs))
      /\ ~(f.within + x <= 0) /\ (f.within + x) - f.within = x
    BY <1>1
<1>5. tax[<<f.slab, f.within + x>>] = Owed(tax, f.slabs, f.slab, f.within + x)
    BY <1>4, TaxOwed
<1>6. RateIn(f.slabs, f.slab) = slab.rate
    BY DEF RateIn
<1> QED BY <1>3, <1>4, <1>5, <1>6 DEF Owed

LEMMA IncomeStep == IncomeInv(figure) /\ AStep => IncomeInv(figure')
<1> SUFFICES ASSUME IncomeInv(figure), AStep PROVE IncomeInv(figure')
    OBVIOUS
<1> DEFINE slabs == figure.slabs
           old == figure.slab
           full == old <= Len(slabs) /\ slabs[old].limit = figure.within /\ figure.within > 0
           slab == IF full THEN old + 1 ELSE old
           within == IF full THEN Step ELSE figure.within + Step
           rate == RateIn(slabs, slab)
<1>1. /\ figure \in [of: {"income"}, slabs: Seq(Rates), annual: Nat, tax: Nat,
                     slab: Nat, within: Nat]
      /\ figure.slab \in 1..Len(figure.slabs) + 1 /\ figure.within <= figure.annual
      /\ Step \in Nat \ {0} /\ Len(slabs) \in Nat
    BY TaxAssumption DEF IncomeInv, IncomeTyped
<1>2. figure' = [figure EXCEPT !.annual = @ + Step, !.tax = @ + Step * rate,
                               !.slab = slab, !.within = within]
    BY DEF AStep, RateIn
<1>3. Fair(slabs) /\ (\A i \in 1..Len(slabs) : Multiple(slabs[i].limit) /\ slabs[i].limit \in Nat)
    BY FairSlabs DEF IncomeInv
<1>4. rate \in Nat /\ Step * rate \in Nat
    <2>1. slab \in Nat \ {0}
        BY <1>1
    <2> HIDE DEF slab
    <2>2. rate \in Nat
        BY <1>3, <2>1, FairSlabs
    <2>3. \A x, y \in Nat : x * y \in Nat
        OBVIOUS
    <2> HIDE DEF rate
    <2> QED BY <1>1, <2>2, <2>3
<1>5. slab \in 1..Len(slabs) + 1 /\ within \in Nat /\ within <= figure.annual + Step
    BY <1>1
<1>6. /\ figure' \in [of: {"income"}, slabs: Seq(Rates), annual: Nat, tax: Nat,
                      slab: Nat, within: Nat]
      /\ figure'.slabs = slabs /\ figure'.annual = figure.annual + Step
      /\ figure'.tax = figure.tax + Step * rate /\ figure'.slab = slab
      /\ figure'.within = within
    <2>1. slab \in Nat
        BY <1>5
    <2> HIDE DEF rate, slab, within
    <2>2. figure.annual + Step \in Nat /\ figure.tax + Step * rate \in Nat
        BY <1>1, <1>4
    <2> DEFINE earned == figure.annual + Step
               paid == figure.tax + Step * rate
    <2>3. figure' = [figure EXCEPT !.annual = earned, !.tax = paid,
                                   !.slab = slab, !.within = within]
        BY <1>2
    <2> HIDE DEF earned, paid
    <2>4. earned \in Nat /\ paid \in Nat
        BY <2>2 DEF earned, paid
    <2>5. /\ figure' \in [of: {"income"}, slabs: Seq(Rates), annual: Nat, tax: Nat,
                           slab: Nat, within: Nat]
          /\ figure'.slabs = slabs /\ figure'.annual = earned
          /\ figure'.tax = paid /\ figure'.slab = slab
          /\ figure'.within = within
        BY <1>1, <1>5, <2>1, <2>3, <2>4
    <2> QED BY <2>5 DEF earned, paid
<1>7. IncomeTyped(figure')
    <2> HIDE DEF rate, slab, within, slabs
    <2> QED BY <1>5, <1>6 DEF IncomeTyped
<1>8. Multiple(within)
    <2>1. CASE full
        BY <2>1, FirstMultiples
    <2>2. CASE ~full
        BY <1>1, <2>2, NextMultiple DEF IncomeInv
    <2> QED BY <2>1, <2>2
<1>9. ASSUME slab <= Len(slabs)
      PROVE  slabs[slab].limit = 0 \/ within <= slabs[slab].limit
    <2>1. CASE full
        <3>1. slab \in 1..Len(slabs) /\ within = Step
            BY <1>5, <1>9, <2>1
        <3> HIDE DEF slab, within
        <3>2. Multiple(slabs[slab].limit) /\ slabs[slab].limit \in Nat
            BY <1>3, <3>1
        <3>3. slabs[slab].limit # 0 => 0 + Step <= slabs[slab].limit
            BY <3>2, FirstMultiples, NextMultiple
        <3> QED BY <1>1, <3>1, <3>3
    <2>2. CASE ~full
        <3>1. slab \in 1..Len(slabs) /\ within = figure.within + Step /\ slab = figure.slab
            BY <1>5, <1>9, <2>2
        <3>2. \/ slabs[slab].limit = 0
              \/ figure.within <= slabs[slab].limit /\ slabs[slab].limit # figure.within
            BY <1>1, <1>9, <2>2, <3>1 DEF IncomeInv
        <3>3. Multiple(slabs[slab].limit) /\ slabs[slab].limit \in Nat /\ Multiple(figure.within)
            BY <1>3, <3>1 DEF IncomeInv
        <3> HIDE DEF slab, within, slabs
        <3> QED BY <1>1, <3>1, <3>2, <3>3, NextMultiple
    <2> QED BY <2>1, <2>2
<1>10. ASSUME NEW tax, Taxes(tax, slabs), NEW x \in Nat
       PROVE  tax[<<1, (figure.annual + Step) - within + x>>]
                = (figure.tax + Step * rate) - within * rate + tax[<<slab, x>>]
    <2>1. \A y \in Nat : tax[<<1, figure.annual - figure.within + y>>]
                           = figure.tax - figure.within * RateIn(slabs, old) + tax[<<old, y>>]
        BY <1>10 DEF IncomeInv, Billed
    <2>2. \A i \in 1..Len(slabs) + 1, y \in Int : tax[<<i, y>>] \in Nat
        BY <1>3, <1>10, TaxIsNat
    <2>3. tax[<<slab, x>>] \in Nat
        BY <1>5, <2>2
    <2>6. RateIn(slabs, old) \in Nat
        BY <1>1, <1>3, FairSlabs
    <2>4. CASE full
        <3> DEFINE paid == figure.within * RateIn(slabs, old)
        <3>1. tax[<<old, figure.within + x>>] = paid + tax[<<old + 1, x>>]
            BY <1>10, <2>4, LastSlab
        <3>2. paid \in Nat
            <4>1. \A m, n \in Nat : m * n \in Nat
                OBVIOUS
            <4> QED BY <1>1, <2>6, <4>1
        <3>3. /\ figure.within + x \in Nat
              /\ figure.annual - figure.within + (figure.within + x)
                   = (figure.annual + Step) - within + x
            BY <1>1, <2>4
        <3>4. slab = old + 1 /\ within = Step
            BY <2>4
        <3>5. tax[<<1, (figure.annual + Step) - within + x>>]
                = figure.tax - paid + tax[<<old, figure.within + x>>]
            BY <2>1, <3>3
        <3>6. within * rate = Step * rate
            BY <3>4, Zenon
        <3> HIDE DEF paid, rate, slab, within
        <3>7. tax[<<old + 1, x>>] \in Nat
            BY <2>3, <3>4
        <3>8. tax[<<1, (figure.annual + Step) - within + x>>]
                = figure.tax - paid + (paid + tax[<<old + 1, x>>])
            BY <3>1, <3>5
        <3>9. figure.tax \in Nat /\ within * rate \in Nat
            BY <1>1, <1>4, <3>6
        <3> HIDE DEF old
        <3>10. \A t, p, w, c \in Nat : t - p + (p + c) = (t + w) - w + c
            OBVIOUS
        <3>11. figure.tax - paid + (paid + tax[<<old + 1, x>>])
                 = (figure.tax + within * rate) - within * rate + tax[<<old + 1, x>>]
            BY <3>2, <3>7, <3>9, <3>10
        <3> QED BY <3>4, <3>6, <3>8, <3>11
    <2>5. CASE ~full
        <3>1. slab = old /\ within = figure.within + Step
            BY <2>5
        <3>2. figure.annual - figure.within + x = (figure.annual + Step) - within + x
            BY <1>1, <3>1
        <3> HIDE DEF slab, within
        <3>3. rate = RateIn(slabs, old)
            BY <3>1
        <3> HIDE DEF rate, slabs, old
        <3>4. (figure.within + Step) * rate = figure.within * rate + Step * rate
            BY <1>1, <1>4
        <3>5. figure.within * rate \in Nat
            <4>1. \A m, n \in Nat : m * n \in Nat
                OBVIOUS
            <4> QED BY <1>1, <1>4, <4>1
        <3>6. tax[<<1, (figure.annual + Step) - within + x>>]
                = figure.tax - figure.within * rate + tax[<<slab, x>>]
            BY <2>1, <3>1, <3>2, <3>3
        <3>7. \A t, w, y, c \in Nat : t - w + c = (t + y) - (w + y) + c
            OBVIOUS
        <3>8. figure.tax - figure.within * rate + tax[<<slab, x>>]
                = (figure.tax + Step * rate) - (figure.within * rate + Step * rate)
                  + tax[<<slab, x>>]
            BY <1>1, <1>4, <2>3, <3>5, <3>7
        <3> QED BY <3>1, <3>4, <3>6, <3>8
    <2> QED BY <2>4, <2>5
<1>11. \A tax : Taxes(tax, figure'.slabs) => Billed(figure', tax)
    <2> HIDE DEF rate, slab, within, slabs
    <2> QED BY <1>6, <1>10 DEF Billed, rate
<1> HIDE DEF rate, slab, within, slabs
<1> QED BY <1>3, <1>6, <1>7, <1>8, <1>9, <1>11 DEF IncomeInv

LEMMA IncomeCounts ==
    ASSUME NEW f, IncomeInv(f)
    PROVE  CalculateNepalTDS(f.annual, f.slabs) = Monthly(f.tax)
<1> DEFINE tax == CHOOSE t : Taxes(t, f.slabs)
           slabs == f.slabs
           rate == RateIn(slabs, f.slab)
<1>1. /\ f.annual \in Nat /\ f.tax \in Nat /\ f.within \in Nat /\ f.within <= f.annual
      /\ f.slab \in 1..Len(slabs) + 1 /\ Fair(slabs) /\ slabs \in Seq(Rates)
      /\ Len(slabs) \in Nat
    BY FairSlabs DEF IncomeInv, IncomeTyped
<1>2. Taxes(tax, slabs)
    BY <1>1, TaxesExist
<1>3. CalculateNepalTDS(f.annual, slabs) = Monthly(tax[<<1, f.annual>>])
    BY DEF CalculateNepalTDS, Taxes, Places
<1> HIDE DEF tax
<1>4. tax[<<1, f.annual>>] = f.tax - f.within * rate + tax[<<f.slab, f.within>>]
    <2>1. f.annual - f.within + f.within = f.annual
        BY <1>1
    <2>2. tax[<<1, f.annual - f.within + f.within>>]
            = f.tax - f.within * rate + tax[<<f.slab, f.within>>]
        BY <1>1, <1>2 DEF IncomeInv, Billed
    <2> QED BY <2>1, <2>2
<1>5. tax[<<f.slab, f.within>>] = Owed(tax, slabs, f.slab, f.within)
    BY <1>1, <1>2, TaxOwed
<1>6. f.within * rate \in Nat /\ Owed(tax, slabs, f.slab, f.within) = f.within * rate
    <2>1. rate \in Nat
        BY <1>1, FairSlabs
    <2>2. f.within * rate \in Nat
        <3>1. \A m, n \in Nat : m * n \in Nat
            OBVIOUS
        <3> QED BY <1>1, <2>1, <3>1
    <2>3. CASE f.slab > Len(slabs)
        <3>1. rate = 0
            BY <1>1, <2>3 DEF RateIn
        <3> HIDE DEF rate
        <3> QED BY <1>1, <2>3, <3>1 DEF Owed
    <2>4. CASE f.within = 0
        <3> HIDE DEF rate
        <3> QED BY <1>1, <2>1, <2>4 DEF Owed
    <2>5. CASE ~(f.slab > Len(slabs)) /\ f.within # 0
        <3> DEFINE here == slabs[f.slab]
        <3>1. f.slab \in 1..Len(slabs) /\ f.slab <= Len(slabs)
            BY <1>1, <2>5
        <3>2. here \in Rates /\ here.limit \in Nat
            BY <1>1, <3>1, FairSlabs
        <3>3. here.limit = 0 \/ f.within <= here.limit
            BY <3>1 DEF IncomeInv
        <3>4. Taxable(f.within, here) = f.within
            BY <1>1, <3>2, <3>3 DEF Taxable
        <3>5. rate = here.rate
            BY <3>1 DEF RateIn
        <3>6. tax[<<f.slab + 1, 0>>] = 0
            <4>1. f.slab + 1 \in 1..Len(slabs) + 1
                BY <3>1
            <4>2. tax[<<f.slab + 1, 0>>] = Owed(tax, slabs, f.slab + 1, 0)
                BY <1>2, <4>1, TaxOwed
            <4> QED BY <4>2 DEF Owed
        <3>7. f.within - f.within = 0 /\ ~(f.within <= 0)
            BY <1>1, <2>5
        <3>8. Owed(tax, slabs, f.slab, f.within) = f.within * rate + 0
            BY <2>5, <3>4, <3>5, <3>6, <3>7 DEF Owed
        <3> QED BY <2>2, <3>8
    <2> QED BY <2>2, <2>3, <2>4, <2>5
<1> HIDE DEF rate
<1> QED BY <1>1, <1>3, <1>4, <1>5, <1>6

-----------------------------------------------------------------------------
(* PayFigures: overtime and leaves *)

\* A stay that the count is about has its early hours before the shift, and
\* its late ones after it.
Regular(f) ==
    /\ f.in + f.hours <= 24 + f.shift.start
    /\ f.shift.end < f.shift.start => f.in >= f.shift.end
Reaches(in, hours, start, end) ==
    start < end /\ in < end /\ in < in + hours /\ start < in + hours
StayTyped(f) ==
    f \in [of: {"stay"}, shift: WorkShifts, in: 0..23, hours: 0..23,
           early: Nat, late: Nat, begun: BOOLEAN]
StayInv(f) ==
    /\ StayTyped(f)
    /\ Regular(f) =>
         /\ f.begun <=> Reaches(f.in, f.hours, f.shift.start, ShiftEnds(f.shift))
         /\ f.early = IF f.begun THEN AtLeast0(f.shift.start - f.in) ELSE f.hours
         /\ f.late = IF f.begun THEN AtLeast0(f.in + f.hours - ShiftEnds(f.shift))
                     ELSE 0

\* Of the hours of such a stay, those from the start to the end of the shift
\* are at work.
LEMMA HoursAtWork ==
    ASSUME NEW shift \in [start: 0..23, end: 0..23], NEW in \in 0..23, NEW hours \in 0..22,
           in + hours + 1 <= 24 + shift.start,
           shift.end < shift.start => in >= shift.end
    PROVE  AtWork(shift, (in + hours) % 24)
             <=> shift.start <= in + hours /\ in + hours < ShiftEnds(shift)
<1> DEFINE s == shift.start
           e == shift.end
           h == in + hours
<1>1. s \in 0..23 /\ e \in 0..23 /\ h \in 0..45 /\ h + 1 <= 24 + s /\ in <= h
    OBVIOUS
<1>2. e < s => in >= e
    OBVIOUS
<1>3. AtWork(shift, h % 24) <=> IF s <= e THEN s <= h % 24 /\ h % 24 < e
                                ELSE s <= h % 24 \/ h % 24 < e
    BY DEF AtWork
<1>4. ShiftEnds(shift) = IF e < s THEN e + 24 ELSE e
    BY DEF ShiftEnds
<1> HIDE DEF s, e, h
<1>5. h % 24 = IF h < 24 THEN h ELSE h - 24
    BY <1>1
<1>6. AtWork(shift, h % 24) <=> s <= h /\ h < (IF e < s THEN e + 24 ELSE e)
    BY <1>1, <1>2, <1>3, <1>5
<1> QED BY <1>4, <1>6 DEF s, e, h

LEMMA StayStep == StayInv(figure) /\ AnHour => StayInv(figure')
<1> SUFFICES ASSUME StayInv(figure), AnHour PROVE StayInv(figure')
    OBVIOUS
<1> DEFINE on == AtWork(figure.shift, (figure.in + figure.hours) % 24)
           begun == figure.begun \/ on
           early == IF on \/ figure.begun THEN figure.early ELSE figure.early + 1
           late == IF ~on /\ figure.begun THEN figure.late + 1 ELSE figure.late
           s == figure.shift.start
           e == ShiftEnds(figure.shift)
<1>1. /\ figure \in [of: {"stay"}, shift: WorkShifts, in: 0..23, hours: 0..23,
                     early: Nat, late: Nat, begun: BOOLEAN]
      /\ figure.hours < 23
    BY DEF StayInv, StayTyped, AnHour
<1>2. figure' = [figure EXCEPT !.hours = @ + 1, !.begun = begun, !.early = early,
                               !.late = late]
    BY DEF AnHour
<1>3. on \in BOOLEAN
    BY DEF AtWork
<1>4. /\ figure.shift \in [start: 0..23, end: 0..23]
      /\ figure.in \in 0..23 /\ figure.hours \in 0..22
    BY <1>1, DaysAssumption
<1>5. s \in 0..23 /\ e \in 0..47
    BY <1>4 DEF ShiftEnds
<1>6. /\ StayTyped(figure')
      /\ figure'.shift = figure.shift /\ figure'.in = figure.in
      /\ figure'.hours = figure.hours + 1 /\ figure'.begun = begun
      /\ figure'.early = early /\ figure'.late = late
    <2>1. begun \in BOOLEAN /\ early \in Nat /\ late \in Nat
        BY <1>1, <1>3
    <2> DEFINE hours == figure.hours + 1
    <2>2. hours \in 0..23
        BY <1>4
    <2>3. figure' = [figure EXCEPT !.hours = hours, !.begun = begun, !.early = early,
                                   !.late = late]
        BY <1>2
    <2> HIDE DEF begun, early, late, hours
    <2>4. /\ figure' \in [of: {"stay"}, shift: WorkShifts, in: 0..23, hours: 0..23,
                           early: Nat, late: Nat, begun: BOOLEAN]
          /\ figure'.shift = figure.shift /\ figure'.in = figure.in
          /\ figure'.hours = hours /\ figure'.begun = begun
          /\ figure'.early = early /\ figure'.late = late
        BY <1>1, <2>1, <2>2, <2>3
    <2> QED BY <2>4 DEF StayTyped, hours
<1>7. ASSUME Regular(figure')
      PROVE  /\ begun <=> Reaches(figure.in, figure.hours + 1, s, e)
             /\ early = IF begun THEN AtLeast0(s - figure.in) ELSE figure.hours + 1
             /\ late = IF begun THEN AtLeast0(figure.in + (figure.hours + 1) - e) ELSE 0
    <2>1. /\ figure.in + figure.hours + 1 <= 24 + s
          /\ figure.shift.end < s => figure.in >= figure.shift.end
        BY <1>4, <1>5, <1>6, <1>7 DEF Regular
    <2>2. on <=> s <= figure.in + figure.hours /\ figure.in + figure.hours < e
        BY <1>4, <2>1, HoursAtWork
    <2>3. Regular(figure)
        BY <1>4, <1>5, <2>1 DEF Regular
    <2>4. /\ figure.begun <=> Reaches(figure.in, figure.hours, s, e)
          /\ figure.early = IF figure.begun THEN AtLeast0(s - figure.in) ELSE figure.hours
          /\ figure.late = IF figure.begun THEN AtLeast0(figure.in + figure.hours - e) ELSE 0
        BY <2>3 DEF StayInv
    <2> DEFINE i == figure.in
               n == figure.hours
               b == figure.begun
               y == figure.early
               l == figure.late
    <2>5. i \in 0..23 /\ n \in 0..22 /\ b \in BOOLEAN /\ y \in Nat /\ l \in Nat
        BY <1>1, <1>4
    <2> HIDE DEF on, s, e
    <2>6. /\ on <=> s <= i + n /\ i + n < e
          /\ b <=> Reaches(i, n, s, e)
          /\ y = IF b THEN AtLeast0(s - i) ELSE n
          /\ l = IF b THEN AtLeast0(i + n - e) ELSE 0
        BY <2>2, <2>4
    <2> HIDE DEF i, n, b, y, l
    <2>7. b \/ on <=> Reaches(i, n + 1, s, e)
        BY <1>5, <2>5, <2>6 DEF Reaches
    <2>8. (IF on \/ b THEN y ELSE y + 1) = IF b \/ on THEN AtLeast0(s - i) ELSE n + 1
        BY <1>5, <2>5, <2>6 DEF Reaches, AtLeast0
    <2>9. (IF ~on /\ b THEN l + 1 ELSE l) = IF b \/ on THEN AtLeast0(i + (n + 1) - e) ELSE 0
        BY <1>5, <2>5, <2>6 DEF Reaches, AtLeast0
    <2> QED BY <2>7, <2>8, <2>9 DEF i, n, b, y, l
<1> HIDE DEF begun, early, late
<1>8. Regular(figure') =>
         /\ figure'.begun <=> Reaches(figure'.in, figure'.hours, figure'.shift.start,
                                      ShiftEnds(figure'.shift))
         /\ figure'.early = IF figure'.begun THEN AtLeast0(figure'.shift.start - figure'.in)
                            ELSE figure'.hours
         /\ figure'.late = IF figure'.begun
                           THEN AtLeast0(figure'.in + figure'.hours - ShiftEnds(figure'.shift))
                           ELSE 0
    BY <1>6, <1>7
<1> QED BY <1>6, <1>8 DEF StayInv

LEMMA StayStarts ==
    ASSUME NEW f \in Stays
    PROVE  StayInv(f)
<1>1. /\ f \in [of: {"stay"}, shift: WorkShifts, in: 0..23, hours: {0},
                early: {0}, late: {0}, begun: {FALSE}]
    BY DEF Stays
<1>2. StayTyped(f) /\ f.hours = 0 /\ f.early = 0 /\ f.late = 0 /\ f.begun = FALSE
    <2>1. f.hours = 0 /\ f.early = 0 /\ f.late = 0 /\ f.begun = FALSE
        BY <1>1
    <2>2. /\ f = [of |-> f.of, shift |-> f.shift, in |-> f.in, hours |-> f.hours,
                  early |-> f.early, late |-> f.late, begun |-> f.begun]
          /\ f.of \in {"stay"} /\ f.shift \in WorkShifts /\ f.in \in 0..23
        BY <1>1
    <2>3. f.hours \in 0..23 /\ f.early \in Nat /\ f.late \in Nat /\ f.begun \in BOOLEAN
        <3>1. 0 \in 0..23 /\ 0 \in Nat
            OBVIOUS
        <3> QED BY <2>1, <3>1, Zenon
    <2>4. f \in [of: {"stay"}, shift: WorkShifts, in: 0..23, hours: 0..23,
                 early: Nat, late: Nat, begun: BOOLEAN]
        BY <2>2, <2>3
    <2> QED BY <2>1, <2>4 DEF StayTyped
<1>3. f.in \in 0..23
    BY <1>1
<1>4. ~Reaches(f.in, f.hours, f.shift.start, ShiftEnds(f.shift))
    BY <1>2, <1>3 DEF Reaches
<1> QED BY <1>2, <1>4 DEF StayInv

LEMMA StayCounts ==
    ASSUME NEW f, StayInv(f), f.begun, Regular(f)
    PROVE  Overtime(f.shift, f.in, f.in + f.hours) =
             (IF f.early > EarlyGrace THEN f.early ELSE 0)
             + (IF f.late > LateGrace THEN f.late ELSE 0)
<1> DEFINE a == f.shift.start - f.in
           b == (f.in + f.hours) - ShiftEnds(f.shift)
<1>1. /\ f \in [of: {"stay"}, shift: WorkShifts, in: 0..23, hours: 0..23,
                early: Nat, late: Nat, begun: BOOLEAN]
      /\ WorkShifts \subseteq [start: 0..23, end: 0..23]
      /\ EarlyGrace \in Nat /\ LateGrace \in Nat
    BY DaysAssumption DEF StayInv, StayTyped
<1>2. a \in Int /\ b \in Int
    BY <1>1 DEF ShiftEnds
<1>3. f.early = AtLeast0(a) /\ f.late = AtLeast0(b)
    <2>1. f.in + f.hours - ShiftEnds(f.shift) = b
        BY <1>1 DEF ShiftEnds
    <2> HIDE DEF b
    <2> QED BY <2>1 DEF StayInv
<1>4. Overtime(f.shift, f.in, f.in + f.hours) = Beyond(a, EarlyGrace) + Beyond(b, LateGrace)
    <2>1. \A shift, in, out :
            Overtime(shift, in, out) = Beyond(shift.start - in, EarlyGrace)
                                       + Beyond(out - ShiftEnds(shift), LateGrace)
        BY DEF Overtime
    <2> QED BY <2>1
<1> HIDE DEF a, b
<1>5. /\ Beyond(a, EarlyGrace) = IF AtLeast0(a) > EarlyGrace THEN AtLeast0(a) ELSE 0
      /\ Beyond(b, LateGrace) = IF AtLeast0(b) > LateGrace THEN AtLeast0(b) ELSE 0
    BY <1>1, <1>2 DEF Beyond, AtLeast0
<1> QED BY <1>3, <1>4, <1>5

\* The days of a leave in the month.
LeaveTyped(f) == f \in [of: {"leave"}, from: Int, to: Int, days: Nat]
InMonth(from, to) ==
    AtLeast0((IF to < MonthEnd THEN to ELSE MonthEnd)
             - (IF from > FirstDay THEN from ELSE FirstDay) + 1)
LeaveInv(f) ==
    LeaveTyped(f) /\ f.from <= f.to /\ f.days = InMonth(f.from, f.to)

LEMMA LeaveStarts ==
    ASSUME NEW f \in Leaves
    PROVE  LeaveInv(f)
<1>1. PICK d \in DayOfLeave :
        f = [of |-> "leave", from |-> d, to |-> d,
             days |-> IF d \in FirstDay..MonthEnd THEN 1 ELSE 0]
    BY DEF Leaves
<1>2. d \in Int /\ FirstDay \in Int /\ MonthEnd \in Int /\ FirstDay <= MonthEnd
    BY DaysAssumption
<1>3. LeaveTyped(f) /\ f.from = d /\ f.to = d /\ f.days = IF d \in FirstDay..MonthEnd THEN 1 ELSE 0
    BY <1>1, <1>2 DEF LeaveTyped
<1>4. InMonth(d, d) = IF d \in FirstDay..MonthEnd THEN 1 ELSE 0
    BY <1>2 DEF InMonth, AtLeast0
<1> QED BY <1>2, <1>3, <1>4 DEF LeaveInv

LEMMA LeaveStep == LeaveInv(figure) /\ ADay => LeaveInv(figure')
<1> SUFFICES ASSUME LeaveInv(figure), ADay PROVE LeaveInv(figure')
    OBVIOUS
<1> DEFINE from == figure.from
           to == figure.to
           days == IF to + 1 \in FirstDay..MonthEnd THEN figure.days + 1 ELSE figure.days
<1>1. /\ figure \in [of: {"leave"}, from: Int, to: Int, days: Nat]
      /\ from \in Int /\ to \in Int /\ from <= to /\ figure.days = InMonth(from, to)
      /\ FirstDay \in Int /\ MonthEnd \in Int /\ FirstDay <= MonthEnd
    BY DaysAssumption DEF LeaveInv, LeaveTyped
<1>2. figure' = [figure EXCEPT !.to = @ + 1, !.days = days]
    BY DEF ADay
<1>3. days \in Nat /\ days = InMonth(from, to + 1)
    BY <1>1 DEF InMonth, AtLeast0
<1> HIDE DEF days
<1>4. LeaveTyped(figure') /\ figure'.from = from /\ figure'.to = to + 1 /\ figure'.days = days
    <2> DEFINE last == to + 1
    <2>1. last \in Int /\ figure' = [figure EXCEPT !.to = last, !.days = days]
        BY <1>1, <1>2
    <2> HIDE DEF last
    <2>2. /\ figure' \in [of: {"leave"}, from: Int, to: Int, days: Nat]
          /\ figure'.from = from /\ figure'.to = last /\ figure'.days = days
        BY <1>1, <1>3, <2>1
    <2> QED BY <2>2 DEF LeaveTyped, last
<1> HIDE DEF from, to
<1> QED BY <1>1, <1>3, <1>4 DEF LeaveInv

LEMMA LeaveCounts ==
    ASSUME NEW f, LeaveInv(f), OnLeave(f.from, f.to)
    PROVE  LeaveDays(f.from, f.to) - f.days =
             IF f.to > MonthEnd \/ (f.from < FirstDay /\ Ahead > 0) THEN 1 ELSE 0
<1> DEFINE from == f.from
           to == f.to
<1>1. /\ from \in Int /\ to \in Int /\ from <= to /\ f.days = InMonth(from, to)
      /\ FirstDay \in Int /\ MonthEnd \in Int /\ FirstDay <= MonthEnd /\ Ahead \in {0, 1}
    BY DaysAssumption DEF LeaveInv, LeaveTyped
<1>2. 4 * from <= 4 * (MonthEnd + 1) - Ahead - 1 /\ 4 * to >= 4 * FirstDay - Ahead
    BY DEF OnLeave, MonthStarts, MonthStops
<1> HIDE DEF from, to
<1>3. from <= MonthEnd /\ to >= FirstDay
    BY <1>1, <1>2
<1>4. InMonth(from, to) = (IF to < MonthEnd THEN to ELSE MonthEnd)
                          - (IF from > FirstDay THEN from ELSE FirstDay) + 1
    BY <1>1, <1>3 DEF InMonth, AtLeast0
<1>5. LeaveDays(from, to) - InMonth(from, to) =
        IF to > MonthEnd \/ (from < FirstDay /\ Ahead > 0) THEN 1 ELSE 0
    BY <1>1, <1>3, <1>4 DEF LeaveDays, MonthStarts, MonthStops
<1> QED BY <1>1, <1>5 DEF from, to

-----------------------------------------------------------------------------
(* PayFigures: the payslip *)

\* A payslip, from the deductions made: those offered and opted in to.
Earned(pay, workingDays, present) ==
    pay.basic + pay.allowances + pay.overtime
    - DailyRate(pay.basic) * (workingDays - present)
Basic(pay, workingDays, present) ==
    AtLeast0(pay.basic - DailyRate(pay.basic) * (workingDays - present))
Withheld(taken, gross, d, amount) == IF d \in taken /\ gross > 0 THEN amount ELSE 0
BonusOf(pay, bonusMonth) ==
    IF ~bonusMonth THEN 0
    ELSE Percent(pay.basic, IF pay.bonus = NoBonus THEN OrgBonus ELSE pay.bonus)
SsfOf(pay, taken, workingDays, present) ==
    Withheld(taken, Earned(pay, workingDays, present), "ssf",
             Percent(Basic(pay, workingDays, present), pay.ssfRate))
PfOf(pay, taken, workingDays, present) ==
    Withheld(taken, Earned(pay, workingDays, present), "pf",
             Percent(Basic(pay, workingDays, present), pay.pfRate))
CitOf(pay, taken, workingDays, present) ==
    Withheld(taken, Earned(pay, workingDays, present), "cit", pay.cit)
AdvanceOf(pay, workingDays, present) ==
    IF Earned(pay, workingDays, present) > 0 THEN pay.advance ELSE 0
Remains(pay, taken, workingDays, present, bonusMonth) ==
    Earned(pay, workingDays, present) + BonusOf(pay, bonusMonth)
    - SsfOf(pay, taken, workingDays, present) - PfOf(pay, taken, workingDays, present)
    - CitOf(pay, taken, workingDays, present)
TaxOn(pay, row, taken, rest) ==
    CalculateNepalTDS(12 * rest, SlabsFor(row, pay.isMarried, "ssf" \in taken))
TdsOf(pay, row, taken, workingDays, present, bonusMonth) ==
    Withheld(taken, Earned(pay, workingDays, present), "tds",
             TaxOn(pay, row, taken, Remains(pay, taken, workingDays, present, bonusMonth)))
RawOf(pay, row, taken, workingDays, present, bonusMonth) ==
    SsfOf(pay, taken, workingDays, present) + PfOf(pay, taken, workingDays, present)
    + CitOf(pay, taken, workingDays, present) + AdvanceOf(pay, workingDays, present)
    + TdsOf(pay, row, taken, workingDays, present, bonusMonth)
SlipFrom(present, gross, bonus, raw) ==
    LET total == IF raw < gross + bonus THEN raw ELSE gross + bonus IN
    IF present = 0 THEN [gross |-> 0, bonus |-> 0, total |-> 0, net |-> 0]
    ELSE [gross |-> gross, bonus |-> bonus, total |-> total,
          net |-> AtLeast0(gross + bonus - total)]
SlipOf(pay, row, taken, workingDays, present, bonusMonth) ==
    SlipFrom(present, Earned(pay, workingDays, present), BonusOf(pay, bonusMonth),
             RawOf(pay, row, taken, workingDays, present, bonusMonth))

LEMMA SlipMade ==
    ASSUME NEW pay, NEW row, NEW offers, NEW workingDays, NEW present, NEW bonusMonth
    PROVE  CalculateEmployeePayroll(pay, row, offers, workingDays, present, bonusMonth)
             = SlipOf(pay, row, offers \cap pay.optedIn, workingDays, present, bonusMonth)
BY Zenon DEF CalculateEmployeePayroll, SlipOf, SlipFrom, Earned, BonusOf, RawOf, SsfOf, PfOf,
       CitOf, AdvanceOf, TdsOf, TaxOn, Remains, Withheld, Basic, WaivesFirstSlab

\* Only what is offered counts of what is opted in to.
LEMMA OffersOnly ==
    ASSUME NEW pay \in PaySettings, NEW row \in TaxConfigs, NEW offers \in SUBSET Deductions,
           NEW workingDays, NEW present, NEW bonusMonth
    PROVE  CalculateEmployeePayroll(pay, row, offers, workingDays, present, bonusMonth)
             = CalculateEmployeePayroll([pay EXCEPT !.optedIn = @ \cap offers], row,
                                        offers, workingDays, present, bonusMonth)
<1> DEFINE other == [pay EXCEPT !.optedIn = @ \cap offers]
           taken == offers \cap pay.optedIn
<1>1. pay \in [basic: Nat, allowances: Nat, overtime: Nat, ssfRate: 0..100,
               pfRate: 0..100, cit: Nat, advance: Nat, bonus: Nat \cup {NoBonus},
               optedIn: SUBSET Deductions, isMarried: BOOLEAN]
    BY PayAssumption
<1>2. /\ other.basic = pay.basic /\ other.allowances = pay.allowances
      /\ other.overtime = pay.overtime /\ other.ssfRate = pay.ssfRate
      /\ other.pfRate = pay.pfRate /\ other.cit = pay.cit
      /\ other.advance = pay.advance /\ other.bonus = pay.bonus
      /\ other.optedIn = pay.optedIn \cap offers
      /\ other.isMarried = pay.isMarried
    BY <1>1
<1>3. offers \cap other.optedIn = taken
    BY <1>2
<1> HIDE DEF other, taken
<1>4. Earned(other, workingDays, present) = Earned(pay, workingDays, present)
    BY <1>2, Zenon DEF Earned
<1>5. Basic(other, workingDays, present) = Basic(pay, workingDays, present)
    BY <1>2, Zenon DEF Basic
<1>6. BonusOf(other, bonusMonth) = BonusOf(pay, bonusMonth)
    BY <1>2, Zenon DEF BonusOf
<1>7. /\ SsfOf(other, taken, workingDays, present) = SsfOf(pay, taken, workingDays, present)
      /\ PfOf(other, taken, workingDays, present) = PfOf(pay, taken, workingDays, present)
      /\ CitOf(other, taken, workingDays, present) = CitOf(pay, taken, workingDays, present)
      /\ AdvanceOf(other, workingDays, present) = AdvanceOf(pay, workingDays, present)
    BY <1>2, <1>4, <1>5, Zenon DEF SsfOf, PfOf, CitOf, AdvanceOf
<1>8. Remains(other, taken, workingDays, present, bonusMonth)
        = Remains(pay, taken, workingDays, present, bonusMonth)
    BY <1>4, <1>6, <1>7, Zenon DEF Remains
<1>9. RawOf(other, row, taken, workingDays, present, bonusMonth)
        = RawOf(pay, row, taken, workingDays, present, bonusMonth)
    BY <1>2, <1>4, <1>7, <1>8, Zenon DEF RawOf, TdsOf, TaxOn
<1>10. SlipOf(other, row, taken, workingDays, present, bonusMonth)
         = SlipOf(pay, row, taken, workingDays, present, bonusMonth)
    BY <1>4, <1>6, <1>9, Zenon DEF SlipOf
<1>11. CalculateEmployeePayroll(other, row, offers, workingDays, present, bonusMonth)
         = SlipOf(other, row, taken, workingDays, present, bonusMonth)
    BY <1>3, SlipMade
<1>12. CalculateEmployeePayroll(pay, row, offers, workingDays, present, bonusMonth)
         = SlipOf(pay, row, taken, workingDays, present, bonusMonth)
    BY SlipMade DEF taken
<1> QED BY <1>10, <1>11, <1>12 DEF other

\* A percentage, rounded, rises with what it is taken of.
LEMMA PercentRises ==
    ASSUME NEW n \in Nat, NEW m \in Nat, n <= m, NEW rate \in Nat
    PROVE  /\ Percent(n, rate) \in Nat /\ Percent(m, rate) \in Nat
           /\ Percent(n, rate) <= Percent(m, rate)
           /\ 100 * (Percent(m, rate) - Percent(n, rate)) <= (m - n) * rate + 99
<1> DEFINE d == m - n
           a == n * rate
           b == d * rate
<1>1. d \in Nat /\ m = n + d
    OBVIOUS
<1>2. \A x, y \in Nat : x * y \in Nat
    OBVIOUS
<1>3. a \in Nat /\ b \in Nat
    <2> HIDE DEF d
    <2> QED BY <1>1, <1>2
<1>4. m * rate = a + b
    <2> HIDE DEF d
    <2>1. (n + d) * rate = n * rate + d * rate
        BY <1>1
    <2> QED BY <1>1, <2>1
<1>5. Percent(n, rate) = (a + 50) \div 100 /\ Percent(m, rate) = (a + b + 50) \div 100
    <2>1. Percent(m, rate) = (m * rate + 50) \div 100 /\ Percent(n, rate) = (n * rate + 50) \div 100
        BY DEF Percent
    <2> HIDE DEF a, b
    <2>2. Percent(m, rate) = (a + b + 50) \div 100
        BY <1>4, <2>1
    <2> QED BY <2>1, <2>2 DEF a
<1> HIDE DEF a, b
<1>6. /\ (a + 50) \div 100 \in Nat /\ (a + b + 50) \div 100 \in Nat
      /\ (a + 50) \div 100 <= (a + b + 50) \div 100
      /\ 100 * ((a + b + 50) \div 100 - (a + 50) \div 100) <= b + 99
    BY <1>3
<1>7. 100 * (Percent(m, rate) - Percent(n, rate)) <= b + 99
    BY <1>5, <1>6
<1> QED BY <1>5, <1>6, <1>7 DEF b

LEMMA TwoPercents ==
    ASSUME NEW n \in Nat, NEW m \in Nat, NEW day \in Nat, n <= m, m - n <= day, day >= 5,
           NEW r \in Nat, NEW s \in Nat, r + s <= 80
    PROVE  (Percent(m, r) - Percent(n, r)) + (Percent(m, s) - Percent(n, s)) <= day
<1> DEFINE d == m - n
           p == Percent(m, r) - Percent(n, r)
           q == Percent(m, s) - Percent(n, s)
<1>1. d \in Nat /\ d <= day
    OBVIOUS
<1>2. p \in Int /\ q \in Int /\ 100 * p <= d * r + 99 /\ 100 * q <= d * s + 99
    <2>1. ASSUME NEW rate \in Nat
          PROVE  /\ Percent(m, rate) - Percent(n, rate) \in Int
                 /\ 100 * (Percent(m, rate) - Percent(n, rate)) <= (m - n) * rate + 99
        <3>1. /\ Percent(n, rate) \in Nat /\ Percent(m, rate) \in Nat
              /\ 100 * (Percent(m, rate) - Percent(n, rate)) <= (m - n) * rate + 99
            BY PercentRises
        <3> QED BY <3>1
    <2> QED BY <2>1, Zenon
<1> HIDE DEF d, p, q
<1>3. d * r + d * s = d * (r + s)
    BY <1>1
<1>4. d * (r + s) <= d * 80
    <2>1. \A x, y \in Nat : y <= 80 => x * y <= x * 80
        OBVIOUS
    <2> QED BY <1>1, <2>1
<1>5. d * r \in Nat /\ d * s \in Nat
    <2>1. \A x, y \in Nat : x * y \in Nat
        OBVIOUS
    <2> QED BY <1>1, <2>1
<1>6. d * r + d * s <= 80 * day
    BY <1>1, <1>3, <1>4, <1>5
<1>7. p + q <= day
    BY <1>2, <1>5, <1>6
<1> QED BY <1>7 DEF p, q

\* What a payslip is made of are whole numbers.
LEMMA PayTyped ==
    ASSUME NEW pay \in PaySettings, NEW workingDays \in Nat, NEW present \in Nat,
           NEW bonusMonth \in BOOLEAN
    PROVE  /\ pay.ssfRate \in 0..100 /\ pay.pfRate \in 0..100
           /\ pay.cit \in Nat /\ pay.advance \in Nat /\ DailyRate(pay.basic) \in Nat
           /\ DailyRate(pay.basic) * (workingDays - present) \in Int
           /\ pay.basic \in Nat /\ pay.allowances \in Nat /\ pay.overtime \in Nat
           /\ Earned(pay, workingDays, present) \in Int
           /\ Basic(pay, workingDays, present) \in Nat
           /\ BonusOf(pay, bonusMonth) \in Nat
           /\ AdvanceOf(pay, workingDays, present) \in Nat
<1>1. /\ pay.ssfRate \in 0..100 /\ pay.pfRate \in 0..100
      /\ pay.cit \in Nat /\ pay.advance \in Nat
      /\ pay.basic \in Nat /\ pay.allowances \in Nat /\ pay.overtime \in Nat
      /\ pay.bonus \in Nat \cup {NoBonus} /\ OrgBonus \in Nat
    BY PayAssumption
<1>2. DailyRate(pay.basic) \in Nat
    BY <1>1 DEF DailyRate
<1>3. DailyRate(pay.basic) * (workingDays - present) \in Int
    <2>1. \A x, y \in Int : x * y \in Int
        OBVIOUS
    <2> QED BY <1>2, <2>1
<1>4. Earned(pay, workingDays, present) \in Int
    BY <1>1, <1>3 DEF Earned
<1>5. Basic(pay, workingDays, present) \in Nat
    BY <1>1, <1>3 DEF Basic, AtLeast0
<1>6. \A n \in Nat, rate \in Nat : Percent(n, rate) \in Nat
    BY PercentRises
<1>7. BonusOf(pay, bonusMonth) \in Nat
    BY <1>1, <1>6 DEF BonusOf
<1>8. AdvanceOf(pay, workingDays, present) \in Nat
    BY <1>1 DEF AdvanceOf
<1> QED BY <1>1, <1>2, <1>3, <1>4, <1>5, <1>7, <1>8

LEMMA SlipTyped ==
    ASSUME NEW pay \in PaySettings, NEW row \in TaxConfigs, NEW taken \in SUBSET Deductions,
           NEW workingDays \in Nat, NEW present \in Nat, NEW bonusMonth \in BOOLEAN
    PROVE  /\ SsfOf(pay, taken, workingDays, present) \in Nat
           /\ PfOf(pay, taken, workingDays, present) \in Nat
           /\ CitOf(pay, taken, workingDays, present) \in Nat
           /\ Remains(pay, taken, workingDays, present, bonusMonth) \in Int
           /\ TaxOn(pay, row, taken, Remains(pay, taken, workingDays, present, bonusMonth)) \in Nat
           /\ TdsOf(pay, row, taken, workingDays, present, bonusMonth) \in Nat
<1>1. /\ pay.ssfRate \in 0..100 /\ pay.pfRate \in 0..100 /\ pay.cit \in Nat
      /\ Earned(pay, workingDays, present) \in Int
      /\ Basic(pay, workingDays, present) \in Nat
      /\ BonusOf(pay, bonusMonth) \in Nat
    BY PayTyped
<1>2. \A n \in Nat, rate \in Nat : Percent(n, rate) \in Nat
    BY PercentRises
<1>3. /\ SsfOf(pay, taken, workingDays, present) \in Nat
      /\ PfOf(pay, taken, workingDays, present) \in Nat
      /\ CitOf(pay, taken, workingDays, present) \in Nat
    <2>1. \A gross, d, amount : amount \in Nat => Withheld(taken, gross, d, amount) \in Nat
        BY DEF Withheld
    <2>2. 0..100 \subseteq Nat
        OBVIOUS
    <2>3. /\ Percent(Basic(pay, workingDays, present), pay.ssfRate) \in Nat
          /\ Percent(Basic(pay, workingDays, present), pay.pfRate) \in Nat
        BY <1>1, <1>2, <2>2
    <2> QED BY <1>1, <2>1, <2>3, Zenon DEF SsfOf, PfOf, CitOf
<1>4. Remains(pay, taken, workingDays, present, bonusMonth) \in Int
    BY <1>1, <1>3 DEF Remains
<1>5. \A waives \in BOOLEAN : Fair(SlabsFor(row, pay.isMarried, waives))
    <2>1. pay.isMarried \in BOOLEAN
        BY PayAssumption
    <2> QED BY <2>1, ConfiguredSlabs
<1>6. TaxOn(pay, row, taken, Remains(pay, taken, workingDays, present, bonusMonth)) \in Nat
    <2> DEFINE rest == Remains(pay, taken, workingDays, present, bonusMonth)
    <2>1. rest \in Int /\ rest <= rest /\ ("ssf" \in taken) \in BOOLEAN
        BY <1>4
    <2> HIDE DEF rest
    <2>2. TaxOn(pay, row, taken, rest) \in Nat
        BY <1>5, <2>1, MonthlyTaxRises DEF TaxOn
    <2> QED BY <2>2 DEF rest
<1>7. TdsOf(pay, row, taken, workingDays, present, bonusMonth) \in Nat
    BY <1>6 DEF TdsOf, Withheld
<1> QED BY <1>3, <1>4, <1>6, <1>7

\* What is taken home before it is cut off at 0: the tax never takes more of
\* what remains than it has risen by.
TakesHome(pay, row, gross, rest, advance, taken) ==
    rest - advance - Withheld(taken, gross, "tds", TaxOn(pay, row, taken, rest))

LEMMA MoreTakesHomeMore ==
    ASSUME NEW pay \in PaySettings, NEW row \in TaxConfigs,
           NEW gross \in Int, NEW more \in Int, gross > 0 <=> more > 0,
           NEW rest \in Int, NEW above \in Int, rest <= above,
           NEW advance \in Nat, NEW taken, NEW fewer,
           fewer \subseteq taken, "ssf" \in taken <=> "ssf" \in fewer
    PROVE  TakesHome(pay, row, gross, rest, advance, taken)
             <= TakesHome(pay, row, more, above, advance, fewer)
<1> DEFINE waives == "ssf" \in taken
           slabs == SlabsFor(row, pay.isMarried, waives)
           a == CalculateNepalTDS(12 * rest, slabs)
           b == CalculateNepalTDS(12 * above, slabs)
<1>1. Fair(slabs)
    <2>1. waives \in BOOLEAN /\ pay.isMarried \in BOOLEAN
        BY PayAssumption
    <2> HIDE DEF waives
    <2> QED BY <2>1, ConfiguredSlabs
<1>2. a \in Nat /\ b \in Nat /\ a <= b /\ b - a <= above - rest
    <2> HIDE DEF slabs
    <2> QED BY <1>1, MonthlyTaxRises
<1>3. TaxOn(pay, row, taken, rest) = a /\ TaxOn(pay, row, fewer, above) = b
    <2>1. ("ssf" \in taken) = ("ssf" \in fewer)
        OBVIOUS
    <2> QED BY <2>1, Zenon DEF TaxOn
<1> HIDE DEF a, b
<1>4. /\ Withheld(taken, gross, "tds", a) \in {0, a}
      /\ \/ Withheld(fewer, more, "tds", b) = 0
         \/ Withheld(fewer, more, "tds", b) = b /\ Withheld(taken, gross, "tds", a) = a
    BY DEF Withheld
<1> DEFINE x == Withheld(taken, gross, "tds", a)
           y == Withheld(fewer, more, "tds", b)
<1>5. x \in Nat /\ y \in Nat /\ y - x <= above - rest
    <2> HIDE DEF x, y
    <2>1. x \in {0, a} /\ (y = 0 \/ (y = b /\ x = a))
        BY <1>4 DEF x, y
    <2> QED BY <1>2, <2>1
<1>6. /\ TakesHome(pay, row, gross, rest, advance, taken) = rest - advance - x
      /\ TakesHome(pay, row, more, above, advance, fewer) = above - advance - y
    BY <1>3, Zenon DEF TakesHome
<1> HIDE DEF x, y
<1> QED BY <1>5, <1>6

LEMMA SlipNet ==
    ASSUME NEW pay \in PaySettings, NEW row \in TaxConfigs, NEW taken \in SUBSET Deductions,
           NEW workingDays \in Nat, NEW present \in Nat, NEW bonusMonth \in BOOLEAN
    PROVE  LET slip == SlipOf(pay, row, taken, workingDays, present, bonusMonth)
               gross == Earned(pay, workingDays, present)
               bonus == BonusOf(pay, bonusMonth) IN
           /\ present # 0 =>
                /\ slip.gross = gross /\ slip.bonus = bonus
                /\ slip.net = AtLeast0(TakesHome(pay, row, gross,
                     Remains(pay, taken, workingDays, present, bonusMonth),
                     AdvanceOf(pay, workingDays, present), taken))
           /\ present = 0 => slip.gross = 0 /\ slip.net = 0
           /\ slip.net \in Nat
           /\ slip.gross + slip.bonus >= 0 => slip.net + slip.total = slip.gross + slip.bonus
<1> DEFINE slip == SlipOf(pay, row, taken, workingDays, present, bonusMonth)
           gross == Earned(pay, workingDays, present)
           bonus == BonusOf(pay, bonusMonth)
           raw == RawOf(pay, row, taken, workingDays, present, bonusMonth)
           rest == Remains(pay, taken, workingDays, present, bonusMonth)
           advance == AdvanceOf(pay, workingDays, present)
           ssf == SsfOf(pay, taken, workingDays, present)
           pf == PfOf(pay, taken, workingDays, present)
           cit == CitOf(pay, taken, workingDays, present)
           tds == TdsOf(pay, row, taken, workingDays, present, bonusMonth)
           home == TakesHome(pay, row, gross, rest, advance, taken)
<1>1. /\ gross \in Int /\ bonus \in Nat /\ ssf \in Nat /\ pf \in Nat /\ cit \in Nat
      /\ advance \in Nat /\ tds \in Nat /\ rest \in Int
    BY PayTyped, SlipTyped
<1>2. /\ rest = gross + bonus - ssf - pf - cit
      /\ raw = ssf + pf + cit + advance + tds
      /\ home = rest - advance - tds
    BY DEF Remains, RawOf, TakesHome, TdsOf
<1>3. slip = SlipFrom(present, gross, bonus, raw)
    BY DEF SlipOf
<1> HIDE DEF slip, gross, bonus, raw, rest, advance, ssf, pf, cit, tds, home
<1>4. raw \in Int /\ home = gross + bonus - raw
    BY <1>1, <1>2
<1>5. CASE present = 0
    <2>1. slip = [gross |-> 0, bonus |-> 0, total |-> 0, net |-> 0]
        BY <1>3, <1>5 DEF SlipFrom
    <2>2. slip.gross = 0 /\ slip.bonus = 0 /\ slip.total = 0 /\ slip.net = 0
        BY <2>1
    <2> QED BY <1>5, <2>2 DEF slip
<1>6. CASE present # 0
    <2> DEFINE total == IF raw < gross + bonus THEN raw ELSE gross + bonus
    <2>1. slip = [gross |-> gross, bonus |-> bonus, total |-> total,
                  net |-> AtLeast0(gross + bonus - total)]
        BY <1>3, <1>6 DEF SlipFrom
    <2>2. /\ slip.gross = gross /\ slip.bonus = bonus /\ slip.total = total
          /\ slip.net = AtLeast0(gross + bonus - total)
        BY <2>1
    <2>3. /\ AtLeast0(gross + bonus - total) = AtLeast0(home)
          /\ AtLeast0(gross + bonus - total) \in Nat
          /\ gross + bonus >= 0 =>
               AtLeast0(gross + bonus - total) + total = gross + bonus
        BY <1>1, <1>4 DEF AtLeast0
    <2> HIDE DEF total
    <2>4. /\ slip.net = AtLeast0(home) /\ slip.net \in Nat
          /\ gross + bonus >= 0 => slip.net + slip.total = gross + bonus
        BY <2>2, <2>3
    <2> QED BY <1>6, <2>2, <2>4 DEF slip, gross, bonus, home, rest, advance
<1> QED BY <1>5, <1>6

LEMMA AtLeast0Rises ==
    ASSUME NEW x \in Int, NEW y \in Int, x <= y
    PROVE  AtLeast0(x) <= AtLeast0(y)
BY DEF AtLeast0

\* Another day at work: of what it pays, SSF and PF take no more than that.
LEMMA AnotherDay ==
    ASSUME NEW pay \in PaySettings, NEW row \in TaxConfigs, LeavesAFifth(pay),
           NEW taken \in SUBSET Deductions,
           NEW workingDays \in Nat, NEW before \in Nat, NEW bonusMonth \in BOOLEAN,
           before # 0, Earned(pay, workingDays, before) > 0
    PROVE  SlipOf(pay, row, taken, workingDays, before, bonusMonth).net
             <= SlipOf(pay, row, taken, workingDays, before + 1, bonusMonth).net
<1> DEFINE present == before + 1
           day == DailyRate(pay.basic)
           missed == day * (workingDays - before)
           misses == day * (workingDays - present)
           g == Earned(pay, workingDays, before)
           h == Earned(pay, workingDays, present)
           m == Basic(pay, workingDays, before)
           n == Basic(pay, workingDays, present)
           bonus == BonusOf(pay, bonusMonth)
           r == Remains(pay, taken, workingDays, before, bonusMonth)
           s == Remains(pay, taken, workingDays, present, bonusMonth)
           advance == AdvanceOf(pay, workingDays, before)
<1>1. /\ day \in Nat /\ day >= 5 /\ pay.ssfRate \in Nat /\ pay.pfRate \in Nat
      /\ pay.ssfRate + pay.pfRate <= 80 /\ pay.cit \in Nat
      /\ present \in Nat /\ present # 0
    <2>1. /\ pay.ssfRate \in 0..100 /\ pay.pfRate \in 0..100 /\ pay.cit \in Nat
          /\ DailyRate(pay.basic) \in Nat
        BY PayTyped
    <2>2. \A k \in 0..100 : k \in Nat
        OBVIOUS
    <2>3. DailyRate(pay.basic) >= 5 /\ pay.ssfRate + pay.pfRate <= 80
        BY DEF LeavesAFifth
    <2> QED BY <2>1, <2>2, <2>3
<1>2. /\ pay.basic \in Nat /\ pay.allowances \in Nat /\ pay.overtime \in Nat
      /\ missed \in Int /\ misses \in Int /\ bonus \in Nat
    BY <1>1, PayTyped
<1>3. missed = misses + day
    <2>1. \A x, y, z \in Int : y = z + 1 => x * y = x * z + x
        OBVIOUS
    <2>2. workingDays - before \in Int /\ workingDays - present \in Int
          /\ workingDays - before = (workingDays - present) + 1
        OBVIOUS
    <2> HIDE DEF day, present
    <2> QED BY <1>1, <2>1, <2>2
<1>4. /\ g = pay.basic + pay.allowances + pay.overtime - missed
      /\ h = pay.basic + pay.allowances + pay.overtime - misses
      /\ m = AtLeast0(pay.basic - missed) /\ n = AtLeast0(pay.basic - misses)
    BY DEF Earned, Basic
<1> HIDE DEF day, missed, misses, g, h, m, n
<1>5. /\ h = g + day /\ m \in Nat /\ n \in Nat /\ m <= n /\ n - m <= day
      /\ g \in Int /\ h \in Int
    BY <1>1, <1>2, <1>3, <1>4 DEF AtLeast0
<1>6. g > 0 /\ h > 0
    <2>1. g > 0
        BY DEF g
    <2> QED BY <1>1, <1>5, <2>1
<1> DEFINE ssf(base) == IF "ssf" \in taken THEN Percent(base, pay.ssfRate) ELSE 0
           pf(base) == IF "pf" \in taken THEN Percent(base, pay.pfRate) ELSE 0
           cit == IF "cit" \in taken THEN pay.cit ELSE 0
<1>7. /\ r = g + bonus - ssf(m) - pf(m) - cit
      /\ s = h + bonus - ssf(n) - pf(n) - cit
    <2>1. /\ SsfOf(pay, taken, workingDays, before) = ssf(m)
          /\ PfOf(pay, taken, workingDays, before) = pf(m)
          /\ CitOf(pay, taken, workingDays, before) = cit
        BY <1>6 DEF SsfOf, PfOf, CitOf, Withheld, g, m
    <2>2. /\ SsfOf(pay, taken, workingDays, present) = ssf(n)
          /\ PfOf(pay, taken, workingDays, present) = pf(n)
          /\ CitOf(pay, taken, workingDays, present) = cit
        BY <1>6 DEF SsfOf, PfOf, CitOf, Withheld, h, n
    <2> QED BY <2>1, <2>2, Zenon DEF Remains, g, h
<1>8. /\ ssf(m) \in Nat /\ ssf(n) \in Nat /\ pf(m) \in Nat /\ pf(n) \in Nat /\ cit \in Nat
      /\ (ssf(n) - ssf(m)) + (pf(n) - pf(m)) <= day
    <2> DEFINE a == Percent(m, pay.ssfRate)
               b == Percent(n, pay.ssfRate)
               c == Percent(m, pay.pfRate)
               d == Percent(n, pay.pfRate)
    <2>1. a \in Nat /\ b \in Nat /\ a <= b
        BY <1>1, <1>5, PercentRises
    <2>2. c \in Nat /\ d \in Nat /\ c <= d
        BY <1>1, <1>5, PercentRises
    <2>3. (b - a) + (d - c) <= day
        BY <1>1, <1>5, TwoPercents
    <2>4. /\ ssf(m) = IF "ssf" \in taken THEN a ELSE 0
          /\ ssf(n) = IF "ssf" \in taken THEN b ELSE 0
          /\ pf(m) = IF "pf" \in taken THEN c ELSE 0
          /\ pf(n) = IF "pf" \in taken THEN d ELSE 0
        OBVIOUS
    <2> HIDE DEF a, b, c, d, ssf, pf
    <2> QED BY <1>1, <2>1, <2>2, <2>3, <2>4
<1> HIDE DEF ssf, pf, cit, r, s, bonus
<1>9. r \in Int /\ s \in Int /\ r <= s
    BY <1>1, <1>2, <1>5, <1>7, <1>8
<1>10. AdvanceOf(pay, workingDays, present) = advance /\ advance \in Nat
    <2>1. AdvanceOf(pay, workingDays, present) = advance
        BY <1>6 DEF AdvanceOf, g, h
    <2>2. advance \in Nat
        BY PayTyped
    <2> QED BY <2>1, <2>2
<1> HIDE DEF advance
<1>11. TakesHome(pay, row, g, r, advance, taken) <= TakesHome(pay, row, h, s, advance, taken)
    BY <1>5, <1>6, <1>9, <1>10, MoreTakesHomeMore
<1>12. /\ TakesHome(pay, row, g, r, advance, taken) \in Int
       /\ TakesHome(pay, row, h, s, advance, taken) \in Int
    <2>1. Withheld(taken, g, "tds", TaxOn(pay, row, taken, r)) \in Nat
        BY SlipTyped DEF g, r, TdsOf
    <2>2. Withheld(taken, h, "tds", TaxOn(pay, row, taken, s)) \in Nat
        BY <1>1, SlipTyped DEF h, s, TdsOf
    <2> QED BY <1>9, <1>10, <2>1, <2>2 DEF TakesHome
<1>13. SlipOf(pay, row, taken, workingDays, before, bonusMonth).net
         = AtLeast0(TakesHome(pay, row, g, r, advance, taken))
    BY SlipNet DEF g, r, advance
<1>14. SlipOf(pay, row, taken, workingDays, present, bonusMonth).net
         = AtLeast0(TakesHome(pay, row, h, s, AdvanceOf(pay, workingDays, present), taken))
    BY <1>1, SlipNet DEF h, s
<1> QED BY <1>10, <1>11, <1>12, <1>13, <1>14, AtLeast0Rises

\* A deduction less, other than SSF.
LEMMA DeductionLess ==
    ASSUME NEW pay \in PaySettings, NEW row \in TaxConfigs,
           NEW taken \in SUBSET Deductions, NEW d, d # "ssf",
           NEW workingDays \in Nat, NEW present \in Nat, NEW bonusMonth \in BOOLEAN
    PROVE  SlipOf(pay, row, taken, workingDays, present, bonusMonth).net
             <= SlipOf(pay, row, taken \ {d}, workingDays, present, bonusMonth).net
<1> DEFINE fewer == taken \ {d}
           g == Earned(pay, workingDays, present)
           r == Remains(pay, taken, workingDays, present, bonusMonth)
           s == Remains(pay, fewer, workingDays, present, bonusMonth)
           advance == AdvanceOf(pay, workingDays, present)
<1>1. fewer \in SUBSET Deductions /\ fewer \subseteq taken /\ ("ssf" \in taken <=> "ssf" \in fewer)
    OBVIOUS
<1>2. CASE present = 0
    <2>1. /\ SlipOf(pay, row, taken, workingDays, present, bonusMonth).net = 0
          /\ SlipOf(pay, row, fewer, workingDays, present, bonusMonth).net = 0
        BY <1>1, <1>2, SlipNet
    <2> QED BY <2>1
<1>3. CASE present # 0
    <2>1. /\ SsfOf(pay, taken, workingDays, present) \in Nat
          /\ SsfOf(pay, fewer, workingDays, present) = SsfOf(pay, taken, workingDays, present)
        BY <1>1, SlipTyped DEF SsfOf, Withheld
    <2>2. /\ PfOf(pay, taken, workingDays, present) \in Nat
          /\ PfOf(pay, fewer, workingDays, present) \in {0, PfOf(pay, taken, workingDays, present)}
        BY <1>1, SlipTyped DEF PfOf, Withheld
    <2>3. /\ CitOf(pay, taken, workingDays, present) \in Nat
          /\ CitOf(pay, fewer, workingDays, present) \in {0, CitOf(pay, taken, workingDays, present)}
        BY <1>1, SlipTyped DEF CitOf, Withheld
    <2>4. g \in Int /\ BonusOf(pay, bonusMonth) \in Nat /\ r \in Int /\ s \in Int /\ advance \in Nat
        BY <1>1, PayTyped, SlipTyped
    <2>5. r <= s
        <3>1. /\ r = g + BonusOf(pay, bonusMonth) - SsfOf(pay, taken, workingDays, present)
                       - PfOf(pay, taken, workingDays, present)
                       - CitOf(pay, taken, workingDays, present)
              /\ s = g + BonusOf(pay, bonusMonth) - SsfOf(pay, fewer, workingDays, present)
                       - PfOf(pay, fewer, workingDays, present)
                       - CitOf(pay, fewer, workingDays, present)
            BY DEF Remains
        <3> HIDE DEF r, s, g, fewer
        <3> QED BY <2>1, <2>2, <2>3, <2>4, <3>1
    <2>6. /\ Withheld(taken, g, "tds", TaxOn(pay, row, taken, r)) \in Nat
          /\ Withheld(fewer, g, "tds", TaxOn(pay, row, fewer, s)) \in Nat
        BY <1>1, SlipTyped DEF TdsOf
    <2>7. /\ SlipOf(pay, row, taken, workingDays, present, bonusMonth).net
               = AtLeast0(TakesHome(pay, row, g, r, advance, taken))
          /\ SlipOf(pay, row, fewer, workingDays, present, bonusMonth).net
               = AtLeast0(TakesHome(pay, row, g, s, advance, fewer))
        BY <1>1, <1>3, SlipNet
    <2> HIDE DEF r, s, g, advance, fewer
    <2>8. TakesHome(pay, row, g, r, advance, taken) <= TakesHome(pay, row, g, s, advance, fewer)
        BY <1>1, <2>4, <2>5, MoreTakesHomeMore
    <2>9. /\ TakesHome(pay, row, g, r, advance, taken) \in Int
          /\ TakesHome(pay, row, g, s, advance, fewer) \in Int
        BY <2>4, <2>6 DEF TakesHome
    <2>10. SlipOf(pay, row, taken, workingDays, present, bonusMonth).net
             <= SlipOf(pay, row, fewer, workingDays, present, bonusMonth).net
        BY <2>7, <2>8, <2>9, AtLeast0Rises
    <2> QED BY <2>10 DEF fewer
<1> QED BY <1>2, <1>3

\* The payslip of a month is fair on every day.
MonthInv(f) ==
    f \in [of: {"month"}, pay: PaySettings, row: TaxConfigs, offers: SUBSET Deductions,
           workingDays: MonthDays, bonusMonth: BOOLEAN, present: Nat]

LEMMA MonthIsFair ==
    ASSUME MonthInv(figure)
    PROVE  PayslipFair
<1> DEFINE pay == figure.pay
           row == figure.row
           offers == figure.offers
           days == figure.workingDays
           present == figure.present
           bonusMonth == figure.bonusMonth
           Slip(some, at) == CalculateEmployeePayroll(pay, row, some, days, at, bonusMonth)
           SlipFor(some, at) == SlipOf(pay, row, some \cap pay.optedIn, days, at, bonusMonth)
<1>1. /\ pay \in PaySettings /\ row \in TaxConfigs /\ offers \in SUBSET Deductions /\ days \in Nat
      /\ bonusMonth \in BOOLEAN /\ present \in Nat
    BY PayAssumption DEF MonthInv
<1>2. \A some, at : Slip(some, at) = SlipFor(some, at)
    BY SlipMade
<1>3. \A some \in SUBSET Deductions : some \cap pay.optedIn \in SUBSET Deductions
    OBVIOUS
<1> DEFINE slip == Slip(offers, present)
           before == Slip(offers, present - 1)
           other == CalculateEmployeePayroll([pay EXCEPT !.optedIn = @ \cap offers], row,
                                             offers, days, present, bonusMonth)
<1>4. /\ slip.net >= 0
      /\ slip.gross + slip.bonus >= 0 => slip.net + slip.total = slip.gross + slip.bonus
    <2> DEFINE m == SlipFor(offers, present)
    <2>1. /\ m.net \in Nat
          /\ m.gross + m.bonus >= 0 => m.net + m.total = m.gross + m.bonus
        BY <1>1, <1>3, SlipNet
    <2>2. slip = m
        BY <1>2
    <2> HIDE DEF m, slip
    <2> QED BY <2>1, <2>2
<1>5. present > 0 /\ before.gross > 0 /\ LeavesAFifth(pay) => slip.net >= before.net
    <2> SUFFICES ASSUME present > 0, before.gross > 0, LeavesAFifth(pay)
                 PROVE  slip.net >= before.net
        OBVIOUS
    <2> DEFINE p == present - 1
               taken == offers \cap pay.optedIn
               m == SlipOf(pay, row, taken, days, p, bonusMonth)
               n == SlipOf(pay, row, taken, days, p + 1, bonusMonth)
    <2>1. p \in Nat /\ p + 1 = present
        BY <1>1
    <2>2. before = m /\ slip = n
        BY <1>2, <2>1
    <2>3. taken \in SUBSET Deductions
        BY <1>1
    <2>4. before.gross > 0
        OBVIOUS
    <2> HIDE DEF p, taken, slip, before
    <2>5. /\ p = 0 => m.gross = 0
          /\ p # 0 => m.gross = Earned(pay, days, p)
          /\ m.net \in Nat /\ n.net \in Nat
        BY <1>1, <2>1, <2>3, SlipNet
    <2>6. p # 0 /\ Earned(pay, days, p) > 0
        <3> HIDE DEF m
        <3>1. m.gross > 0
            BY <2>2, <2>4
        <3>2. p # 0
            <4>1. SUFFICES ASSUME p = 0 PROVE FALSE
                OBVIOUS
            <4>2. m.gross = 0
                BY <2>5, <4>1
            <4> QED BY <3>1, <4>2
        <3> QED BY <2>5, <3>1, <3>2
    <2>7. m.net <= n.net
        BY <1>1, <2>1, <2>3, <2>6, AnotherDay
    <2> HIDE DEF m, n
    <2> QED BY <2>2, <2>5, <2>7
<1>6. slip = other
    BY <1>1, OffersOnly
<1>7. ASSUME NEW d \in offers \ {"ssf"}
      PROVE  Slip(offers \ {d}, present).net >= slip.net
    <2> DEFINE taken == offers \cap pay.optedIn
               m == SlipOf(pay, row, taken, days, present, bonusMonth)
               n == SlipOf(pay, row, taken \ {d}, days, present, bonusMonth)
    <2>1. taken \in SUBSET Deductions /\ taken \ {d} \in SUBSET Deductions /\ d # "ssf"
          /\ (offers \ {d}) \cap pay.optedIn = taken \ {d}
        BY <1>1
    <2>2. Slip(offers \ {d}, present) = n /\ slip = m
        BY <1>2, <2>1
    <2> HIDE DEF taken, slip, Slip
    <2>3. m.net \in Nat /\ n.net \in Nat
        BY <1>1, <2>1, SlipNet
    <2>4. m.net <= n.net
        BY <1>1, <2>1, DeductionLess
    <2> HIDE DEF m, n
    <2> QED BY <2>2, <2>3, <2>4
<1> QED BY <1>4, <1>5, <1>6, <1>7 DEF PayslipFair

\* What is walked is one of the four.
FiguresInv == \/ StayInv(figure) \/ LeaveInv(figure)
              \/ IncomeInv(figure) \/ MonthInv(figure)

LEMMA WhichFigure ==
    ASSUME NEW f
    PROVE  /\ StayInv(f) => f.of = "stay"
           /\ LeaveInv(f) => f.of = "leave"
           /\ IncomeInv(f) => f.of = "income"
           /\ MonthInv(f) => f.of = "month"
<1>1. StayInv(f) => f.of = "stay"
    BY DEF StayInv, StayTyped
<1>2. LeaveInv(f) => f.of = "leave"
    BY DEF LeaveInv, LeaveTyped
<1>3. IncomeInv(f) => f.of = "income"
    BY DEF IncomeInv, IncomeTyped
<1>4. MonthInv(f) => f.of = "month"
    BY DEF MonthInv
<1> QED BY <1>1, <1>2, <1>3, <1>4

LEMMA FiguresStart == FigureInit => FiguresInv
<1> SUFFICES ASSUME FigureInit PROVE FiguresInv
    OBVIOUS
<1>1. CASE figure \in Stays
    BY <1>1, StayStarts DEF FiguresInv
<1>2. CASE figure \in Leaves
    BY <1>2, LeaveStarts DEF FiguresInv
<1>3. CASE figure \in Incomes
    BY <1>3, IncomeStarts DEF FiguresInv
<1>4. CASE figure \in PaidMonths
    <2>1. MonthInv(figure)
        BY <1>4 DEF PaidMonths, MonthInv
    <2> QED BY <2>1 DEF FiguresInv
<1> QED BY <1>1, <1>2, <1>3, <1>4 DEF FigureInit

LEMMA FiguresStep == FiguresInv /\ [FigureNext]_figureVars => FiguresInv'
<1> SUFFICES ASSUME FiguresInv, [FigureNext]_figureVars PROVE FiguresInv'
    OBVIOUS
<1>1. CASE AnHour
    <2>1. figure.of = "stay"
        BY <1>1 DEF AnHour
    <2>2. StayInv(figure)
        BY <2>1, WhichFigure DEF FiguresInv
    <2> QED BY <1>1, <2>2, StayStep DEF FiguresInv
<1>2. CASE ADay
    <2>1. figure.of = "leave"
        BY <1>2 DEF ADay
    <2>2. LeaveInv(figure)
        BY <2>1, WhichFigure DEF FiguresInv
    <2> QED BY <1>2, <2>2, LeaveStep DEF FiguresInv
<1>3. CASE AStep
    <2>1. figure.of = "income"
        BY <1>3 DEF AStep
    <2>2. IncomeInv(figure)
        BY <2>1, WhichFigure DEF FiguresInv
    <2> QED BY <1>3, <2>2, IncomeStep DEF FiguresInv
<1>4. CASE ADayPresent
    <2>1. figure.of = "month"
        BY <1>4 DEF ADayPresent
    <2>2. MonthInv(figure)
        BY <2>1, WhichFigure DEF FiguresInv
    <2>3. figure.present + 1 \in Nat
        BY <2>2 DEF MonthInv
    <2> DEFINE present == figure.present + 1
    <2>4. figure' = [figure EXCEPT !.present = present]
        BY <1>4 DEF ADayPresent
    <2> HIDE DEF present
    <2>5. MonthInv(figure')
        BY <2>2, <2>3, <2>4 DEF MonthInv, present
    <2> QED BY <2>5 DEF FiguresInv
<1>5. CASE UNCHANGED figureVars
    <2>1. figure' = figure
        BY <1>5 DEF figureVars
    <2> QED BY <2>1, Zenon DEF FiguresInv
<1> QED BY <1>1, <1>2, <1>3, <1>4, <1>5 DEF FigureNext

\* For every shift, grace, month, leave, income, configuration of the slabs
\* and row of settings: the overtime, the days of leave and the tax are what
\* somebody finds who counts, and payslips are fair (payroll.service.ts).
THEOREM FiguresAreCounted == FigureSpec => []FiguresCounted
<1>1. FiguresInv => FiguresCounted
    <2> SUFFICES ASSUME FiguresInv PROVE FiguresCounted
        OBVIOUS
    <2>1. OvertimeCounted
        <3> DEFINE early == figure.early
                   late == figure.late
        <3> SUFFICES ASSUME ReachesShift
                     PROVE  /\ OvertimeOfStay >= AtLeast0(early - EarlyGrace)
                                                 + AtLeast0(late - LateGrace)
                            /\ OvertimeOfStay <= (IF early > EarlyGrace THEN early ELSE 0)
                                                 + (IF late > LateGrace THEN late ELSE 0)
            BY DEF OvertimeCounted
        <3>1. StayInv(figure) /\ figure.begun
            BY WhichFigure DEF FiguresInv, ReachesShift
        <3>2. Regular(figure)
            BY DEF Regular, ReachesShift
        <3>3. OvertimeOfStay = (IF early > EarlyGrace THEN early ELSE 0)
                               + (IF late > LateGrace THEN late ELSE 0)
            BY <3>1, <3>2, StayCounts DEF OvertimeOfStay
        <3>4. /\ early \in Nat /\ late \in Nat
              /\ EarlyGrace \in Nat /\ LateGrace \in Nat
            BY <3>1, DaysAssumption DEF StayInv, StayTyped
        <3> HIDE DEF early, late
        <3> QED BY <3>3, <3>4 DEF AtLeast0
    <2>2. LeaveCounted
        <3> SUFFICES ASSUME figure.of = "leave", OnLeave(figure.from, figure.to)
                     PROVE  LeaveDays(figure.from, figure.to) - figure.days =
                              IF \/ figure.to > MonthEnd
                                 \/ figure.from < FirstDay /\ Ahead > 0
                              THEN 1 ELSE 0
            BY DEF LeaveCounted
        <3>1. LeaveInv(figure)
            BY WhichFigure DEF FiguresInv
        <3> QED BY <3>1, LeaveCounts
    <2>3. TaxCounted
        <3> SUFFICES ASSUME figure.of = "income"
                     PROVE  CalculateNepalTDS(figure.annual, figure.slabs) = Monthly(figure.tax)
            BY DEF TaxCounted
        <3>1. IncomeInv(figure)
            BY WhichFigure DEF FiguresInv
        <3> QED BY <3>1, IncomeCounts
    <2>4. PayslipFair
        <3>1. CASE figure.of = "month"
            <4>1. MonthInv(figure)
                BY <3>1, WhichFigure DEF FiguresInv
            <4> QED BY <4>1, MonthIsFair
        <3>2. CASE figure.of # "month"
            BY <3>2 DEF PayslipFair
        <3> QED BY <3>1, <3>2
    <2> QED BY <2>1, <2>2, <2>3, <2>4 DEF FiguresCounted
<1> QED BY <1>1, FiguresStart, FiguresStep, PTL DEF FigureSpec

-----------------------------------------------------------------------------
(* The services side by side *)

\* A behaviour of the services is one of each of them: what is proved of a
\* service holds of it in the composition that the run explores.
LEMMA ServicesApart ==
    Spec => /\ SessionSpec /\ LockSpec /\ QRSpec /\ DocSpec /\ RosterSpec
            /\ HolidaySpec /\ CalendarSpec /\ FigureSpec /\ ScanSpec
<1>1. Init => /\ SessionInit /\ LockInit /\ QRInit /\ DocInit /\ RosterInit
              /\ HolidayInit /\ CalendarInit /\ FigureInit /\ ScanInit
    BY DEF Init
<1>2. [Next]_servicesVars =>
        /\ [SessionNext]_sessionVars /\ [LockNext]_lockVars /\ [QRNext]_qrVars
        /\ [DocNext]_docVars /\ [RosterNext]_rosterVars
        /\ [HolidayNext]_holidayVars /\ [CalendarNext]_calendarVars
        /\ [FigureNext]_figureVars /\ [ScanNext]_scanVars
    <2>1. ASSUME UNCHANGED servicesVars
          PROVE  /\ UNCHANGED sessionVars /\ UNCHANGED lockVars
                 /\ UNCHANGED qrVars /\ UNCHANGED docVars /\ UNCHANGED rosterVars
                 /\ UNCHANGED holidayVars /\ UNCHANGED calendarVars
                 /\ UNCHANGED figureVars /\ UNCHANGED scanVars
        BY <2>1 DEF servicesVars
    <2>2. ASSUME Next
          PROVE  /\ SessionNext \/ UNCHANGED sessionVars
                 /\ LockNext \/ UNCHANGED lockVars
                 /\ QRNext \/ UNCHANGED qrVars
                 /\ DocNext \/ UNCHANGED docVars
                 /\ RosterNext \/ UNCHANGED rosterVars
                 /\ HolidayNext \/ UNCHANGED holidayVars
                 /\ CalendarNext \/ UNCHANGED calendarVars
                 /\ FigureNext \/ UNCHANGED figureVars
                 /\ ScanNext \/ UNCHANGED scanVars
        BY <2>2, Zenon DEF Next
    <2> QED BY <2>1, <2>2
<1> QED BY <1>1, <1>2, PTL DEF Spec, SessionSpec, LockSpec, QRSpec, DocSpec,
           RosterSpec, HolidaySpec, CalendarSpec, FigureSpec, ScanSpec

\* Whichever service is at work, its variables keep their types, for any
\* number of clients and any bounds.
THEOREM ServicesTypes == Spec => []ServicesTypeOK
<1>1. CodesInv => QRTypeOK
    BY DEF CodesInv
<1>2. FilesInv => DocTypeOK
    BY DEF FilesInv
<1>3. RosterInv => RosterTypeOK
    BY DEF RosterInv
<1>4. LockInit => LockTypeOK
    BY DEF LockInit, LockTypeOK, LockRecord, NoRecord, Attempt, NoAttempt, Stores
<1>5. /\ SessionTypeOK /\ LockTypeOK /\ QRTypeOK /\ DocTypeOK /\ RosterTypeOK
      /\ HolidayTypeOK
      => ServicesTypeOK
    BY DEF ServicesTypeOK
<1> QED BY <1>1, <1>2, <1>3, <1>4, <1>5, ServicesApart, SessionTypeCorrect,
           LockTypeStep, CodesAtInit, CodesStep, FilesInit, FilesStep, RosterStart,
           RosterStep, HolidayTypes, PTL
           DEF LockSpec, QRSpec, DocSpec, RosterSpec
=============================================================================
