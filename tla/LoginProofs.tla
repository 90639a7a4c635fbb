----------------------------- MODULE LoginProofs -----------------------------
(***************************************************************************)
(* Proofs about SessionTokens and Lockout, for any number of requests and  *)
(* attempts at once, any limit and any bound on what is written.  The two  *)
(* parts do not depend on each other.                                      *)
(***************************************************************************)
EXTENDS SessionTokens, Lockout, Counting, FiniteSetTheorems, FunctionTheorems,
        TLAPS

-----------------------------------------------------------------------------
(* SessionTokens *)

\* What a request knows of the rows it has read.
Reading(request, m, n) ==
    /\ request.pc \in {"rotate", "logout"} => request.row \in 1..m
    /\ request.pc \in {"reset", "mark"} => request.row \in 1..n
ReadingRows ==
    \A s \in AuthSlots : Reading(auth[s], Len(sessions), Len(resetTokens))

\* A token that has set the password is being marked or is no longer open, and
\* as long as it is not shared one request at most is about to use it.
Uses(token, t, requests) ==
    /\ token.shared
         \/ \A r, s \in AuthSlots :
                /\ requests[r].pc \in {"reset", "mark"} /\ requests[r].row = t
                /\ requests[s].pc \in {"reset", "mark"} /\ requests[s].row = t
                => r = s
    /\ token.shared \/ token.cut \/ token.uses = 0
         \/ /\ token.uses = 1
            /\ \A s \in AuthSlots : requests[s].row = t => requests[s].pc # "reset"
            /\ \/ token.state # "open"
               \/ \E s \in AuthSlots :
                      requests[s].pc = "mark" /\ requests[s].row = t
ResetInv == \A t \in DOMAIN resetTokens : Uses(resetTokens[t], t, auth)

-----------------------------------------------------------------------------
(* Types *)

\* The types, one by one.
LEMMA TypeParts ==
    SessionTypeOK <=>
        /\ sessions \in Seq(SessionRow) /\ resetTokens \in Seq(ResetRow)
        /\ password \in Nat /\ mustChange \in BOOLEAN
        /\ auth \in [AuthSlots -> AuthRequest]
        /\ wiped \in Nat /\ lines \in Nat
        /\ ended \subseteq Nat /\ raced \subseteq Nat
        /\ ReadingRows
BY DEF SessionTypeOK, ReadingRows, Reading, Rows

\* Of every row of sessions.
LEMMA RowsTyped ==
    ASSUME sessions \in Seq(SessionRow), NEW i \in Rows
    PROVE  /\ i \in Nat /\ i \in 1..Len(sessions)
           /\ sessions[i] \in SessionRow
           /\ sessions[i].line \in Nat /\ sessions[i].by \in Nat
           /\ sessions[i].late \in BOOLEAN
<1>1. i \in 1..Len(sessions) /\ sessions[i] \in SessionRow
  BY DEF Rows
<1> QED BY <1>1 DEF SessionRow

LEMMA NoAuthType == NoAuth \in AuthRequest /\ NoAuth.pc = "idle"
BY DEF NoAuth, AuthRequest

\* A request that goes on, or ends.
LEMMA Awaited ==
    ASSUME auth \in [AuthSlots -> AuthRequest], NEW s \in AuthSlots,
           NEW r \in AuthRequest, auth' = [auth EXCEPT ![s] = r]
    PROVE  /\ auth' \in [AuthSlots -> AuthRequest]
           /\ \A q \in AuthSlots : auth'[q] = IF q = s THEN r ELSE auth[q]
OBVIOUS

\* The rows read are still there when there are more.
LEMMA RowsRead ==
    ASSUME SessionTypeOK, NEW s \in AuthSlots, NEW r \in AuthRequest,
           auth' = [auth EXCEPT ![s] = r],
           NEW m \in Nat, NEW n \in Nat,
           m >= Len(sessions), n >= Len(resetTokens), Reading(r, m, n)
    PROVE  /\ auth' \in [AuthSlots -> AuthRequest]
           /\ \A q \in AuthSlots : Reading(auth'[q], m, n)
<1>1. /\ auth' \in [AuthSlots -> AuthRequest]
      /\ \A q \in AuthSlots : auth'[q] = IF q = s THEN r ELSE auth[q]
  BY TypeParts, Awaited
<1>2. Len(sessions) \in Nat /\ Len(resetTokens) \in Nat
  BY TypeParts
<1>3. \A q \in AuthSlots : Reading(auth[q], Len(sessions), Len(resetTokens))
  BY TypeParts DEF ReadingRows
<1>4. \A q \in AuthSlots : auth[q] \in AuthRequest /\ auth[q].row \in Nat
  BY TypeParts DEF AuthRequest
<1>5. \A q \in AuthSlots : Reading(auth[q], m, n)
  BY <1>2, <1>3, <1>4 DEF Reading
<1> QED BY <1>1, <1>5

LEMMA NewRowTypes ==
    /\ \A l, by \in Nat, late \in BOOLEAN : NewSession(l, by, late) \in SessionRow
    /\ DeletedRow \in SessionRow /\ OpenToken \in ResetRow
BY DEF NewSession, DeletedRow, OpenToken, SessionRow, ResetRow

LEMMA AllDeletedType ==
    ASSUME sessions \in Seq(SessionRow)
    PROVE  /\ AllDeleted \in Seq(SessionRow) /\ Len(AllDeleted) = Len(sessions)
           /\ \A i \in 1..Len(sessions) : AllDeleted[i] = DeletedRow
BY NewRowTypes DEF AllDeleted, Rows

\* The frame of the type proofs: rows are only added or overwritten, and one
\* request changes at most.
LEMMA TypesKept ==
    ASSUME SessionTypeOK,
           sessions' \in Seq(SessionRow), Len(sessions') >= Len(sessions),
           resetTokens' \in Seq(ResetRow), Len(resetTokens') >= Len(resetTokens),
           password' \in Nat, mustChange' \in BOOLEAN, wiped' \in Nat,
           lines' \in Nat, ended' \subseteq Nat, raced' \subseteq Nat,
           \/ auth' = auth
           \/ \E s \in AuthSlots, r \in AuthRequest :
                 /\ auth' = [auth EXCEPT ![s] = r]
                 /\ Reading(r, Len(sessions'), Len(resetTokens'))
    PROVE  SessionTypeOK'
<1>1. /\ Len(sessions) \in Nat /\ Len(resetTokens) \in Nat
      /\ Len(sessions') \in Nat /\ Len(resetTokens') \in Nat
  BY TypeParts
<1>2. auth' \in [AuthSlots -> AuthRequest] /\ ReadingRows'
  <2>1. CASE auth' = auth
    <3>1. \A q \in AuthSlots : auth[q] \in AuthRequest /\ auth[q].row \in Nat
      BY TypeParts DEF AuthRequest
    <3>2. \A q \in AuthSlots :
            Reading(auth[q], Len(sessions'), Len(resetTokens'))
      BY <1>1, <3>1, TypeParts DEF ReadingRows, Reading
    <3> QED BY <2>1, <3>2, TypeParts DEF ReadingRows
  <2>2. ASSUME NEW s \in AuthSlots, NEW r \in AuthRequest,
               auth' = [auth EXCEPT ![s] = r],
               Reading(r, Len(sessions'), Len(resetTokens'))
        PROVE  auth' \in [AuthSlots -> AuthRequest] /\ ReadingRows'
    BY <1>1, <2>2, RowsRead DEF ReadingRows
  <2> QED BY <2>1, <2>2
<1> QED BY <1>2 DEF SessionTypeOK, ReadingRows, Reading, Rows

LEMMA RequestTypes ==
    ASSUME NEW pc \in {"idle", "login", "rotate", "reuse", "logout", "change",
                       "initial", "forgot", "reset", "mark", "wipe"},
           NEW row \in Nat, NEW pw \in Nat
    PROVE  [pc |-> pc, row |-> row, password |-> pw] \in AuthRequest
BY DEF AuthRequest

LEMMA ReadTypes ==
    ASSUME SessionTypeOK, NEW s \in AuthSlots,
           \/ LoginRead(s)
           \/ \E i \in Rows : RefreshRead(s, i) \/ LogoutRead(s, i)
                              \/ ChangeRead(s, i)
    PROVE  SessionTypeOK'
<1>1. UNCHANGED <<sessions, resetTokens, password, mustChange, wiped, lines, ended>>
  BY DEF LoginRead, RefreshRead, LogoutRead, ChangeRead
<1>2. \A i \in Rows : sessions[i].line \in Nat /\ i \in Nat /\ i \in 1..Len(sessions)
  BY TypeParts, RowsTyped
<1>3. raced' \subseteq Nat
  <2>1. CASE \E i \in Rows : RefreshRead(s, i) \/ LogoutRead(s, i)
    BY <1>2, <2>1, TypeParts DEF RefreshRead, LogoutRead
  <2>2. CASE LoginRead(s) \/ \E i \in Rows : ChangeRead(s, i)
    BY <2>2, TypeParts DEF LoginRead, ChangeRead
  <2> QED BY <2>1, <2>2
<1>4. PICK pc \in {"login", "reuse", "rotate", "logout", "change", "initial"},
           row \in Rows \cup {0}, pw \in {0, password} :
        /\ auth' = [auth EXCEPT ![s] = [pc |-> pc, row |-> row, password |-> pw]]
        /\ pc \in {"rotate", "logout"} => row \in Rows
  BY DEF LoginRead, RefreshRead, LogoutRead, ChangeRead, Await
<1> DEFINE r == [pc |-> pc, row |-> row, password |-> pw]
<1>5. r \in AuthRequest /\ Reading(r, Len(sessions), Len(resetTokens))
  BY <1>2, <1>4, TypeParts, RequestTypes DEF Reading
<1>6. Len(sessions') >= Len(sessions) /\ Len(resetTokens') >= Len(resetTokens)
  BY <1>1, TypeParts
<1> HIDE DEF r
<1> QED BY <1>1, <1>3, <1>4, <1>5, <1>6, TypeParts, TypesKept DEF r

\* A request that is done reads nothing.
LEMMA DoneTypes ==
    ASSUME NEW s \in AuthSlots, Done(s)
    PROVE  \E q \in AuthSlots, r \in AuthRequest :
                 /\ auth' = [auth EXCEPT ![q] = r]
                 /\ Reading(r, Len(sessions'), Len(resetTokens'))
BY NoAuthType DEF Done, Reading

\* The steps that write sessions keep the types.
LEMMA SessionsTypes ==
    ASSUME SessionTypeOK, NEW s \in AuthSlots,
           \/ LoginCreate(s) \/ RefreshRotate(s) \/ RefreshWipe(s)
           \/ LogoutDelete(s) \/ ResetWipe(s)
    PROVE  SessionTypeOK'
<1>1. Done(s) /\ UNCHANGED <<resetTokens, password, mustChange, raced>>
  BY DEF LoginCreate, RefreshRotate, RefreshWipe, LogoutDelete, ResetWipe
<1>2. Len(sessions) \in Nat /\ Len(resetTokens) \in Nat /\ auth[s].password \in Nat
  BY TypeParts DEF AuthRequest
<1>3. wiped' \in Nat /\ lines' \in Nat
  BY <1>2, TypeParts
     DEF LoginCreate, RefreshRotate, RefreshWipe, LogoutDelete, ResetWipe
<1>4. \A i \in Rows : sessions[i] \in SessionRow /\ sessions[i].line \in Nat
  BY TypeParts, RowsTyped
<1>5. ended' \subseteq Nat
  <2>1. CASE LogoutDelete(s)
    <3>1. auth[s].row \in Rows
      BY <2>1 DEF LogoutDelete, SessionTypeOK
    <3> QED BY <1>4, <2>1, <3>1, TypeParts DEF LogoutDelete
  <2> QED BY <2>1, TypeParts
          DEF LoginCreate, RefreshRotate, RefreshWipe, ResetWipe
<1>6. sessions' \in Seq(SessionRow) /\ Len(sessions') >= Len(sessions)
  <2>1. CASE LoginCreate(s)
    <3>1. (auth[s].password < wiped) \in BOOLEAN
      OBVIOUS
    <3>2. NewSession(lines', auth[s].password, auth[s].password < wiped)
            \in SessionRow
      BY <1>2, <1>3, <3>1, NewRowTypes
    <3> QED BY <1>2, <2>1, <3>2, TypeParts DEF LoginCreate
  <2>2. CASE RefreshRotate(s)
    <3> DEFINE i == auth[s].row
               new == [sessions[i] EXCEPT !.state = "valid"]
    <3>1. i \in Rows
      BY <2>2 DEF RefreshRotate, SessionTypeOK
    <3>2. new \in SessionRow /\ Rotated(sessions[i]) \in SessionRow
      BY <1>4, <3>1 DEF Rotated, SessionRow
    <3>3. \/ sessions' = sessions
          \/ sessions' = Append([sessions EXCEPT ![i] = Rotated(sessions[i])], new)
      BY <2>2 DEF RefreshRotate
    <3> DEFINE old == Rotated(sessions[i])
               marked == [sessions EXCEPT ![i] = old]
    <3> HIDE DEF i, new, old
    <3>4. marked \in Seq(SessionRow) /\ Len(marked) = Len(sessions)
      BY <3>1, <3>2, TypeParts DEF Rows, old
    <3> HIDE DEF marked
    <3>5. sessions' = sessions \/ sessions' = Append(marked, new)
      BY <3>3 DEF marked, old
    <3>6. /\ Append(marked, new) \in Seq(SessionRow)
          /\ Len(Append(marked, new)) = Len(marked) + 1
      BY <3>2, <3>4
    <3>7. sessions \in Seq(SessionRow)
      BY TypeParts
    <3>8. CASE sessions' = sessions
      BY <1>2, <3>7, <3>8
    <3>9. CASE sessions' = Append(marked, new)
      BY <1>2, <3>4, <3>6, <3>9
    <3> QED BY <3>5, <3>8, <3>9
  <2>3. CASE RefreshWipe(s) \/ ResetWipe(s)
    BY <1>2, <2>3, TypeParts, AllDeletedType DEF RefreshWipe, ResetWipe
  <2>4. CASE LogoutDelete(s)
    <3>1. auth[s].row \in Rows
      BY <2>4 DEF LogoutDelete, SessionTypeOK
    <3> QED BY <1>2, <2>4, <3>1, TypeParts, NewRowTypes DEF LogoutDelete, Rows
  <2> QED BY <2>1, <2>2, <2>3, <2>4
<1>7. Len(resetTokens') >= Len(resetTokens)
  BY <1>1, <1>2
<1> QED BY <1>1, <1>3, <1>5, <1>6, <1>7, TypeParts, TypesKept, DoneTypes

LEMMA TokenTyped ==
    ASSUME resetTokens \in Seq(ResetRow), NEW t \in DOMAIN resetTokens
    PROVE  /\ t \in Nat /\ t \in 1..Len(resetTokens)
           /\ resetTokens[t] \in ResetRow /\ resetTokens[t].uses \in Nat
<1>1. t \in 1..Len(resetTokens) /\ resetTokens[t] \in ResetRow
  OBVIOUS
<1> QED BY <1>1 DEF ResetRow

LEMMA TokenUpdated ==
    ASSUME resetTokens \in Seq(ResetRow), NEW t \in DOMAIN resetTokens,
           NEW new \in ResetRow, resetTokens' = [resetTokens EXCEPT ![t] = new]
    PROVE  /\ resetTokens' \in Seq(ResetRow)
           /\ Len(resetTokens') = Len(resetTokens)
           /\ DOMAIN resetTokens' = DOMAIN resetTokens
           /\ \A u \in DOMAIN resetTokens :
                 resetTokens'[u] = IF u = t THEN new ELSE resetTokens[u]
OBVIOUS

\* What each request does to the token it has, if it changes one.
LEMMA TokenSteps ==
    ASSUME SessionTypeOK, NEW s \in AuthSlots
    PROVE  /\ \A t \in DOMAIN resetTokens :
               /\ ResetRead(s, t) =>
                    \E shared \in BOOLEAN :
                      /\ resetTokens' = [resetTokens EXCEPT ![t] =
                             [resetTokens[t] EXCEPT !.shared = shared]]
                      /\ shared <=> \/ resetTokens[t].shared
                                    \/ Pending({"reset", "mark"}, t) # {}
           /\ ResetPassword(s) =>
                 resetTokens' = [resetTokens EXCEPT ![auth[s].row] =
                     [resetTokens[auth[s].row] EXCEPT
                         !.uses = resetTokens[auth[s].row].uses + 1]]
           /\ ResetMark(s) /\ resetTokens' # resetTokens =>
                 resetTokens' = [resetTokens EXCEPT ![auth[s].row] =
                     [resetTokens[auth[s].row] EXCEPT !.state = "used"]]
           /\ AuthFails(s) /\ auth[s].pc = "mark" =>
                 resetTokens' = [resetTokens EXCEPT ![auth[s].row] =
                     [resetTokens[auth[s].row] EXCEPT !.cut = TRUE]]
<1>1. ASSUME NEW t \in DOMAIN resetTokens, ResetRead(s, t)
      PROVE  \E shared \in BOOLEAN :
               /\ resetTokens' = [resetTokens EXCEPT ![t] =
                      [resetTokens[t] EXCEPT !.shared = shared]]
               /\ shared <=> \/ resetTokens[t].shared
                             \/ Pending({"reset", "mark"}, t) # {}
  <2>1. resetTokens[t].shared \in BOOLEAN
    BY TokenTyped, TypeParts DEF ResetRow
  <2> QED BY <1>1, <2>1 DEF ResetRead
<1>2. ResetPassword(s) =>
         resetTokens' = [resetTokens EXCEPT ![auth[s].row] =
             [resetTokens[auth[s].row] EXCEPT
                 !.uses = resetTokens[auth[s].row].uses + 1]]
  BY DEF ResetPassword
<1>3. ResetMark(s) /\ resetTokens' # resetTokens =>
         resetTokens' = [resetTokens EXCEPT ![auth[s].row] =
             [resetTokens[auth[s].row] EXCEPT !.state = "used"]]
  BY DEF ResetMark, Marked
<1>4. AuthFails(s) /\ auth[s].pc = "mark" =>
         resetTokens' = [resetTokens EXCEPT ![auth[s].row] =
             [resetTokens[auth[s].row] EXCEPT !.cut = TRUE]]
  BY DEF AuthFails
<1> QED BY <1>1, <1>2, <1>3, <1>4

\* The tokens keep their type, and what a request makes of its token.
LEMMA TokensTypes ==
    ASSUME SessionTypeOK, NEW s \in AuthSlots,
           \/ ForgotDelete(s) \/ ForgotCreate(s)
           \/ \E t \in DOMAIN resetTokens : ResetRead(s, t)
           \/ ResetPassword(s) \/ ResetMark(s) \/ AuthFails(s)
    PROVE  /\ resetTokens' \in Seq(ResetRow)
           /\ Len(resetTokens') >= Len(resetTokens)
<1>1. resetTokens \in Seq(ResetRow) /\ Len(resetTokens) \in Nat
  BY TypeParts
<1>2. auth[s].pc \in {"reset", "mark"} => auth[s].row \in DOMAIN resetTokens
  BY DEF SessionTypeOK
<1>3. ASSUME NEW t \in DOMAIN resetTokens, NEW new \in ResetRow,
             resetTokens' = [resetTokens EXCEPT ![t] = new]
      PROVE  /\ resetTokens' \in Seq(ResetRow)
             /\ Len(resetTokens') >= Len(resetTokens)
  BY <1>1, <1>3, TokenUpdated
<1>4. ASSUME NEW t \in DOMAIN resetTokens
      PROVE  /\ \A b \in BOOLEAN : /\ [resetTokens[t] EXCEPT !.shared = b] \in ResetRow
                                   /\ [resetTokens[t] EXCEPT !.cut = b] \in ResetRow
             /\ [resetTokens[t] EXCEPT !.uses = resetTokens[t].uses + 1] \in ResetRow
             /\ [resetTokens[t] EXCEPT !.state = "used"] \in ResetRow
             /\ [resetTokens[t] EXCEPT !.state = "deleted"] \in ResetRow
             /\ [resetTokens[t] EXCEPT !.state = "expired"] \in ResetRow
  <2>1. resetTokens[t] \in ResetRow
    BY <1>1, TokenTyped
  <2> QED BY <2>1 DEF ResetRow
<1>5. CASE ForgotDelete(s)
  <2> DEFINE old(t) == [resetTokens[t] EXCEPT !.state = "deleted"]
  <2>1. resetTokens' = [t \in DOMAIN resetTokens |-> old(t)]
    BY <1>5 DEF ForgotDelete
  <2>2. \A t \in DOMAIN resetTokens : old(t) \in ResetRow
    BY <1>4
  <2>3. DOMAIN resetTokens = 1..Len(resetTokens)
    BY <1>1
  <2> HIDE DEF old
  <2> QED BY <1>1, <2>1, <2>2, <2>3
<1>6. CASE ForgotCreate(s)
  <2>1. OpenToken \in ResetRow
    BY NewRowTypes
  <2> QED BY <1>1, <1>6, <2>1 DEF ForgotCreate
<1>7. CASE \E t \in DOMAIN resetTokens : ResetRead(s, t)
  <2>1. PICK t \in DOMAIN resetTokens : ResetRead(s, t)
    BY <1>7
  <2>2. PICK shared \in BOOLEAN :
          resetTokens' = [resetTokens EXCEPT ![t] =
                            [resetTokens[t] EXCEPT !.shared = shared]]
    BY <2>1, TokenSteps
  <2> QED BY <1>3, <1>4, <2>2
<1>8. CASE ResetPassword(s)
  <2>1. auth[s].row \in DOMAIN resetTokens
    BY <1>2, <1>8 DEF ResetPassword
  <2> QED BY <1>3, <1>4, <1>8, <2>1, TokenSteps
<1>9. CASE ResetMark(s)
  <2>1. auth[s].row \in DOMAIN resetTokens
    BY <1>2, <1>9 DEF ResetMark
  <2>2. CASE resetTokens' = resetTokens
    BY <1>1, <2>2
  <2>3. CASE resetTokens' # resetTokens
    BY <1>3, <1>4, <1>9, <2>1, <2>3, TokenSteps
  <2> QED BY <2>2, <2>3
<1>10. CASE AuthFails(s)
  <2>1. CASE auth[s].pc = "mark"
    BY <1>2, <1>3, <1>4, <1>10, <2>1, TokenSteps
  <2>2. CASE auth[s].pc # "mark"
    BY <1>1, <1>10, <2>2 DEF AuthFails
  <2> QED BY <2>1, <2>2
<1> QED BY <1>5, <1>6, <1>7, <1>8, <1>9, <1>10

LEMMA PasswordTypes ==
    ASSUME SessionTypeOK, NEW s \in AuthSlots,
           \/ ForgotDelete(s) \/ ForgotCreate(s)
           \/ \E t \in DOMAIN resetTokens : ResetRead(s, t)
           \/ ResetPassword(s) \/ ResetMark(s) \/ AuthFails(s)
           \/ ChangeWrite(s)
    PROVE  SessionTypeOK'
<1>1. UNCHANGED <<sessions, wiped, lines, ended, raced>>
  BY DEF ForgotDelete, ForgotCreate, ResetRead, ResetPassword, ResetMark,
         AuthFails, ChangeWrite
<1>2. resetTokens' \in Seq(ResetRow) /\ Len(resetTokens') >= Len(resetTokens)
  <2>1. CASE ChangeWrite(s)
    BY <2>1, TypeParts DEF ChangeWrite
  <2> QED BY <2>1, TokensTypes
<1>3. password' \in Nat /\ mustChange' \in BOOLEAN
  <2>1. password \in Nat /\ mustChange \in BOOLEAN
    BY TypeParts
  <2>2. CASE ResetPassword(s) \/ ChangeWrite(s)
    <3>1. password' = password + 1
      BY <2>2 DEF ResetPassword, ChangeWrite
    <3>2. mustChange' \in BOOLEAN
      BY <2>2, Zenon DEF ResetPassword, ChangeWrite
    <3> QED BY <2>1, <3>1, <3>2
  <2>3. CASE \/ ForgotDelete(s) \/ ForgotCreate(s) \/ ResetMark(s)
             \/ AuthFails(s) \/ \E t \in DOMAIN resetTokens : ResetRead(s, t)
    BY <2>1, <2>3
       DEF ForgotDelete, ForgotCreate, ResetRead, ResetMark, AuthFails
  <2> QED BY <2>2, <2>3
<1>4. /\ Len(resetTokens) \in Nat /\ Len(resetTokens') \in Nat
      /\ Len(sessions') >= Len(sessions)
  BY <1>1, <1>2, TypeParts
<1>5. \E q \in AuthSlots, r \in AuthRequest :
        /\ auth' = [auth EXCEPT ![q] = r]
        /\ Reading(r, Len(sessions'), Len(resetTokens'))
  <2>1. CASE Done(s)
    BY <2>1, DoneTypes
  <2>2. ASSUME NEW pc \in {"forgot", "wipe", "reset", "mark"}, NEW row \in Nat,
               NEW pw \in Nat, Await(s, pc, row, pw),
               pc \in {"reset", "mark"} => row \in DOMAIN resetTokens
        PROVE  \E q \in AuthSlots, r \in AuthRequest :
                 /\ auth' = [auth EXCEPT ![q] = r]
                 /\ Reading(r, Len(sessions'), Len(resetTokens'))
    <3> DEFINE r == [pc |-> pc, row |-> row, password |-> pw]
    <3>1. pc \in {"reset", "mark"} => row \in 1..Len(resetTokens')
      BY <1>2, <1>4, <2>2, TypeParts, TokenTyped
    <3>2. r \in AuthRequest /\ Reading(r, Len(sessions'), Len(resetTokens'))
      BY <2>2, <3>1, RequestTypes DEF Reading
    <3>3. auth' = [auth EXCEPT ![s] = r]
      BY <2>2 DEF Await
    <3> HIDE DEF r
    <3> QED BY <3>2, <3>3
  <2>3. auth[s].password \in Nat /\ auth[s].row \in Nat
    BY TypeParts DEF AuthRequest
  <2>4. \A t \in DOMAIN resetTokens : t \in Nat
    BY TypeParts, TokenTyped
  <2>5. auth[s].pc \in {"reset", "mark"} => auth[s].row \in DOMAIN resetTokens
    BY DEF SessionTypeOK
  <2>6. CASE ForgotDelete(s)
    BY <2>2, <2>6 DEF ForgotDelete
  <2>7. CASE \E t \in DOMAIN resetTokens : ResetRead(s, t)
    BY <2>2, <2>4, <2>7 DEF ResetRead
  <2>8. CASE ResetPassword(s)
    BY <1>3, <2>2, <2>3, <2>5, <2>8 DEF ResetPassword
  <2>9. CASE ResetMark(s)
    BY <2>1, <2>2, <2>3, <2>9 DEF ResetMark
  <2>10. CASE ForgotCreate(s) \/ AuthFails(s) \/ ChangeWrite(s)
    BY <2>1, <2>10 DEF ForgotCreate, AuthFails, ChangeWrite
  <2> QED BY <2>6, <2>7, <2>8, <2>9, <2>10
<1> QED BY <1>1, <1>2, <1>3, <1>4, <1>5, TypeParts, TypesKept

LEMMA TimeTypes ==
    ASSUME SessionTypeOK,
           \/ CleanExpired
           \/ \E i \in Rows : Expire(i)
           \/ \E t \in DOMAIN resetTokens : ResetExpire(t)
    PROVE  SessionTypeOK'
<1>1. /\ auth' = auth
      /\ UNCHANGED <<password, mustChange, wiped, lines, ended, raced>>
  BY DEF CleanExpired, Expire, ResetExpire
<1>2. /\ sessions \in Seq(SessionRow) /\ resetTokens \in Seq(ResetRow)
      /\ Len(sessions) \in Nat /\ Len(resetTokens) \in Nat
  BY TypeParts
<1>3. sessions' \in Seq(SessionRow) /\ Len(sessions') >= Len(sessions)
  <2>1. CASE CleanExpired
    BY <1>2, <2>1, NewRowTypes DEF CleanExpired, Rows
  <2>2. ASSUME NEW i \in Rows, Expire(i)
        PROVE  sessions' \in Seq(SessionRow) /\ Len(sessions') >= Len(sessions)
    <3> DEFINE new == [sessions[i] EXCEPT !.state = "expired"]
    <3>1. new \in SessionRow
      BY <1>2, RowsTyped DEF SessionRow
    <3>2. sessions' = [sessions EXCEPT ![i] = new]
      BY <2>2 DEF Expire
    <3> HIDE DEF new
    <3> QED BY <1>2, <2>2, <3>1, <3>2 DEF Rows
  <2>3. CASE \E t \in DOMAIN resetTokens : ResetExpire(t)
    BY <1>2, <2>3 DEF ResetExpire
  <2> QED BY <2>1, <2>2, <2>3
<1>4. resetTokens' \in Seq(ResetRow) /\ Len(resetTokens') >= Len(resetTokens)
  <2>1. ASSUME NEW t \in DOMAIN resetTokens, ResetExpire(t)
        PROVE  /\ resetTokens' \in Seq(ResetRow)
               /\ Len(resetTokens') >= Len(resetTokens)
    <3> DEFINE new == [resetTokens[t] EXCEPT !.state = "expired"]
    <3>1. new \in ResetRow
      BY <1>2, TokenTyped DEF ResetRow
    <3>2. resetTokens' = [resetTokens EXCEPT ![t] = new]
      BY <2>1 DEF ResetExpire
    <3> HIDE DEF new
    <3> QED BY <1>2, <3>1, <3>2, TokenUpdated
  <2>2. CASE CleanExpired \/ \E i \in Rows : Expire(i)
    BY <1>2, <2>2 DEF CleanExpired, Expire
  <2> QED BY <2>1, <2>2
<1> QED BY <1>1, <1>3, <1>4, TypeParts, TypesKept

LEMMA Singleton == ASSUME NEW S, NEW x \in S PROVE <<x>> \in Seq(S)
OBVIOUS

LEMMA TypeStart == ASSUME SessionInit, AuthAssumption PROVE SessionTypeOK
<1>1. NewSession(1, 0, FALSE) \in SessionRow /\ OpenToken \in ResetRow
  BY NewRowTypes
<1>2. sessions \in Seq(SessionRow) /\ resetTokens \in Seq(ResetRow)
  BY <1>1, Singleton, Zenon DEF SessionInit
<1>3. /\ auth \in [AuthSlots -> AuthRequest]
      /\ \A s \in AuthSlots : auth[s].pc = "idle"
  BY NoAuthType DEF SessionInit
<1>4. /\ password \in Nat /\ wiped \in Nat /\ lines \in Nat
      /\ ended \subseteq Nat /\ raced \subseteq Nat
  BY DEF SessionInit
<1>5. mustChange \in BOOLEAN
  BY DEF SessionInit
<1>6. ReadingRows
  BY <1>3 DEF ReadingRows, Reading
<1> QED BY <1>2, <1>3, <1>4, <1>5, <1>6, TypeParts

LEMMA TypeStep ==
    ASSUME SessionTypeOK, SessionNext PROVE SessionTypeOK'
BY ReadTypes, SessionsTypes, PasswordTypes, TimeTypes DEF SessionNext

\* Whatever the requests do at once, every row, token and request has its type.
THEOREM SessionTypeCorrect == SessionSpec => []SessionTypeOK
<1>1. SessionInit => SessionTypeOK
  BY TypeStart, AuthAssumption
<1>2. SessionTypeOK /\ [SessionNext]_sessionVars => SessionTypeOK'
  <2>1. ASSUME SessionTypeOK, UNCHANGED sessionVars PROVE SessionTypeOK'
    BY <2>1 DEF SessionTypeOK, sessionVars, Rows
  <2> QED BY <2>1, TypeStep
<1> QED BY <1>1, <1>2, PTL DEF SessionSpec

-----------------------------------------------------------------------------
(* Older sessions *)

\* No step brings back a session of an older password.
LEMMA OldStep ==
    ASSUME SessionTypeOK, OldSessionsEnd, SessionNext PROVE OldSessionsEnd'
<1> DEFINE Recent(r, w) == r.state # "deleted" /\ ~r.late => r.by >= w
<1>1. \A i \in Rows : Recent(sessions[i], wiped)
  BY DEF OldSessionsEnd
<1>2. SUFFICES \A i \in Rows' : Recent(sessions'[i], wiped')
  BY DEF OldSessionsEnd
<1>3. sessions \in Seq(SessionRow) /\ Len(sessions) \in Nat
  BY TypeParts
<1>4. \A w \in Nat : Recent(DeletedRow, w)
  BY DEF DeletedRow
<1>5. CASE UNCHANGED <<sessions, wiped>>
  BY <1>1, <1>5 DEF Rows
<1>6. CASE \E s \in AuthSlots : RefreshWipe(s) \/ ResetWipe(s)
  <2>1. sessions' = AllDeleted
    BY <1>6 DEF RefreshWipe, ResetWipe
  <2>2. wiped' \in Nat
    BY TypeStep, TypeParts DEF SessionTypeOK
  <2>3. \A i \in Rows' : sessions'[i] = DeletedRow
    BY <2>1 DEF Rows, AllDeleted
  <2> QED BY <1>4, <2>2, <2>3
<1>7. ASSUME NEW s \in AuthSlots, LoginCreate(s)
      PROVE  \A i \in Rows' : Recent(sessions'[i], wiped')
  <2> DEFINE late == auth[s].password < wiped
             new == NewSession(lines', auth[s].password, late)
  <2>1. auth[s].password \in Nat /\ wiped \in Nat
    BY TypeParts DEF AuthRequest
  <2>2. sessions' = Append(sessions, new) /\ wiped' = wiped
    BY <1>7 DEF LoginCreate
  <2>3. Recent(new, wiped)
    <3>1. new.by = auth[s].password /\ new.late = late
      BY DEF NewSession
    <3>2. CASE late
      BY <3>1, <3>2
    <3>3. CASE ~late
      BY <2>1, <3>1, <3>3
    <3> QED BY <3>2, <3>3
  <2> HIDE DEF new, Recent
  <2> QED BY <1>1, <1>3, <2>2, <2>3 DEF Rows
<1>8. ASSUME NEW s \in AuthSlots, RefreshRotate(s), sessions' # sessions
      PROVE  \A i \in Rows' : Recent(sessions'[i], wiped')
  <2> DEFINE i == auth[s].row
             new == [sessions[i] EXCEPT !.state = "valid"]
             old == Rotated(sessions[i])
             marked == [sessions EXCEPT ![i] = old]
  <2>1. i \in Rows /\ sessions[i] \in SessionRow
    BY <1>3, <1>8, RowsTyped DEF RefreshRotate, SessionTypeOK
  <2>2. /\ sessions' = Append(marked, new) /\ wiped' = wiped
        /\ sessions[i].state # "deleted"
    BY <1>8 DEF RefreshRotate, RowLeft
  <2>3. /\ new \in SessionRow /\ new.late = sessions[i].late
        /\ new.by = sessions[i].by
        /\ old \in SessionRow /\ old.late = sessions[i].late
        /\ old.by = sessions[i].by
    BY <2>1 DEF SessionRow, Rotated
  <2>4. Recent(new, wiped) /\ Recent(old, wiped)
    BY <1>1, <2>1, <2>2, <2>3
  <2> HIDE DEF Recent, new, old
  <2>5. /\ marked \in Seq(SessionRow) /\ Len(marked) = Len(sessions)
        /\ \A j \in 1..Len(marked) : Recent(marked[j], wiped)
    BY <1>1, <1>3, <2>1, <2>3, <2>4 DEF Rows
  <2> HIDE DEF marked
  <2> QED BY <2>2, <2>4, <2>5 DEF Rows
<1>9. ASSUME NEW s \in AuthSlots, LogoutDelete(s)
      PROVE  \A i \in Rows' : Recent(sessions'[i], wiped')
  <2>1. /\ sessions' = [sessions EXCEPT ![auth[s].row] = DeletedRow]
        /\ wiped' = wiped /\ wiped \in Nat
    BY <1>9, TypeParts DEF LogoutDelete
  <2> HIDE DEF Recent
  <2> QED BY <1>1, <1>4, <2>1 DEF Rows
<1>10. CASE CleanExpired
  <2>1. /\ sessions' = [i \in Rows |-> IF Live(i) THEN sessions[i] ELSE DeletedRow]
        /\ wiped' = wiped /\ wiped \in Nat
    BY <1>10, TypeParts DEF CleanExpired
  <2> HIDE DEF Recent
  <2> QED BY <1>1, <1>4, <2>1 DEF Rows
<1>11. ASSUME NEW i \in Rows, Expire(i)
       PROVE  \A j \in Rows' : Recent(sessions'[j], wiped')
  <2> DEFINE new == [sessions[i] EXCEPT !.state = "expired"]
  <2>1. sessions[i] \in SessionRow /\ sessions[i].state = "valid"
    BY <1>3, <1>11, RowsTyped DEF Expire, Live
  <2>2. new.late = sessions[i].late /\ new.by = sessions[i].by
    BY <2>1 DEF SessionRow
  <2>3. Recent(new, wiped)
    BY <1>1, <2>1, <2>2
  <2>4. sessions' = [sessions EXCEPT ![i] = new] /\ wiped' = wiped
    BY <1>11 DEF Expire
  <2> HIDE DEF Recent, new
  <2> QED BY <1>1, <2>3, <2>4 DEF Rows
<1>12. \/ UNCHANGED <<sessions, wiped>>
       \/ \E s \in AuthSlots :
            \/ LoginCreate(s) \/ RefreshWipe(s) \/ LogoutDelete(s)
            \/ ResetWipe(s) \/ (RefreshRotate(s) /\ sessions' # sessions)
       \/ CleanExpired \/ \E i \in Rows : Expire(i)
  BY DEF SessionNext, LoginRead, RefreshRead, LogoutRead, ChangeRead,
         ChangeWrite, ForgotDelete, ForgotCreate, ResetRead, ResetPassword,
         ResetMark, AuthFails, ResetExpire, RefreshRotate
<1> QED BY <1>5, <1>6, <1>7, <1>8, <1>9, <1>10, <1>11, <1>12

\* A reset ends every session of an older password for good, however many
\* refreshes are under way; only a login that had passed its check is left.
THEOREM OldSessionsGone == SessionSpec => []OldSessionsEnd
<1>1. SessionInit => OldSessionsEnd
  BY DEF SessionInit, NewSession, OldSessionsEnd, Rows
<1>2. SessionTypeOK /\ OldSessionsEnd /\ [SessionNext]_sessionVars
        => OldSessionsEnd'
  <2>1. ASSUME OldSessionsEnd, UNCHANGED sessionVars PROVE OldSessionsEnd'
    BY <2>1 DEF OldSessionsEnd, sessionVars, Rows
  <2> QED BY <2>1, OldStep
<1> QED BY <1>1, <1>2, SessionTypeCorrect, PTL DEF SessionSpec

-----------------------------------------------------------------------------
(* Lines *)

\* A line has one live session at most, and one request at most that has read
\* a row of it and will rotate or delete it: the live one, if there is one.
Holds(s, l) == /\ auth[s].pc \in {"rotate", "logout"}
               /\ sessions[auth[s].row].line = l
LineInv(l) ==
    /\ \A i, j \in LiveIn(l) : i = j
    /\ \A r, s \in AuthSlots : Holds(r, l) /\ Holds(s, l) => r = s
    /\ \A s \in AuthSlots : Holds(s, l) => LiveIn(l) \subseteq {auth[s].row}
    /\ l \in ended => LiveIn(l) = {} /\ \A s \in AuthSlots : ~Holds(s, l)
LinesInv ==
    /\ SessionTypeOK
    /\ ended \subseteq 1..lines
    /\ \A i \in Rows : sessions[i].line <= lines
    /\ \A l \in 1..lines : l \notin raced => LineInv(l)

\* No row comes to life, and none changes its line but by being deleted.
Falls ==
    /\ DOMAIN sessions' = Rows
    /\ \A i \in Rows : \/ sessions'[i] = sessions[i]
                       \/ /\ sessions'[i].state # "valid"
                          /\ sessions'[i].line \in {sessions[i].line, 0}

\* A request that rotates or logs out holds a row there is.
LEMMA HeldRows ==
    ASSUME SessionTypeOK, NEW s \in AuthSlots, auth[s].pc \in {"rotate", "logout"}
    PROVE  auth[s].row \in Rows /\ sessions[auth[s].row] \in SessionRow
<1>1. auth[s].row \in Rows
  BY DEF SessionTypeOK
<1> QED BY <1>1, RowsTyped, TypeParts

\* A line that no request comes to hold and whose rows only fall stays right.
LEMMA LineShrinks ==
    ASSUME SessionTypeOK, SessionTypeOK', NEW l \in Nat \ {0}, LineInv(l), Falls,
           \A s \in AuthSlots : auth'[s].pc \in {"rotate", "logout"} =>
               auth'[s] = auth[s] \/ sessions[auth'[s].row].line # l,
           l \in ended' => l \in ended
    PROVE  LineInv(l)'
<1>1. \A i \in LiveIn(l)' : i \in LiveIn(l)
  BY DEF Falls, LiveIn, Live, Rows
<1>2. ASSUME NEW s \in AuthSlots, Holds(s, l)'
      PROVE  Holds(s, l) /\ auth'[s] = auth[s]
  <2>1. auth'[s].pc \in {"rotate", "logout"} /\ sessions'[auth'[s].row].line = l
    BY <1>2 DEF Holds
  <2>2. auth'[s].row \in DOMAIN sessions'
    BY <2>1 DEF SessionTypeOK, Rows
  <2>3. sessions[auth'[s].row].line = l
    BY <2>1, <2>2 DEF Falls
  <2> QED BY <2>1, <2>3 DEF Holds
<1> QED BY <1>1, <1>2 DEF LineInv

\* The steps after which no session has more life than before.
LEMMA FallsSteps ==
    ASSUME SessionTypeOK
    PROVE  /\ UNCHANGED sessions => Falls
           /\ sessions' = AllDeleted => Falls
           /\ \A i \in Rows : sessions' = [sessions EXCEPT ![i] = DeletedRow] => Falls
           /\ CleanExpired => Falls
           /\ \A i \in Rows : Expire(i) => Falls
<1>1. sessions \in Seq(SessionRow)
  BY TypeParts
<1>2. DeletedRow.state # "valid" /\ DeletedRow.line = 0
  BY DEF DeletedRow
<1>3. ASSUME NEW i \in Rows, Expire(i) PROVE Falls
  <2> DEFINE new == [sessions[i] EXCEPT !.state = "expired"]
  <2>1. new.state = "expired" /\ new.line = sessions[i].line
    BY <1>1, RowsTyped DEF SessionRow
  <2>2. sessions' = [sessions EXCEPT ![i] = new]
    BY <1>3 DEF Expire
  <2> HIDE DEF new
  <2> QED BY <1>1, <2>1, <2>2 DEF Falls, Rows
<1>4. CleanExpired => Falls
  BY <1>1, <1>2 DEF CleanExpired, Falls, Rows
<1>5. sessions' = AllDeleted => Falls
  BY <1>1, <1>2 DEF AllDeleted, Falls, Rows
<1>6. \A i \in Rows : sessions' = [sessions EXCEPT ![i] = DeletedRow] => Falls
  BY <1>1, <1>2 DEF Falls, Rows
<1> QED BY <1>3, <1>4, <1>5, <1>6 DEF Falls, Rows

\* The lines after a step that creates no row.
LEMMA FallingStep ==
    ASSUME LinesInv, SessionTypeOK', Falls, UNCHANGED lines, raced \subseteq raced',
           ended' \subseteq 1..lines,
           \A l \in 1..lines : l \notin raced' =>
              LineInv(l)'
              \/ /\ \A s \in AuthSlots : auth'[s].pc \in {"rotate", "logout"} =>
                       auth'[s] = auth[s] \/ sessions[auth'[s].row].line # l
                 /\ l \in ended' => l \in ended
    PROVE  LinesInv'
<1>1. \A i \in Rows : sessions[i].line \in Nat /\ lines \in Nat
  BY TypeParts, RowsTyped DEF LinesInv
<1>2. \A i \in Rows' : sessions'[i].line <= lines'
  BY <1>1 DEF LinesInv, Falls, Rows
<1>3. ASSUME NEW l \in 1..lines, l \notin raced' PROVE LineInv(l)'
  BY <1>3, LineShrinks DEF LinesInv
<1> QED BY <1>2, <1>3 DEF LinesInv

\* A request that reads a live row of a line that nobody holds comes to hold it.
LEMMA LineHeld ==
    ASSUME LinesInv, SessionTypeOK', NEW s \in AuthSlots, NEW i \in Rows,
           (RefreshRead(s, i) /\ auth'[s].pc = "rotate") \/ LogoutRead(s, i)
    PROVE  LinesInv'
<1> DEFINE l == sessions[i].line
<1>1. /\ SessionTypeOK /\ UNCHANGED <<sessions, lines, ended>>
      /\ raced' = raced \cup {m \in {l} : BusyLine(m)} /\ Live(i)
    BY DEF LinesInv, RefreshRead, LogoutRead, Await, SessionTypeOK
<1>2. PICK pc \in {"rotate", "logout"} :
          auth' = [auth EXCEPT ![s] = [pc |-> pc, row |-> i, password |-> 0]]
    BY <1>1 DEF RefreshRead, LogoutRead, Await, SessionTypeOK
<1>3. /\ auth'[s].row = i /\ auth'[s].pc = pc
      /\ \A q \in AuthSlots \ {s} : auth'[q] = auth[q]
    BY <1>1, <1>2 DEF SessionTypeOK
<1>4. ASSUME NEW m \in 1..lines, m \notin raced', m = l PROVE LineInv(m)'
    <2>1. ~BusyLine(m) /\ LineInv(m)
        BY <1>1, <1>4 DEF LinesInv
    <2>2. \A q \in AuthSlots : ~Holds(q, m)
        BY <1>1, <2>1, HeldRows DEF BusyLine, Pending, Holds
    <2>3. \A q \in AuthSlots : Holds(q, m)' => q = s
        BY <1>1, <1>3, <2>2 DEF Holds
    <2>4. i \in LiveIn(m) /\ LiveIn(m)' = LiveIn(m)
        BY <1>1, <1>4 DEF LiveIn, Live, Rows
    <2> QED BY <1>1, <1>3, <2>1, <2>3, <2>4 DEF LineInv
<1>5. Falls /\ ended' \subseteq 1..lines /\ raced \subseteq raced' /\ UNCHANGED lines
    BY <1>1, FallsSteps DEF LinesInv
<1>6. ASSUME NEW m \in 1..lines, m # l
      PROVE  /\ \A q \in AuthSlots : auth'[q].pc \in {"rotate", "logout"} =>
                   auth'[q] = auth[q] \/ sessions[auth'[q].row].line # m
             /\ m \in ended' => m \in ended
    BY <1>1, <1>3, <1>6
<1> HIDE DEF l
<1> QED BY <1>4, <1>5, <1>6, FallingStep

\* The row that is deleted was the only live one of its line.
LEMMA LineEnds ==
    ASSUME LinesInv, SessionTypeOK', NEW s \in AuthSlots, LogoutDelete(s)
    PROVE  LinesInv'
<1>1. SessionTypeOK /\ lines \in Nat
    BY DEF LinesInv, SessionTypeOK
<1>2. PICK i \in Rows : i = auth[s].row
    BY <1>1, HeldRows DEF LogoutDelete
<1> DEFINE l == sessions[i].line
<1>3. /\ auth[s].pc = "logout" /\ sessions' = [sessions EXCEPT ![i] = DeletedRow]
      /\ ended' = ended \cup ({l} \ {0}) /\ UNCHANGED <<lines, raced>>
      /\ auth' = [auth EXCEPT ![s] = NoAuth]
    BY <1>2 DEF LogoutDelete, Done
<1>4. l \in Nat /\ l <= lines
    BY <1>1, RowsTyped, TypeParts DEF LinesInv
<1>5. /\ auth'[s].pc = "idle" /\ \A q \in AuthSlots \ {s} : auth'[q] = auth[q]
    BY <1>1, <1>3, NoAuthType DEF SessionTypeOK
<1>6. Falls
    BY <1>1, <1>3, FallsSteps
<1>7. ASSUME NEW m \in 1..lines, m \notin raced', m = l PROVE LineInv(m)'
    <2>1. LineInv(m) /\ Holds(s, m)
        BY <1>2, <1>3, <1>7 DEF LinesInv, Holds
    <2>2. ASSUME NEW j \in LiveIn(m)' PROVE FALSE
        <3>1. j \in Rows /\ sessions'[j].state = "valid" /\ sessions'[j].line = m
            BY <1>6 DEF LiveIn, Live, Rows, Falls
        <3>2. j # i
            BY <1>1, <1>3, <3>1, TypeParts DEF DeletedRow, Rows
        <3>3. j \in LiveIn(m)
            BY <1>6, <3>1 DEF LiveIn, Live, Falls
        <3> QED BY <1>2, <2>1, <3>2, <3>3 DEF LineInv
    <2>3. ASSUME NEW q \in AuthSlots, Holds(q, m)' PROVE FALSE
        <3>1. q # s /\ auth'[q] = auth[q] /\ auth[q].row \in Rows
            BY <1>1, <1>5, <2>3, HeldRows DEF Holds
        <3>2. sessions[auth[q].row].line = m
            BY <1>6, <1>7, <2>3, <3>1 DEF Holds, Falls
        <3>3. Holds(q, m)
            BY <2>3, <3>1, <3>2 DEF Holds
        <3> QED BY <2>1, <3>1, <3>3 DEF LineInv
    <2> QED BY <2>2, <2>3 DEF LineInv
<1>8. ended' \subseteq 1..lines
    <2> HIDE DEF l
    <2>1. l # 0 => l \in 1..lines
        BY <1>1, <1>4
    <2> QED BY <1>3, <2>1 DEF LinesInv
<1>9. ASSUME NEW m \in 1..lines, m # l
      PROVE  /\ \A q \in AuthSlots : auth'[q].pc \in {"rotate", "logout"} =>
                   auth'[q] = auth[q] \/ sessions[auth'[q].row].line # m
             /\ m \in ended' => m \in ended
    BY <1>3, <1>5, <1>9
<1> HIDE DEF l
<1> QED BY <1>3, <1>6, <1>7, <1>8, <1>9, FallingStep

\* What a row appended to rows of which one has fallen makes of the lines.
LEMMA LineGoesOn ==
    ASSUME LinesInv, SessionTypeOK', NEW s \in AuthSlots, RefreshRotate(s),
           sessions' # sessions
    PROVE  LinesInv'
<1>1. SessionTypeOK /\ lines \in Nat /\ Len(sessions) \in Nat
      /\ sessions \in Seq(SessionRow)
    BY TypeParts DEF LinesInv
<1>2. PICK i \in Rows : i = auth[s].row
    BY <1>1, HeldRows DEF RefreshRotate
<1>3. PICK new : new = [sessions[i] EXCEPT !.state = "valid"]
    OBVIOUS
<1>4. PICK old : old = Rotated(sessions[i])
    OBVIOUS
<1>5. PICK marked : marked = [sessions EXCEPT ![i] = old]
    OBVIOUS
<1>6. /\ sessions' = Append(marked, new) /\ auth[s].pc = "rotate"
      /\ auth' = [auth EXCEPT ![s] = NoAuth] /\ UNCHANGED <<lines, raced, ended>>
    BY <1>2, <1>3, <1>4, <1>5 DEF RefreshRotate, Done
<1> DEFINE l == sessions[i].line
           n == Len(sessions) + 1
<1>7. /\ sessions[i] \in SessionRow /\ l \in Nat /\ l <= lines
    BY <1>1, RowsTyped DEF LinesInv
<1>8. /\ new \in SessionRow /\ new.state = "valid" /\ new.line = l
      /\ old \in SessionRow /\ old.state = "rotated" /\ old.line = l
    BY <1>3, <1>4, <1>7 DEF SessionRow, Rotated
<1>9. /\ marked \in Seq(SessionRow) /\ Len(marked) = Len(sessions) /\ marked[i] = old
      /\ \A j \in Rows \ {i} : marked[j] = sessions[j]
    BY <1>1, <1>5, <1>8 DEF Rows
<1>10. /\ Rows' = Rows \cup {n} /\ n \notin Rows
       /\ sessions'[n] = new /\ sessions'[i] = old
       /\ \A j \in Rows \ {i} : sessions'[j] = sessions[j]
    BY <1>1, <1>6, <1>8, <1>9 DEF Rows
<1>11. /\ auth'[s].pc = "idle" /\ \A q \in AuthSlots \ {s} : auth'[q] = auth[q]
    BY <1>1, <1>6, NoAuthType DEF SessionTypeOK
<1>12. \A q \in AuthSlots, m \in 1..lines : Holds(q, m)' => q # s /\ Holds(q, m)
    <2> SUFFICES ASSUME NEW q \in AuthSlots, NEW m \in 1..lines, Holds(q, m)'
                 PROVE  q # s /\ Holds(q, m)
        OBVIOUS
    <2>1. q # s /\ auth'[q] = auth[q] /\ auth[q].row \in Rows
        BY <1>1, <1>11, HeldRows DEF Holds
    <2>2. sessions'[auth[q].row].line = sessions[auth[q].row].line
        BY <1>8, <1>10, <2>1
    <2> QED BY <2>1, <2>2 DEF Holds
<1>13. ASSUME NEW m \in 1..lines, m \notin raced PROVE LineInv(m)'
    <2>1. LineInv(m)
        BY <1>13 DEF LinesInv
    <2>2. CASE m = l
        <3>1. Holds(s, m)
            BY <1>2, <1>6, <2>2 DEF Holds
        <3>2. LiveIn(m) \subseteq {i} /\ m \notin ended
            BY <1>2, <2>1, <3>1 DEF LineInv
        <3>3. LiveIn(m)' \subseteq {n}
            BY <1>8, <1>10, <3>2 DEF LiveIn, Live
        <3>4. \A q \in AuthSlots : ~Holds(q, m)'
            BY <1>12, <2>1, <3>1 DEF LineInv
        <3> QED BY <1>6, <3>2, <3>3, <3>4 DEF LineInv
    <2>3. CASE m # l
        <3>1. LiveIn(m)' \subseteq LiveIn(m)
            BY <1>8, <1>10, <2>3 DEF LiveIn, Live
        <3> QED BY <1>6, <1>11, <1>12, <2>1, <3>1 DEF LineInv
    <2> QED BY <2>2, <2>3
<1>14. \A j \in Rows' : sessions'[j].line <= lines'
    <2> HIDE DEF n
    <2> QED BY <1>6, <1>7, <1>8, <1>10 DEF LinesInv
<1> QED BY <1>6, <1>13, <1>14 DEF LinesInv

\* A login starts a line of its own.
LEMMA LineStarts ==
    ASSUME LinesInv, SessionTypeOK', NEW s \in AuthSlots, LoginCreate(s)
    PROVE  LinesInv'
<1>1. SessionTypeOK /\ lines \in Nat /\ Len(sessions) \in Nat
      /\ sessions \in Seq(SessionRow) /\ lines' = lines + 1
    BY TypeParts DEF LinesInv, LoginCreate
<1>2. PICK new : new = NewSession(lines + 1, auth[s].password, auth[s].password < wiped)
    OBVIOUS
<1>3. /\ sessions' = Append(sessions, new) /\ new.line = lines + 1
      /\ auth' = [auth EXCEPT ![s] = NoAuth] /\ UNCHANGED <<raced, ended>>
    BY <1>1, <1>2 DEF LoginCreate, Done, NewSession
<1> DEFINE n == Len(sessions) + 1
<1>4. /\ Rows' = Rows \cup {n} /\ n \notin Rows /\ sessions'[n] = new
      /\ \A j \in Rows : sessions'[j] = sessions[j]
    BY <1>1, <1>3 DEF Rows
<1>5. /\ auth'[s].pc = "idle" /\ \A q \in AuthSlots \ {s} : auth'[q] = auth[q]
    BY <1>1, <1>3, NoAuthType DEF SessionTypeOK
<1>6. \A q \in AuthSlots, m \in Nat : Holds(q, m)' => q # s /\ Holds(q, m)
    BY <1>1, <1>4, <1>5, HeldRows DEF Holds
<1>7. \A i \in Rows : sessions[i].line \in Nat /\ sessions[i].line <= lines
    BY <1>1, RowsTyped DEF LinesInv
<1>8. ASSUME NEW m \in 1..lines', m \notin raced PROVE LineInv(m)'
    <2>1. CASE m = lines + 1
        <3>1. \A q \in AuthSlots : ~Holds(q, m)
            BY <1>1, <1>7, <2>1, HeldRows DEF Holds
        <3>2. LiveIn(m)' \subseteq {n} /\ m \notin ended
            BY <1>1, <1>4, <1>7, <2>1 DEF LiveIn, Live, LinesInv
        <3> QED BY <1>1, <1>3, <1>6, <3>1, <3>2 DEF LineInv
    <2>2. CASE m # lines + 1
        <3>1. m \in 1..lines /\ LineInv(m)
            BY <1>1, <1>8, <2>2 DEF LinesInv
        <3>2. LiveIn(m)' \subseteq LiveIn(m)
            BY <1>3, <1>4, <2>2 DEF LiveIn, Live
        <3> QED BY <1>3, <1>5, <1>6, <3>1, <3>2 DEF LineInv
    <2> QED BY <2>1, <2>2
<1>9. \A j \in Rows' : sessions'[j].line <= lines'
    <2>1. \A j \in Rows : sessions'[j].line <= lines + 1
        BY <1>1, <1>4, <1>7
    <2>2. sessions'[n].line <= lines + 1
        BY <1>1, <1>3, <1>4
    <2> QED BY <1>1, <1>4, <2>1, <2>2
<1>10. ended' \subseteq 1..lines'
    BY <1>1, <1>3 DEF LinesInv
<1> QED BY <1>3, <1>8, <1>9, <1>10 DEF LinesInv

\* The invariant about the lines of sessions is inductive.
LEMMA LinesStep ==
    ASSUME LinesInv, SessionNext PROVE LinesInv'
<1>1. SessionTypeOK /\ SessionTypeOK' /\ auth \in [AuthSlots -> AuthRequest]
    BY TypeStep DEF LinesInv, SessionTypeOK
<1>2. CASE \/ \E s \in AuthSlots :
                \/ LoginCreate(s) \/ LogoutDelete(s)
                \/ (RefreshRotate(s) /\ sessions' # sessions)
                \/ \E i \in Rows : \/ LogoutRead(s, i)
                                   \/ RefreshRead(s, i) /\ auth'[s].pc = "rotate"
    BY <1>1, <1>2, LineStarts, LineEnds, LineGoesOn, LineHeld
<1>3. ASSUME Falls, UNCHANGED <<lines, ended>>, raced \subseteq raced',
             \/ UNCHANGED auth
             \/ \E s \in AuthSlots : /\ \A q \in AuthSlots \ {s} : auth'[q] = auth[q]
                                     /\ ~(auth'[s].pc \in {"rotate", "logout"})
      PROVE  LinesInv'
    <2>1. ended' \subseteq 1..lines
        BY <1>3 DEF LinesInv
    <2> QED BY <1>1, <1>3, <2>1, FallingStep
<1>4. ASSUME NEW s \in AuthSlots,
             \/ LoginRead(s) \/ RefreshWipe(s) \/ ChangeWrite(s) \/ ForgotDelete(s)
             \/ ForgotCreate(s) \/ ResetPassword(s) \/ ResetMark(s) \/ ResetWipe(s)
             \/ AuthFails(s) \/ (RefreshRotate(s) /\ sessions' = sessions)
             \/ \E i \in Rows : \/ ChangeRead(s, i)
                                \/ RefreshRead(s, i) /\ auth'[s].pc # "rotate"
             \/ \E t \in DOMAIN resetTokens : ResetRead(s, t)
      PROVE  LinesInv'
    <2>1. UNCHANGED <<lines, ended>> /\ raced \subseteq raced'
          /\ (UNCHANGED sessions \/ sessions' = AllDeleted)
        BY <1>4 DEF LoginRead, RefreshWipe, ChangeWrite, ForgotDelete, ForgotCreate,
             ResetPassword, ResetMark, ResetWipe, AuthFails, RefreshRotate,
             ChangeRead, RefreshRead, ResetRead
    <2>2. \E r : auth' = [auth EXCEPT ![s] = r] /\ ~(r.pc \in {"rotate", "logout"})
        BY <1>1, <1>4 DEF LoginRead, RefreshWipe, ChangeWrite, ForgotDelete,
             ForgotCreate, ResetPassword, ResetMark, ResetWipe, AuthFails,
             RefreshRotate, ChangeRead, RefreshRead, ResetRead, Await, Done, NoAuth
    <2>3. /\ \A q \in AuthSlots \ {s} : auth'[q] = auth[q]
          /\ ~(auth'[s].pc \in {"rotate", "logout"})
        BY <1>1, <2>2
    <2>4. Falls
        BY <1>1, <2>1, FallsSteps
    <2> QED BY <1>3, <2>1, <2>3, <2>4
<1>5. CASE CleanExpired \/ (\E i \in Rows : Expire(i))
           \/ \E t \in DOMAIN resetTokens : ResetExpire(t)
    <2>1. UNCHANGED <<lines, ended, raced, auth>>
        BY <1>5 DEF CleanExpired, Expire, ResetExpire
    <2>2. Falls
        BY <1>1, <1>5, FallsSteps DEF ResetExpire
    <2> QED BY <1>3, <2>1, <2>2
<1> QED BY <1>2, <1>4, <1>5 DEF SessionNext

\* Unless two of its requests overlap, a login has one live session at most,
\* and none once it has logged out (refreshToken rotates in one transaction,
\* logout deletes the row).
THEOREM RotationKeepsOne == SessionSpec => []OneLivePerLine
<1>1. SessionInit => LinesInv
    <2> SUFFICES ASSUME SessionInit PROVE LinesInv
        OBVIOUS
    <2>1. SessionTypeOK
        BY TypeStart, AuthAssumption
    <2>2. /\ Rows = {1} /\ sessions[1].line = 1 /\ lines = 1
          /\ ended = {} /\ \A s \in AuthSlots : auth[s].pc = "idle"
        BY NoAuthType DEF SessionInit, Rows, NewSession
    <2>3. \A l \in 1..lines : LineInv(l)
        BY <2>2 DEF LineInv, LiveIn, Holds
    <2> QED BY <2>1, <2>2, <2>3 DEF LinesInv
<1>2. LinesInv /\ [SessionNext]_sessionVars => LinesInv'
    <2>1. ASSUME LinesInv, UNCHANGED sessionVars PROVE LinesInv'
        <3>1. UNCHANGED <<sessions, auth, lines, ended, raced>> /\ SessionTypeOK'
            BY <2>1 DEF sessionVars, LinesInv, SessionTypeOK, Rows
        <3>2. SessionTypeOK /\ Falls /\ ended' \subseteq 1..lines
            BY <2>1, <3>1, FallsSteps DEF LinesInv
        <3> QED BY <2>1, <3>1, <3>2, FallingStep
    <2> QED BY <2>1, LinesStep
<1>3. LinesInv => OneLivePerLine
    <2> SUFFICES ASSUME LinesInv, NEW l \in 1..lines, l \notin raced
                 PROVE  Cardinality(LiveIn(l)) <= 1 /\ (l \in ended => LiveIn(l) = {})
        BY DEF OneLivePerLine
    <2>1. LineInv(l)
        BY DEF LinesInv
    <2>2. CASE LiveIn(l) = {}
        BY <2>2, FS_EmptySet
    <2>3. ASSUME NEW i \in LiveIn(l) PROVE Cardinality(LiveIn(l)) <= 1
        <3>1. LiveIn(l) = {i}
            BY <2>1, <2>3 DEF LineInv
        <3>2. Cardinality({i}) = 1
            BY FS_Singleton
        <3>3. Cardinality(LiveIn(l)) = 1
            BY <3>1, <3>2, Zenon
        <3> QED BY <3>3
    <2> QED BY <2>1, <2>2, <2>3 DEF LineInv
<1> QED BY <1>1, <1>2, <1>3, PTL DEF SessionSpec

-----------------------------------------------------------------------------
(* Reset tokens *)

\* Requests that are not about to use a token make no difference to it.
LEMMA OtherRequest ==
    ASSUME NEW token, NEW t, Uses(token, t, auth), NEW s \in AuthSlots,
           auth \in [AuthSlots -> AuthRequest], NEW r \in AuthRequest,
           auth' = [auth EXCEPT ![s] = r],
           r.pc \in {"reset", "mark"} => r.row # t,
           auth[s].pc = "mark" => auth[s].row # t
    PROVE  Uses(token, t, auth')
BY Awaited DEF Uses

\* Nor does the time, or another mail.
LEMMA TokenCloses ==
    ASSUME NEW token, NEW new, NEW t, Uses(token, t, auth),
           new.shared = token.shared, new.cut = token.cut,
           new.uses = token.uses, new.state # "open"
    PROVE  Uses(new, t, auth)
BY DEF Uses

\* A request has its types.
LEMMA AuthRow ==
    ASSUME SessionTypeOK, NEW s \in AuthSlots
    PROVE  auth[s] \in AuthRequest /\ auth[s].row \in Nat /\ auth[s].password \in Nat
BY TypeParts DEF AuthRequest

LEMMA ResetReadStep ==
    ASSUME SessionTypeOK, ResetInv, NEW s \in AuthSlots,
           NEW t \in DOMAIN resetTokens, ResetRead(s, t)
    PROVE  ResetInv'
<1> DEFINE r == [pc |-> "reset", row |-> t, password |-> 0]
<1>1. /\ auth' = [auth EXCEPT ![s] = r] /\ auth[s].pc = "idle"
      /\ resetTokens[t].state = "open"
  BY DEF ResetRead, Await, Free
<1>2. r \in AuthRequest /\ r.pc = "reset" /\ r.row = t
  BY TypeParts, TokenTyped, RequestTypes
<1>3. PICK shared \in BOOLEAN :
        /\ resetTokens' = [resetTokens EXCEPT ![t] =
                             [resetTokens[t] EXCEPT !.shared = shared]]
        /\ shared <=> \/ resetTokens[t].shared
                      \/ Pending({"reset", "mark"}, t) # {}
  BY TokenSteps
<1> DEFINE new == [resetTokens[t] EXCEPT !.shared = shared]
<1>4. /\ new \in ResetRow /\ new.shared = shared
      /\ new.cut = resetTokens[t].cut /\ new.uses = resetTokens[t].uses
  BY <1>3, TypeParts, TokenTyped DEF ResetRow
<1> HIDE DEF r, new
<1>5. /\ DOMAIN resetTokens' = DOMAIN resetTokens
      /\ \A u \in DOMAIN resetTokens :
            resetTokens'[u] = IF u = t THEN new ELSE resetTokens[u]
  BY <1>3, <1>4, TypeParts, TokenUpdated DEF new
<1>6. ASSUME NEW u \in DOMAIN resetTokens, u # t
      PROVE  Uses(resetTokens'[u], u, auth')
  BY <1>1, <1>2, <1>5, <1>6, TypeParts, OtherRequest DEF ResetInv
<1>7. Uses(new, t, auth')
  <2>1. CASE shared
    BY <1>4, <2>1 DEF Uses
  <2>2. CASE ~shared
    <3>1. /\ ~resetTokens[t].shared
          /\ \A q \in AuthSlots : auth[q].row = t =>
                  auth[q].pc \notin {"reset", "mark"}
      BY <1>3, <2>2 DEF Pending
    <3>2. resetTokens[t].cut \/ resetTokens[t].uses = 0
      BY <1>1, <3>1 DEF ResetInv, Uses
    <3>3. \A q \in AuthSlots : auth'[q] = IF q = s THEN r ELSE auth[q]
      BY <1>1, <1>2, TypeParts, Awaited
    <3> QED BY <1>4, <3>1, <3>2, <3>3 DEF Uses
  <2> QED BY <2>1, <2>2
<1> QED BY <1>5, <1>6, <1>7 DEF ResetInv

LEMMA ResetPasswordStep ==
    ASSUME SessionTypeOK, ResetInv, NEW s \in AuthSlots, ResetPassword(s)
    PROVE  ResetInv'
<1> DEFINE t == auth[s].row
           r == [pc |-> "mark", row |-> t, password |-> password']
           new == [resetTokens[t] EXCEPT !.uses = resetTokens[t].uses + 1]
<1>1. /\ auth' = [auth EXCEPT ![s] = r] /\ auth[s].pc = "reset"
      /\ t \in DOMAIN resetTokens
  BY DEF ResetPassword, Await, SessionTypeOK
<1>2. password' \in Nat
  BY TypeParts DEF ResetPassword
<1>3. r \in AuthRequest /\ r.pc = "mark" /\ r.row = t
  BY <1>2, AuthRow, RequestTypes
<1>4. /\ resetTokens[t] \in ResetRow /\ resetTokens[t].uses \in Nat
      /\ resetTokens' = [resetTokens EXCEPT ![t] = new]
  BY <1>1, TypeParts, TokenTyped, TokenSteps
<1>5. /\ new \in ResetRow /\ new.shared = resetTokens[t].shared
      /\ new.cut = resetTokens[t].cut /\ new.uses = resetTokens[t].uses + 1
  BY <1>4 DEF ResetRow
<1> HIDE DEF r, new
<1>6. /\ DOMAIN resetTokens' = DOMAIN resetTokens
      /\ \A u \in DOMAIN resetTokens :
            resetTokens'[u] = IF u = t THEN new ELSE resetTokens[u]
  BY <1>1, <1>4, <1>5, TypeParts, TokenUpdated
<1>7. ASSUME NEW u \in DOMAIN resetTokens, u # t
      PROVE  Uses(resetTokens'[u], u, auth')
  BY <1>1, <1>3, <1>6, <1>7, TypeParts, OtherRequest DEF ResetInv
<1>8. Uses(new, t, auth')
  <2>1. Uses(resetTokens[t], t, auth)
    BY <1>1 DEF ResetInv
  <2>2. \A q \in AuthSlots : auth'[q] = IF q = s THEN r ELSE auth[q]
    BY <1>1, <1>3, TypeParts, Awaited
  <2>3. \/ resetTokens[t].shared \/ resetTokens[t].cut
        \/ resetTokens[t].uses = 0
    BY <1>1, <2>1 DEF Uses
  <2>4. CASE resetTokens[t].shared
    BY <1>5, <2>4 DEF Uses
  <2>5. CASE ~resetTokens[t].shared
    <3>1. \A q \in AuthSlots : auth[q].row = t /\ q # s =>
              auth[q].pc \notin {"reset", "mark"}
      BY <1>1, <2>1, <2>5 DEF Uses
    <3> HIDE DEF t
    <3> QED BY <1>3, <1>5, <2>2, <2>3, <2>5, <3>1 DEF Uses
  <2> QED BY <2>4, <2>5
<1> QED BY <1>1, <1>6, <1>7, <1>8 DEF ResetInv

LEMMA ResetMarkStep ==
    ASSUME SessionTypeOK, ResetInv, NEW s \in AuthSlots,
           ResetMark(s) \/ (AuthFails(s) /\ auth[s].pc = "mark")
    PROVE  ResetInv'
<1> DEFINE t == auth[s].row
<1>1. auth[s].pc = "mark" /\ t \in DOMAIN resetTokens
  BY DEF ResetMark, SessionTypeOK
<1>2. PICK r \in AuthRequest :
        auth' = [auth EXCEPT ![s] = r] /\ r.pc \in {"idle", "wipe"}
  <2>1. [pc |-> "wipe", row |-> 0, password |-> auth[s].password] \in AuthRequest
    BY AuthRow, RequestTypes
  <2> QED BY <2>1, NoAuthType DEF ResetMark, AuthFails, Await, Done
<1>3. PICK new \in ResetRow :
        /\ resetTokens' = [resetTokens EXCEPT ![t] = new]
        /\ new.uses = resetTokens[t].uses /\ new.shared = resetTokens[t].shared
        /\ new.cut \/ (new.state # "open" /\ new.cut = resetTokens[t].cut)
  <2> DEFINE old == resetTokens[t]
             used == [old EXCEPT !.state = "used"]
             cut == [old EXCEPT !.cut = TRUE]
  <2>1. old \in ResetRow
    BY <1>1, TypeParts, TokenTyped
  <2>2. /\ used \in ResetRow /\ used.uses = old.uses
        /\ used.shared = old.shared /\ used.cut = old.cut
        /\ used.state = "used"
        /\ cut \in ResetRow /\ cut.uses = old.uses
        /\ cut.shared = old.shared /\ cut.cut = TRUE
    BY <2>1 DEF ResetRow
  <2>3. CASE AuthFails(s)
    <3>1. resetTokens' = [resetTokens EXCEPT ![t] = cut]
      BY <1>1, <2>3, TokenSteps
    <3> HIDE DEF old, used, cut
    <3> QED BY <2>2, <3>1 DEF old
  <2>4. CASE ResetMark(s) /\ resetTokens' # resetTokens
    <3>1. resetTokens' = [resetTokens EXCEPT ![t] = used]
      BY <2>4, TokenSteps
    <3> HIDE DEF old, used, cut
    <3> QED BY <2>2, <3>1 DEF old
  <2>5. CASE ResetMark(s) /\ resetTokens' = resetTokens
    <3>1. CASE old.state = "deleted"
      <4>1. resetTokens' = [resetTokens EXCEPT ![t] = old]
        BY <1>1, <2>5, TypeParts
      <4> QED BY <2>1, <3>1, <4>1
    <3>2. CASE old.state # "deleted"
      <4>1. resetTokens' = [resetTokens EXCEPT ![t] = used]
        BY <2>5, <3>2 DEF ResetMark, Marked
      <4> HIDE DEF old, used, cut
      <4> QED BY <2>2, <4>1 DEF old
    <3> QED BY <3>1, <3>2
  <2> QED BY <2>3, <2>4, <2>5
<1>4. /\ DOMAIN resetTokens' = DOMAIN resetTokens
      /\ \A u \in DOMAIN resetTokens :
            resetTokens'[u] = IF u = t THEN new ELSE resetTokens[u]
  BY <1>1, <1>3, TypeParts, TokenUpdated
<1>5. ASSUME NEW u \in DOMAIN resetTokens, u # t
      PROVE  Uses(resetTokens'[u], u, auth')
  BY <1>2, <1>4, <1>5, TypeParts, OtherRequest DEF ResetInv
<1>6. Uses(new, t, auth')
  <2>1. Uses(resetTokens[t], t, auth)
    BY <1>1 DEF ResetInv
  <2>2. \A q \in AuthSlots : auth'[q] = IF q = s THEN r ELSE auth[q]
    BY <1>2, TypeParts, Awaited
  <2> HIDE DEF t
  <2> QED BY <1>2, <1>3, <2>1, <2>2 DEF Uses
<1> QED BY <1>4, <1>5, <1>6 DEF ResetInv

\* All other requests leave the tokens' uses as they are.
LEMMA OtherStep ==
    ASSUME SessionTypeOK, ResetInv, NEW s \in AuthSlots,
           auth[s].pc # "mark", NEW r \in AuthRequest,
           r.pc \notin {"reset", "mark"}, auth' = [auth EXCEPT ![s] = r],
           resetTokens' = resetTokens
    PROVE  ResetInv'
BY TypeParts, OtherRequest DEF ResetInv

LEMMA ForgotStep ==
    ASSUME SessionTypeOK, ResetInv, NEW s \in AuthSlots,
           ForgotDelete(s) \/ ForgotCreate(s)
    PROVE  ResetInv'
<1>1. PICK r \in AuthRequest :
        /\ auth' = [auth EXCEPT ![s] = r] /\ r.pc \notin {"reset", "mark"}
        /\ auth[s].pc # "mark"
  BY NoAuthType, RequestTypes DEF ForgotDelete, ForgotCreate, Await, Done, Free
<1>2. \A token, t : Uses(token, t, auth) => Uses(token, t, auth')
  BY <1>1, TypeParts, OtherRequest
<1>3. /\ resetTokens \in Seq(ResetRow)
      /\ auth' \in [AuthSlots -> AuthRequest]
  BY <1>1, TypeParts, Awaited
<1>4. CASE ForgotDelete(s)
  <2> DEFINE gone(t) == [resetTokens[t] EXCEPT !.state = "deleted"]
  <2>1. resetTokens' = [t \in DOMAIN resetTokens |-> gone(t)]
    BY <1>4 DEF ForgotDelete
  <2>2. \A t \in DOMAIN resetTokens :
          /\ gone(t).shared = resetTokens[t].shared
          /\ gone(t).cut = resetTokens[t].cut
          /\ gone(t).uses = resetTokens[t].uses /\ gone(t).state # "open"
    BY <1>3, TokenTyped DEF ResetRow
  <2> HIDE DEF gone
  <2>3. \A t \in DOMAIN resetTokens : Uses(gone(t), t, auth)
    BY <2>2, TokenCloses DEF ResetInv
  <2> QED BY <1>2, <2>1, <2>3 DEF ResetInv
<1>5. CASE ForgotCreate(s)
  <2> DEFINE t == Len(resetTokens) + 1
  <2>1. resetTokens' = Append(resetTokens, OpenToken)
    BY <1>5 DEF ForgotCreate
  <2>2. \A q \in AuthSlots : auth[q].pc \in {"reset", "mark"} => auth[q].row # t
    BY <1>3 DEF SessionTypeOK
  <2>3. Uses(OpenToken, t, auth)
    BY <2>2 DEF Uses, OpenToken
  <2>4. \A u \in DOMAIN resetTokens' :
          IF u = t THEN resetTokens'[u] = OpenToken
          ELSE u \in DOMAIN resetTokens /\ resetTokens'[u] = resetTokens[u]
    BY <1>3, <2>1
  <2> HIDE DEF t
  <2> QED BY <1>2, <2>3, <2>4 DEF ResetInv
<1> QED BY <1>4, <1>5

LEMMA ExpireStep ==
    ASSUME SessionTypeOK, ResetInv, NEW t \in DOMAIN resetTokens, ResetExpire(t)
    PROVE  ResetInv'
<1> DEFINE new == [resetTokens[t] EXCEPT !.state = "expired"]
<1>1. resetTokens \in Seq(ResetRow) /\ resetTokens[t] \in ResetRow
  BY TypeParts, TokenTyped
<1>2. /\ new \in ResetRow /\ new.shared = resetTokens[t].shared
      /\ new.cut = resetTokens[t].cut /\ new.uses = resetTokens[t].uses
      /\ new.state # "open"
  BY <1>1 DEF ResetRow
<1>3. resetTokens' = [resetTokens EXCEPT ![t] = new] /\ auth' = auth
  BY DEF ResetExpire
<1> HIDE DEF new
<1>4. /\ DOMAIN resetTokens' = DOMAIN resetTokens
      /\ \A u \in DOMAIN resetTokens :
            resetTokens'[u] = IF u = t THEN new ELSE resetTokens[u]
  BY <1>1, <1>2, <1>3, TokenUpdated
<1>5. Uses(new, t, auth)
  BY <1>2, TokenCloses DEF ResetInv
<1> QED BY <1>3, <1>4, <1>5 DEF ResetInv

LEMMA ResetStep ==
    ASSUME SessionTypeOK, ResetInv, SessionNext PROVE ResetInv'
<1>1. ASSUME NEW s \in AuthSlots,
             \/ LoginRead(s) \/ LoginCreate(s)
             \/ RefreshRotate(s) \/ RefreshWipe(s) \/ LogoutDelete(s)
             \/ ChangeWrite(s) \/ ResetWipe(s)
             \/ (AuthFails(s) /\ auth[s].pc # "mark")
             \/ \E i \in Rows : RefreshRead(s, i) \/ LogoutRead(s, i)
                                \/ ChangeRead(s, i)
      PROVE  ResetInv'
  <2>1. auth[s].pc # "mark" /\ resetTokens' = resetTokens
    BY <1>1 DEF LoginRead, LoginCreate, RefreshRotate, RefreshWipe,
                LogoutDelete, ChangeWrite, ResetWipe, AuthFails, RefreshRead,
                LogoutRead, ChangeRead, Free
  <2>2. CASE Done(s)
    BY <2>1, <2>2, NoAuthType, OtherStep DEF Done
  <2>3. ASSUME NEW pc \in {"login", "reuse", "rotate", "logout", "change",
                           "initial"}, NEW row \in Nat, NEW pw \in Nat,
               Await(s, pc, row, pw)
        PROVE  ResetInv'
    <3> DEFINE r == [pc |-> pc, row |-> row, password |-> pw]
    <3>1. r \in AuthRequest /\ r.pc = pc
      BY RequestTypes
    <3>2. auth' = [auth EXCEPT ![s] = r]
      BY <2>3 DEF Await
    <3> HIDE DEF r
    <3> QED BY <2>1, <3>1, <3>2, OtherStep
  <2>4. password \in Nat /\ \A i \in Rows : i \in Nat
    BY TypeParts, RowsTyped
  <2>5. CASE \/ LoginRead(s)
             \/ \E i \in Rows : RefreshRead(s, i) \/ LogoutRead(s, i)
                                \/ ChangeRead(s, i)
    BY <2>3, <2>4, <2>5 DEF LoginRead, RefreshRead, LogoutRead, ChangeRead
  <2>6. CASE \/ LoginCreate(s) \/ RefreshRotate(s) \/ RefreshWipe(s)
             \/ LogoutDelete(s) \/ ChangeWrite(s) \/ ResetWipe(s)
             \/ AuthFails(s)
    BY <2>2, <2>6 DEF LoginCreate, RefreshRotate, RefreshWipe, LogoutDelete,
                      ChangeWrite, ResetWipe, AuthFails
  <2> QED BY <1>1, <2>5, <2>6
<1>2. ASSUME CleanExpired \/ \E i \in Rows : Expire(i)
      PROVE  ResetInv'
  BY <1>2 DEF CleanExpired, Expire, ResetInv
<1> QED BY <1>1, <1>2, ForgotStep, ResetReadStep, ResetPasswordStep,
           ResetMarkStep, ExpireStep DEF SessionNext

\* A mailed token sets the password once, unless a second request had read it
\* or the first one stopped before it marked the token.
THEOREM ResetsOnce == SessionSpec => []ResetOnce
<1>1. SessionInit => ResetInv
  <2> SUFFICES ASSUME SessionInit PROVE ResetInv
    OBVIOUS
  <2>1. DOMAIN resetTokens = {1} /\ resetTokens[1] = OpenToken
    BY DEF SessionInit
  <2>2. \A s \in AuthSlots : auth[s].pc = "idle"
    BY NoAuthType DEF SessionInit
  <2> QED BY <2>1, <2>2 DEF ResetInv, Uses, OpenToken
<1>2. SessionTypeOK /\ ResetInv /\ [SessionNext]_sessionVars => ResetInv'
  <2>1. ASSUME ResetInv, UNCHANGED sessionVars PROVE ResetInv'
    BY <2>1 DEF ResetInv, sessionVars
  <2> QED BY <2>1, ResetStep
<1>3. SessionTypeOK /\ ResetInv => ResetOnce
  BY TypeParts, TokenTyped DEF ResetInv, Uses, ResetOnce
<1> QED BY <1>1, <1>2, <1>3, SessionTypeCorrect, PTL DEF SessionSpec

-----------------------------------------------------------------------------
(* Lockout: the memory of the process *)

\* The attempts past a check in memory, whose failures memory counts.
PastCheck == {c \in Clients : attempt[c].pc # "idle" /\ attempt[c].checked = "memory"}
MemoryRecord == kept["memory"]
\* The failures and the attempts that may still fail: as long as there is no
\* lock, the record has counted every failure and is below the limit.  After
\* the end of a lock the failures start again, not the count of a login.
MemoryInv ==
    /\ LockTypeOK
    /\ failures["memory"] + Cardinality(PastCheck)
         <= MaxAttempts + Cardinality(Clients) - 1
    /\ ~MemoryRecord.locked =>
         \/ failures["memory"] = 0
         \/ failures["memory"] <= MemoryRecord.count /\ MemoryRecord.count < MaxAttempts

LEMMA RecordTyped ==
    ASSUME NEW r \in LockRecord
    PROVE  /\ r.count \in Nat /\ r.locked \in BOOLEAN
           /\ Failed(r) \in LockRecord /\ NoRecord \in LockRecord
           /\ [r EXCEPT !.locked = FALSE] \in LockRecord
           /\ ~Failed(r).locked => ~r.locked /\ Failed(r).count = r.count + 1
                                   /\ r.count + 1 < MaxAttempts
<1>1. r.count \in Nat /\ r.locked \in BOOLEAN
  BY DEF LockRecord
<1>2. NoRecord \in LockRecord /\ [r EXCEPT !.locked = FALSE] \in LockRecord
  BY DEF LockRecord, NoRecord
<1> DEFINE n == IF r.count > MaxAttempts THEN r.count ELSE r.count + 1
           l == r.locked \/ Locks(r.count + 1)
<1>3. Failed(r) = [count |-> n, locked |-> l]
  BY DEF Failed
<1>4. n \in Nat /\ l \in BOOLEAN
  BY <1>1 DEF Locks
<1>5. ~l => ~r.locked /\ n = r.count + 1 /\ r.count + 1 < MaxAttempts
  BY <1>1, LockoutAssumption DEF Locks
<1> HIDE DEF n, l
<1>6. Failed(r) \in LockRecord /\ Failed(r).count = n /\ Failed(r).locked = l
  BY <1>3, <1>4 DEF LockRecord
<1> QED BY <1>1, <1>2, <1>4, <1>5, <1>6

LEMMA AttemptTyped ==
    ASSUME NEW t \in Attempt, NEW store \in Stores, NEW r \in LockRecord
    PROVE  /\ NoAttempt \in Attempt /\ NoAttempt.pc = "idle"
           /\ [NoAttempt EXCEPT !.pc = "verify", !.checked = store] \in Attempt
           /\ [t EXCEPT !.pc = "store", !.read = r] \in Attempt
           /\ [t EXCEPT !.pc = "store", !.read = r].checked = t.checked
           /\ [t EXCEPT !.pc = "store", !.read = r].pc = "store"
BY DEF Attempt, NoAttempt, NoRecord, LockRecord, Stores

LEMMA LockParts ==
    ASSUME LockTypeOK
    PROVE  /\ Reached \in Stores /\ "redis" \in Stores /\ "memory" \in Stores
           /\ "redis" # "memory"
           /\ kept["redis"] \in LockRecord /\ kept["memory"] \in LockRecord
           /\ failures["redis"] \in Nat /\ failures["memory"] \in Nat
           /\ \A c \in Clients : attempt[c] \in Attempt
BY DEF LockTypeOK, Stores, Reached

LEMMA LockTypeStep == LockTypeOK /\ [LockNext]_lockVars => LockTypeOK'
<1> SUFFICES ASSUME LockTypeOK, [LockNext]_lockVars PROVE LockTypeOK'
  OBVIOUS
<1>0. /\ kept \in [Stores -> LockRecord] /\ attempt \in [Clients -> Attempt]
      /\ failures \in [Stores -> Nat] /\ NoRecord \in LockRecord /\ NoAttempt \in Attempt
      /\ lockKind \in {"login", "scan"} /\ redisUp \in BOOLEAN
  BY RecordTyped, AttemptTyped, LockParts DEF LockTypeOK, LockRecord, NoRecord, Attempt,
     NoAttempt, Stores
<1>1. ASSUME NEW c \in Clients, CheckLockout(c) PROVE LockTypeOK'
  BY <1>0, <1>1, LockParts, AttemptTyped DEF CheckLockout, LockTypeOK
<1>2. ASSUME NEW c \in Clients, Succeeds(c) PROVE LockTypeOK'
  BY <1>0, <1>2, LockParts DEF Succeeds, Drop, Over, LockTypeOK
<1>3. ASSUME NEW c \in Clients, ReadRecord(c) PROVE LockTypeOK'
  <2>1. attempt' = [attempt EXCEPT ![c] = [attempt[c] EXCEPT !.pc = "store",
                                                            !.read = kept["redis"]]]
    BY <1>0, <1>3 DEF ReadRecord
  <2>2. [attempt[c] EXCEPT !.pc = "store", !.read = kept["redis"]] \in Attempt
    BY LockParts, AttemptTyped
  <2>3. attempt' \in [Clients -> Attempt]
    BY <1>0, <2>1, <2>2
  <2> QED BY <1>0, <1>3, <2>3 DEF ReadRecord, LockTypeOK
<1>4. ASSUME NEW c \in Clients, StoreRecord(c) PROVE LockTypeOK'
  <2>1. attempt[c].read \in LockRecord
    BY <1>0 DEF Attempt
  <2>2. Failed(attempt[c].read) \in LockRecord
    BY <2>1, RecordTyped
  <2>3. failures' = failures \/ failures' = [failures EXCEPT !["redis"] = failures["redis"] + 1]
    BY <1>0, <1>4, LockParts DEF StoreRecord, Counted
  <2>4. failures' \in [Stores -> Nat]
    BY <1>0, <2>3, LockParts
  <2> QED BY <1>0, <1>4, <2>2, <2>4 DEF StoreRecord, Over, LockTypeOK
<1>5. ASSUME NEW c \in Clients, RecordInMemory(c) PROVE LockTypeOK'
  <2>1. Failed(kept["memory"]) \in LockRecord
    BY LockParts, RecordTyped
  <2>2. kept' = [kept EXCEPT !["memory"] = Failed(kept["memory"])]
    BY <1>0, <1>5, LockParts DEF RecordInMemory
  <2>3. failures' = failures \/ failures' = [failures EXCEPT !["memory"] = failures["memory"] + 1]
    BY <1>0, <1>5, LockParts DEF RecordInMemory, Counted
  <2>4. failures' \in [Stores -> Nat]
    BY <1>0, <2>3, LockParts
  <2> QED BY <1>0, <1>5, <2>1, <2>2, <2>4 DEF RecordInMemory, Over, LockTypeOK
<1>6. ASSUME RedisFlips PROVE LockTypeOK'
  BY <1>0, <1>6 DEF RedisFlips, LockTypeOK
<1>7. ASSUME RedisExpires \/ MemorySweep PROVE LockTypeOK'
  BY <1>0, <1>7 DEF RedisExpires, MemorySweep, Drop, LockTypeOK
<1>8. ASSUME MemoryLockEnds PROVE LockTypeOK'
  <2>1. kept' = [kept EXCEPT !["memory"] = IF lockKind = "scan" THEN NoRecord
                                ELSE [kept["memory"] EXCEPT !.locked = FALSE]]
    BY <1>0, <1>8, LockParts DEF MemoryLockEnds
  <2>2. [kept["memory"] EXCEPT !.locked = FALSE] \in LockRecord
    BY LockParts, RecordTyped
  <2> QED BY <1>0, <1>8, <2>1, <2>2 DEF MemoryLockEnds, LockTypeOK
<1>9. ASSUME UNCHANGED lockVars PROVE LockTypeOK'
  BY <1>9 DEF lockVars, LockTypeOK
<1> QED BY <1>1, <1>2, <1>3, <1>4, <1>5, <1>6, <1>7, <1>8, <1>9 DEF LockNext

\* The attempts of PastCheck, with one more or one less.
LEMMA PastCheckCounted ==
    /\ IsFiniteSet(Clients) /\ Cardinality(Clients) \in Nat
    /\ IsFiniteSet(PastCheck) /\ Cardinality(PastCheck) \in Nat
    /\ Cardinality(PastCheck) <= Cardinality(Clients)
    /\ \A S \in SUBSET Clients :
         /\ IsFiniteSet(S) /\ Cardinality(S) \in Nat
         /\ Cardinality(S) <= Cardinality(Clients)
         /\ S \subseteq PastCheck => Cardinality(S) <= Cardinality(PastCheck)
         /\ \A c \in PastCheck :
              S \subseteq PastCheck \ {c} => Cardinality(S) + 1 <= Cardinality(PastCheck)
<1>1. IsFiniteSet(Clients) /\ Cardinality(Clients) \in Nat
  BY LockoutAssumption, FS_CardinalityType
<1>2. PastCheck \subseteq Clients
  BY DEF PastCheck
<1>3. ASSUME NEW S \in SUBSET Clients
      PROVE  /\ IsFiniteSet(S) /\ Cardinality(S) \in Nat
             /\ Cardinality(S) <= Cardinality(Clients)
  BY <1>1, FS_Subset, FS_CardinalityType
<1>4. IsFiniteSet(PastCheck) /\ Cardinality(PastCheck) \in Nat
      /\ Cardinality(PastCheck) <= Cardinality(Clients)
  BY <1>2, <1>3
<1>5. ASSUME NEW S \in SUBSET Clients, S \subseteq PastCheck
      PROVE  Cardinality(S) <= Cardinality(PastCheck)
  BY <1>4, <1>5, FS_Subset
<1>6. ASSUME NEW S \in SUBSET Clients, NEW c \in PastCheck, S \subseteq PastCheck \ {c}
      PROVE  Cardinality(S) + 1 <= Cardinality(PastCheck)
  <2>1. /\ IsFiniteSet(PastCheck \ {c})
        /\ Cardinality(PastCheck \ {c}) = Cardinality(PastCheck) - 1
    BY <1>4, FS_RemoveElement
  <2>2. Cardinality(S) <= Cardinality(PastCheck \ {c})
    BY <1>6, <2>1, FS_Subset
  <2> QED BY <1>3, <1>4, <2>1, <2>2
<1> QED BY <1>1, <1>3, <1>4, <1>5, <1>6

LEMMA MemoryStep == MemoryInv /\ [LockNext]_lockVars => MemoryInv'
<1> SUFFICES ASSUME MemoryInv, [LockNext]_lockVars PROVE MemoryInv'
  OBVIOUS
<1> DEFINE n == Cardinality(Clients)
           p == Cardinality(PastCheck)
           q == Cardinality(PastCheck')
           f == failures["memory"]
           g == failures'["memory"]
           r == kept["memory"]
           s == kept'["memory"]
<1>1. LockTypeOK /\ LockTypeOK'
  BY LockTypeStep DEF MemoryInv
<1>2. /\ f \in Nat /\ r \in LockRecord /\ r.count \in Nat
      /\ \A c \in Clients : attempt[c] \in Attempt
      /\ attempt \in [Clients -> Attempt] /\ "memory" \in Stores /\ "redis" \in Stores
      /\ kept \in [Stores -> LockRecord] /\ failures \in [Stores -> Nat]
  BY <1>1, LockParts, RecordTyped DEF LockTypeOK
<1>3. /\ f + p <= MaxAttempts + n - 1
      /\ ~r.locked => f = 0 \/ (f <= r.count /\ r.count < MaxAttempts)
  BY DEF MemoryInv, MemoryRecord
<1>4. n \in Nat /\ p \in Nat /\ p <= n /\ MaxAttempts \in Nat \ {0}
  BY PastCheckCounted, LockoutAssumption
<1>5. PastCheck' \in SUBSET Clients /\ q \in Nat /\ q <= n
  <2>1. PastCheck' \in SUBSET Clients
    BY DEF PastCheck
  <2> QED BY <2>1, PastCheckCounted
<1>6. PastCheck' \subseteq PastCheck => q <= p
  BY <1>5, PastCheckCounted
<1>7. ASSUME NEW c \in PastCheck, PastCheck' \subseteq PastCheck \ {c} PROVE q + 1 <= p
  BY <1>5, <1>7, PastCheckCounted
<1>8. SUFFICES /\ g + q <= MaxAttempts + n - 1
               /\ ~s.locked => g = 0 \/ (g <= s.count /\ s.count < MaxAttempts)
  BY <1>1 DEF MemoryInv, MemoryRecord
<1> HIDE DEF n, p, q, f, g, r, s
<1>9. ASSUME g = f, s = r, PastCheck' \subseteq PastCheck
      PROVE  /\ g + q <= MaxAttempts + n - 1
             /\ ~s.locked => g = 0 \/ (g <= s.count /\ s.count < MaxAttempts)
  BY <1>2, <1>3, <1>4, <1>5, <1>6, <1>9
<1>10. ASSUME g = 0
       PROVE  /\ g + q <= MaxAttempts + n - 1
              /\ ~s.locked => g = 0 \/ (g <= s.count /\ s.count < MaxAttempts)
  BY <1>4, <1>5, <1>10
<1>11. ASSUME NEW c \in Clients, CheckLockout(c)
       PROVE  /\ g + q <= MaxAttempts + n - 1
              /\ ~s.locked => g = 0 \/ (g <= s.count /\ s.count < MaxAttempts)
  <2>1. g = f /\ s = r
    BY <1>11 DEF CheckLockout, f, g, r, s
  <2>2. CASE redisUp
    <3>1. PastCheck' \subseteq PastCheck
      BY <1>2, <1>11, <2>2 DEF CheckLockout, PastCheck, Reached, Attempt, NoAttempt
    <3> QED BY <1>9, <2>1, <3>1
  <2>3. CASE ~redisUp
    <3>1. ~r.locked
      BY <1>11, <2>3 DEF CheckLockout, Reached, r
    <3>2. f <= MaxAttempts - 1
      BY <1>2, <1>3, <1>4, <3>1
    <3> QED BY <1>2, <1>3, <1>4, <1>5, <2>1, <3>1, <3>2
  <2> QED BY <2>2, <2>3
<1>12. ASSUME NEW c \in Clients, ReadRecord(c)
       PROVE  /\ g + q <= MaxAttempts + n - 1
              /\ ~s.locked => g = 0 \/ (g <= s.count /\ s.count < MaxAttempts)
  <2>1. attempt' = [attempt EXCEPT ![c] = [attempt[c] EXCEPT !.pc = "store",
                                                            !.read = kept["redis"]]]
    BY <1>2, <1>12 DEF ReadRecord
  <2>2. attempt'[c].checked = attempt[c].checked
    BY <1>2, <2>1 DEF Attempt
  <2>3. PastCheck' \subseteq PastCheck
    BY <1>2, <1>12, <2>1, <2>2 DEF ReadRecord, PastCheck
  <2>4. g = f /\ s = r
    BY <1>12 DEF ReadRecord, f, g, r, s
  <2> QED BY <1>9, <2>3, <2>4
<1>13. ASSUME NEW c \in Clients, Over(c)
       PROVE  PastCheck' \subseteq PastCheck \ {c}
  BY <1>2, <1>13 DEF Over, PastCheck, NoAttempt
<1>14. ASSUME NEW c \in Clients, StoreRecord(c)
       PROVE  /\ g + q <= MaxAttempts + n - 1
              /\ ~s.locked => g = 0 \/ (g <= s.count /\ s.count < MaxAttempts)
  <2>1. g = f /\ s = r
    BY <1>2, <1>14 DEF StoreRecord, Counted, f, g, r, s
  <2> QED BY <1>9, <1>13, <1>14, <2>1 DEF StoreRecord
<1>15. ASSUME NEW c \in Clients, RecordInMemory(c)
       PROVE  /\ g + q <= MaxAttempts + n - 1
              /\ ~s.locked => g = 0 \/ (g <= s.count /\ s.count < MaxAttempts)
  <2>1. PastCheck' \subseteq PastCheck \ {c}
    BY <1>13, <1>15 DEF RecordInMemory
  <2>2. s = Failed(r)
    BY <1>2, <1>15 DEF RecordInMemory, r, s
  <2>3. ~s.locked => ~r.locked /\ s.count = r.count + 1 /\ r.count + 1 < MaxAttempts
    BY <1>2, <2>2, RecordTyped
  <2>4. \/ c \in PastCheck /\ g = f + 1
        \/ g = f
    BY <1>2, <1>15 DEF RecordInMemory, Counted, PastCheck, f, g
  <2>5. q <= p /\ (c \in PastCheck => q + 1 <= p)
    BY <1>6, <1>7, <2>1
  <2>6. g + q <= MaxAttempts + n - 1
    BY <1>2, <1>3, <1>4, <1>5, <2>4, <2>5
  <2>7. ~s.locked => g = 0 \/ (g <= s.count /\ s.count < MaxAttempts)
    BY <1>2, <1>3, <1>4, <2>3, <2>4
  <2> QED BY <2>6, <2>7
<1>16. ASSUME NEW c \in Clients, Succeeds(c)
       PROVE  /\ g + q <= MaxAttempts + n - 1
              /\ ~s.locked => g = 0 \/ (g <= s.count /\ s.count < MaxAttempts)
  <2>1. CASE Reached = "memory"
    <3>1. g = 0
      BY <1>2, <1>16, <2>1 DEF Succeeds, Drop, g
    <3> QED BY <1>10, <3>1
  <2>2. CASE Reached # "memory"
    <3>1. g = f /\ s = r
      BY <1>2, <1>16, <2>2 DEF Succeeds, Drop, f, g, r, s
    <3> QED BY <1>9, <1>13, <1>16, <3>1 DEF Succeeds
  <2> QED BY <2>1, <2>2
<1>17. ASSUME MemoryLockEnds \/ MemorySweep
       PROVE  /\ g + q <= MaxAttempts + n - 1
              /\ ~s.locked => g = 0 \/ (g <= s.count /\ s.count < MaxAttempts)
  <2>1. g = 0
    BY <1>2, <1>17 DEF MemoryLockEnds, MemorySweep, Drop, g
  <2> QED BY <1>10, <2>1
<1>18. ASSUME RedisFlips \/ RedisExpires \/ UNCHANGED lockVars
       PROVE  /\ g + q <= MaxAttempts + n - 1
              /\ ~s.locked => g = 0 \/ (g <= s.count /\ s.count < MaxAttempts)
  <2>1. g = f /\ s = r
    BY <1>2, <1>18 DEF RedisFlips, RedisExpires, Drop, lockVars, f, g, r, s
  <2>2. PastCheck' \subseteq PastCheck
    BY <1>18 DEF RedisFlips, RedisExpires, lockVars, PastCheck
  <2> QED BY <1>9, <2>1, <2>2
<1> QED BY <1>11, <1>12, <1>14, <1>15, <1>16, <1>17, <1>18 DEF LockNext

\* While Redis is away, the memory of the process lets in no more wrong guesses
\* than the limit and, beyond it, those that were past the check when it locked;
\* for any number of clients and any limit.
THEOREM MemoryLocks == LockSpec => []MemoryGuessesBounded
<1>1. LockInit => MemoryInv
  <2> SUFFICES ASSUME LockInit PROVE MemoryInv
    OBVIOUS
  <2>1. LockTypeOK
    BY DEF LockInit, LockTypeOK, LockRecord, NoRecord, Attempt, NoAttempt, Stores
  <2>2. failures["memory"] = 0
    BY DEF LockInit, Stores
  <2>3. Cardinality(PastCheck) <= Cardinality(Clients)
    BY PastCheckCounted
  <2> QED BY <2>1, <2>2, <2>3, PastCheckCounted, LockoutAssumption DEF MemoryInv
<1>2. MemoryInv => MemoryGuessesBounded
  <2> SUFFICES ASSUME MemoryInv PROVE MemoryGuessesBounded
    OBVIOUS
  <2>1. failures["memory"] \in Nat
    BY LockParts DEF MemoryInv
  <2>2. failures["memory"] + Cardinality(PastCheck) <= MaxAttempts + Cardinality(Clients) - 1
    BY DEF MemoryInv
  <2> QED BY <2>1, <2>2, PastCheckCounted, LockoutAssumption DEF MemoryGuessesBounded
<1> QED BY <1>1, <1>2, MemoryStep, PTL DEF LockSpec

-----------------------------------------------------------------------------
(* Lockout: Redis.  How often a late set can put back a lower count *)

\* A record as a number of failures, at most the limit, and the highest count
\* an attempt can still put back: one that found no lock in Redis has read, or
\* will read, a count below the limit.
Height(record) == IF record.locked THEN MaxAttempts ELSE record.count
Lesser(x, y) == IF x <= y THEN x ELSE y
Limit(t) == IF t.checked = "redis" THEN MaxAttempts - 1 ELSE MaxAttempts
Ceiling(t) ==
    IF t.pc = "idle" THEN MaxAttempts
    ELSE IF t.pc = "verify" THEN Limit(t) ELSE Lesser(Height(t.read), Limit(t))
LevelsOf(record, attempts) ==
    [c \in Clients |-> Lesser(Height(record), Ceiling(attempts[c]))]
Levels == LevelsOf(kept["redis"], attempt)

\* How many clients are at each level or below it.  A wrong guess moves its
\* client up from the level of what it read, and whatever it does to the
\* others, it leaves fewer at that level: in the order that compares the lowest
\* levels first, every wrong guess makes these numbers smaller.
Rungs == 0 .. MaxAttempts - 1
Profile(v) == [t \in Rungs |-> Cardinality({c \in Clients : v[c] <= t})]
Profiles == Stairs(MaxAttempts, Cardinality(Clients))
Lower(v, w) ==
    \E t \in Rungs : v[t] < w[t] /\ \A s \in Rungs : s < t => v[s] = w[s]
Left(v) == {w \in Profiles : Lower(w, v)}

\* Without its lock, a record is below the limit.
Sound(record) == ~record.locked => record.count < MaxAttempts
RedisInv ==
    /\ LockTypeOK
    /\ Sound(kept["redis"]) /\ \A c \in Clients : Sound(attempt[c].read)
    /\ failures["redis"] + Cardinality(Left(Profile(Levels)))
         <= Cardinality(Profiles) - 1

\* The number of clients of a set.
LEMMA ClientsCounted ==
    ASSUME NEW S \in SUBSET Clients
    PROVE  /\ IsFiniteSet(S) /\ Cardinality(S) \in 0 .. Cardinality(Clients)
           /\ \A T \in SUBSET S : Cardinality(T) <= Cardinality(S)
           /\ \A c \in S : \A T \in SUBSET (S \ {c}) : Cardinality(T) < Cardinality(S)
<1>1. IsFiniteSet(Clients) /\ Cardinality(Clients) \in Nat
  BY LockoutAssumption, FS_CardinalityType
<1>2. IsFiniteSet(S) /\ Cardinality(S) \in Nat /\ Cardinality(S) <= Cardinality(Clients)
  BY <1>1, FS_Subset, FS_CardinalityType
<1>3. \A T \in SUBSET S : Cardinality(T) <= Cardinality(S)
  BY <1>2, FS_Subset
<1>4. ASSUME NEW c \in S, NEW T \in SUBSET (S \ {c})
      PROVE  Cardinality(T) < Cardinality(S)
  <2>1. IsFiniteSet(S \ {c}) /\ Cardinality(S \ {c}) = Cardinality(S) - 1
    BY <1>2, FS_RemoveElement
  <2>2. Cardinality(T) <= Cardinality(S \ {c}) /\ Cardinality(T) \in Nat
    BY <2>1, FS_Subset, FS_CardinalityType
  <2> QED BY <1>2, <2>1, <2>2
<1> QED BY <1>1, <1>2, <1>3, <1>4

LEMMA ProfileTyped ==
    ASSUME NEW v \in [Clients -> Nat]
    PROVE  /\ Profile(v) \in Profiles
           /\ \A t \in Rungs : Profile(v)[t] \in Nat
<1> DEFINE Under(t) == {c \in Clients : v[c] <= t}
<1>1. \A t \in Rungs : Cardinality(Under(t)) \in 0 .. Cardinality(Clients)
  <2> TAKE t \in Rungs
  <2>1. Under(t) \in SUBSET Clients
    OBVIOUS
  <2> HIDE DEF Under
  <2> QED BY <2>1, ClientsCounted
<1>2. ASSUME NEW s \in Rungs, NEW t \in Rungs, s <= t
      PROVE  Cardinality(Under(s)) <= Cardinality(Under(t))
  <2>1. Under(t) \in SUBSET Clients /\ Under(s) \in SUBSET Under(t)
    BY <1>2 DEF Rungs
  <2> HIDE DEF Under
  <2> QED BY <2>1, ClientsCounted
<1>3. Profile(v) = [t \in Rungs |-> Cardinality(Under(t))]
  BY DEF Profile
<1> HIDE DEF Under
<1>4. Cardinality(Clients) \in Nat
  BY ClientsCounted
<1> QED BY <1>1, <1>2, <1>3, <1>4 DEF Profiles, Stairs, Rungs

\* Clients that go up leave fewer behind, up to the level k that none of them
\* has come down to.
LEMMA FewerBelow ==
    ASSUME NEW v \in [Clients -> Nat], NEW w \in [Clients -> Nat],
           NEW k \in 0 .. MaxAttempts,
           \A d \in Clients : w[d] < k => v[d] <= w[d]
    PROVE  /\ \A t \in Rungs : t < k => Profile(w)[t] <= Profile(v)[t]
           /\ \A c \in Clients : v[c] < k /\ k <= w[c] =>
                v[c] \in Rungs /\ Profile(w)[v[c]] < Profile(v)[v[c]]
<1> DEFINE Under(u, t) == {c \in Clients : u[c] <= t}
<1>0. \A t \in Rungs : /\ Profile(v)[t] = Cardinality(Under(v, t))
                       /\ Profile(w)[t] = Cardinality(Under(w, t))
  BY DEF Profile
<1>1. ASSUME NEW t \in Rungs, t < k
      PROVE  Under(w, t) \in SUBSET Under(v, t) /\ Under(v, t) \in SUBSET Clients
  BY <1>1 DEF Rungs
<1>2. ASSUME NEW c \in Clients, v[c] < k, k <= w[c]
      PROVE  v[c] \in Rungs /\ c \in Under(v, v[c]) /\ c \notin Under(w, v[c])
  BY <1>2, LockoutAssumption DEF Rungs
<1> HIDE DEF Under
<1>3. ASSUME NEW t \in Rungs, t < k PROVE Profile(w)[t] <= Profile(v)[t]
  BY <1>0, <1>1, <1>3, ClientsCounted
<1>4. ASSUME NEW c \in Clients, v[c] < k, k <= w[c]
      PROVE  v[c] \in Rungs /\ Profile(w)[v[c]] < Profile(v)[v[c]]
  <2>1. Under(w, v[c]) \in SUBSET (Under(v, v[c]) \ {c})
    BY <1>1, <1>2, <1>4
  <2> QED BY <1>0, <1>1, <1>2, <1>4, <2>1, ClientsCounted
<1> QED BY <1>3, <1>4

\* Smaller at one level, and nowhere greater below it.
LEMMA LowerAt ==
    ASSUME NEW v, NEW w, \A t \in Rungs : v[t] \in Nat /\ w[t] \in Nat,
           NEW j \in Rungs, v[j] < w[j], \A t \in Rungs : t < j => v[t] <= w[t]
    PROVE  Lower(v, w)
<1> DEFINE S == {t \in Rungs : v[t] < w[t]}
<1>1. S \subseteq Nat /\ S # {}
  BY DEF Rungs
<1>2. PICK m \in S : \A t \in S : m <= t
  <2> HIDE DEF S
  <2> QED BY <1>1, LeastNumber
<1>3. m <= j
  BY <1>2
<1>4. ASSUME NEW s \in Rungs, s < m PROVE v[s] = w[s]
  <2>1. s \notin S /\ s < j
    BY <1>2, <1>3, <1>4 DEF Rungs
  <2> QED BY <2>1
<1> QED BY <1>2, <1>4 DEF Lower

LEMMA LowerTransitive ==
    ASSUME NEW u, NEW v, NEW w,
           \A t \in Rungs : u[t] \in Nat /\ v[t] \in Nat /\ w[t] \in Nat,
           Lower(u, v), Lower(v, w)
    PROVE  Lower(u, w)
<1>1. PICK s \in Rungs : u[s] < v[s] /\ \A r \in Rungs : r < s => u[r] = v[r]
  BY DEF Lower
<1>2. PICK t \in Rungs : v[t] < w[t] /\ \A r \in Rungs : r < t => v[r] = w[r]
  BY DEF Lower
<1>3. s \in Nat /\ t \in Nat
  BY DEF Rungs
<1>4. CASE s <= t
  <2>1. u[s] < w[s] /\ \A r \in Rungs : r < s => u[r] = w[r]
    BY <1>1, <1>2, <1>3, <1>4 DEF Rungs
  <2> QED BY <2>1 DEF Lower
<1>5. CASE t < s
  <2>1. u[t] < w[t] /\ \A r \in Rungs : r < t => u[r] = w[r]
    BY <1>1, <1>2, <1>3, <1>5 DEF Rungs
  <2> QED BY <2>1 DEF Lower
<1> QED BY <1>3, <1>4, <1>5

\* The profiles below one are fewer the lower it is, and never all of them.
LEMMA LeftCounted ==
    ASSUME NEW v \in Profiles
    PROVE  /\ IsFiniteSet(Profiles) /\ Cardinality(Profiles) \in Nat
           /\ IsFiniteSet(Left(v)) /\ Cardinality(Left(v)) \in Nat
           /\ Cardinality(Left(v)) <= Cardinality(Profiles) - 1
           /\ \A w \in Profiles :
                Lower(w, v) => Cardinality(Left(w)) + 1 <= Cardinality(Left(v))
<1>1. IsFiniteSet(Profiles) /\ Cardinality(Profiles) \in Nat
  BY LockoutAssumption, ClientsCounted, ChooseCountsStairs, FS_CardinalityType DEF Profiles
<1>2. \A u \in Profiles : \A t \in Rungs : u[t] \in Nat
  BY DEF Profiles, Stairs, Rungs
<1>3. ASSUME NEW S, NEW x \in S, NEW T \in SUBSET (S \ {x}), IsFiniteSet(S)
      PROVE  /\ IsFiniteSet(T) /\ Cardinality(T) \in Nat /\ Cardinality(S) \in Nat
             /\ Cardinality(T) + 1 <= Cardinality(S)
  <2>1. IsFiniteSet(S \ {x}) /\ Cardinality(S \ {x}) = Cardinality(S) - 1
    BY <1>3, FS_RemoveElement
  <2>2. IsFiniteSet(T) /\ Cardinality(T) <= Cardinality(S \ {x})
    BY <2>1, FS_Subset
  <2> QED BY <1>3, <2>1, <2>2, FS_CardinalityType
<1>4. ASSUME NEW w \in Profiles PROVE ~Lower(w, w)
  BY <1>2 DEF Lower
<1>5. Left(v) \in SUBSET (Profiles \ {v})
  BY <1>4 DEF Left
<1>6. /\ IsFiniteSet(Left(v)) /\ Cardinality(Left(v)) \in Nat
      /\ Cardinality(Left(v)) + 1 <= Cardinality(Profiles)
  BY <1>1, <1>3, <1>5
<1>7. ASSUME NEW w \in Profiles, Lower(w, v)
      PROVE  Cardinality(Left(w)) + 1 <= Cardinality(Left(v))
  <2>1. w \in Left(v)
    BY <1>7 DEF Left
  <2>2. ASSUME NEW u \in Left(w) PROVE u \in Left(v) /\ u # w
    <3>1. u \in Profiles /\ Lower(u, w)
      BY DEF Left
    <3>2. Lower(u, v)
      BY <1>2, <1>7, <3>1, LowerTransitive
    <3> QED BY <1>4, <3>1, <3>2 DEF Left
  <2>3. Left(w) \in SUBSET (Left(v) \ {w})
    BY <2>2
  <2> QED BY <1>3, <1>6, <2>1, <2>3
<1> QED BY <1>1, <1>6, <1>7

\* If levels only go up, no more profiles are left.
LEMMA LevelsGoUp ==
    ASSUME NEW v \in [Clients -> Nat], NEW w \in [Clients -> Nat],
           \A d \in Clients : w[d] < MaxAttempts => v[d] <= w[d]
    PROVE  Cardinality(Left(Profile(w))) <= Cardinality(Left(Profile(v)))
<1>1. /\ Profile(v) \in Profiles /\ Profile(w) \in Profiles
      /\ \A t \in Rungs : Profile(v)[t] \in Nat /\ Profile(w)[t] \in Nat
  BY ProfileTyped
<1>2. /\ Cardinality(Left(Profile(v))) \in Nat
      /\ Cardinality(Left(Profile(w))) \in Nat
      /\ Lower(Profile(w), Profile(v)) =>
           Cardinality(Left(Profile(w))) + 1 <= Cardinality(Left(Profile(v)))
  BY <1>1, LeftCounted
<1>3. \A t \in Rungs : Profile(w)[t] <= Profile(v)[t]
  <2>1. MaxAttempts \in 0 .. MaxAttempts /\ \A t \in Rungs : t < MaxAttempts
    BY LockoutAssumption DEF Rungs
  <2> QED BY <2>1, FewerBelow
<1>4. CASE \A t \in Rungs : Profile(w)[t] = Profile(v)[t]
  <2>1. Profile(w) = Profile(v)
    BY <1>4 DEF Profile
  <2> QED BY <1>2, <2>1
<1>5. ASSUME NEW j \in Rungs, Profile(w)[j] # Profile(v)[j]
      PROVE  Lower(Profile(w), Profile(v))
  <2>1. Profile(w)[j] < Profile(v)[j]
    BY <1>1, <1>3, <1>5
  <2> HIDE DEF Profile
  <2> QED BY <1>1, <1>3, <2>1, LowerAt
<1> QED BY <1>2, <1>4, <1>5

\* A client that goes up past the lowest level to which others come down.
LEMMA OneGoesUp ==
    ASSUME NEW v \in [Clients -> Nat], NEW w \in [Clients -> Nat],
           NEW k \in 0 .. MaxAttempts,
           \A d \in Clients : w[d] < k => v[d] <= w[d],
           NEW c \in Clients, v[c] < k, k <= w[c]
    PROVE  Cardinality(Left(Profile(w))) + 1 <= Cardinality(Left(Profile(v)))
<1>1. /\ Profile(v) \in Profiles /\ Profile(w) \in Profiles
      /\ \A t \in Rungs : Profile(v)[t] \in Nat /\ Profile(w)[t] \in Nat
  BY ProfileTyped
<1>2. v[c] \in Rungs /\ Profile(w)[v[c]] < Profile(v)[v[c]]
  BY FewerBelow
<1>3. \A t \in Rungs : t < k => Profile(w)[t] <= Profile(v)[t]
  BY FewerBelow
<1>4. \A t \in Rungs : t < v[c] => Profile(w)[t] <= Profile(v)[t]
  BY <1>3 DEF Rungs
<1>5. Lower(Profile(w), Profile(v))
  BY <1>1, <1>2, <1>4, LowerAt
<1> QED BY <1>1, <1>5, LeftCounted

\* Heights, ceilings and levels are numbers up to the limit.
LEMMA LevelTyped ==
    ASSUME NEW record \in LockRecord, Sound(record),
           NEW attempts \in [Clients -> Attempt],
           \A c \in Clients : Sound(attempts[c].read)
    PROVE  /\ LevelsOf(record, attempts) \in [Clients -> Nat]
           /\ MaxAttempts \in Nat \ {0} /\ Height(record) \in 0 .. MaxAttempts
           /\ \A c \in Clients :
                /\ Ceiling(attempts[c]) \in 0 .. MaxAttempts
                /\ LevelsOf(record, attempts)[c]
                     = Lesser(Height(record), Ceiling(attempts[c]))
                /\ LevelsOf(record, attempts)[c] \in 0 .. MaxAttempts
<1>0. MaxAttempts \in Nat \ {0}
  BY LockoutAssumption
<1>1. ASSUME NEW r \in LockRecord, Sound(r) PROVE Height(r) \in 0 .. MaxAttempts
  <2>1. r.count \in Nat /\ r.locked \in BOOLEAN
    BY RecordTyped
  <2> QED BY <1>0, <1>1, <2>1 DEF Height, Sound
<1>2. Height(record) \in 0 .. MaxAttempts
  BY <1>1
<1>3. ASSUME NEW c \in Clients PROVE Ceiling(attempts[c]) \in 0 .. MaxAttempts
  <2>1. attempts[c].read \in LockRecord
    BY DEF Attempt
  <2>2. Height(attempts[c].read) \in 0 .. MaxAttempts
    BY <1>1, <2>1
  <2>3. Limit(attempts[c]) \in 0 .. MaxAttempts
    BY <1>0 DEF Limit
  <2> QED BY <1>0, <2>2, <2>3 DEF Ceiling, Lesser
<1> DEFINE levels == LevelsOf(record, attempts)
<1>4. ASSUME NEW c \in Clients
      PROVE  /\ levels[c] = Lesser(Height(record), Ceiling(attempts[c]))
             /\ levels[c] \in 0 .. MaxAttempts
  <2>1. levels[c] = Lesser(Height(record), Ceiling(attempts[c]))
    BY DEF LevelsOf
  <2> QED BY <1>2, <1>3, <2>1 DEF Lesser
<1>5. levels = [c \in Clients |-> levels[c]]
  BY DEF LevelsOf
<1>6. levels \in [Clients -> Nat]
  <2>1. \A c \in Clients : levels[c] \in Nat
    BY <1>0, <1>4
  <2> HIDE DEF levels
  <2> QED BY <1>5, <2>1
<1> QED BY <1>0, <1>2, <1>3, <1>4, <1>6

\* The invariant in a step: the levels before and after it.
LEMMA LevelsInStep ==
    ASSUME RedisInv, LockTypeOK', Sound(kept'["redis"]),
           \A c \in Clients : Sound(attempt'[c].read)
    PROVE  /\ Levels \in [Clients -> Nat] /\ Levels' \in [Clients -> Nat]
           /\ \A c \in Clients :
                /\ Levels[c] = Lesser(Height(kept["redis"]), Ceiling(attempt[c]))
                /\ Levels'[c] = Lesser(Height(kept'["redis"]), Ceiling(attempt'[c]))
           /\ Cardinality(Profiles) \in Nat /\ failures["redis"] \in Nat
           /\ Cardinality(Left(Profile(Levels))) \in Nat
           /\ Cardinality(Left(Profile(Levels'))) \in Nat
           /\ failures["redis"] + Cardinality(Left(Profile(Levels)))
                <= Cardinality(Profiles) - 1
           /\ Cardinality(Left(Profile(Levels'))) <= Cardinality(Profiles) - 1
           /\ failures'["redis"] + Cardinality(Left(Profile(Levels')))
                <= Cardinality(Profiles) - 1 => RedisInv'
<1>1. /\ LockTypeOK /\ Sound(kept["redis"]) /\ \A c \in Clients : Sound(attempt[c].read)
      /\ failures["redis"] + Cardinality(Left(Profile(Levels))) <= Cardinality(Profiles) - 1
  BY DEF RedisInv
<1>2. /\ kept["redis"] \in LockRecord /\ attempt \in [Clients -> Attempt]
      /\ failures["redis"] \in Nat
  BY <1>1, LockParts DEF LockTypeOK
<1>3. kept'["redis"] \in LockRecord /\ attempt' \in [Clients -> Attempt]
  BY DEF LockTypeOK, Stores
<1>4. /\ Levels \in [Clients -> Nat]
      /\ \A c \in Clients :
           Levels[c] = Lesser(Height(kept["redis"]), Ceiling(attempt[c]))
  BY <1>1, <1>2, LevelTyped DEF Levels
<1>5. /\ Levels' \in [Clients -> Nat]
      /\ \A c \in Clients :
           Levels'[c] = Lesser(Height(kept'["redis"]), Ceiling(attempt'[c]))
  <2>1. Levels' = LevelsOf(kept'["redis"], attempt')
    BY DEF Levels, LevelsOf, Height, Ceiling, Lesser, Limit
  <2> QED BY <1>3, <2>1, LevelTyped
<1>6. Profile(Levels) \in Profiles /\ Profile(Levels') \in Profiles
  BY <1>4, <1>5, ProfileTyped
<1>7. /\ Cardinality(Left(Profile(Levels))) \in Nat /\ Cardinality(Profiles) \in Nat
      /\ Cardinality(Left(Profile(Levels'))) \in Nat
      /\ Cardinality(Left(Profile(Levels'))) <= Cardinality(Profiles) - 1
  BY <1>6, LeftCounted
<1>8. failures'["redis"] + Cardinality(Left(Profile(Levels'))) <= Cardinality(Profiles) - 1
        => RedisInv'
  <2>1. Left(Profile(Levels')) = Left(Profile(Levels))' /\ Profiles' = Profiles
    BY DEF Left, Profile, Profiles, Stairs, Lower, Rungs
  <2> QED BY <2>1 DEF RedisInv, Sound
<1> QED BY <1>1, <1>2, <1>4, <1>5, <1>7, <1>8

\* A step that leaves the record and the failures of Redis alone, and after
\* which no attempt puts back a lower count than before.
LEMMA RedisLeftAlone ==
    ASSUME RedisInv, LockTypeOK', kept'["redis"] = kept["redis"],
           failures'["redis"] = failures["redis"],
           NEW c \in Clients,
           \A d \in Clients \ {c} : attempt'[d] = attempt[d],
           Sound(attempt'[c].read),
           Lesser(Height(kept["redis"]), Ceiling(attempt[c]))
             <= Lesser(Height(kept["redis"]), Ceiling(attempt'[c]))
    PROVE  RedisInv'
<1>1. Sound(kept["redis"]) /\ \A d \in Clients : Sound(attempt[d].read)
  BY DEF RedisInv
<1>2. Sound(kept'["redis"]) /\ \A d \in Clients : Sound(attempt'[d].read)
  BY <1>1
<1>3. Levels \in [Clients -> Nat] /\ Levels' \in [Clients -> Nat]
  BY <1>2, LevelsInStep
<1>4. \A d \in Clients : Levels[d] <= Levels'[d]
  <2>1. \A d \in Clients :
          /\ Levels[d] = Lesser(Height(kept["redis"]), Ceiling(attempt[d]))
          /\ Levels'[d] = Lesser(Height(kept["redis"]), Ceiling(attempt'[d]))
    BY <1>2, LevelsInStep
  <2>2. \A d \in Clients \ {c} : Levels[d] = Levels'[d]
    BY <2>1
  <2>3. Levels[c] <= Levels'[c]
    BY <2>1
  <2>4. \A d \in Clients : Levels[d] <= Levels[d]
    BY <1>3
  <2> QED BY <2>2, <2>3, <2>4
<1>5. Cardinality(Left(Profile(Levels'))) <= Cardinality(Left(Profile(Levels)))
  BY <1>3, <1>4, LevelsGoUp
<1>6. failures'["redis"] + Cardinality(Left(Profile(Levels'))) <= Cardinality(Profiles) - 1
  <2> DEFINE left == Cardinality(Left(Profile(Levels)))
             after == Cardinality(Left(Profile(Levels')))
             all == Cardinality(Profiles)
             f == failures["redis"]
  <2>1. /\ left \in Nat /\ after \in Nat /\ all \in Nat /\ f \in Nat
        /\ f + left <= all - 1
    BY <1>2, LevelsInStep
  <2>2. after <= left
    BY <1>5
  <2>3. failures'["redis"] = f
    OBVIOUS
  <2> HIDE DEF left, after, all, f
  <2>4. f + after <= all - 1
    BY <2>1, <2>2
  <2> QED BY <2>3, <2>4 DEF after, all
<1> QED BY <1>2, <1>6, LevelsInStep

\* A step that starts the record again.
LEMMA RedisStartsAgain ==
    ASSUME RedisInv, LockTypeOK', Sound(kept'["redis"]),
           \A c \in Clients : Sound(attempt'[c].read),
           failures'["redis"] = 0
    PROVE  RedisInv'
<1>1. 0 + Cardinality(Left(Profile(Levels'))) <= Cardinality(Profiles) - 1
  BY LevelsInStep
<1> QED BY <1>1, LevelsInStep

\* Records and attempts that begin again.
LEMMA AnewSound ==
    /\ Sound(NoRecord) /\ Sound(NoAttempt.read) /\ Ceiling(NoAttempt) = MaxAttempts
    /\ \A r \in LockRecord : Sound(Failed(r))
    /\ \A r \in LockRecord : Sound(r) =>
         Height(Failed(r)) = Lesser(Height(r) + 1, MaxAttempts)
<1>1. Sound(NoRecord) /\ Sound(NoAttempt.read) /\ Ceiling(NoAttempt) = MaxAttempts
  BY LockoutAssumption DEF Sound, NoRecord, NoAttempt, Ceiling
<1>2. ASSUME NEW r \in LockRecord
      PROVE  /\ Sound(Failed(r))
             /\ Sound(r) => Height(Failed(r)) = Lesser(Height(r) + 1, MaxAttempts)
  <2>1. r.count \in Nat /\ r.locked \in BOOLEAN /\ MaxAttempts \in Nat \ {0}
    BY RecordTyped, LockoutAssumption
  <2>2. /\ ~Failed(r).locked => ~r.locked /\ Failed(r).count = r.count + 1
                                   /\ r.count + 1 < MaxAttempts
        /\ Failed(r).locked \in BOOLEAN
    BY RecordTyped
  <2>3. Failed(r).locked <=> r.locked \/ r.count + 1 >= MaxAttempts
    BY <2>1 DEF Failed, Locks
  <2>4. Sound(Failed(r))
    BY <2>1, <2>2 DEF Sound
  <2>5. ASSUME Sound(r) PROVE Height(Failed(r)) = Lesser(Height(r) + 1, MaxAttempts)
    <3>1. CASE Failed(r).locked
      <4>1. Height(Failed(r)) = MaxAttempts
        BY <3>1 DEF Height
      <4>2. CASE r.locked
        BY <2>1, <4>1, <4>2 DEF Height, Lesser
      <4>3. CASE ~r.locked
        BY <2>1, <2>3, <2>5, <3>1, <4>1, <4>3 DEF Height, Lesser, Sound
      <4> QED BY <4>2, <4>3
    <3>2. CASE ~Failed(r).locked
      BY <2>1, <2>2, <3>2 DEF Height, Lesser
    <3> QED BY <3>1, <3>2
  <2> QED BY <2>4, <2>5
<1> QED BY <1>1, <1>2

\* A wrong guess that Redis counts: its client, which read below the limit, is
\* above the level of what it read, and no one comes down below its count.
LEMMA StoreStep ==
    ASSUME RedisInv, LockTypeOK', NEW c \in Clients, StoreRecord(c)
    PROVE  RedisInv'
<1> DEFINE t == attempt[c]
           K == Height(kept["redis"])
           L == Height(Failed(t.read))
<1>1. /\ LockTypeOK /\ Sound(kept["redis"]) /\ \A d \in Clients : Sound(attempt[d].read)
  BY DEF RedisInv
<1>2. /\ kept \in [Stores -> LockRecord] /\ attempt \in [Clients -> Attempt]
      /\ failures \in [Stores -> Nat] /\ "redis" \in Stores
      /\ t \in Attempt /\ t.read \in LockRecord /\ Sound(t.read)
  BY <1>1, LockParts DEF LockTypeOK, Attempt
<1>3. /\ kept'["redis"] = Failed(t.read) /\ attempt'[c] = NoAttempt
      /\ \A d \in Clients \ {c} : attempt'[d] = attempt[d]
  BY <1>2 DEF StoreRecord, Over
<1>4. Sound(kept'["redis"]) /\ \A d \in Clients : Sound(attempt'[d].read)
  BY <1>1, <1>2, <1>3, AnewSound
<1>5. /\ K \in 0 .. MaxAttempts /\ Height(t.read) \in 0 .. MaxAttempts
      /\ MaxAttempts \in Nat \ {0}
      /\ \A d \in Clients : Ceiling(attempt[d]) \in 0 .. MaxAttempts
  BY <1>1, <1>2, LevelTyped
<1>6. L = Lesser(Height(t.read) + 1, MaxAttempts)
  BY <1>2, AnewSound
<1>7. L \in 0 .. MaxAttempts
  BY <1>5, <1>6 DEF Lesser
<1>8. /\ Levels \in [Clients -> Nat] /\ Levels' \in [Clients -> Nat]
      /\ \A d \in Clients : Levels[d] = Lesser(K, Ceiling(attempt[d]))
      /\ \A d \in Clients \ {c} : Levels'[d] = Lesser(L, Ceiling(attempt[d]))
      /\ Levels'[c] = Lesser(L, MaxAttempts)
  BY <1>3, <1>4, LevelsInStep, AnewSound
<1>9. Ceiling(t) = Lesser(Height(t.read), Limit(t))
  BY DEF StoreRecord, Ceiling
<1> HIDE DEF K, L
<1>10. Levels'[c] = L
  BY <1>5, <1>7, <1>8 DEF Lesser
<1>11. ASSUME NEW d \in Clients, Levels'[d] < L PROVE Levels[d] <= Levels'[d]
  <2>1. d # c
    BY <1>7, <1>10, <1>11
  <2> QED BY <1>5, <1>7, <1>8, <1>11, <2>1 DEF Lesser
<1>12. CASE Levels[c] < L
  <2>1. Cardinality(Left(Profile(Levels'))) + 1 <= Cardinality(Left(Profile(Levels)))
    BY <1>7, <1>8, <1>10, <1>11, <1>12, OneGoesUp
  <2>2. failures'["redis"] = failures["redis"] \/ failures'["redis"] = failures["redis"] + 1
    BY <1>2 DEF StoreRecord, Counted
  <2> QED BY <1>4, <2>1, <2>2, LevelsInStep
<1>13. CASE ~(Levels[c] < L)
  <2>1. L = MaxAttempts /\ t.checked # "redis"
    BY <1>5, <1>6, <1>7, <1>8, <1>9, <1>13 DEF Lesser, Limit
  <2>2. failures'["redis"] = failures["redis"]
    BY <1>2, <2>1 DEF StoreRecord, Counted
  <2>3. Cardinality(Left(Profile(Levels'))) <= Cardinality(Left(Profile(Levels)))
    BY <1>8, <1>11, <2>1, LevelsGoUp
  <2> QED BY <1>4, <2>2, <2>3, LevelsInStep
<1> QED BY <1>12, <1>13

LEMMA RedisStep == RedisInv /\ [LockNext]_lockVars => RedisInv'
<1> SUFFICES ASSUME RedisInv, [LockNext]_lockVars PROVE RedisInv'
  OBVIOUS
<1> DEFINE K == Height(kept["redis"])
           Up(c) == Lesser(K, Ceiling(attempt[c])) <= Lesser(K, Ceiling(attempt'[c]))
<1>1. LockTypeOK /\ LockTypeOK'
  BY LockTypeStep DEF RedisInv
<1>2. /\ kept \in [Stores -> LockRecord] /\ attempt \in [Clients -> Attempt]
      /\ failures \in [Stores -> Nat] /\ "redis" \in Stores /\ "memory" \in Stores
      /\ Sound(kept["redis"]) /\ \A d \in Clients : Sound(attempt[d].read)
      /\ kept["redis"] \in LockRecord /\ \A d \in Clients : attempt[d] \in Attempt
  BY <1>1, LockParts DEF LockTypeOK, RedisInv
<1>3. /\ K \in 0 .. MaxAttempts /\ MaxAttempts \in Nat \ {0}
      /\ \A d \in Clients : Ceiling(attempt[d]) \in 0 .. MaxAttempts
  BY <1>2, LevelTyped
<1>4. ASSUME NEW c \in Clients, Over(c)
      PROVE  /\ \A d \in Clients \ {c} : attempt'[d] = attempt[d]
             /\ \A d \in Clients : Sound(attempt'[d].read)
             /\ Up(c)
  <2>1. attempt'[c] = NoAttempt /\ \A d \in Clients \ {c} : attempt'[d] = attempt[d]
    BY <1>2, <1>4 DEF Over
  <2>2. \A d \in Clients : Sound(attempt'[d].read)
    BY <1>2, <2>1, AnewSound
  <2>3. Ceiling(attempt'[c]) = MaxAttempts
    BY <2>1, AnewSound
  <2>4. Up(c)
    BY <1>3, <2>3 DEF Lesser
  <2> QED BY <2>1, <2>2, <2>4
<1>5. ASSUME NEW c \in Clients, CheckLockout(c) PROVE RedisInv'
  <2> DEFINE t == [NoAttempt EXCEPT !.pc = "verify", !.checked = Reached]
  <2>1. /\ attempt'[c] = t /\ \A d \in Clients \ {c} : attempt'[d] = attempt[d]
        /\ kept' = kept /\ failures' = failures
    BY <1>2, <1>5 DEF CheckLockout
  <2>2. t.pc = "verify" /\ t.checked = Reached /\ t.read = NoRecord
    BY DEF NoAttempt
  <2> HIDE DEF t
  <2>3. Sound(attempt'[c].read)
    BY <2>1, <2>2, AnewSound
  <2>4. Ceiling(attempt[c]) = MaxAttempts
    BY <1>5 DEF CheckLockout, Ceiling
  <2>5. Ceiling(attempt'[c]) = Limit(t)
    BY <2>1, <2>2 DEF Ceiling
  <2>6. CASE redisUp
    <3>1. ~kept["redis"].locked /\ t.checked = "redis"
      BY <1>5, <2>2, <2>6 DEF CheckLockout, Reached
    <3>2. K < MaxAttempts /\ Limit(t) = MaxAttempts - 1
      BY <1>2, <3>1 DEF Height, Sound, Limit
    <3>3. Up(c)
      BY <1>3, <2>4, <2>5, <3>2 DEF Lesser
    <3> QED BY <1>1, <2>1, <2>3, <3>3, RedisLeftAlone
  <2>7. CASE ~redisUp
    <3>1. Limit(t) = MaxAttempts
      BY <2>2, <2>7 DEF Reached, Limit
    <3>2. Up(c)
      BY <1>3, <2>4, <2>5, <3>1 DEF Lesser
    <3> QED BY <1>1, <2>1, <2>3, <3>2, RedisLeftAlone
  <2> QED BY <2>6, <2>7
<1>6. ASSUME NEW c \in Clients, Succeeds(c) PROVE RedisInv'
  <2>1. Over(c)
    BY <1>6 DEF Succeeds
  <2>2. CASE redisUp
    <3>1. kept'["redis"] = NoRecord /\ failures'["redis"] = 0
      BY <1>2, <1>6, <2>2 DEF Succeeds, Drop, Reached
    <3> QED BY <1>1, <1>4, <2>1, <3>1, AnewSound, RedisStartsAgain
  <2>3. CASE ~redisUp
    <3>1. kept'["redis"] = kept["redis"] /\ failures'["redis"] = failures["redis"]
      BY <1>2, <1>6, <2>3 DEF Succeeds, Drop, Reached
    <3> QED BY <1>1, <1>4, <2>1, <3>1, RedisLeftAlone
  <2> QED BY <2>2, <2>3
<1>7. ASSUME NEW c \in Clients, ReadRecord(c) PROVE RedisInv'
  <2> DEFINE t == [attempt[c] EXCEPT !.pc = "store", !.read = kept["redis"]]
  <2>1. attempt' = [attempt EXCEPT ![c] = t]
    BY <1>2, <1>7 DEF ReadRecord
  <2>2. t.pc = "store" /\ t.checked = attempt[c].checked /\ t.read = kept["redis"]
    <3>1. attempt[c] \in Attempt
      BY <1>2
    <3> QED BY <3>1 DEF Attempt
  <2> HIDE DEF t
  <2>3. /\ attempt'[c] = t /\ \A d \in Clients \ {c} : attempt'[d] = attempt[d]
        /\ kept' = kept /\ failures' = failures
    BY <1>2, <1>7, <2>1 DEF ReadRecord
  <2>4. /\ Ceiling(attempt[c]) = Limit(attempt[c])
        /\ Ceiling(attempt'[c]) = Lesser(K, Limit(attempt[c]))
    BY <1>7, <2>2, <2>3 DEF ReadRecord, Ceiling, Limit
  <2>5. Limit(attempt[c]) \in 0 .. MaxAttempts
    BY <1>3 DEF Limit
  <2>6. Up(c)
    BY <1>3, <2>4, <2>5 DEF Lesser
  <2>7. Sound(attempt'[c].read)
    BY <1>2, <2>2, <2>3
  <2> QED BY <1>1, <2>3, <2>6, <2>7, RedisLeftAlone
<1>8. ASSUME NEW c \in Clients, StoreRecord(c) PROVE RedisInv'
  BY <1>1, <1>8, StoreStep
<1>9. ASSUME NEW c \in Clients, RecordInMemory(c) PROVE RedisInv'
  <2>1. Over(c)
    BY <1>9 DEF RecordInMemory
  <2>2. kept'["redis"] = kept["redis"] /\ failures'["redis"] = failures["redis"]
    BY <1>2, <1>9 DEF RecordInMemory, Counted
  <2> QED BY <1>1, <1>4, <2>1, <2>2, RedisLeftAlone
<1>10. ASSUME RedisExpires PROVE RedisInv'
  <2>1. kept'["redis"] = NoRecord /\ failures'["redis"] = 0 /\ attempt' = attempt
    BY <1>2, <1>10 DEF RedisExpires, Drop
  <2> QED BY <1>1, <1>2, <2>1, AnewSound, RedisStartsAgain
<1>11. ASSUME RedisFlips \/ MemoryLockEnds \/ MemorySweep \/ UNCHANGED lockVars
       PROVE  RedisInv'
  <2>1. /\ kept'["redis"] = kept["redis"] /\ failures'["redis"] = failures["redis"]
        /\ attempt' = attempt
    BY <1>2, <1>11 DEF RedisFlips, MemoryLockEnds, MemorySweep, Drop, lockVars
  <2>2. Levels' = Levels
    BY <2>1 DEF Levels, LevelsOf, Height, Ceiling, Lesser, Limit
  <2>3. Sound(kept'["redis"]) /\ \A d \in Clients : Sound(attempt'[d].read)
    BY <1>2, <2>1
  <2> QED BY <1>1, <2>1, <2>2, <2>3, LevelsInStep
<1> QED BY <1>5, <1>6, <1>7, <1>8, <1>9, <1>10, <1>11 DEF LockNext

\* Redis lets in fewer wrong guesses than C(MaxAttempts + n, n) in the time of
\* a lock.
THEOREM RedisLocks == LockSpec => []RedisGuessesBounded
<1>1. LockInit => RedisInv
  <2> SUFFICES ASSUME LockInit PROVE RedisInv
    OBVIOUS
  <2>1. LockTypeOK
    BY DEF LockInit, LockTypeOK, LockRecord, NoRecord, Attempt, NoAttempt, Stores
  <2>2. /\ kept["redis"] = NoRecord /\ \A c \in Clients : attempt[c] = NoAttempt
        /\ failures["redis"] = 0
    BY DEF LockInit, Stores
  <2>3. Sound(kept["redis"]) /\ \A c \in Clients : Sound(attempt[c].read)
    BY <2>2, AnewSound
  <2>4. Profile(Levels) \in Profiles
    BY <2>1, <2>3, LevelTyped, ProfileTyped, LockParts DEF Levels, LockTypeOK
  <2>5. 0 + Cardinality(Left(Profile(Levels))) <= Cardinality(Profiles) - 1
    BY <2>4, LeftCounted
  <2> QED BY <2>1, <2>2, <2>3, <2>5 DEF RedisInv
<1>2. RedisInv => RedisGuessesBounded
  <2> SUFFICES ASSUME RedisInv PROVE RedisGuessesBounded
    OBVIOUS
  <2>1. Profile(Levels) \in Profiles
    BY LevelTyped, ProfileTyped, LockParts DEF Levels, LockTypeOK, RedisInv
  <2>2. failures["redis"] + Cardinality(Left(Profile(Levels))) <= Cardinality(Profiles) - 1
    BY DEF RedisInv
  <2>3. failures["redis"] < Cardinality(Profiles)
    BY <2>1, <2>2, LeftCounted, LockParts DEF RedisInv
  <2>4. choose(MaxAttempts + Cardinality(Clients), Cardinality(Clients)) = Cardinality(Profiles)
    BY LockoutAssumption, ClientsCounted, ChooseCountsStairs DEF Profiles
  <2> QED BY <2>3, <2>4 DEF RedisGuessesBounded
<1> QED BY <1>1, <1>2, RedisStep, PTL DEF LockSpec

-----------------------------------------------------------------------------
(* The theorem *)

\* However requests overlap and Redis comes and goes, neither store lets in
\* more wrong guesses than its bound, for any number of clients and any limit.
THEOREM GuessesStayBounded == LockSpec => []GuessesBounded
<1>1. MemoryGuessesBounded /\ RedisGuessesBounded => GuessesBounded
  BY DEF GuessesBounded
<1> QED BY <1>1, MemoryLocks, RedisLocks, PTL
=============================================================================
