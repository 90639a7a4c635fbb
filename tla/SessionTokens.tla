--------------------------- MODULE SessionTokens ---------------------------
(***************************************************************************)
(* The sessions and the password of one user: auth.service.ts, the session *)
(* check of middleware/auth.ts and the routes of routes/auth.ts.           *)
(*                                                                         *)
(* A session row holds the hashes of one access and one refresh token, so  *)
(* a row stands for both tokens.  A request's statements are steps of      *)
(* their own, except those of the refresh transaction; its hashing and its *)
(* mails have no other effect than the time they take.  A password is the  *)
(* number of times it has been changed.  No code switches User.isActive    *)
(* off, so its checks are left out; wrong passwords are in Lockout.        *)
(***************************************************************************)
EXTENDS Naturals, Sequences, FiniteSets

CONSTANTS
    AuthSlots,      \* requests that may be in progress at once
    MaxAuthWrites   \* bound on rows created and passwords set, together
ASSUME AuthAssumption == MaxAuthWrites \in Nat

VARIABLES
    sessions,      \* the UserSession rows, in the order they were created
    resetTokens,   \* the PasswordResetToken rows, likewise
    password, mustChange,   \* fields of the User row
    auth,          \* the request of each slot
    wiped,         \* history: newest password whose reset ended the sessions
    lines,         \* history: logins so far; a refresh stays in its line
    ended, raced   \* history: lines that were logged out, that had two
                   \* requests at once
sessionVars == <<sessions, resetTokens, password, mustChange, auth, wiped,
                 lines, ended, raced>>

-----------------------------------------------------------------------------
\* late: created by a login that had checked a password since wiped.
\* Of a deleted row nothing is left to read.
SessionRow == [state: {"valid", "expired", "rotated", "deleted"},
               line: Nat, by: Nat, late: BOOLEAN]
DeletedRow == [state |-> "deleted", line |-> 0, by |-> 0, late |-> FALSE]
\* uses: how often the token has set the password.  shared: a second
\* request has read it meanwhile.  cut: a request stopped after using it.
ResetRow == [state: {"open", "expired", "used", "deleted"}, uses: Nat,
             shared: BOOLEAN, cut: BOOLEAN]
AuthRequest ==
    [pc: {"idle", "login", "rotate", "reuse", "logout", "change", "initial",
          "forgot", "reset", "mark", "wipe"},
     row: Nat, password: Nat]
NoAuth == [pc |-> "idle", row |-> 0, password |-> 0]

Rows == DOMAIN sessions
Live(i) == sessions[i].state = "valid"
LiveIn(l) == {i \in Rows : Live(i) /\ sessions[i].line = l}

Free(s) == auth[s].pc = "idle"
Pending(pcs, i) == {s \in AuthSlots : auth[s].pc \in pcs /\ auth[s].row = i}
BusyLine(l) == \E i \in Rows : /\ sessions[i].line = l
                               /\ Pending({"rotate", "logout"}, i) # {}
Await(s, pc, row, pw) ==
    auth' = [auth EXCEPT ![s] = [pc |-> pc, row |-> row, password |-> pw]]
Done(s) == auth' = [auth EXCEPT ![s] = NoAuth]

MayWrite == Len(sessions) + Len(resetTokens) + password < MaxAuthWrites

NewSession(l, by, late) == [state |-> "valid", line |-> l, by |-> by,
                            late |-> late]
OpenToken == [state |-> "open", uses |-> 0, shared |-> FALSE, cut |-> FALSE]
AllDeleted == [i \in Rows |-> DeletedRow]

\* A new user who has logged in and has been mailed a token.
SessionInit ==
    /\ sessions = <<NewSession(1, 0, FALSE)>> /\ resetTokens = <<OpenToken>>
    /\ password = 0 /\ mustChange = TRUE
    /\ auth = [s \in AuthSlots |-> NoAuth]
    /\ wiped = 0 /\ lines = 1 /\ ended = {} /\ raced = {}

-----------------------------------------------------------------------------
(* Sessions *)

\* The password is checked, then the membership is read and the row created.
LoginRead(s) ==
    /\ Free(s)
    /\ Await(s, "login", 0, password)
    /\ UNCHANGED <<sessions, resetTokens, password, mustChange, wiped, lines,
                   ended, raced>>
LoginCreate(s) ==
    /\ auth[s].pc = "login"
    /\ MayWrite
    /\ lines' = lines + 1
    /\ sessions' = Append(sessions, NewSession(lines', auth[s].password,
                                               auth[s].password < wiped))
    /\ Done(s)
    /\ UNCHANGED <<resetTokens, password, mustChange, wiped, ended, raced>>

\* A row that was rotated already is the sign of a copied token.
RefreshRead(s, i) ==
    /\ Free(s)
    /\ sessions[i].state # "deleted"
    /\ \/ sessions[i].state = "rotated" /\ Await(s, "reuse", 0, 0)
       \/ Live(i) /\ Await(s, "rotate", i, 0)
    /\ raced' = raced \cup {l \in {sessions[i].line} : BusyLine(l)}
    /\ UNCHANGED <<sessions, resetTokens, password, mustChange, wiped, lines,
                   ended>>

\* One transaction; its update finds the row by id, or fails.  The mutants
\* go on without the row, and leave the old row valid.
RowLeft_Ignored(i) == i \in Rows
RowLeft(i) == sessions[i].state # "deleted"
Rotated_Kept(row) == row
Rotated(row) == [row EXCEPT !.state = "rotated"]
RefreshRotate(s) ==
    LET i == auth[s].row IN
    /\ auth[s].pc = "rotate"
    /\ MayWrite
    /\ sessions' =
         IF RowLeft(i)
         THEN Append([sessions EXCEPT ![i] = Rotated(@)],
                     [sessions[i] EXCEPT !.state = "valid"])
         ELSE sessions
    /\ Done(s)
    /\ UNCHANGED <<resetTokens, password, mustChange, wiped, lines, ended,
                   raced>>
RefreshWipe(s) ==
    /\ auth[s].pc = "reuse"
    /\ sessions' = AllDeleted
    /\ Done(s)
    /\ UNCHANGED <<resetTokens, password, mustChange, wiped, lines, ended,
                   raced>>

\* authenticate finds the valid row of the token, logout deletes the row.
LogoutRead(s, i) ==
    /\ Free(s) /\ Live(i)
    /\ Await(s, "logout", i, 0)
    /\ raced' = raced \cup {l \in {sessions[i].line} : BusyLine(l)}
    /\ UNCHANGED <<sessions, resetTokens, password, mustChange, wiped, lines,
                   ended>>
LogoutDelete(s) ==
    LET i == auth[s].row IN
    /\ auth[s].pc = "logout"
    /\ sessions' = [sessions EXCEPT ![i] = DeletedRow]
    /\ ended' = ended \cup ({sessions[i].line} \ {0})
    /\ Done(s)
    /\ UNCHANGED <<resetTokens, password, mustChange, wiped, lines, raced>>

\* The hourly job of server.ts.
CleanExpired ==
    /\ sessions' = [i \in Rows |-> IF Live(i) THEN sessions[i] ELSE DeletedRow]
    /\ UNCHANGED <<resetTokens, password, mustChange, auth, wiped, lines,
                   ended, raced>>
Expire(i) ==
    /\ Live(i)
    /\ sessions' = [sessions EXCEPT ![i].state = "expired"]
    /\ UNCHANGED <<resetTokens, password, mustChange, auth, wiped, lines,
                   ended, raced>>

-----------------------------------------------------------------------------
(* Passwords *)

\* With the current password, or without it while one must be chosen.
ChangeRead(s, i) ==
    /\ Free(s) /\ Live(i)
    /\ \/ Await(s, "change", 0, 0)
       \/ mustChange /\ Await(s, "initial", 0, 0)
    /\ UNCHANGED <<sessions, resetTokens, password, mustChange, wiped, lines,
                   ended, raced>>
\* The sessions go on.
ChangeWrite(s) ==
    /\ auth[s].pc \in {"change", "initial"}
    /\ MayWrite
    /\ password' = password + 1
    /\ mustChange' = (mustChange /\ auth[s].pc = "change")
    /\ Done(s)
    /\ UNCHANGED <<sessions, resetTokens, wiped, lines, ended, raced>>

ForgotDelete(s) ==
    /\ Free(s)
    /\ resetTokens' = [t \in DOMAIN resetTokens |->
                         [resetTokens[t] EXCEPT !.state = "deleted"]]
    /\ Await(s, "forgot", 0, 0)
    /\ UNCHANGED <<sessions, password, mustChange, wiped, lines, ended, raced>>
ForgotCreate(s) ==
    /\ auth[s].pc = "forgot"
    /\ MayWrite
    /\ resetTokens' = Append(resetTokens, OpenToken)
    /\ Done(s)
    /\ UNCHANGED <<sessions, password, mustChange, wiped, lines, ended, raced>>

ResetRead(s, t) ==
    /\ Free(s)
    /\ resetTokens[t].state = "open"
    /\ resetTokens' = [resetTokens EXCEPT
                         ![t].shared = @ \/ Pending({"reset", "mark"}, t) # {}]
    /\ Await(s, "reset", t, 0)
    /\ UNCHANGED <<sessions, password, mustChange, wiped, lines, ended, raced>>
ResetPassword(s) ==
    /\ auth[s].pc = "reset"
    /\ MayWrite
    /\ password' = password + 1
    /\ mustChange' = FALSE
    /\ resetTokens' = [resetTokens EXCEPT ![auth[s].row].uses = @ + 1]
    /\ Await(s, "mark", auth[s].row, password')
    /\ UNCHANGED <<sessions, wiped, lines, ended, raced>>
\* The update fails, and the request with it, when another mail replaced
\* the token.  The mutant forgets to mark it.
Marked_Not(row) == row
Marked(row) == [row EXCEPT !.state = "used"]
ResetMark(s) ==
    LET t == auth[s].row IN
    /\ auth[s].pc = "mark"
    /\ \/ /\ resetTokens[t].state # "deleted"
          /\ resetTokens' = [resetTokens EXCEPT ![t] = Marked(@)]
          /\ Await(s, "wipe", 0, auth[s].password)
       \/ /\ resetTokens[t].state = "deleted"
          /\ Done(s) /\ UNCHANGED resetTokens
    /\ UNCHANGED <<sessions, password, mustChange, wiped, lines, ended, raced>>
ResetWipe(s) ==
    /\ auth[s].pc = "wipe"
    /\ sessions' = AllDeleted
    /\ wiped' = IF auth[s].password > wiped THEN auth[s].password ELSE wiped
    /\ Done(s)
    /\ UNCHANGED <<resetTokens, password, mustChange, lines, ended, raced>>
ResetExpire(t) ==
    /\ resetTokens[t].state = "open"
    /\ resetTokens' = [resetTokens EXCEPT ![t].state = "expired"]
    /\ UNCHANGED <<sessions, password, mustChange, auth, wiped, lines, ended,
                   raced>>

\* A statement fails or the process stops: the rest of the request is lost.
AuthFails(s) ==
    /\ ~Free(s)
    /\ Done(s)
    /\ resetTokens' =
         IF auth[s].pc = "mark"
         THEN [resetTokens EXCEPT ![auth[s].row].cut = TRUE] ELSE resetTokens
    /\ UNCHANGED <<sessions, password, mustChange, wiped, lines, ended, raced>>

SessionNext ==
    \/ \E s \in AuthSlots :
        \/ LoginRead(s) \/ LoginCreate(s)
        \/ RefreshRotate(s) \/ RefreshWipe(s) \/ LogoutDelete(s)
        \/ ChangeWrite(s) \/ ForgotDelete(s) \/ ForgotCreate(s)
        \/ ResetPassword(s) \/ ResetMark(s) \/ ResetWipe(s) \/ AuthFails(s)
        \/ \E i \in Rows : RefreshRead(s, i) \/ LogoutRead(s, i)
                           \/ ChangeRead(s, i)
        \/ \E t \in DOMAIN resetTokens : ResetRead(s, t)
    \/ CleanExpired
    \/ \E i \in Rows : Expire(i)
    \/ \E t \in DOMAIN resetTokens : ResetExpire(t)
SessionSpec == SessionInit /\ [][SessionNext]_sessionVars

-----------------------------------------------------------------------------

\* Every row, token and request has its type (schema.prisma).
SessionTypeOK ==
    /\ sessions \in Seq(SessionRow) /\ resetTokens \in Seq(ResetRow)
    /\ password \in Nat /\ mustChange \in BOOLEAN
    /\ auth \in [AuthSlots -> AuthRequest]
    /\ \A s \in AuthSlots :
        /\ auth[s].pc \in {"rotate", "logout"} => auth[s].row \in Rows
        /\ auth[s].pc \in {"reset", "mark"}
               => auth[s].row \in DOMAIN resetTokens
    /\ wiped \in Nat /\ lines \in Nat
    /\ ended \subseteq Nat /\ raced \subseteq Nat

\* resetPassword ends the sessions of every older password: no refresh that
\* is under way brings one back; only a login that had already passed its
\* password check outlives it.
OldSessionsEnd ==
    \A i \in Rows : sessions[i].state # "deleted" /\ ~sessions[i].late
                        => sessions[i].by >= wiped

\* Unless two requests of a login overlap, rotation leaves it one session
\* at most, and none once it has logged out.
OneLivePerLine ==
    \A l \in 1..lines : l \notin raced =>
        /\ Cardinality(LiveIn(l)) <= 1
        /\ l \in ended => LiveIn(l) = {}

\* A mailed token sets the password once, unless a second request read it
\* in time or the first one stopped before marking it.
ResetOnce ==
    \A t \in DOMAIN resetTokens :
        resetTokens[t].uses > 1 => resetTokens[t].shared \/ resetTokens[t].cut
=============================================================================
