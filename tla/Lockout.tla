------------------------------ MODULE Lockout ------------------------------
(***************************************************************************)
(* The counters that stop guessing: lib/lockout.ts for the password of a   *)
(* login (AuthService.login) and lib/scan-lockout.ts for the PIN of a scan *)
(* (AttendanceService), here for one email or one employee id.             *)
(*                                                                         *)
(* An attempt checks the lock, verifies the secret, and records a failure  *)
(* with a get and a set, each of its own in Redis, whose key lives for the *)
(* time of a lock.  Whenever Redis fails a call, that call goes to the     *)
(* memory of the process instead, where a record is read and written in    *)
(* one step.  Times are left out: a record runs out when it likes.         *)
(***************************************************************************)
EXTENDS Naturals, FiniteSets, Combinatorics

CONSTANTS
    Clients,      \* attempts that may be in progress at once
    MaxAttempts   \* MAX_ATTEMPTS, MAX_FAILED_ATTEMPTS
ASSUME LockoutAssumption == MaxAttempts \in Nat \ {0} /\ IsFiniteSet(Clients)

VARIABLES
    lockKind,   \* which of the two files: "login" or "scan"
    redisUp,
    kept,       \* the record in "redis" and in "memory"
    attempt,    \* the attempt of each client
    failures    \* history: failures checked and recorded in the same store
                \* since its record began
lockVars == <<lockKind, redisUp, kept, attempt, failures>>

-----------------------------------------------------------------------------
Stores == {"redis", "memory"}
LockRecord == [count: Nat, locked: BOOLEAN]
NoRecord == [count |-> 0, locked |-> FALSE]
\* checked: the store in which the attempt found no lock.
Attempt == [pc: {"idle", "verify", "store"}, checked: Stores,
            read: LockRecord]
NoAttempt == [pc |-> "idle", checked |-> "redis", read |-> NoRecord]

\* The mutant locks one failure late.
Locks_Late(n) == n > MaxAttempts
Locks(n) == n >= MaxAttempts
\* Beyond MaxAttempts + 1 the count makes no difference.
Failed(record) ==
    [count |-> IF record.count > MaxAttempts THEN record.count
               ELSE record.count + 1,
     locked |-> record.locked \/ Locks(record.count + 1)]

Over(c) == attempt' = [attempt EXCEPT ![c] = NoAttempt]
\* The store this call gets through to.
Reached == IF redisUp THEN "redis" ELSE "memory"
Counted(c, store) ==
    failures' = IF attempt[c].checked = store
                THEN [failures EXCEPT ![store] = @ + 1] ELSE failures
\* A record's failures count from when it is created again.
Drop(store) ==
    /\ kept' = [kept EXCEPT ![store] = NoRecord]
    /\ failures' = [failures EXCEPT ![store] = 0]

LockInit ==
    /\ lockKind \in {"login", "scan"}
    /\ redisUp \in BOOLEAN
    /\ kept = [store \in Stores |-> NoRecord]
    /\ attempt = [c \in Clients |-> NoAttempt]
    /\ failures = [store \in Stores |-> 0]

-----------------------------------------------------------------------------
CheckLockout(c) ==
    /\ attempt[c].pc = "idle"
    /\ ~kept[Reached].locked
    /\ attempt' = [attempt EXCEPT ![c] = [NoAttempt EXCEPT
                      !.pc = "verify", !.checked = Reached]]
    /\ UNCHANGED <<lockKind, redisUp, kept, failures>>

Succeeds(c) ==
    /\ attempt[c].pc = "verify"
    /\ Drop(Reached)
    /\ Over(c)
    /\ UNCHANGED <<lockKind, redisUp>>
\* The get of a failed attempt.
ReadRecord(c) ==
    /\ attempt[c].pc = "verify"
    /\ redisUp
    /\ attempt' = [attempt EXCEPT ![c].pc = "store", ![c].read = kept["redis"]]
    /\ UNCHANGED <<lockKind, redisUp, kept, failures>>
StoreRecord(c) ==
    /\ attempt[c].pc = "store"
    /\ redisUp
    /\ kept' = [kept EXCEPT !["redis"] = Failed(attempt[c].read)]
    /\ Counted(c, "redis")
    /\ Over(c)
    /\ UNCHANGED <<lockKind, redisUp>>
\* The get or the set of a failed attempt does not reach Redis.
RecordInMemory(c) ==
    /\ attempt[c].pc \in {"verify", "store"}
    /\ ~redisUp
    /\ kept' = [kept EXCEPT !["memory"] = Failed(@)]
    /\ Counted(c, "memory")
    /\ Over(c)
    /\ UNCHANGED <<lockKind, redisUp>>

RedisFlips ==
    /\ redisUp' = ~redisUp
    /\ UNCHANGED <<lockKind, kept, attempt, failures>>
\* The key and the lock in it end together.
RedisExpires ==
    /\ kept["redis"] # NoRecord
    /\ Drop("redis")
    /\ UNCHANGED <<lockKind, redisUp, attempt>>
\* The lock ends.  A scan forgets the count when it sees this; a login goes
\* on counting, and locks again at the next failure.
MemoryLockEnds ==
    /\ kept["memory"].locked
    /\ kept' = [kept EXCEPT !["memory"] =
                  IF lockKind = "scan" THEN NoRecord
                  ELSE [@ EXCEPT !.locked = FALSE]]
    /\ failures' = [failures EXCEPT !["memory"] = 0]
    /\ UNCHANGED <<lockKind, redisUp, attempt>>
\* Records that lock nothing (login), or have been idle (scan).
MemorySweep ==
    /\ kept["memory"].count > 0 /\ ~kept["memory"].locked
    /\ Drop("memory")
    /\ UNCHANGED <<lockKind, redisUp, attempt>>

LockNext ==
    \/ \E c \in Clients : \/ CheckLockout(c) \/ Succeeds(c) \/ ReadRecord(c)
                          \/ StoreRecord(c) \/ RecordInMemory(c)
    \/ RedisFlips \/ RedisExpires \/ MemoryLockEnds \/ MemorySweep
LockSpec == LockInit /\ [][LockNext]_lockVars

-----------------------------------------------------------------------------
\* Every record, attempt and counter has its type.
LockTypeOK ==
    /\ lockKind \in {"login", "scan"} /\ redisUp \in BOOLEAN
    /\ kept \in [Stores -> LockRecord]
    /\ attempt \in [Clients -> Attempt]
    /\ failures \in [Stores -> Nat]

\* However requests overlap, a lock is reached: in memory, only attempts that
\* were past the check come on top of MaxAttempts.
MemoryGuessesBounded ==
    failures["memory"] <= MaxAttempts + Cardinality(Clients) - 1

\* In Redis a late set may put back a lower count and undo a lock, but every
\* count can be put back so often only: n clients get at most
\* C(MaxAttempts + n, n) - 1 wrong guesses in, in any time of a lock.
RedisGuessesBounded ==
    LET n == Cardinality(Clients)
    IN  failures["redis"] < choose(MaxAttempts + n, n)

\* In either store, however requests overlap.
GuessesBounded == MemoryGuessesBounded /\ RedisGuessesBounded
=============================================================================
