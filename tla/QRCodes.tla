------------------------------ MODULE QRCodes ------------------------------
(***************************************************************************)
(* The QR codes of one organization: qr.service.ts, called by its admins   *)
(* through routes/qr.ts.                                                   *)
(*                                                                         *)
(* A rotating code lives a day.  A static one lives for the organization's *)
(* staticQRExpiryDays, or without end when that is not positive.  It is    *)
(* told from a rotating one by having more than a day left: in its last    *)
(* day, which for staticQRExpiryDays = 1 is all its life, nothing treats   *)
(* it as static.  A transaction runs at READ COMMITTED: its revocation     *)
(* finds the rows committed so far, and takes effect together with the     *)
(* new row.                                                                *)
(***************************************************************************)
EXTENDS Naturals, FiniteSets

CONSTANTS
    Admins,     \* org admins, each with one request at a time
    MaxCodes    \* bound on codes ever created
ASSUME CodesAssumption ==
    Admins # {} /\ IsFiniteSet(Admins) /\ MaxCodes \in Nat \ {0}

VARIABLES
    codes,        \* the QRCode rows: what kind of active code, if any
    staticLife,   \* what a new static code is; no route changes it
    making        \* the request of each admin
qrVars == <<codes, staticLife, making>>

-----------------------------------------------------------------------------
\* "near" is a static code with at most a day left, "gone" is revoked or
\* expired.  Static are those that the code recognizes as such.
CodeIds == 1..MaxCodes
StaticLives == {"near", "far", "endless"}
Lives == StaticLives \cup {"rotating"}
Static == {"far", "endless"}
Of(lives) == {i \in CodeIds : codes[i] \in lives}
Fresh == Of({"none"})
NextId == CHOOSE i \in Fresh : TRUE

Making == [pc: {"idle", "rotate", "create", "regenerate"},
           revoking: SUBSET CodeIds]
NotMaking == [pc |-> "idle", revoking |-> {}]
Revoked(ids) == [i \in CodeIds |-> IF i \in ids THEN "gone" ELSE codes[i]]
Begins(a, pc, ids) ==
    /\ making[a] = NotMaking
    /\ making' = [making EXCEPT ![a] = [pc |-> pc, revoking |-> ids]]
    /\ UNCHANGED <<codes, staticLife>>
Commits(a, pc, life) ==
    /\ making[a].pc = pc
    /\ Fresh # {}
    /\ codes' = [Revoked(making[a].revoking) EXCEPT ![NextId] = life]
    /\ making' = [making EXCEPT ![a] = NotMaking]
    /\ UNCHANGED staticLife

\* A legacy code may be left from the time when static codes had no end.
QRInit ==
    /\ \E first \in {"none", "endless"} :
        codes = [i \in CodeIds |-> IF i = 1 THEN first ELSE "none"]
    /\ staticLife \in StaticLives
    /\ making = [a \in Admins |-> NotMaking]

\* Every active code with an end, static ones too.  The mutant revokes only
\* static ones.
Dated_Static == Of(Static)
Dated == Of({"rotating", "near", "far"})
GenerateRevoke(a) == Begins(a, "rotate", Dated)
Generate(a) == Commits(a, "rotate", "rotating")

\* Nothing happens when there is a static code already.
GenerateStaticRead(a) == Of(Static) = {} /\ Begins(a, "create", {})
GenerateStatic(a) == Commits(a, "create", staticLife)

RegenerateRevoke(a) == Begins(a, "regenerate", Of(Static))
Regenerate(a) == Commits(a, "regenerate", staticLife)

Revoke ==
    /\ codes' = Revoked(Of(Lives))
    /\ UNCHANGED <<staticLife, making>>
\* A request fails: its transaction, if any, is rolled back.
MakingFails(a) ==
    /\ making[a] # NotMaking
    /\ making' = [making EXCEPT ![a] = NotMaking]
    /\ UNCHANGED <<codes, staticLife>>

Ages(i) ==
    /\ codes[i] \in {"rotating", "near", "far"}
    /\ codes' = [codes EXCEPT ![i] = IF @ = "far" THEN "near" ELSE "gone"]
    /\ UNCHANGED <<staticLife, making>>

QRNext ==
    \/ \E a \in Admins :
        \/ GenerateRevoke(a) \/ Generate(a) \/ GenerateStaticRead(a)
        \/ GenerateStatic(a) \/ RegenerateRevoke(a) \/ Regenerate(a)
        \/ MakingFails(a)
    \/ Revoke
    \/ \E i \in CodeIds : Ages(i)
QRSpec == QRInit /\ [][QRNext]_qrVars

-----------------------------------------------------------------------------
\* Codes and requests have their types.
QRTypeOK ==
    /\ codes \in [CodeIds -> Lives \cup {"none", "gone"}]
    /\ staticLife \in StaticLives
    /\ making \in [Admins -> Making]

\* Concurrent clicks leave no more than one active rotating code for each
\* admin, and no more than one static code with more than a day left, however
\* often they repeat: every one of them revokes what the last left, or makes
\* none.  Of static codes in their last day there may be any number.
CodesBounded ==
    /\ Cardinality(Of({"rotating"})) <= Cardinality(Admins)
    /\ Cardinality(Of(Static)) <= Cardinality(Admins)

\* "wrapped in a transaction to prevent two admins creating duplicate active
\* rotating QR codes on concurrent clicks" (generate, qr.service.ts:37-38).
OneRotatingCode == Cardinality(Of({"rotating"})) <= 1
=============================================================================
