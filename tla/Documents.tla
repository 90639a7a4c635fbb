----------------------------- MODULE Documents -----------------------------
(***************************************************************************)
(* The documents of one member: documents.service.ts.  An upload adds up   *)
(* the sizes of the rows, puts the file into S3, and then creates its row; *)
(* a deletion removes the object first, and the row even when S3 failed.   *)
(* The checks of the caller, the document type and the file do not depend  *)
(* on this state and are left out.                                         *)
(***************************************************************************)
EXTENDS Naturals, FiniteSets, Functions

CONSTANTS
    Uploaders,    \* requests in progress at once
    MaxFileSize,  \* per file
    MaxTotalSize, \* of all files of one employee
    MaxFiles      \* bound on files ever uploaded
ASSUME SizesAssumption ==
    /\ Uploaders # {} /\ IsFiniteSet(Uploaders)
    /\ MaxFileSize \in Nat /\ MaxTotalSize \in Nat /\ MaxFiles \in Nat

VARIABLES
    files,   \* size of each file, and whether its row and its object exist
    filing,  \* the request of each uploader
    adrift   \* history: files whose upload or deletion was cut short, or
             \* whose object S3 did not delete
docVars == <<files, filing, adrift>>

-----------------------------------------------------------------------------
FileIds == 1..MaxFiles
File == [size: 0..MaxFileSize, row: BOOLEAN, object: BOOLEAN]
NoFile == [size |-> 0, row |-> FALSE, object |-> FALSE]
Filing == [pc: {"idle", "put", "create", "object", "row"},
           file: FileIds \cup {0}]
NotFiling == [pc |-> "idle", file |-> 0]

Rowed == {f \in FileIds : files[f].row}
SizeOf(set) == SumFunctionOnSet([f \in FileIds |-> files[f].size], set)
\* The mutant leaves the new file out.
Fits_Before(size) == SizeOf(Rowed) <= MaxTotalSize
Fits(size) == SizeOf(Rowed) + size <= MaxTotalSize

Goes(u, pc, f) == filing' = [filing EXCEPT ![u] = [pc |-> pc, file |-> f]]
Ends(u) == filing' = [filing EXCEPT ![u] = NotFiling]
Busy(f, pcs) == \E u \in Uploaders : filing[u].file = f /\ filing[u].pc \in pcs

DocInit ==
    /\ files = [f \in FileIds |-> NoFile]
    /\ filing = [u \in Uploaders |-> NotFiling]
    /\ adrift = {}

\* Every upload has a key of its own in S3: f is the next file unused.
UploadCheck(u, f, size) ==
    /\ filing[u] = NotFiling
    /\ \A g \in FileIds : files[g].size = 0 <=> g >= f
    /\ Fits(size)
    /\ files' = [files EXCEPT ![f].size = size]
    /\ Goes(u, "put", f)
    /\ UNCHANGED adrift
\* The mutant goes on when S3 failed.
UploadPut_Lost(u) ==
    /\ filing[u].pc = "put"
    /\ \E stored \in BOOLEAN : files' = [files EXCEPT ![filing[u].file].object = stored]
    /\ Goes(u, "create", filing[u].file)
    /\ UNCHANGED adrift
UploadPut(u) ==
    /\ filing[u].pc = "put"
    /\ \/ /\ files' = [files EXCEPT ![filing[u].file].object = TRUE]
          /\ Goes(u, "create", filing[u].file)
       \/ Ends(u) /\ UNCHANGED files
    /\ UNCHANGED adrift
UploadCreate(u) ==
    /\ filing[u].pc = "create"
    /\ files' = [files EXCEPT ![filing[u].file].row = TRUE]
    /\ Ends(u)
    /\ UNCHANGED adrift

DeleteRead(u, f) ==
    /\ filing[u] = NotFiling
    /\ files[f].row
    /\ Goes(u, "object", f)
    /\ UNCHANGED <<files, adrift>>
DeleteObject(u) ==
    LET f == filing[u].file IN
    /\ filing[u].pc = "object"
    /\ \/ files' = [files EXCEPT ![f].object = FALSE] /\ UNCHANGED adrift
       \/ adrift' = adrift \cup {f} /\ UNCHANGED files
    /\ Goes(u, "row", f)
\* Fails, with nothing left to do, when another request has deleted the row.
DeleteRow(u) ==
    /\ filing[u].pc = "row"
    /\ files' = [files EXCEPT ![filing[u].file].row = FALSE]
    /\ Ends(u)
    /\ UNCHANGED adrift

\* The database or the process fails between the two stores.
FilingFails(u) ==
    /\ filing[u].pc \in {"create", "object", "row"}
    /\ adrift' = adrift \cup {filing[u].file}
    /\ Ends(u)
    /\ UNCHANGED files

DocNext ==
    \E u \in Uploaders :
        \/ \E f \in FileIds, size \in 1..MaxFileSize : UploadCheck(u, f, size)
        \/ UploadPut(u) \/ UploadCreate(u)
        \/ \E f \in FileIds : DeleteRead(u, f)
        \/ DeleteObject(u) \/ DeleteRow(u) \/ FilingFails(u)
DocSpec == DocInit /\ [][DocNext]_docVars

-----------------------------------------------------------------------------
\* Files and requests have their types.
DocTypeOK ==
    /\ files \in [FileIds -> File]
    /\ filing \in [Uploaders -> Filing]
    /\ adrift \subseteq FileIds

\* Uploads checked side by side overshoot the limit by one file for each
\* other request at most.
QuotaBounded ==
    SizeOf(Rowed) <= MaxTotalSize + (Cardinality(Uploaders) - 1) * MaxFileSize

\* The database and S3 disagree on a file only during a request that is to
\* bring them together, or after one was cut short.
StoresAgree ==
    \A f \in FileIds \ adrift :
        files[f].row # files[f].object => Busy(f, {"create", "object", "row"})
=============================================================================
