---------------------------- MODULE ScanRequests ----------------------------
(***************************************************************************)
(* One scan on its way to the clock: the four entry points of              *)
(* AttendanceService and the geofence of lib/geofence.ts, while an admin   *)
(* changes the organization's settings, the branch, or revokes the code.   *)
(*                                                                         *)
(* Every step of a request is one query.  The clock action itself is that  *)
(* of AttendanceClock, the failures of a PIN those of Lockout: here a scan *)
(* ends when it gets there, or is refused on the way.  Places are metres   *)
(* along a line.                                                           *)
(***************************************************************************)
EXTENDS Integers, Sequences

CONSTANTS
    NoPlace,      \* coordinates that are null
    OrgRows,      \* [enabled, at, radius, qrOnly] of the organization
    BranchRows,   \* [at, radius] of the member's branch
    NoBranch,     \* no branch, or one that is deleted or inactive
    NoRadius,     \* a branch's radius that is null
    Readings      \* [at, accuracy] of the scanner's device
ASSUME ScanAssumption ==
    /\ NoPlace \notin Int /\ NoRadius \notin Int
    /\ OrgRows \subseteq [enabled: BOOLEAN, at: Int \cup {NoPlace},
                         radius: Nat, qrOnly: BOOLEAN]
    /\ BranchRows \subseteq [at: Int \cup {NoPlace},
                            radius: Nat \cup {NoRadius}]
    /\ Readings \subseteq [at: Int \cup {NoPlace}, accuracy: Nat]

VARIABLES
    orgRow, branchRow,
    code,       \* the scanned code: "active", "expired" or "revoked"
    scan        \* the request
scanVars == <<orgRow, branchRow, code, scan>>

-----------------------------------------------------------------------------
(* lib/geofence.ts *)

Larger(m, n) == IF m > n THEN m ELSE n
CalculateDistance(p, q) == Larger(p - q, q - p)

\* The branch's place if it has one, else the organization's row as it is.
\* The mutant takes no radius from the organization.
ResolveGeofenceConfig_OwnRadius(org, branch) ==
    IF branch = NoBranch \/ branch.at = NoPlace THEN org
    ELSE [org EXCEPT !.at = branch.at,
            !.radius = IF branch.radius = NoRadius THEN 0 ELSE branch.radius]
ResolveGeofenceConfig(org, branch) ==
    IF branch = NoBranch \/ branch.at = NoPlace THEN org
    ELSE [org EXCEPT !.at = branch.at,
            !.radius = IF branch.radius = NoRadius THEN @ ELSE branch.radius]

ValidateGeofence(fence, reading) ==
    fence.enabled =>
        /\ fence.at # NoPlace
        /\ reading.at # NoPlace
        /\ reading.accuracy <= Larger(fence.radius, 150)
        /\ CalculateDistance(reading.at, fence.at)
             <= IF fence.radius = 0 THEN 100 ELSE fence.radius

-----------------------------------------------------------------------------
(* The entry points, as the order of their queries *)

\* Kiosk and phone with an employee id and a PIN, and of a logged-in member.
ScanPublic == <<"code", "pin", "count", "org", "fence", "clock">>
MobileCheckin == <<"pin", "mode", "configured", "clock">>
ScanAuthenticated == <<"code", "counted", "org", "fence", "clock">>
MobileCheckinAuth == <<"org", "fence", "clock">>
Entries == {ScanPublic, MobileCheckin, ScanAuthenticated, MobileCheckinAuth}

\* The promise of the fence, as the area it lets a member clock in from: the
\* disc around the branch, or the organization if the branch has no place.
Area(org, branch) ==
    LET own == branch # NoBranch /\ branch.at # NoPlace
        centre == IF own THEN branch.at ELSE org.at
        given == IF own /\ branch.radius # NoRadius THEN branch.radius
                 ELSE org.radius
        radius == IF given = 0 THEN 100 ELSE given
    IN  IF centre = NoPlace THEN {} ELSE (centre - radius)..(centre + radius)
\* A device may be off by its accuracy: up to 150 metres, or the radius.
Precise(org, branch, reading) ==
    \/ reading.accuracy <= 150
    \/ reading.accuracy <= ResolveGeofenceConfig(org, branch).radius
Allowed(entry, reading, org, branch) ==
    LET inside == /\ reading.at \in Area(org, branch)
                  /\ Precise(org, branch, reading) IN
    IF entry = MobileCheckin THEN org.enabled /\ ~org.qrOnly /\ inside
    ELSE org.enabled => inside

\* ever, never: Allowed held, or did not, at some moment of the request;
\* moved, revoked: the organization's row, the code changed during it.
NoScan ==
    [entry |-> <<>>, next |-> 1, end |-> "none", reading |-> NoPlace,
     org |-> NoPlace, ever |-> FALSE, never |-> FALSE, moved |-> FALSE,
     counted |-> FALSE, revoked |-> FALSE]
InProgress == scan # NoScan /\ scan.end = "none"
At(step) == InProgress /\ scan.entry[scan.next] = step
Then == scan' = [scan EXCEPT !.next = @ + 1]
Refused(why) == scan' = [scan EXCEPT !.end = why]
Settings == <<orgRow, branchRow, code>>

ScanInit ==
    /\ orgRow \in OrgRows /\ branchRow \in BranchRows \cup {NoBranch}
    /\ code = "active"
    /\ scan = NoScan

-----------------------------------------------------------------------------
\* The route's schema: a check-in with a PIN brings its place, one with a
\* token no accuracy.
Begin(entry, reading) ==
    /\ scan = NoScan
    /\ entry = MobileCheckin => reading.at # NoPlace
    /\ entry = MobileCheckinAuth => reading.accuracy = 0
    /\ LET allowed == Allowed(entry, reading, orgRow, branchRow) IN
       scan' = [NoScan EXCEPT !.entry = entry, !.reading = reading,
                              !.ever = allowed, !.never = ~allowed]
    /\ UNCHANGED Settings

ValidateQRPayload ==
    /\ At("code")
    /\ IF code = "active" THEN Then ELSE Refused("code")
    /\ UNCHANGED Settings
VerifyPin ==
    /\ At("pin")
    /\ Then \/ Refused("pin")
    /\ UNCHANGED Settings
\* Not a code revoked in between, if it is found by its token; in any case if
\* it is found by its id.  An expired one keeps its status.
IncrementQRScanCount ==
    /\ At("count")
    /\ scan' = [scan EXCEPT !.next = @ + 1, !.counted = code # "revoked"]
    /\ UNCHANGED Settings
CountValidated ==
    /\ At("counted")
    /\ scan' = [scan EXCEPT !.next = @ + 1, !.counted = TRUE]
    /\ UNCHANGED Settings

ReadOrg ==
    /\ At("org")
    /\ scan' = [scan EXCEPT !.next = @ + 1, !.org = orgRow, !.moved = FALSE]
    /\ UNCHANGED Settings
ReadMode ==
    /\ At("mode")
    /\ IF orgRow.qrOnly THEN Refused("fence")
       ELSE scan' = [scan EXCEPT !.next = @ + 1, !.org = orgRow,
                                 !.moved = FALSE]
    /\ UNCHANGED Settings
\* getMembershipBranchGeo, and the fence of the two rows read.
Fence == ResolveGeofenceConfig(scan.org, branchRow)
CheckFence ==
    /\ At("fence")
    /\ IF ValidateGeofence(Fence, scan.reading) THEN Then ELSE Refused("fence")
    /\ UNCHANGED Settings
CheckConfigured ==
    /\ At("configured")
    /\ IF /\ Fence.enabled /\ Fence.at # NoPlace
          /\ ValidateGeofence(Fence, scan.reading)
       THEN Then ELSE Refused("fence")
    /\ UNCHANGED Settings

\* performClockActionSafe records the time, or refuses it.
PerformClock ==
    /\ At("clock")
    /\ Refused("clocked") \/ Refused("clock")
    /\ UNCHANGED Settings
Forget ==
    /\ scan.end # "none"
    /\ scan' = NoScan
    /\ UNCHANGED Settings

-----------------------------------------------------------------------------
(* The admins *)

\* The scan in progress, when the rows become these.
Witness(org, branch) ==
    scan' = IF ~InProgress THEN scan
            ELSE LET allowed == Allowed(scan.entry, scan.reading, org, branch)
                 IN [scan EXCEPT !.ever = @ \/ allowed, !.never = @ \/ ~allowed,
                                 !.moved = @ \/ org # orgRow]
UpdateSettings ==
    /\ orgRow' \in OrgRows \ {orgRow}
    /\ Witness(orgRow', branchRow)
    /\ UNCHANGED <<branchRow, code>>
UpdateGeofence ==
    /\ branchRow' \in (BranchRows \cup {NoBranch}) \ {branchRow}
    /\ Witness(orgRow, branchRow')
    /\ UNCHANGED <<orgRow, code>>
CodeEnds ==
    /\ \/ code = "active" /\ code' \in {"expired", "revoked"}
       \/ code = "expired" /\ code' = "revoked"
    /\ scan' = IF InProgress THEN [scan EXCEPT !.revoked = code' = "revoked"]
               ELSE scan
    /\ UNCHANGED <<orgRow, branchRow>>

ScanNext ==
    \/ \E entry \in Entries, reading \in Readings : Begin(entry, reading)
    \/ ValidateQRPayload \/ VerifyPin \/ IncrementQRScanCount \/ CountValidated
    \/ ReadOrg \/ ReadMode \/ CheckFence \/ CheckConfigured
    \/ PerformClock \/ Forget
    \/ UpdateSettings \/ UpdateGeofence \/ CodeEnds
ScanSpec == ScanInit /\ [][ScanNext]_scanVars

-----------------------------------------------------------------------------
\* A scan is clocked, or turned away by the fence, as the settings of some
\* moment of the request have it, unless the organization's row changes
\* between its query and that of the branch: then it may be judged by two
\* rows that were never in force together (attendance.service.ts).
FenceInForce ==
    /\ scan.end = "clocked" => scan.ever \/ scan.moved
    /\ scan.end = "fence" => scan.never \/ scan.moved

\* A clock action by a code is counted on the code, unless that is
\* revoked between the check and the count of a scan with a PIN.
ScanCounted ==
    scan.end = "clocked" /\ scan.entry[1] = "code" =>
        scan.counted \/ (scan.entry = ScanPublic /\ scan.revoked)

\* Every scan that reaches the clock, or is turned away, is rightly so.
ScansJudged == FenceInForce /\ ScanCounted
=============================================================================
