------------------------------ MODULE MCPeople ------------------------------
(***************************************************************************)
(* Membership and LeaveManagement, which share no rows, for TLC in one     *)
(* run: a behaviour is one of either, the other stays as it starts.  The   *)
(* members act either with all their operations, by Few requests, or       *)
(* around the cap only, by MaxRequests, so many that old recounts open the *)
(* check of the cap one after the other.                                   *)
(***************************************************************************)
EXTENDS MCMembership, MCLeaveManagement

VARIABLE people   \* who acts: "members", "seats", or "leaves"

Few == 3

\* The founder hires and removes employees: no edits, logins or branches.
Hires(s) ==
    /\ task'[s].op # "update"
    /\ task'[s].op = "join" => task'[s].change.role = "EMPLOYEE"
SeatsNext ==
    /\ MemberNext
    /\ <<token, branch>>' = <<token, branch>>
    /\ deleting'.branch = NoBranch
    /\ \A s \in Sessions : Hires(s)

PeopleInit ==
    /\ people \in {"members", "seats", "leaves"}
    /\ MemberInit /\ Init
    /\ people # "leaves" => policy = Policy(TRUE, 3)
PeopleNext ==
    /\ UNCHANGED people
    /\ \/ people = "members" /\ MemberNext /\ requests' <= Few /\ UNCHANGED vars
       \/ people = "seats" /\ SeatsNext /\ UNCHANGED vars
       \/ people = "leaves" /\ Next /\ UNCHANGED memberVars
PeopleSpec ==
    PeopleInit /\ [][PeopleNext]_<<people, memberVars, vars>>
=============================================================================
