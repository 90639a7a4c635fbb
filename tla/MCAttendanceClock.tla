-------------------------- MODULE MCAttendanceClock --------------------------
(***************************************************************************)
(* Instances of AttendanceClock for TLC.  A day has seven units; the day   *)
(* shift lasts from unit 1 to unit 4, the night shift from unit 5 to unit  *)
(* 1 of the next day, the grace window is one unit and the cooldown two.   *)
(* The corrections, whose inputs are pairs of times, have a day of three   *)
(* units and a shift of one.                                               *)
(***************************************************************************)
EXTENDS AttendanceClock, TLC

CONSTANTS t1, t2, r1

OneTask == {t1}
TwoTasks == {t1, t2}
OneRun == {r1}
DayShift == [start |-> 1, end |-> 4]
NightShift == [start |-> 5, end |-> 1]
ShortShift == [start |-> 0, end |-> 1]
Scans == {"scan"}
Everything == {"scan", "manual", "edit", "acknowledge", "mark"}
TaskSymmetry == Permutations(TwoTasks)
=============================================================================
