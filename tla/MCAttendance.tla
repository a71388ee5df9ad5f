---------------------------- MODULE MCAttendance ----------------------------
(* Attendance over two days of three ticks, on a day and a night shift.    *)
EXTENDS Attendance

MCShifts == {[start |-> 0, end |-> 1], [start |-> 2, end |-> 0]}
MCConfigs == {{0, 1}}
=============================================================================
