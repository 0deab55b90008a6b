--------------------------- MODULE MCAttendanceDay ---------------------------
(* Small instances of AttendanceDay for TLC. *)
EXTENDS AttendanceDay
=============================================================================
