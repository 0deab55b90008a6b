---------------------------- MODULE MCRecordPanel ----------------------------
(* Small instances of RecordPanel for TLC. *)
EXTENDS RecordPanel
=============================================================================
