--------------------------- MODULE MCPunchPipeline ---------------------------
(* Small instances of PunchPipeline for TLC. *)
EXTENDS PunchPipeline
=============================================================================
