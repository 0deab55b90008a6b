---------------------------- MODULE MCSdkSession ----------------------------
(* Small instances of SdkSession for TLC. *)
EXTENDS SdkSession

\* The log of operations has the bytes of two punches, as 5 of its records of 16
\* have, and the user has not; one record each stands for them.
OneEach == [oplogs |-> 1, users |-> 1]
Widths  == [attendance |-> 40, oplogs |-> 80, users |-> 72]
=============================================================================
