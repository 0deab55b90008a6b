-------------------------- MODULE MCDeliveryOutbox --------------------------
(* Small instances of DeliveryOutbox for TLC. *)
EXTENDS DeliveryOutbox

CONSTANTS p1, p2, p3, e1, e2

OneHandle == <<e1>>

\* What an earlier process stored; what this process distributes; a row that
\* does not parse.
Old     == {<<p2, e1>>}
New     == {<<p1, e1>>, <<p1, e2>>}
Broken  == {<<p3, e1>>}

Mixed   == Old \cup New \cup Broken
Stored  == Old \cup Broken
Nothing == {}
=============================================================================
