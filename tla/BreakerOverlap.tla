--------------------------- MODULE BreakerOverlap ---------------------------
(***************************************************************************)
(* CircuitBreaker with a history variable that tells the executions in      *)
(* which callers take turns from those in which two were in the breaker at  *)
(* once: what a single poller sees of it, and what sharing it changes.      *)
(***************************************************************************)
EXTENDS CircuitBreaker

VARIABLE overlapped   \* history: two tasks have been in the breaker at once

Overlap == \E c, d \in Callers : c # d /\ pc[c] # "idle" /\ pc[d] # "idle"

WatchedInit == Init /\ overlapped = FALSE

WatchedNext == Next /\ overlapped' = (overlapped \/ Overlap')

WatchedSpec == WatchedInit /\ [][WatchedNext]_<<vars, overlapped>>

\* As long as no two calls, trips or resets of different tasks overlapped, the
\* separate loads and stores of call(), trip() and reset() amount to the
\* three-phase breaker of the header: every step is one of its steps.
SequentialUntilOverlap ==
  /\ Sequential!Init
  /\ [][ \/ overlapped'
        \/ Sequential!Next
        \/ UNCHANGED <<Phase, Failed, Succeeded, Cooled>> ]_<<vars, overlapped>>

\* As long as no two tasks overlapped, the counters of the breaker stay within
\* the limits of its configuration and agree with its phase.
WithinLimitsUntilOverlap == ~overlapped => Sequential!WithinLimits
=============================================================================
