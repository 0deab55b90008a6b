-------------------------- MODULE SequentialBreaker --------------------------
(***************************************************************************)
(* What the header of crates/timekeep-circuit/src/lib.rs promises: the      *)
(* three-phase breaker in which the outcome of a call, the phase it leads   *)
(* to and the start of the recovery timeout are one step.                   *)
(***************************************************************************)
EXTENDS Naturals

CONSTANTS
  FailureLimit,   \* failure_threshold
  SuccessLimit    \* half_open_max_success

VARIABLES
  phase,          \* Closed, Open or HalfOpen
  failed,         \* consecutive failures
  succeeded,      \* consecutive successes of the half-open phase
  cooled          \* recovery_timeout has elapsed since the breaker opened

Init ==
  /\ phase = "Closed"
  /\ failed = 0
  /\ succeeded = 0
  /\ cooled = FALSE

Open(count) ==
  /\ phase' = "Open"
  /\ failed' = count
  /\ cooled' = FALSE

Close ==
  /\ phase' = "Closed"
  /\ failed' = 0
  /\ succeeded' = 0
  /\ cooled' = FALSE

Success ==
  /\ phase = "Closed"
  /\ failed' = 0
  /\ UNCHANGED <<phase, succeeded, cooled>>

Failure ==
  /\ phase = "Closed"
  /\ \/ /\ failed + 1 < FailureLimit
        /\ failed' = failed + 1
        /\ UNCHANGED <<phase, succeeded, cooled>>
     \/ /\ failed + 1 >= FailureLimit
        /\ Open(failed + 1)
        /\ UNCHANGED succeeded

CoolDown ==
  /\ phase = "Open"
  /\ cooled' = TRUE
  /\ UNCHANGED <<phase, failed, succeeded>>

StartProbing ==
  /\ phase = "Open"
  /\ cooled
  /\ phase' = "HalfOpen"
  /\ UNCHANGED <<failed, succeeded, cooled>>

ProbeSuccess ==
  /\ phase = "HalfOpen"
  /\ \/ /\ succeeded + 1 < SuccessLimit
        /\ succeeded' = succeeded + 1
        /\ UNCHANGED <<phase, failed, cooled>>
     \/ /\ succeeded + 1 >= SuccessLimit
        /\ Close

\* A failed probe and force_open: the counters a trip leaves behind.
Trip ==
  /\ Open(FailureLimit)
  /\ succeeded' = 0

ProbeFailure == phase = "HalfOpen" /\ Trip

Next ==
  \/ Success \/ Failure \/ CoolDown \/ StartProbing
  \/ ProbeSuccess \/ ProbeFailure
  \/ Trip \/ Close          \* force_open, force_close

Spec == Init /\ [][Next]_<<phase, failed, succeeded, cooled>>

-----------------------------------------------------------------------------
\* What the two limits and the timeout of CircuitBreakerConfig come to: closed
\* below the failure limit and only then, half-open below the success limit and
\* only after the recovery timeout, and no success kept outside of that phase.
WithinLimits ==
  /\ phase = "Closed" <=> failed < FailureLimit
  /\ IF phase = "HalfOpen" THEN succeeded < SuccessLimit ELSE succeeded = 0
  /\ phase = "HalfOpen" => cooled
=============================================================================
