--------------------------- MODULE CircuitBreaker ---------------------------
(***************************************************************************)
(* crates/timekeep-circuit/src/lib.rs: the lock-free circuit breaker that   *)
(* every integration endpoint and every device poller shares through an     *)
(* Arc.  Each atomic load, store, fetch_add and compare_exchange, and each  *)
(* use of the opened_at mutex, is one step, so that concurrent calls        *)
(* interleave exactly where the code lets them.                             *)
(*                                                                         *)
(* The wrapped operation f() is external: it ends well, ends with an        *)
(* error, or is dropped at its await point when its task is aborted.        *)
(***************************************************************************)
EXTENDS Naturals

CONSTANTS
  Callers,      \* tasks that share the breaker
  Threshold,    \* failure_threshold
  MaxSuccess    \* half_open_max_success

ASSUME ConfigAssumption ==
  /\ Threshold \in Nat \ {0}
  /\ MaxSuccess \in Nat \ {0}

VARIABLES
  state,        \* AtomicU8: Closed, Open or HalfOpen
  failures,     \* consecutive_failures
  successes,    \* consecutive_successes
  openedAt,     \* opened_at, as what should_probe can tell: see Stamps
  pc,           \* where each caller is
  expected      \* the state a caller loaded inside transition_to

vars == <<state, failures, successes, openedAt, pc, expected>>

States == {"Closed", "Open", "HalfOpen"}

\* None; Some(t) with t.elapsed() < recovery_timeout; Some(t) past it.
Stamps == {"None", "Recent", "Elapsed"}

\* f() in flight, admitted in Closed resp. HalfOpen.
Awaiting == {"closed_await", "probe_await"}

\* The remaining stores of trip(), in program order.
Tripping == {"trip_successes", "trip_state", "trip_stamp"}

\* All the stores of reset(), in program order.
Resetting == {"reset_failures", "reset_successes", "reset_state", "reset_stamp"}

Steps == {"idle", "load", "check", "half_load", "half_cas",
          "open_load", "open_cas", "open_stamp"}
           \cup Awaiting \cup Tripping \cup Resetting

TypeOK ==
  /\ state \in States
  /\ failures \in Nat
  /\ successes \in Nat
  /\ openedAt \in Stamps
  /\ pc \in [Callers -> Steps]
  /\ expected \in [Callers -> States]

Init ==
  /\ state = "Closed"
  /\ failures = 0
  /\ successes = 0
  /\ openedAt = "None"
  /\ pc = [c \in Callers |-> "idle"]
  /\ expected = [c \in Callers |-> "Closed"]

Move(c, from, to) ==
  /\ pc[c] = from
  /\ pc' = [pc EXCEPT ![c] = to]

-----------------------------------------------------------------------------
(* call(): admission.                                                      *)

Call(c) ==
  /\ Move(c, "idle", "load")
  /\ UNCHANGED <<state, failures, successes, openedAt, expected>>

LoadState(c) ==
  /\ Move(c, "load", CASE state = "Closed"   -> "closed_await"
                       [] state = "Open"     -> "check"
                       [] state = "HalfOpen" -> "probe_await")
  /\ UNCHANGED <<state, failures, successes, openedAt, expected>>

\* Mutant: no timestamp is read as "the timeout has not elapsed".
ShouldProbeNeedsStamp == openedAt = "Elapsed"

\* should_probe(): a missing timestamp allows the probe.
ShouldProbe == openedAt # "Recent"

Admit(c) ==
  /\ ShouldProbe
  /\ Move(c, "check", "half_load")
  /\ UNCHANGED <<state, failures, successes, openedAt, expected>>

\* Err(CircuitOpen): the call returns without running f.
Reject(c) ==
  /\ ~ShouldProbe
  /\ Move(c, "check", "idle")
  /\ UNCHANGED <<state, failures, successes, openedAt, expected>>

-----------------------------------------------------------------------------
(* transition_to(HalfOpen): load, validity check, compare_exchange.  Won   *)
(* or lost, the call goes round its loop again.                            *)

HalfOpenLoad(c) ==
  /\ Move(c, "half_load", IF state = "Open" THEN "half_cas" ELSE "load")
  /\ expected' = [expected EXCEPT ![c] = state]
  /\ UNCHANGED <<state, failures, successes, openedAt>>

\* Mutant: a plain store in place of the compare_exchange.
HalfOpenStore(c) ==
  /\ Move(c, "half_cas", "load")
  /\ state' = "HalfOpen"
  /\ UNCHANGED <<failures, successes, openedAt, expected>>

HalfOpenCas(c) ==
  /\ Move(c, "half_cas", "load")
  /\ state' = IF state = expected[c] THEN "HalfOpen" ELSE state
  /\ UNCHANGED <<failures, successes, openedAt, expected>>

-----------------------------------------------------------------------------
(* f() completes in a call admitted in Closed: on_success, on_failure.     *)

\* Mutant: a success takes one failure back instead of clearing the counter.
ClosedOkDecays(c) ==
  /\ Move(c, "closed_await", "idle")
  /\ failures' = failures - 1
  /\ UNCHANGED <<state, successes, openedAt, expected>>

ClosedOk(c) ==
  /\ Move(c, "closed_await", "idle")
  /\ failures' = 0
  /\ UNCHANGED <<state, successes, openedAt, expected>>

ClosedErr(c) ==
  /\ Move(c, "closed_await", IF failures + 1 >= Threshold THEN "open_load" ELSE "idle")
  /\ failures' = failures + 1
  /\ UNCHANGED <<state, successes, openedAt, expected>>

\* transition_to(Open), valid from Closed and from HalfOpen.
OpenLoad(c) ==
  /\ Move(c, "open_load", IF state = "Open" THEN "idle" ELSE "open_cas")
  /\ expected' = [expected EXCEPT ![c] = state]
  /\ UNCHANGED <<state, failures, successes, openedAt>>

OpenCas(c) ==
  /\ Move(c, "open_cas", IF state = expected[c] THEN "open_stamp" ELSE "idle")
  /\ state' = IF state = expected[c] THEN "Open" ELSE state
  /\ UNCHANGED <<failures, successes, openedAt, expected>>

OpenStamp(c) ==
  /\ Move(c, "open_stamp", "idle")
  /\ openedAt' = "Recent"
  /\ UNCHANGED <<state, failures, successes, expected>>

-----------------------------------------------------------------------------
(* f() completes in a call admitted in HalfOpen.                           *)

\* Mutant: off by one, the breaker closes one success late.
ProbeOkLate(c) ==
  /\ Move(c, "probe_await", IF successes + 1 > MaxSuccess THEN "reset_failures" ELSE "idle")
  /\ successes' = successes + 1
  /\ UNCHANGED <<state, failures, openedAt, expected>>

ProbeOk(c) ==
  /\ Move(c, "probe_await", IF successes + 1 >= MaxSuccess THEN "reset_failures" ELSE "idle")
  /\ successes' = successes + 1
  /\ UNCHANGED <<state, failures, openedAt, expected>>

\* The first store of trip() in a call that was at "from".
TripFrom(c, from) ==
  /\ Move(c, from, "trip_successes")
  /\ failures' = Threshold
  /\ UNCHANGED <<state, successes, openedAt, expected>>

ProbeErr(c) == TripFrom(c, "probe_await")

-----------------------------------------------------------------------------
(* trip() and reset(): separate stores, none conditional on the others.    *)

\* Mutant: a trip keeps the successes of the probe phase it ends.
TripKeepsSuccesses(c) ==
  /\ Move(c, "trip_successes", "trip_state")
  /\ UNCHANGED <<state, failures, successes, openedAt, expected>>

TripSuccesses(c) ==
  /\ Move(c, "trip_successes", "trip_state")
  /\ successes' = 0
  /\ UNCHANGED <<state, failures, openedAt, expected>>

TripState(c) ==
  /\ Move(c, "trip_state", "trip_stamp")
  /\ state' = "Open"
  /\ UNCHANGED <<failures, successes, openedAt, expected>>

TripStamp(c) ==
  /\ Move(c, "trip_stamp", "idle")
  /\ openedAt' = "Recent"
  /\ UNCHANGED <<state, failures, successes, expected>>

ResetFailures(c) ==
  /\ Move(c, "reset_failures", "reset_successes")
  /\ failures' = 0
  /\ UNCHANGED <<state, successes, openedAt, expected>>

ResetSuccesses(c) ==
  /\ Move(c, "reset_successes", "reset_state")
  /\ successes' = 0
  /\ UNCHANGED <<state, failures, openedAt, expected>>

ResetState(c) ==
  /\ Move(c, "reset_state", "reset_stamp")
  /\ state' = "Closed"
  /\ UNCHANGED <<failures, successes, openedAt, expected>>

ResetStamp(c) ==
  /\ Move(c, "reset_stamp", "idle")
  /\ openedAt' = "None"
  /\ UNCHANGED <<state, failures, successes, expected>>

-----------------------------------------------------------------------------
(* The environment: an operator, an aborted task, the clock.               *)

ForceOpen(c) == TripFrom(c, "idle")

ForceClose(c) ==
  /\ Move(c, "idle", "reset_failures")
  /\ UNCHANGED <<state, failures, successes, openedAt, expected>>

\* The task is aborted while f() is pending: the future is dropped.
Abort(c) ==
  /\ pc[c] \in Awaiting
  /\ pc' = [pc EXCEPT ![c] = "idle"]
  /\ UNCHANGED <<state, failures, successes, openedAt, expected>>

TimeoutElapses ==
  /\ openedAt = "Recent"
  /\ openedAt' = "Elapsed"
  /\ UNCHANGED <<state, failures, successes, pc, expected>>

-----------------------------------------------------------------------------
\* The steps a caller takes by itself between two awaits.
Proceed(c) ==
  \/ LoadState(c) \/ Admit(c) \/ Reject(c)
  \/ HalfOpenLoad(c) \/ HalfOpenCas(c)
  \/ OpenLoad(c) \/ OpenCas(c) \/ OpenStamp(c)
  \/ TripSuccesses(c) \/ TripState(c) \/ TripStamp(c)
  \/ ResetFailures(c) \/ ResetSuccesses(c) \/ ResetState(c) \/ ResetStamp(c)

Complete(c) == ClosedOk(c) \/ ClosedErr(c) \/ ProbeOk(c) \/ ProbeErr(c)

Disturb(c) == ForceOpen(c) \/ ForceClose(c) \/ Abort(c)

Next ==
  \/ \E c \in Callers : Call(c) \/ Proceed(c) \/ Complete(c) \/ Disturb(c)
  \/ TimeoutElapses

Spec == Init /\ [][Next]_vars

\* The runtime polls every ready task; f() has a timeout of its own; a poller
\* and a punch stream call again and again; the clock advances.
Fairness ==
  /\ \A c \in Callers : WF_vars(Call(c)) /\ WF_vars(Proceed(c)) /\ WF_vars(Complete(c))
  /\ WF_vars(TimeoutElapses)

FairSpec == Spec /\ Fairness

-----------------------------------------------------------------------------
(* Properties.                                                             *)

\* A success count that reached half_open_max_success always has a caller that
\* is about to clear it: whatever concurrent trips, resets and late probes do,
\* no interleaving of call() strands the counter at its limit (ProbeOk's
\* fetch_add followed by the separate stores of reset()).
CloseNeverLost ==
  successes >= MaxSuccess =>
    \E c \in Callers : pc[c] \in {"reset_failures", "reset_successes"}

\* The half-open state is entered from Open alone: a compare_exchange that
\* raced with a reset or a trip must not resurrect a probe phase
\* (transition_to's re-validation).
HalfOpenOnlyFromOpen == [][state' = "HalfOpen" => state \in {"Open", "HalfOpen"}]_state

\* Once f() stops failing, nobody forces the breaker and no probe is aborted,
\* it closes for good, though calls go on, through a closed breaker also
\* aborted ones, whatever races came before: Open left without a timestamp,
\* Closed left with one (should_probe treats a missing timestamp as elapsed;
\* HalfOpen admits the next caller).
Spoil(c) ==
  \/ ClosedErr(c) \/ ProbeErr(c) \/ ForceOpen(c) \/ ForceClose(c)
  \/ pc[c] = "probe_await" /\ Abort(c)

Recovers == <>[][\A c \in Callers : ~Spoil(c)]_vars => <>[](state = "Closed")

\* The breaker the header describes, in which the outcome of f() decides phase,
\* counters and timeout at once.
At(steps) == \E c \in Callers : pc[c] \in steps
Opening   == At({"open_load", "open_cas", "open_stamp"} \cup Tripping)
Closing   == At(Resetting)

Phase     == IF Opening THEN "Open" ELSE IF Closing THEN "Closed" ELSE state
Failed    == IF Closing THEN 0 ELSE failures
Succeeded == IF Closing \/ At(Tripping) THEN 0 ELSE successes
Cooled    == ~Opening /\ ~Closing /\ openedAt = "Elapsed"

Sequential == INSTANCE SequentialBreaker WITH
  FailureLimit <- Threshold, SuccessLimit <- MaxSuccess,
  phase <- Phase, failed <- Failed, succeeded <- Succeeded, cooled <- Cooled

=============================================================================
