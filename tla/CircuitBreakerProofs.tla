------------------------ MODULE CircuitBreakerProofs ------------------------
(***************************************************************************)
(* Theorems about CircuitBreaker, for any set of callers and any limits.   *)
(***************************************************************************)
EXTENDS BreakerOverlap, TLAPS

(* A caller's step list: every step of the algorithm, unfolded once. *)
LEMMA StepNames ==
  /\ Awaiting \subseteq Steps /\ Tripping \subseteq Steps /\ Resetting \subseteq Steps
  /\ {"idle", "load", "check", "half_load", "half_cas",
      "open_load", "open_cas", "open_stamp"} \subseteq Steps
  BY DEF Steps, Awaiting, Tripping, Resetting

-----------------------------------------------------------------------------
(* The atomics hold only values that State::from_u8 and the counters allow, *)
(* and every caller is at a step of call(), trip() or reset().              *)
THEOREM TypeCorrect == Spec => []TypeOK
<1>1. Init => TypeOK
  BY StepNames DEF Init, TypeOK, States, Stamps
<1>2. TypeOK /\ [Next]_vars => TypeOK'
  <2> SUFFICES ASSUME TypeOK, [Next]_vars
               PROVE  TypeOK'
    OBVIOUS
  <2> USE ConfigAssumption
  <2>1. ASSUME NEW c \in Callers, Call(c) \/ Disturb(c)
        PROVE  TypeOK'
    BY <2>1 DEF TypeOK, Call, Disturb, ForceOpen, ForceClose, Abort, TripFrom, Move,
                Steps, Tripping, Resetting, Awaiting
  <2>2. ASSUME NEW c \in Callers, Complete(c)
        PROVE  TypeOK'
    BY <2>2 DEF TypeOK, Complete, ClosedOk, ClosedErr, ProbeOk, ProbeErr, TripFrom, Move,
                Steps, Tripping, Resetting, Awaiting
  <2>3. ASSUME NEW c \in Callers,
               LoadState(c) \/ Admit(c) \/ Reject(c) \/ HalfOpenLoad(c) \/ HalfOpenCas(c)
        PROVE  TypeOK'
    BY <2>3 DEF TypeOK, LoadState, Admit, Reject, HalfOpenLoad, HalfOpenCas, Move,
                States, Steps, Awaiting
  <2>4. ASSUME NEW c \in Callers, OpenLoad(c) \/ OpenCas(c) \/ OpenStamp(c)
        PROVE  TypeOK'
    BY <2>4 DEF TypeOK, OpenLoad, OpenCas, OpenStamp, Move, States, Stamps, Steps
  <2>5. ASSUME NEW c \in Callers, TripSuccesses(c) \/ TripState(c) \/ TripStamp(c)
        PROVE  TypeOK'
    BY <2>5 DEF TypeOK, TripSuccesses, TripState, TripStamp, Move, States, Stamps,
                Steps, Tripping
  <2>6. ASSUME NEW c \in Callers,
               ResetFailures(c) \/ ResetSuccesses(c) \/ ResetState(c) \/ ResetStamp(c)
        PROVE  TypeOK'
    BY <2>6 DEF TypeOK, ResetFailures, ResetSuccesses, ResetState, ResetStamp, Move,
                States, Stamps, Steps, Resetting
  <2>7. CASE TimeoutElapses
    BY <2>7 DEF TypeOK, TimeoutElapses, Stamps
  <2>8. CASE UNCHANGED vars
    BY <2>8 DEF TypeOK, vars
  <2> QED
    BY <2>1, <2>2, <2>3, <2>4, <2>5, <2>6, <2>7, <2>8 DEF Next, Proceed
<1> QED
  BY <1>1, <1>2, PTL DEF Spec

-----------------------------------------------------------------------------
(* A success count at half_open_max_success is always about to be cleared:  *)
(* no number of concurrent probes, late successes and trips loses a close.  *)
(* The invariant is inductive on top of TypeOK: only ProbeOk can raise the  *)
(* counter to the limit and it leaves its caller in reset(), only that      *)
(* caller leaves those two steps, and it does so by storing zero.           *)
THEOREM CloseIsNeverLost == Spec => []CloseNeverLost
<1> DEFINE Clearing == {"reset_failures", "reset_successes"}
<1>1. Init => CloseNeverLost
  BY ConfigAssumption DEF Init, CloseNeverLost
<1>2. TypeOK /\ CloseNeverLost /\ [Next]_vars => CloseNeverLost'
  <2> SUFFICES ASSUME TypeOK, CloseNeverLost, [Next]_vars, successes' >= MaxSuccess
               PROVE  \E c \in Callers : pc'[c] \in Clearing
    BY DEF CloseNeverLost
  <2> USE ConfigAssumption
  <2>1. ASSUME NEW c \in Callers, ProbeOk(c)
        PROVE  \E d \in Callers : pc'[d] \in Clearing
    <3>1. CASE successes + 1 >= MaxSuccess
      BY <2>1, <3>1 DEF ProbeOk, Move, TypeOK
    <3>2. CASE ~(successes + 1 >= MaxSuccess)
      BY <2>1, <3>2 DEF ProbeOk, TypeOK
    <3> QED BY <3>1, <3>2
  <2>2. ASSUME NEW c \in Callers, ResetFailures(c)
        PROVE  \E d \in Callers : pc'[d] \in Clearing
    BY <2>2 DEF ResetFailures, Move, TypeOK
  <2>3. ASSUME NEW c \in Callers, ResetSuccesses(c) \/ TripSuccesses(c)
        PROVE  FALSE
    BY <2>3 DEF ResetSuccesses, TripSuccesses
  <2>4. ASSUME UNCHANGED successes,
               NEW c \in Callers, pc[c] \notin Clearing,
               \A d \in Callers \ {c} : pc'[d] = pc[d]
        PROVE  \E d \in Callers : pc'[d] \in Clearing
    <3>1. PICK d \in Callers : pc[d] \in Clearing
      BY <2>4 DEF CloseNeverLost
    <3> QED BY <2>4, <3>1
  <2>5. ASSUME NEW c \in Callers, Call(c) \/ Disturb(c)
        PROVE  \E d \in Callers : pc'[d] \in Clearing
    BY <2>5, <2>4 DEF Call, Disturb, ForceOpen, ForceClose, Abort, TripFrom, Move,
                      Awaiting, TypeOK
  <2>6. ASSUME NEW c \in Callers, ClosedOk(c) \/ ClosedErr(c) \/ ProbeErr(c)
        PROVE  \E d \in Callers : pc'[d] \in Clearing
    BY <2>6, <2>4 DEF ClosedOk, ClosedErr, ProbeErr, TripFrom, Move, TypeOK
  <2>7. ASSUME NEW c \in Callers,
               LoadState(c) \/ Admit(c) \/ Reject(c) \/ HalfOpenLoad(c) \/ HalfOpenCas(c)
        PROVE  \E d \in Callers : pc'[d] \in Clearing
    BY <2>7, <2>4 DEF LoadState, Admit, Reject, HalfOpenLoad, HalfOpenCas, Move, TypeOK, States
  <2>8. ASSUME NEW c \in Callers,
               \/ OpenLoad(c) \/ OpenCas(c) \/ OpenStamp(c) \/ TripState(c) \/ TripStamp(c)
               \/ ResetState(c) \/ ResetStamp(c)
        PROVE  \E d \in Callers : pc'[d] \in Clearing
    BY <2>8, <2>4 DEF OpenLoad, OpenCas, OpenStamp, TripState, TripStamp, ResetState,
                      ResetStamp, Move, TypeOK
  <2>9. CASE TimeoutElapses \/ UNCHANGED vars
    BY <2>9 DEF TimeoutElapses, vars, CloseNeverLost
  <2> QED
    BY <2>1, <2>2, <2>3, <2>5, <2>6, <2>7, <2>8, <2>9 DEF Next, Proceed, Complete
<1> QED
  BY <1>1, <1>2, TypeCorrect, PTL DEF Spec

-----------------------------------------------------------------------------
(* The half-open phase is entered from Open alone, whoever else trips,      *)
(* resets or probes meanwhile: a caller that reaches the compare_exchange   *)
(* expects Open, because HalfOpenLoad sent every other caller back.         *)
Armed == \A c \in Callers : pc[c] = "half_cas" => expected[c] = "Open"

LEMMA ArmedInvariant == Spec => []Armed
<1>1. Init => Armed
  BY DEF Init, Armed
<1>2. TypeOK /\ Armed /\ [Next]_vars => Armed'
  <2> SUFFICES ASSUME TypeOK, Armed, [Next]_vars, NEW d \in Callers, pc'[d] = "half_cas"
               PROVE  expected'[d] = "Open"
    BY DEF Armed
  <2>1. ASSUME NEW c \in Callers, Call(c) \/ Disturb(c) \/ Complete(c)
        PROVE  expected'[d] = "Open"
    BY <2>1 DEF Armed, Call, Disturb, ForceOpen, ForceClose, Abort, TripFrom, Complete,
                ClosedOk, ClosedErr, ProbeOk, ProbeErr, Move, TypeOK
  <2>2. ASSUME NEW c \in Callers, HalfOpenLoad(c) \/ HalfOpenCas(c)
        PROVE  expected'[d] = "Open"
    BY <2>2 DEF Armed, HalfOpenLoad, HalfOpenCas, Move, TypeOK, States
  <2>3. ASSUME NEW c \in Callers, LoadState(c) \/ Admit(c) \/ Reject(c)
        PROVE  expected'[d] = "Open"
    BY <2>3 DEF Armed, LoadState, Admit, Reject, Move, TypeOK, States
  <2>4. ASSUME NEW c \in Callers, OpenLoad(c) \/ OpenCas(c) \/ OpenStamp(c)
        PROVE  expected'[d] = "Open"
    BY <2>4 DEF Armed, OpenLoad, OpenCas, OpenStamp, Move, TypeOK
  <2>5. ASSUME NEW c \in Callers,
               \/ TripSuccesses(c) \/ TripState(c) \/ TripStamp(c)
               \/ ResetFailures(c) \/ ResetSuccesses(c) \/ ResetState(c) \/ ResetStamp(c)
        PROVE  expected'[d] = "Open"
    BY <2>5 DEF Armed, TripSuccesses, TripState, TripStamp, ResetFailures,
                ResetSuccesses, ResetState, ResetStamp, Move, TypeOK
  <2>6. CASE TimeoutElapses \/ UNCHANGED vars
    BY <2>6 DEF Armed, TimeoutElapses, vars
  <2> QED
    BY <2>1, <2>2, <2>3, <2>4, <2>5, <2>6 DEF Next, Proceed
<1> QED
  BY <1>1, <1>2, TypeCorrect, PTL DEF Spec

THEOREM HalfOpenEntry == Spec => HalfOpenOnlyFromOpen
<1>1. TypeOK /\ Armed /\ [Next]_vars => [state' = "HalfOpen" => state \in {"Open", "HalfOpen"}]_state
  <2> SUFFICES ASSUME TypeOK, Armed, [Next]_vars, state' = "HalfOpen", state # "HalfOpen"
               PROVE  state = "Open"
    OBVIOUS
  <2>1. ASSUME NEW c \in Callers, HalfOpenCas(c)
        PROVE  state = "Open"
    BY <2>1 DEF HalfOpenCas, Move, Armed
  <2>2. ASSUME NEW c \in Callers, Call(c) \/ Disturb(c) \/ Complete(c)
        PROVE  FALSE
    BY <2>2 DEF Call, Disturb, ForceOpen, ForceClose, Abort, TripFrom, Complete,
                ClosedOk, ClosedErr, ProbeOk, ProbeErr
  <2>3. ASSUME NEW c \in Callers, Proceed(c), ~HalfOpenCas(c)
        PROVE  FALSE
    BY <2>3 DEF Proceed, LoadState, Admit, Reject, HalfOpenLoad, OpenLoad, OpenCas,
                OpenStamp, TripSuccesses, TripState, TripStamp, ResetFailures,
                ResetSuccesses, ResetState, ResetStamp
  <2>4. CASE TimeoutElapses \/ UNCHANGED vars
    BY <2>4 DEF TimeoutElapses, vars
  <2> QED
    BY <2>1, <2>2, <2>3, <2>4 DEF Next
<1> QED
  BY <1>1, TypeCorrect, ArmedInvariant, PTL DEF Spec, HalfOpenOnlyFromOpen

-----------------------------------------------------------------------------
(* One caller at a time: the breaker of the header.                        *)

OpeningSteps == {"open_load", "open_cas", "open_stamp"} \cup Tripping

\* A breaker nobody is opening or closing runs its timeout when it is open, and
\* at no other time.
Settled == IF state = "Open" THEN openedAt # "None" ELSE openedAt # "Recent"

\* What a caller that is alone can rely on where it is: what it read still holds
\* and what it stored is still there.
Placed(c) ==
  /\ pc[c] \in {"closed_await", "open_load"} => state = "Closed"
  /\ pc[c] = "probe_await" => state = "HalfOpen"
  /\ pc[c] \in {"check", "half_load", "half_cas", "open_stamp", "trip_stamp"} => state = "Open"
  /\ pc[c] \in {"half_load", "half_cas"} => openedAt = "Elapsed"
  /\ pc[c] \in {"half_cas", "open_cas"} => expected[c] = state
  /\ pc[c] \in {"trip_state", "trip_stamp", "reset_state", "reset_stamp"} => successes = 0
  /\ pc[c] \in {"reset_successes", "reset_state", "reset_stamp"} => failures = 0
  /\ pc[c] = "reset_stamp" => state = "Closed"

Sound ==
  /\ ~Opening /\ ~Closing => Settled
  /\ \A c \in Callers : Placed(c)

\* While callers take turns.
Alone == ~overlapped => ~Overlap /\ Sound

View == <<Phase, Failed, Succeeded, Cooled>>

\* A caller that takes a step while no two overlap takes it alone, and where it
\* is decides what the breaker is doing.
LEMMA TakesTurn ==
  ASSUME TypeOK, ~Overlap, ~Overlap', NEW c \in Callers, NEW from, NEW to,
         Move(c, from, to), from # "idle" \/ to # "idle"
  PROVE  /\ pc[c] = from /\ pc'[c] = to
         /\ \A d \in Callers \ {c} : pc[d] = "idle" /\ pc'[d] = "idle"
         /\ (Opening <=> from \in OpeningSteps) /\ (Opening' <=> to \in OpeningSteps)
         /\ (Closing <=> from \in Resetting) /\ (Closing' <=> to \in Resetting)
         /\ (At(Tripping) <=> from \in Tripping) /\ (At(Tripping)' <=> to \in Tripping)
<1>1. pc[c] = from /\ pc'[c] = to /\ \A d \in Callers \ {c} : pc'[d] = pc[d]
  BY DEF Move, TypeOK
<1>2. \A d \in Callers \ {c} : pc[d] = "idle"
  BY <1>1 DEF Overlap
<1>3. \A S : "idle" \notin S => (At(S) <=> from \in S) /\ ((\E d \in Callers : pc'[d] \in S) <=> to \in S)
  BY <1>1, <1>2 DEF At
<1>4. "idle" \notin OpeningSteps /\ "idle" \notin Resetting /\ "idle" \notin Tripping
  BY DEF OpeningSteps, Resetting, Tripping
<1>5. (Opening <=> from \in OpeningSteps) /\ (Opening' <=> to \in OpeningSteps)
  BY <1>3, <1>4 DEF Opening, OpeningSteps, At
<1>6. (Closing <=> from \in Resetting) /\ (Closing' <=> to \in Resetting)
  BY <1>3, <1>4 DEF Closing, At
<1>7. (At(Tripping) <=> from \in Tripping) /\ (At(Tripping)' <=> to \in Tripping)
  BY <1>3, <1>4 DEF At
<1> QED BY <1>1, <1>2, <1>5, <1>6, <1>7

\* Calls and their way to f(): no step shows, but the one that starts the probes.
LEMMA AdmissionTurn ==
  ASSUME TypeOK, Sound, ~Overlap, ~Overlap', NEW c \in Callers,
         \/ Call(c) \/ LoadState(c) \/ Admit(c) \/ Reject(c) \/ HalfOpenLoad(c) \/ HalfOpenCas(c)
         \/ Abort(c)
  PROVE  Sound' /\ (Sequential!Next \/ UNCHANGED View)
<1> USE DEF Sound, Placed, OpeningSteps, Tripping, Resetting
<1>1. CASE Call(c)
  BY <1>1, TakesTurn DEF Call, View, Phase, Failed, Succeeded, Cooled, Settled
<1>2. CASE LoadState(c)
  BY <1>2, TakesTurn DEF LoadState, View, Phase, Failed, Succeeded, Cooled, Settled, TypeOK, States
<1>3. CASE Admit(c)
  <2>1. openedAt = "Elapsed" /\ state = "Open"
    <3>1. ~Opening /\ ~Closing /\ pc[c] = "check"
      BY <1>3, TakesTurn DEF Admit
    <3> QED BY <1>3, <3>1 DEF Admit, ShouldProbe, Settled, TypeOK, Stamps
  <2> QED BY <1>3, <2>1, TakesTurn DEF Admit, View, Phase, Failed, Succeeded, Cooled, Settled
<1>4. CASE Reject(c)
  BY <1>4, TakesTurn DEF Reject, View, Phase, Failed, Succeeded, Cooled, Settled
<1>5. CASE HalfOpenLoad(c)
  BY <1>5, TakesTurn DEF HalfOpenLoad, View, Phase, Failed, Succeeded, Cooled, Settled, TypeOK
<1>6. CASE HalfOpenCas(c)
  BY <1>6, TakesTurn DEF HalfOpenCas, View, Phase, Failed, Succeeded, Cooled, Settled, TypeOK,
                         Sequential!Next, Sequential!StartProbing
<1>7. CASE Abort(c)
  <2>1. PICK from \in Awaiting : Move(c, from, "idle")
    BY <1>7 DEF Abort, Move
  <2> QED BY <1>7, <2>1, TakesTurn DEF Abort, Awaiting, View, Phase, Failed, Succeeded, Cooled, Settled
<1> QED BY <1>1, <1>2, <1>3, <1>4, <1>5, <1>6, <1>7

\* f() ends in a call admitted in Closed: its outcome decides, the stores that
\* open the breaker follow unseen.
LEMMA ClosedTurn ==
  ASSUME TypeOK, Sound, ~Overlap, ~Overlap', NEW c \in Callers,
         ClosedOk(c) \/ ClosedErr(c) \/ OpenLoad(c) \/ OpenCas(c) \/ OpenStamp(c)
  PROVE  Sound' /\ (Sequential!Next \/ UNCHANGED View)
<1> USE DEF Sound, Placed, OpeningSteps, Tripping, Resetting
<1>1. CASE ClosedOk(c)
  BY <1>1, TakesTurn DEF ClosedOk, View, Phase, Failed, Succeeded, Cooled, Settled,
                         Sequential!Next, Sequential!Success
<1>2. CASE ClosedErr(c)
  <2>1. CASE failures + 1 >= Threshold
    <3>1. Move(c, "closed_await", "open_load")
      BY <1>2, <2>1 DEF ClosedErr
    <3> QED BY <1>2, <2>1, <3>1, TakesTurn
         DEF ClosedErr, View, Phase, Failed, Succeeded, Cooled, Settled,
             Sequential!Next, Sequential!Failure, Sequential!Open
  <2>2. CASE ~(failures + 1 >= Threshold)
    <3>1. Move(c, "closed_await", "idle")
      BY <1>2, <2>2 DEF ClosedErr
    <3>2. failures + 1 < Threshold
      BY <2>2, ConfigAssumption DEF TypeOK
    <3> QED BY <1>2, <3>1, <3>2, TakesTurn
         DEF ClosedErr, View, Phase, Failed, Succeeded, Cooled, Settled,
             Sequential!Next, Sequential!Failure
  <2> QED BY <2>1, <2>2
<1>3. CASE OpenLoad(c)
  <2>1. Move(c, "open_load", "open_cas") /\ state = "Closed"
    BY <1>3 DEF OpenLoad, Move
  <2> QED BY <1>3, <2>1, TakesTurn DEF OpenLoad, View, Phase, Failed, Succeeded, Cooled, Settled, TypeOK
<1>4. CASE OpenCas(c)
  <2>1. Move(c, "open_cas", "open_stamp") /\ state' = "Open"
    BY <1>4 DEF OpenCas, Move
  <2> QED BY <1>4, <2>1, TakesTurn DEF OpenCas, View, Phase, Failed, Succeeded, Cooled, Settled
<1>5. CASE OpenStamp(c)
  BY <1>5, TakesTurn DEF OpenStamp, View, Phase, Failed, Succeeded, Cooled, Settled
<1> QED BY <1>1, <1>2, <1>3, <1>4, <1>5

\* A probe ends, or the breaker is forced open: likewise for trip().
LEMMA TripTurn ==
  ASSUME TypeOK, Sound, ~Overlap, ~Overlap', NEW c \in Callers,
         ProbeErr(c) \/ ForceOpen(c) \/ TripSuccesses(c) \/ TripState(c) \/ TripStamp(c)
  PROVE  Sound' /\ (Sequential!Next \/ UNCHANGED View)
<1> USE DEF Sound, Placed, OpeningSteps, Tripping, Resetting
<1>1. CASE ProbeErr(c) \/ ForceOpen(c)
  <2>1. PICK from \in {"probe_await", "idle"} : TripFrom(c, from)
    BY <1>1 DEF ProbeErr, ForceOpen
  <2> QED BY <2>1, TakesTurn DEF TripFrom, View, Phase, Failed, Succeeded, Cooled, Settled,
                                 Sequential!Next, Sequential!Trip, Sequential!Open
<1>2. CASE TripSuccesses(c)
  BY <1>2, TakesTurn DEF TripSuccesses, View, Phase, Failed, Succeeded, Cooled, Settled
<1>3. CASE TripState(c)
  BY <1>3, TakesTurn DEF TripState, View, Phase, Failed, Succeeded, Cooled, Settled
<1>4. CASE TripStamp(c)
  BY <1>4, TakesTurn DEF TripStamp, View, Phase, Failed, Succeeded, Cooled, Settled
<1> QED BY <1>1, <1>2, <1>3, <1>4

\* A probe succeeds, or the breaker is forced shut: likewise for reset().
LEMMA ResetTurn ==
  ASSUME TypeOK, Sound, ~Overlap, ~Overlap', NEW c \in Callers,
         \/ ProbeOk(c) \/ ForceClose(c)
         \/ ResetFailures(c) \/ ResetSuccesses(c) \/ ResetState(c) \/ ResetStamp(c)
  PROVE  Sound' /\ (Sequential!Next \/ UNCHANGED View)
<1> USE DEF Sound, Placed, OpeningSteps, Tripping, Resetting
<1>1. CASE ProbeOk(c)
  <2>1. CASE successes + 1 >= MaxSuccess
    <3>1. Move(c, "probe_await", "reset_failures")
      BY <1>1, <2>1 DEF ProbeOk
    <3> QED BY <1>1, <2>1, <3>1, TakesTurn
         DEF ProbeOk, View, Phase, Failed, Succeeded, Cooled, Settled,
             Sequential!Next, Sequential!Close
  <2>2. CASE ~(successes + 1 >= MaxSuccess)
    <3>1. Move(c, "probe_await", "idle")
      BY <1>1, <2>2 DEF ProbeOk
    <3>2. successes + 1 < MaxSuccess
      BY <2>2, ConfigAssumption DEF TypeOK
    <3> QED BY <1>1, <3>1, <3>2, TakesTurn
         DEF ProbeOk, View, Phase, Failed, Succeeded, Cooled, Settled,
             Sequential!Next, Sequential!ProbeSuccess
  <2> QED BY <2>1, <2>2
<1>2. CASE ForceClose(c)
  BY <1>2, TakesTurn DEF ForceClose, View, Phase, Failed, Succeeded, Cooled, Settled,
                         Sequential!Next, Sequential!Close
<1>3. CASE ResetFailures(c)
  BY <1>3, TakesTurn DEF ResetFailures, View, Phase, Failed, Succeeded, Cooled, Settled
<1>4. CASE ResetSuccesses(c)
  BY <1>4, TakesTurn DEF ResetSuccesses, View, Phase, Failed, Succeeded, Cooled, Settled
<1>5. CASE ResetState(c)
  BY <1>5, TakesTurn DEF ResetState, View, Phase, Failed, Succeeded, Cooled, Settled
<1>6. CASE ResetStamp(c)
  BY <1>6, TakesTurn DEF ResetStamp, View, Phase, Failed, Succeeded, Cooled, Settled
<1> QED BY <1>1, <1>2, <1>3, <1>4, <1>5, <1>6

\* Every step of callers that take turns is a step of the header's breaker, or
\* none of its business.
LEMMA StepTurn ==
  ASSUME TypeOK, Sound, ~Overlap, ~Overlap', [Next]_vars
  PROVE  Sound' /\ (Sequential!Next \/ UNCHANGED View)
<1>1. CASE TimeoutElapses
  <2>1. /\ Opening' = Opening /\ Closing' = Closing /\ At(Tripping)' = At(Tripping)
        /\ UNCHANGED <<state, failures, successes, pc, expected>>
        /\ openedAt = "Recent" /\ openedAt' = "Elapsed"
    BY <1>1 DEF TimeoutElapses, Opening, Closing, At
  <2>2. Sound'
    BY <2>1 DEF Sound, Placed, Settled
  <2>3. CASE Opening \/ Closing
    BY <2>1, <2>2, <2>3 DEF View, Phase, Failed, Succeeded, Cooled
  <2>4. CASE ~Opening /\ ~Closing
    <3>1. state = "Open"
      BY <2>1, <2>4 DEF Sound, Settled
    <3>2. Sequential!CoolDown
      BY <2>1, <2>4, <3>1 DEF Sequential!CoolDown, Phase, Failed, Succeeded, Cooled
    <3> QED BY <2>2, <3>2 DEF Sequential!Next
  <2> QED BY <2>2, <2>3, <2>4
<1>2. CASE UNCHANGED vars
  <2>1. Opening' = Opening /\ Closing' = Closing /\ At(Tripping)' = At(Tripping)
    BY <1>2 DEF vars, Opening, Closing, At
  <2> QED BY <1>2, <2>1 DEF vars, Sound, Placed, Settled, View, Phase, Failed, Succeeded, Cooled
<1>3. ASSUME NEW c \in Callers, Call(c) \/ Proceed(c) \/ Complete(c) \/ Disturb(c)
      PROVE  Sound' /\ (Sequential!Next \/ UNCHANGED View)
  BY <1>3, AdmissionTurn, ClosedTurn, TripTurn, ResetTurn DEF Proceed, Complete, Disturb
<1> QED BY <1>1, <1>2, <1>3 DEF Next

\* Before anybody called, the breaker is the header's in its initial state.
LEMMA WatchedStart ==
  ASSUME WatchedInit
  PROVE  TypeOK /\ Alone /\ Sequential!Init
<1>1. TypeOK /\ Alone
  BY StepNames DEF WatchedInit, Init, TypeOK, States, Stamps, Alone, Overlap, Sound, Settled, Placed
<1>2. ~Opening /\ ~Closing /\ ~At(Tripping)
  BY DEF WatchedInit, Init, Opening, Closing, At, Tripping, Resetting
<1>3. Sequential!Init
  BY <1>2 DEF WatchedInit, Init, Sequential!Init, Phase, Failed, Succeeded, Cooled
<1> QED BY <1>1, <1>3

\* Until two overlap, every step is one of the header's breaker, or none.
LEMMA WatchedStep ==
  ASSUME TypeOK, Alone, [WatchedNext]_<<vars, overlapped>>
  PROVE  /\ Alone'
         /\ overlapped => overlapped'
         /\ \/ overlapped' \/ Sequential!Next
            \/ UNCHANGED View
<1>1. CASE WatchedNext
  <2>1. CASE overlapped'
    BY <2>1 DEF Alone
  <2>2. CASE ~overlapped'
    <3>1. ~overlapped /\ ~Overlap'
      BY <1>1, <2>2 DEF WatchedNext
    <3>2. Sound' /\ (Sequential!Next \/ UNCHANGED View)
      BY <1>1, <3>1, StepTurn DEF Alone, WatchedNext
    <3> QED BY <3>1, <3>2 DEF Alone
  <2> QED BY <2>1, <2>2
<1>2. CASE UNCHANGED <<vars, overlapped>>
  <2>1. Alone' /\ overlapped' = overlapped
    BY <1>2 DEF vars, Alone, Overlap, Sound, Settled, Placed, Opening, Closing, At
  <2>2. UNCHANGED View
    BY <1>2 DEF vars, View, Phase, Failed, Succeeded, Cooled, Opening, Closing, At
  <2> QED BY <2>1, <2>2
<1> QED BY <1>1, <1>2

LEMMA WatchedIsSpec == WatchedSpec => Spec
<1>1. WatchedInit => Init
  BY DEF WatchedInit
<1>2. [WatchedNext]_<<vars, overlapped>> => [Next]_vars
  BY DEF WatchedNext
<1> QED BY <1>1, <1>2, PTL DEF WatchedSpec, Spec

(* Callers that take turns see the breaker of the header, whose phase,       *)
(* counters and timeout change at once with the outcome of f(): the          *)
(* separate loads and stores of call(), transition_to, trip() and reset()    *)
(* show only where two callers overlap.                                      *)
THEOREM SequentialWhenAlone == WatchedSpec => SequentialUntilOverlap
<1>1. WatchedInit => TypeOK /\ Alone /\ Sequential!Init
  BY WatchedStart
<1>2. TypeOK /\ Alone /\ [WatchedNext]_<<vars, overlapped>> =>
        /\ Alone'
        /\ [overlapped' \/ Sequential!Next \/ UNCHANGED View]_<<vars, overlapped>>
  BY WatchedStep
<1> QED
  BY <1>1, <1>2, WatchedIsSpec, TypeCorrect, PTL DEF WatchedSpec, SequentialUntilOverlap, View

-----------------------------------------------------------------------------
(* The limits of the configuration.                                        *)

\* Every step of the header's breaker keeps its counters within the limits.
LEMMA LimitsKept ==
  ASSUME Failed \in Nat, Succeeded \in Nat,
         Sequential!WithinLimits, Sequential!Next \/ UNCHANGED View
  PROVE  Sequential!WithinLimits'
<1> USE DEF Sequential!WithinLimits, Sequential!Open, Sequential!Close, Sequential!Trip
<1>1. CASE UNCHANGED View
  BY <1>1 DEF View
<1>2. CASE Sequential!Success \/ Sequential!Failure
  BY <1>2, ConfigAssumption DEF Sequential!Success, Sequential!Failure
<1>3. CASE Sequential!CoolDown \/ Sequential!StartProbing
  BY <1>3, ConfigAssumption DEF Sequential!CoolDown, Sequential!StartProbing
<1>4. CASE Sequential!ProbeSuccess
  <2>1. CASE Succeeded + 1 < MaxSuccess /\ Succeeded' = Succeeded + 1 /\ UNCHANGED <<Phase, Failed, Cooled>>
    <3>1. Phase = "HalfOpen" /\ Phase' = "HalfOpen" /\ Failed' = Failed /\ (Cooled' <=> Cooled)
      BY <1>4, <2>1 DEF Sequential!ProbeSuccess
    <3>2. ~(Failed < Threshold) /\ Succeeded' < MaxSuccess /\ Cooled
      BY <2>1, <3>1
    <3> QED BY <3>1, <3>2
  <2>2. CASE Sequential!Close
    BY <2>2, ConfigAssumption
  <2> QED BY <1>4, <2>1, <2>2, Zenon DEF Sequential!ProbeSuccess
<1>5. CASE Sequential!ProbeFailure \/ Sequential!Trip \/ Sequential!Close
  BY <1>5, ConfigAssumption DEF Sequential!ProbeFailure
<1> QED BY <1>1, <1>2, <1>3, <1>4, <1>5 DEF Sequential!Next

\* call(), force_open and force_close by callers that take turns: the breaker is
\* closed exactly below failure_threshold, half-open below half_open_max_success
\* and never before recovery_timeout has passed.
THEOREM LimitsWhenAlone == WatchedSpec => []WithinLimitsUntilOverlap
<1> DEFINE Inv == Alone /\ WithinLimitsUntilOverlap
<1>1. WatchedInit => Inv
  BY WatchedStart, ConfigAssumption
     DEF WithinLimitsUntilOverlap, Sequential!Init, Sequential!WithinLimits
<1>2. TypeOK /\ Inv /\ [WatchedNext]_<<vars, overlapped>> => Inv'
  <2> SUFFICES ASSUME TypeOK, Inv, [WatchedNext]_<<vars, overlapped>>, ~overlapped'
               PROVE  Sequential!WithinLimits'
    BY WatchedStep DEF WithinLimitsUntilOverlap
  <2>1. ~overlapped /\ (Sequential!Next \/ UNCHANGED View)
    BY WatchedStep
  <2>2. Failed \in Nat /\ Succeeded \in Nat
    BY DEF TypeOK, Failed, Succeeded
  <2> QED BY <2>1, <2>2, LimitsKept DEF WithinLimitsUntilOverlap
<1>3. Inv => WithinLimitsUntilOverlap
  OBVIOUS
<1> QED BY <1>1, <1>2, <1>3, WatchedIsSpec, TypeCorrect, PTL DEF WatchedSpec
=============================================================================
