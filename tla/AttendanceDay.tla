---------------------------- MODULE AttendanceDay ----------------------------
(***************************************************************************)
(* One employee's day in the reports.  Punches reach the database in any    *)
(* order; each report reads them back through query_punches and computes    *)
(* the day from them: the calendar with AttendanceCalculator (timekeep-core *)
(* attendance_calculator.rs, work_day.rs), the timeline with code ported    *)
(* from the dashboard (timekeep-api routes/attendance.rs), the dashboard    *)
(* itself with modules/attendance/compute.ts.                               *)
(*                                                                         *)
(* Time is counted in units from midnight; policies and punches share them. *)
(***************************************************************************)
EXTENDS Integers, SequencesExt

CONSTANTS
  Horizon,    \* the last time of the day a punch may have
  MaxPunches, \* bound: punches of the day
  PageLimit,  \* ListParams::clamped_limit (200)
  Deadline,   \* work_start plus the grace period; Horizon if nobody is ever late
  WorkEnd,    \* work_end
  MinPresent  \* min_seconds_for_present

ASSUME DayAssumption ==
  /\ {Horizon, MaxPunches, Deadline, WorkEnd, MinPresent} \subseteq Nat
  /\ PageLimit \in Nat \ {0}

VARIABLE rows   \* the punches as query_punches orders them: newest first, ties by id

Kinds == {"regular", "break", "overtime"}

KindOf == [check_in |-> "regular", check_out |-> "regular", break_out |-> "break",
           break_in |-> "break", overtime_in |-> "overtime", overtime_out |-> "overtime"]

Statuses == DOMAIN KindOf

Punch == [time : 0..Horizon, status : Statuses]

Opens(p) == p.status \in {"check_in", "break_out", "overtime_in"}

\* A set with one element or none stands for an Option.
None == {}
The(option) == CHOOSE x \in option : TRUE

\* sort_by_key, which is stable.
Sorted(s, field) ==
  FoldLeft(LAMBDA acc, x : LET before(y) == y[field] <= x[field]
                               after(y)  == y[field] > x[field]
                           IN  SelectSeq(acc, before) \o <<x>> \o SelectSeq(acc, after),
           <<>>, s)

-----------------------------------------------------------------------------
(* Storage.                                                                *)

Descending(s) == \A i, j \in DOMAIN s : i < j => s[i].time >= s[j].time

\* Mutant: rows in the order they were stored.
ArriveUnordered(p) == Len(rows) < MaxPunches /\ rows' = Append(rows, p)

\* A terminal delivers a punch, perhaps long after it was made.  Ids are hashes, so
\* that punches of the same time are listed in any order.
Arrive(p) ==
  /\ Len(rows) < MaxPunches
  /\ \E i \in 1..Len(rows) + 1 :
       /\ Descending(InsertAt(rows, i, p))
       /\ rows' = InsertAt(rows, i, p)

\* query_punches_unpaged: the limit of 100 000 it asks for is clamped.
Page(s) == IF Len(s) > PageLimit THEN SubSeq(s, 1, PageLimit) ELSE s

\* What a report works on.
DayPunches(s) == Sorted(Page(s), "time")

-----------------------------------------------------------------------------
(* The calculator of the server.                                           *)

\* WorkPeriod::closed
Closed(from, to, kind) ==
  IF to < from THEN <<>> ELSE <<[check_in |-> from, check_out |-> {to}, kind |-> kind]>>

NoPairs == [periods |-> <<>>, open |-> [k \in Kinds |-> None], anomalies |-> {}]

\* Mutant: the time before a second start in a row is dropped.
EndedByCloser(acc, p) ==
  LET kind == KindOf[p.status]
      prev == acc.open[kind]
  IN  IF prev # None /\ ~Opens(p) THEN Closed(The(prev), p.time, kind)
      ELSE IF p.status = "check_out" THEN Closed(p.time, p.time, kind)
      ELSE <<>>

\* The period that punch p ends: the open one of its kind.  A check-out without
\* check-in is a period of no length.
Ended(acc, p) ==
  LET kind == KindOf[p.status]
      prev == acc.open[kind]
  IN  IF prev # None THEN Closed(The(prev), p.time, kind)
      ELSE IF p.status = "check_out" THEN Closed(p.time, p.time, kind)
      ELSE <<>>

\* The open periods after punch p.
StillOpen(acc, p) ==
  [acc.open EXCEPT ![KindOf[p.status]] = IF Opens(p) THEN {p.time} ELSE None]

\* Mutant: of two check-ins in a row only the second is reported.
NotedSecond(acc, p) ==
  IF p.status = "check_in" /\ acc.open["regular"] # None THEN {{p.time}}
  ELSE IF p.status = "check_out" /\ acc.open["regular"] = None THEN {{p.time}}
  ELSE {}

\* The times of the anomalies DuplicateCheckIn and OrphanedCheckOut.
Noted(acc, p) ==
  IF p.status = "check_in" /\ acc.open["regular"] # None THEN {acc.open["regular"] \cup {p.time}}
  ELSE IF p.status = "check_out" /\ acc.open["regular"] = None THEN {{p.time}}
  ELSE {}

\* One punch of pair_punches.
Pair(acc, p) ==
  [periods   |-> acc.periods \o Ended(acc, p),
   open      |-> StillOpen(acc, p),
   anomalies |-> acc.anomalies \cup Noted(acc, p)]

\* pair_punches
Pairs(s) ==
  LET end     == FoldLeft(Pair, NoPairs, s)
      left(k) == IF end.open[k] = None THEN <<>>
                 ELSE <<[check_in |-> The(end.open[k]), check_out |-> None, kind |-> k]>>
  IN  [periods   |-> Sorted(end.periods \o left("regular") \o left("break") \o left("overtime"), "check_in"),
       anomalies |-> end.anomalies \cup {{t} : t \in end.open["regular"]}]   \* MissingCheckOut

\* WorkDay::from_periods
Total(periods, kind) ==
  FoldLeft(LAMBDA sum, x : sum + (IF x.kind # kind \/ x.check_out = None THEN 0
                                  ELSE The(x.check_out) - x.check_in),
           0, periods)

Positive(n) == IF n < 0 THEN 0 ELSE n

\* net_work_seconds
Net(periods) == Positive(Total(periods, "regular") - Total(periods, "break"))

Regular(periods) == LET isRegular(x) == x.kind = "regular" IN SelectSeq(periods, isRegular)

\* Mutant: the last arrival decides.
ArrivesLateLast(periods) ==
  LET regular == Regular(periods) IN regular # <<>> /\ Last(regular).check_in > Deadline

\* is_late for the first regular period
ArrivesLate(periods) ==
  LET regular == Regular(periods) IN regular # <<>> /\ Head(regular).check_in > Deadline

\* is_early_leave for the last regular period
LeavesEarly(periods) ==
  LET regular == Regular(periods)
  IN  regular # <<>> /\ \E t \in Last(regular).check_out : t < WorkEnd

\* compute_status
DayStatus(periods) ==
  IF (\A i \in DOMAIN periods : periods[i].check_out # None) /\ Total(periods, "regular") < MinPresent
  THEN "HalfDay"
  ELSE IF ArrivesLate(periods) THEN "Late"
  ELSE IF LeavesEarly(periods) THEN "EarlyLeave"
  ELSE "Present"

\* annotate_punches_with_anomalies: the index holds the last of the punches of one
\* time, newest first as the list is.
Flagged(s) ==
  LET times == UNION Pairs(DayPunches(s)).anomalies
  IN  {i \in DOMAIN Page(s) : s[i].time \in times
         /\ \A j \in DOMAIN Page(s) : s[j].time = s[i].time => j <= i}

-----------------------------------------------------------------------------
(* The timeline: compute_summary, and computeAttendanceSummary likewise.   *)

Nothing == [open |-> None, present |-> 0, break |-> 0, overtime |-> 0]

\* Mutant: the end of a break is no start.
StartsButBreakIn(p) == p.status \in {"check_in", "break_out", "overtime_in"}

\* is_block_start
Starts(p) == p.status \in {"check_in", "break_out", "break_in", "overtime_in"}

\* add_duration
Added(acc, now) ==
  LET spent(statuses) ==
        IF \E p \in acc.open : p.status \in statuses
        THEN Positive(now - The(acc.open).time) ELSE 0
  IN  [acc EXCEPT !.present = @ + spent({"check_in", "break_in"}),
                  !.break = @ + spent({"break_out"}),
                  !.overtime = @ + spent({"overtime_in"})]

Summary(s) ==
  LET step(acc, p) == [Added(acc, p.time) EXCEPT !.open = IF Starts(p) THEN {p} ELSE None]
      end == FoldLeft(step, Nothing, s)
  IN  IF s = <<>> THEN Nothing ELSE Added(end, Last(s).time)

-----------------------------------------------------------------------------
(* The dashboard: classifyDayFromPunches.                                  *)

\* Mutant: an overtime period has no end.
PeriodEndSome(p) == p.status \in {"check_out", "break_in"}

\* PERIOD_START and PERIOD_END
PeriodStart(p) == p.status \in {"check_in", "break_out", "overtime_in"}
PeriodEnd(p) == p.status \in {"check_out", "break_in", "overtime_out"}

\* The seconds behind "hours".
Classified(s) ==
  LET spent(acc, p) == acc.total + (IF acc.open = None THEN 0
                                    ELSE p.time - The(acc.open))
      step(acc, p) ==
        IF PeriodStart(p) THEN [open |-> {p.time}, total |-> spent(acc, p)]
        ELSE IF PeriodEnd(p) THEN [open |-> None, total |-> spent(acc, p)]
        ELSE acc
  IN  FoldLeft(step, [open |-> None, total |-> 0], s).total

-----------------------------------------------------------------------------
Init == rows = <<>>

Next == \E p \in Punch : Arrive(p)

Spec == Init /\ [][Next]_rows

-----------------------------------------------------------------------------
(* Properties.                                                             *)

TypeOK == rows \in Seq(Punch) /\ Len(rows) <= MaxPunches /\ Descending(rows)

Work(s) == Pairs(DayPunches(s)).periods

\* The order in which the listed punches happened.
Before(i, j) == rows[i].time < rows[j].time \/ (rows[i].time = rows[j].time /\ i < j)

\* The next punch of the kind of punch i, if there is one.
Follows(i, j) ==
  LET kin == {k \in DOMAIN Page(rows) : KindOf[rows[k].status] = KindOf[rows[i].status]}
  IN  j \in kin /\ Before(i, j) /\ ~\E k \in kin : Before(i, k) /\ Before(k, j)

\* A time is within a period when the last punch of that kind up to then opened one
\* that some later punch ends.
Within(kind, t) ==
  \E i, j \in DOMAIN Page(rows) :
    /\ KindOf[rows[i].status] = kind /\ Opens(rows[i]) /\ Follows(i, j)
    /\ rows[i].time <= t /\ t < rows[j].time

\* work_day.rs: the hours of a day are the time spent inside its periods, however
\* late the punches came in, whatever is missing or doubled: no gap is counted twice
\* and none is left out.
TotalsAreTime ==
  \A kind \in Kinds :
    Total(Work(rows), kind) = Cardinality({t \in 0..Horizon : Within(kind, t)})

Distinct == \A i, j \in DOMAIN rows : rows[i].time = rows[j].time => i = j

\* anomaly.rs, punches.rs "Keep only punches flagged as anomalous": listed are the
\* check-outs without check-in, the check-ins without check-out, and the second of
\* two check-ins, while no two punches share a time.
FlaggedAreUnpaired ==
  Distinct => Flagged(rows) =
    {i \in DOMAIN Page(rows) :
       \/ rows[i].status = "check_in" /\ ~\E j \in DOMAIN rows : Follows(i, j) /\ ~Opens(rows[j])
       \/ rows[i].status \in {"check_in", "check_out"}
          /\ (rows[i].status = "check_in") = (\E h \in DOMAIN rows : Follows(h, i) /\ Opens(rows[h]))}

\* A day whose every period is opened and closed in turn, breaks within work and
\* overtime outside of it.
Orderly(s) ==
  LET step(place, p) ==
        CASE place = "away" /\ p.status = "check_in" -> "work"
          [] place = "work" /\ p.status = "check_out" -> "away"
          [] place = "work" /\ p.status = "break_out" -> "break"
          [] place = "break" /\ p.status = "break_in" -> "work"
          [] place = "away" /\ p.status = "overtime_in" -> "overtime"
          [] place = "overtime" /\ p.status = "overtime_out" -> "away"
          [] OTHER -> "lost"
  IN  FoldLeft(step, "away", s) = "away"

\* attendance.rs "The backend is the single source of truth": of an orderly day the
\* calendar and the timeline show the same hours, breaks and overtime, although two
\* algorithms compute them.
CalendarIsTimeline ==
  LET day == DayPunches(rows)
  IN  Orderly(day) =>
        /\ Summary(day).present = Net(Work(rows))
        /\ Summary(day).break = Total(Work(rows), "break")
        /\ Summary(day).overtime = Total(Work(rows), "overtime")

\* compute.ts "Status classification is duplicated from the Rust domain layer": of an
\* orderly day without breaks the dashboard computes the hours of the server.
SameHours ==
  LET day == DayPunches(rows)
  IN  Orderly(day) /\ (\A i \in DOMAIN day : KindOf[day[i].status] # "break") =>
        Classified(day) = Net(Work(rows)) + Total(Work(rows), "overtime")

\* The report a new punch changes is not rewritten in hindsight: whoever was late that
\* day stays late, or is half a day off, and who was in time is never late later on,
\* as long as punches come in as they happen and fit the page.
LateForGood ==
  [][Len(rows') <= PageLimit /\ Regular(Work(rows)) # <<>>
     /\ (\A i \in DOMAIN rows : rows[i].time < rows'[1].time) =>
       LET was == DayStatus(Work(rows))
           is  == DayStatus(Work(rows'))
       IN  /\ was = "Late" => is \in {"Late", "HalfDay"}
           /\ was \in {"Present", "EarlyLeave"} => is # "Late"]_rows

-----------------------------------------------------------------------------
(* What the documentation says and the code does not keep.                 *)

\* punch_store.rs:45 "Query ALL punches matching criteria within a date range", "no
\* limit clamping, no cursor-based pagination": the hours in a report are those of all
\* the punches stored for it.
EveryPunchCounts ==
  \A kind \in Kinds :
    Total(Work(rows), kind) = Total(Pairs(Sorted(rows, "time")).periods, kind)
=============================================================================
