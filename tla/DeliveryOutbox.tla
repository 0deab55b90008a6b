--------------------------- MODULE DeliveryOutbox ---------------------------
(***************************************************************************)
(* What becomes of a punch that is to reach an integration endpoint:        *)
(*   - the tasks that DistributorHandle::distribute spawns and the Outbox   *)
(*     worker that retries from memory                                      *)
(*     (crates/timekeep-engine/src/distribution.rs),                        *)
(*   - the worker that retries the rows of pending_deliveries               *)
(*     (crates/timekeep-app/src/outbox_worker.rs),                          *)
(*   - the statements both run on pending_deliveries and                    *)
(*     dead_letter_deliveries (crates/timekeep-storage-sqlite/src/outbox.rs)*)
(*   - and a crash, which keeps the tables and loses the rest.              *)
(* Both workers share the tables; each statement is one step.  Backoff is   *)
(* abstracted to "due or not", the breaker to "may reject".                 *)
(***************************************************************************)
EXTENDS Naturals, Sequences, FiniteSets, SequencesExt

CONSTANTS
  Punches, Endpoints,
  Handles,       \* the distributor handles, in the order they are tried
  Outboxed,      \* endpoints whose handle was built with_outbox
  Persisting,    \* Outbox.storage is Some
  Deliveries,    \* the punches with the endpoints each is to reach
  Backlog,       \* deliveries an earlier process left in pending_deliveries
  Unreadable,    \* those of them whose event_json does not parse any more
  MaxRetries,    \* Outbox.max_retries
  MaxAttempts,   \* BACKOFF_SECONDS.len()
  MaxTasks,      \* bound: deliveries distributed by this process
  MaxFaults      \* bound: crashes and failed statements

ASSUME OutboxAssumption ==
  /\ Handles \in Seq(Endpoints) /\ Outboxed \subseteq Endpoints
  /\ Deliveries \subseteq Punches \X Endpoints /\ Persisting \in BOOLEAN
  /\ Backlog \subseteq Deliveries /\ Unreadable \subseteq Backlog
  /\ MaxRetries \in Nat /\ MaxAttempts \in Nat \ {0}
  /\ MaxTasks \in Nat /\ MaxFaults \in Nat

VARIABLES
  task,          \* task[d]: the distribution task of d
  inbox,         \* the Outbox channel
  entry,         \* the OutboxEntry in hand, a sequence of length 0 or 1
  batch,         \* snapshots of rows the DB worker has still to process
  row,           \* the row snapshot in hand, a sequence of length 0 or 1
  tried,         \* how many handles the DB worker has tried for it
  pc,            \* where each worker is
  pending,       \* table pending_deliveries: id -> [attempts, due]
  dead,          \* table dead_letter_deliveries: ids
  acked,         \* <<delivery, endpoint>>: its handle took the event
  stats,         \* DistributorStats per endpoint
  refused,       \* history: failed rounds per delivery and worker, capped
  faults

mem  == <<task, inbox, entry, batch, row, tried, pc, stats>>
db   == <<pending, dead>>
vars == <<mem, db, acked, refused, faults>>

Workers == {"outbox", "worker"}

\* Where a worker is; move_to_dead_letter is the last three steps.
Steps == {"rest", "try", "delete", "update", "bury",
          "move_select", "move_insert", "move_delete"}

Entry    == [delivery : Deliveries, retries : Nat, stored : BOOLEAN]
Snapshot == [delivery : Deliveries, attempts : Nat]
Counters == [delivered : Nat, dead : Nat, queued : Nat]

TypeOK ==
  /\ task \in [Deliveries -> {"none", "spawned", "sending", "ended"}]
  /\ inbox \in Seq(Entry) /\ entry \in Seq(Entry) /\ Len(entry) <= 1
  /\ batch \subseteq Snapshot
  /\ row \in Seq(Snapshot) /\ Len(row) <= 1
  /\ tried \in 0..Len(Handles)
  /\ pc \in [Workers -> Steps]
  /\ DOMAIN pending \subseteq Deliveries
  /\ \A d \in DOMAIN pending : pending[d] \in [attempts : 0..(MaxAttempts - 1), due : BOOLEAN]
  /\ dead \subseteq Deliveries
  /\ acked \subseteq Deliveries \X Endpoints
  /\ stats \in [Endpoints -> Counters]
  /\ refused \in [Deliveries -> [Workers -> Nat]]
  /\ faults \in 0..MaxFaults

NewEntry(d) == [delivery |-> d, retries |-> 0, stored |-> FALSE]

NewRow == [attempts |-> 0, due |-> FALSE]

NoStats == [e \in Endpoints |-> [delivered |-> 0, dead |-> 0, queued |-> 0]]

Init ==
  /\ task = [d \in Deliveries |-> "none"]
  /\ inbox = <<>> /\ entry = <<>>
  /\ batch = {} /\ row = <<>> /\ tried = 0
  /\ pc = [w \in Workers |-> "rest"]
  /\ pending = [d \in Backlog |-> NewRow]
  /\ dead = {}
  /\ acked = {}
  /\ stats = NoStats
  /\ refused = [d \in Deliveries |-> [w \in Workers |-> 0]]
  /\ faults = 0

Target(d) == d[2]

Go(w, from, to) == pc[w] = from /\ pc' = [pc EXCEPT ![w] = to]

Count(e, field, by) == stats' = [stats EXCEPT ![e][field] = @ + by]

\* The outbox moves one event from queued to another counter.
Settle(e, field) ==
  stats' = [stats EXCEPT ![e][field] = @ + 1, ![e].queued = @ - 1]

Fault == faults < MaxFaults /\ faults' = faults + 1

Refuse(d, w) ==
  refused' = [refused EXCEPT ![d][w] = IF @ < MaxAttempts + MaxRetries THEN @ + 1 ELSE @]

-----------------------------------------------------------------------------
(* The statements on pending_deliveries.                                   *)

Enqueued(d) ==
  [x \in DOMAIN pending \cup {d} |-> IF x = d THEN NewRow ELSE pending[x]]

DueRows ==
  {[delivery |-> d, attempts |-> pending[d].attempts] :
     d \in {x \in DOMAIN pending : pending[x].due}}

\* An UPDATE of a row that is gone changes nothing.
Updated(d, attempts) ==
  [x \in DOMAIN pending |->
     IF x = d THEN [attempts |-> attempts, due |-> FALSE] ELSE pending[x]]

Without(d) == [x \in DOMAIN pending \ {d} |-> pending[x]]

-----------------------------------------------------------------------------
(* DistributorHandle::distribute.                                          *)

Spawn(d) ==
  /\ task[d] = "none" /\ d \notin Backlog
  /\ Cardinality({x \in Deliveries : task[x] # "none"}) < MaxTasks
  /\ task' = [task EXCEPT ![d] = "spawned"]
  /\ UNCHANGED <<inbox, entry, batch, row, tried, pc, stats, db, acked, refused, faults>>

TaskDelivered(d) ==
  /\ task[d] = "spawned"
  /\ task' = [task EXCEPT ![d] = "ended"]
  /\ acked' = acked \cup {<<d, Target(d)>>}
  /\ Count(Target(d), "delivered", 1)
  /\ UNCHANGED <<inbox, entry, batch, row, tried, pc, db, refused, faults>>

\* Mutant: the entry is sent before it is counted.
TaskSendsUncounted(d) ==
  /\ task[d] = "spawned" /\ Target(d) \in Outboxed
  /\ task' = [task EXCEPT ![d] = "sending"]
  /\ UNCHANGED <<inbox, entry, batch, row, tried, pc, stats, db, acked, refused, faults>>

\* Err(CircuitOpen) with an outbox: the counter first, then the channel.
TaskQueues(d) ==
  /\ task[d] = "spawned" /\ Target(d) \in Outboxed
  /\ task' = [task EXCEPT ![d] = "sending"]
  /\ Count(Target(d), "queued", 1)
  /\ UNCHANGED <<inbox, entry, batch, row, tried, pc, db, acked, refused, faults>>

TaskSends(d) ==
  /\ task[d] = "sending"
  /\ task' = [task EXCEPT ![d] = "ended"]
  /\ inbox' = Append(inbox, NewEntry(d))
  /\ UNCHANGED <<entry, batch, row, tried, pc, stats, db, acked, refused, faults>>

\* Err(Inner), and Err(CircuitOpen) without an outbox: counted and dropped.
TaskFails(d) ==
  /\ task[d] = "spawned"
  /\ task' = [task EXCEPT ![d] = "ended"]
  /\ Count(Target(d), "dead", 1)
  /\ UNCHANGED <<inbox, entry, batch, row, tried, pc, db, acked, refused, faults>>

-----------------------------------------------------------------------------
(* Outbox::run: one entry at a time.                                       *)

Held == entry[1].delivery

\* recv(), then the insert on first receipt.  The retry delay follows.
OutboxReceive ==
  /\ Go("outbox", "rest", "try")
  /\ inbox # <<>>
  /\ inbox' = Tail(inbox)
  /\ LET e == Head(inbox)
         inserts == Persisting /\ ~e.stored
     IN \/ /\ inserts
           /\ entry' = <<[e EXCEPT !.stored = TRUE]>>
           /\ pending' = Enqueued(e.delivery)
           /\ UNCHANGED faults
        \/ /\ inserts /\ Fault
           /\ entry' = <<e>> /\ UNCHANGED pending
        \/ /\ ~inserts
           /\ entry' = <<e>> /\ UNCHANGED <<pending, faults>>
  /\ UNCHANGED <<task, batch, row, tried, stats, dead, acked, refused>>

\* No handle of that name: the entry is dropped, queued is not taken back.
OutboxDrop ==
  /\ Go("outbox", "try", "rest")
  /\ Target(Held) \notin ToSet(Handles)
  /\ entry' = <<>>
  /\ UNCHANGED <<task, inbox, batch, row, tried, stats, db, acked, refused, faults>>

OutboxDelivers ==
  /\ Go("outbox", "try", "delete")
  /\ Target(Held) \in ToSet(Handles)
  /\ acked' = acked \cup {<<Held, Target(Held)>>}
  /\ UNCHANGED <<task, inbox, entry, batch, row, tried, stats, db, refused, faults>>

\* delete_pending_delivery, its error ignored, then the counters.
OutboxDeletes ==
  /\ Go("outbox", "delete", "rest")
  /\ \/ entry[1].stored /\ pending' = Without(Held) /\ UNCHANGED faults
     \/ entry[1].stored /\ Fault /\ UNCHANGED pending
     \/ ~entry[1].stored /\ UNCHANGED <<pending, faults>>
  /\ Settle(Target(Held), "delivered")
  /\ entry' = <<>>
  /\ UNCHANGED <<task, inbox, batch, row, tried, dead, acked, refused>>

\* Mutant: the retry keeps its count.
OutboxRetriesForever ==
  /\ Go("outbox", "try", "rest")
  /\ Target(Held) \in ToSet(Handles)
  /\ entry[1].retries + 1 <= MaxRetries
  /\ inbox' = Append(inbox, entry[1])
  /\ entry' = <<>>
  /\ Refuse(Held, "outbox")
  /\ UNCHANGED <<task, batch, row, tried, stats, db, acked, faults>>

OutboxRetries ==
  /\ Go("outbox", "try", "rest")
  /\ Target(Held) \in ToSet(Handles)
  /\ entry[1].retries + 1 <= MaxRetries
  /\ inbox' = Append(inbox, [entry[1] EXCEPT !.retries = @ + 1])
  /\ entry' = <<>>
  /\ Refuse(Held, "outbox")
  /\ UNCHANGED <<task, batch, row, tried, stats, db, acked, faults>>

OutboxGivesUp ==
  /\ Go("outbox", "try", IF entry[1].stored THEN "move_select" ELSE "bury")
  /\ Target(Held) \in ToSet(Handles)
  /\ entry[1].retries + 1 > MaxRetries
  /\ Refuse(Held, "outbox")
  /\ UNCHANGED <<task, inbox, entry, batch, row, tried, stats, db, acked, faults>>

OutboxBuries ==
  /\ Go("outbox", "bury", "rest")
  /\ Settle(Target(Held), "dead")
  /\ entry' = <<>>
  /\ UNCHANGED <<task, inbox, batch, row, tried, db, acked, refused, faults>>

-----------------------------------------------------------------------------
(* run_outbox_worker and process_delivery.                                 *)

BackoffElapses(d) ==
  /\ d \in DOMAIN pending /\ ~pending[d].due
  /\ pending' = [pending EXCEPT ![d].due = TRUE]
  /\ UNCHANGED <<mem, dead, acked, refused, faults>>

\* list_pending_deliveries: a snapshot of the due rows.
WorkerPolls ==
  /\ pc["worker"] = "rest" /\ row = <<>> /\ batch = {}
  /\ batch' = DueRows
  /\ UNCHANGED <<task, inbox, entry, row, tried, pc, stats, db, acked, refused, faults>>

\* Mutant: the row stays on the list.
TakeUpAgain(s, to) ==
  /\ Go("worker", "rest", to)
  /\ row' = <<s>> /\ UNCHANGED batch
  /\ tried' = 0
  /\ UNCHANGED <<task, inbox, entry, stats, db, acked, refused, faults>>

TakeUp(s, to) ==
  /\ Go("worker", "rest", to)
  /\ row' = <<s>> /\ batch' = batch \ {s}
  /\ tried' = 0
  /\ UNCHANGED <<task, inbox, entry, stats, db, acked, refused, faults>>

WorkerTakes == \E s \in batch : s.delivery \notin Unreadable /\ TakeUp(s, "try")

\* The stored event does not parse: to the dead letters, without an attempt.
WorkerRejects == \E s \in batch : s.delivery \in Unreadable /\ TakeUp(s, "move_select")

InHand == row[1].delivery

\* The next handle takes the event, whichever endpoint the row names.
WorkerDelivers ==
  /\ Go("worker", "try", "delete")
  /\ tried < Len(Handles)
  /\ acked' = acked \cup {<<InHand, Handles[tried + 1]>>}
  /\ UNCHANGED <<task, inbox, entry, batch, row, tried, stats, db, refused, faults>>

WorkerNextHandle ==
  /\ pc["worker"] = "try" /\ tried < Len(Handles)
  /\ tried' = tried + 1
  /\ UNCHANGED <<task, inbox, entry, batch, row, pc, stats, db, acked, refused, faults>>

\* Mutant: the attempt about to be made is counted as made already.
WorkerSchedulesEarly ==
  /\ Go("worker", "try", IF row[1].attempts + 2 >= MaxAttempts THEN "move_select" ELSE "update")
  /\ tried = Len(Handles)
  /\ Refuse(InHand, "worker")
  /\ UNCHANGED <<task, inbox, entry, batch, row, tried, stats, db, acked, faults>>

\* Mutant: one attempt too many.
WorkerSchedulesLate ==
  /\ Go("worker", "try", IF row[1].attempts + 1 > MaxAttempts THEN "move_select" ELSE "update")
  /\ tried = Len(Handles)
  /\ Refuse(InHand, "worker")
  /\ UNCHANGED <<task, inbox, entry, batch, row, tried, stats, db, acked, faults>>

\* schedule_next_retry on the snapshot, not on the row.
WorkerSchedules ==
  /\ Go("worker", "try", IF row[1].attempts + 1 >= MaxAttempts THEN "move_select" ELSE "update")
  /\ tried = Len(Handles)
  /\ Refuse(InHand, "worker")
  /\ UNCHANGED <<task, inbox, entry, batch, row, tried, stats, db, acked, faults>>

WorkerUpdates ==
  /\ Go("worker", "update", "rest")
  /\ \/ pending' = Updated(InHand, row[1].attempts + 1) /\ UNCHANGED faults
     \/ Fault /\ UNCHANGED pending
  /\ row' = <<>>
  /\ UNCHANGED <<task, inbox, entry, batch, tried, stats, dead, acked, refused>>

WorkerDeletes ==
  /\ Go("worker", "delete", "rest")
  /\ \/ pending' = Without(InHand) /\ UNCHANGED faults
     \/ Fault /\ UNCHANGED pending
  /\ row' = <<>>
  /\ UNCHANGED <<task, inbox, entry, batch, tried, stats, dead, acked, refused>>

-----------------------------------------------------------------------------
(* move_to_dead_letter, run by either worker: three statements, the error   *)
(* of any ends it, and both callers go on as if it had succeeded.           *)

Moved(w) == IF w = "outbox" THEN Held ELSE InHand

MoveStep(w, from, to) ==
  /\ Go(w, from, IF to # "end" THEN to ELSE IF w = "outbox" THEN "bury" ELSE "rest")
  /\ row' = IF w = "worker" /\ to = "end" THEN <<>> ELSE row
  /\ UNCHANGED <<task, inbox, entry, batch, tried, stats, acked, refused>>

MoveSelect(w) ==
  /\ MoveStep(w, "move_select", IF Moved(w) \in DOMAIN pending THEN "move_insert" ELSE "end")
  /\ UNCHANGED <<db, faults>>

\* Mutant: a failed insert does not keep the row from being deleted.
MoveInsertUnchecked(w) ==
  /\ pc[w] = "move_insert" /\ Moved(w) \notin dead
  /\ MoveStep(w, "move_insert", "move_delete")
  /\ \/ dead' = dead \cup {Moved(w)} /\ UNCHANGED faults
     \/ Fault /\ UNCHANGED dead
  /\ UNCHANGED pending

\* The id is the primary key of dead_letter_deliveries.
MoveInsert(w) ==
  /\ pc[w] = "move_insert" /\ Moved(w) \notin dead
  /\ MoveStep(w, "move_insert", "move_delete")
  /\ dead' = dead \cup {Moved(w)}
  /\ UNCHANGED <<pending, faults>>

MoveConflict(w) ==
  /\ pc[w] = "move_insert" /\ Moved(w) \in dead
  /\ MoveStep(w, "move_insert", "end")
  /\ UNCHANGED <<db, faults>>

MoveDelete(w) ==
  /\ MoveStep(w, "move_delete", "end")
  /\ pending' = Without(Moved(w))
  /\ UNCHANGED <<dead, faults>>

MoveFails(w) ==
  /\ \E from \in {"move_select", "move_insert", "move_delete"} : MoveStep(w, from, "end")
  /\ Fault
  /\ UNCHANGED db

-----------------------------------------------------------------------------
\* A crash and the restart: channel, tasks, snapshots and counters are gone.
Crash ==
  /\ Fault
  /\ task' = [d \in Deliveries |-> IF task[d] = "none" THEN "none" ELSE "ended"]
  /\ inbox' = <<>> /\ entry' = <<>>
  /\ batch' = {} /\ row' = <<>> /\ tried' = 0
  /\ pc' = [w \in Workers |-> "rest"]
  /\ stats' = NoStats
  /\ UNCHANGED <<db, acked, refused>>

Distribute == \E d \in Deliveries : TaskDelivered(d) \/ TaskQueues(d) \/ TaskSends(d) \/ TaskFails(d)

Move(w) == MoveSelect(w) \/ MoveInsert(w) \/ MoveConflict(w) \/ MoveDelete(w) \/ MoveFails(w)

RunOutbox ==
  \/ OutboxReceive \/ OutboxDrop \/ OutboxDelivers \/ OutboxDeletes
  \/ OutboxRetries \/ OutboxGivesUp \/ OutboxBuries \/ Move("outbox")

RunWorker ==
  \/ WorkerTakes \/ WorkerRejects \/ WorkerDelivers \/ WorkerNextHandle \/ WorkerSchedules
  \/ WorkerUpdates \/ WorkerDeletes \/ Move("worker")

Next ==
  \/ \E d \in Deliveries : Spawn(d) \/ BackoffElapses(d)
  \/ Distribute \/ RunOutbox \/ WorkerPolls \/ RunWorker \/ Crash

Spec == Init /\ [][Next]_vars

\* Both workers are loops the runtime keeps polling, every delay is finite and
\* a polling worker lists the rows that are due.
Fairness ==
  /\ WF_vars(Distribute) /\ WF_vars(RunOutbox) /\ WF_vars(WorkerPolls) /\ WF_vars(RunWorker)
  /\ \A d \in Deliveries : WF_vars(BackoffElapses(d))

FairSpec == Spec /\ Fairness
-----------------------------------------------------------------------------
(* Properties.                                                             *)

\* The places in s of entries for endpoint e.
Places(s, e) == {i \in DOMAIN s : Target(s[i].delivery) = e}

Sending(e) == {d \in Deliveries : task[d] = "sending" /\ Target(d) = e}

\* The entries an endpoint has in memory: counted and not yet sent, in the
\* channel, in the worker's hands.
InMemory(e) ==
  Cardinality(Sending(e)) + Cardinality(Places(inbox, e)) + Cardinality(Places(entry, e))

\* The queued counter of DistributorStats is the endpoint's backlog in memory,
\* through retries, dead letters and crashes: it never undercounts (an u64 that
\* went below zero would wrap) and never drifts.
QueuedIsBacklog == \A e \in ToSet(Handles) : stats[e].queued = InMemory(e)

\* Some handle took the event of d.
Accepted(d) == \E e \in Endpoints : <<d, e>> \in acked

\* A delivery reaches the dead letters only after all its attempts failed, in
\* the outbox or in the DB worker, although both work on the same row and
\* schedules are computed from stale snapshots.  A stored event that does not
\* parse is the exception: it is buried without an attempt.
DeadOnlyWhenExhausted ==
  \A d \in dead \ Unreadable :
    refused[d]["worker"] >= MaxAttempts \/ refused[d]["outbox"] > MaxRetries

\* A stored delivery leaves pending_deliveries only once a handle took its
\* event or a dead letter records it, whatever statement fails and wherever a
\* crash falls.
RowNeverVanishes ==
  [][\A d \in DOMAIN pending \ DOMAIN pending' : d \in dead \/ Accepted(d)]_vars

\* The row whose event process_delivery is offering to the handles.
Trying == IF pc["worker"] = "try" THEN {InHand} ELSE {}

\* pending_delivery.rs:5, the lifecycle of a delivery an earlier process stored,
\* as far as the code keeps it.  What is delivered or wholly buried is never
\* offered or accepted again, whatever the tasks and the outbox do meanwhile;
\* a burial cut off before its DELETE leaves a state of its own, which is
\* retried.
Lifecycle == INSTANCE DeliveryLifecycle WITH
  Deliveries <- Backlog,
  trying     <- Trying \cap Backlog,
  accepted   <- {d \in Backlog : Accepted(d)},
  status     <- [d \in Backlog |-> IF d \in DOMAIN pending
                                   THEN IF d \in dead THEN "split" ELSE "pending"
                                   ELSE IF d \in dead THEN "dead" ELSE "delivered"]

ImplementsLifecycle == Lifecycle!Spec

\* pending_delivery.rs:22, "No further automatic retries": the worker begins no
\* attempt at a delivery that is a dead letter.  The code does, when the DELETE
\* of move_to_dead_letter failed or the process died before it, and when the
\* outbox buried a row the worker had already listed.
DeadAreNotRetried == [][Trying' \cap dead \subseteq Trying]_vars

\* Without crashes and storage errors both retry loops come to an end: in the
\* long run no entry is left in memory and no row in the table.
RetriesEnd == [](faults = 0) => <>[](inbox = <<>> /\ entry = <<>> /\ DOMAIN pending = {})

=============================================================================
