---------------------------- MODULE PunchPipeline ----------------------------
(***************************************************************************)
(* The way of a punch from a terminal's log to the database:                *)
(*   event bus      crates/timekeep-core/src/events/mod.rs                  *)
(*   engine         crates/timekeep-engine/src/lib.rs                       *)
(*   dedup cache    crates/timekeep-engine/src/pipeline/dedup.rs            *)
(*   batch writer   crates/timekeep-engine/src/batch.rs                     *)
(*   storage        crates/timekeep-storage-sqlite/src/punch.rs             *)
(*   start and stop crates/timekeep-app/src/main.rs                         *)
(* A punch stands for its deduplication id.  The terminal keeps its log for *)
(* ever and every collection path (ADMS push, realtime listener, pollers)   *)
(* may publish any record of it again.                                      *)
(***************************************************************************)
EXTENDS Naturals, Sequences, FiniteSets

CONSTANTS
  Punches,
  BusCapacity,        \* EventBus::new(capacity)
  Capacity,           \* DedupCache.capacity
  MaxBatch,           \* BatchWriter's max_batch_size
  MaxQueue,           \* bound: punches in the writer's unbounded channel
  MaxCrashes,         \* bound: process deaths and orderly stops
  MaxFailures         \* bound: store_punches and punch_exists errors together

ASSUME PipelineAssumption ==
  /\ BusCapacity \in Nat \ {0} /\ Capacity \in Nat \ {0} /\ MaxBatch \in Nat \ {0}
  /\ MaxQueue \in Nat \ {0} /\ MaxCrashes \in Nat /\ MaxFailures \in Nat

VARIABLES
  log,        \* the terminal's attendance log
  phase,      \* running, stopping (after ctrl_c) or down
  bus,        \* the engine's broadcast receiver
  seen,       \* DedupCache.seen
  hand,       \* the punch handle_event works on: a sequence of at most one
  stage,      \* what it awaits: the lookup, what it answered, or the enrichment
  queue,      \* BatchWriter's channel
  buffer,     \* the writer's buffer
  batch,      \* the batch inside store_punches
  storing,    \* the writer is awaiting store_punches
  stored,     \* table attendance_punches: ids
  accepted,   \* history: how often this process let a punch through, up to 2
  evicted,    \* history: ids this process's cache has evicted
  early,      \* history: those of them that were not stored yet
  lost,       \* history: punches of batches whose store_punches failed
  crashes, storeFailures, lookupFailures

history == <<accepted, evicted, early>>
memory == <<bus, seen, hand, stage, queue, buffer, batch, storing, history>>
counts == <<crashes, storeFailures, lookupFailures, lost>>
vars   == <<log, phase, memory, stored, counts>>

Stages == {"idle", "asking", "found", "missing", "failed", "passed"}

Elements(s) == {s[i] : i \in DOMAIN s}

TypeOK ==
  /\ log \subseteq Punches
  /\ phase \in {"running", "stopping", "down"}
  /\ bus \in Seq(Punches) /\ Len(bus) <= BusCapacity
  /\ seen \subseteq Punches
  /\ hand \in Seq(Punches) /\ Len(hand) <= 1
  /\ stage \in Stages /\ (stage = "idle" <=> hand = <<>>)
  /\ queue \in Seq(Punches)
  /\ buffer \in Seq(Punches) /\ Len(buffer) < MaxBatch
  /\ batch \in Seq(Punches)
  /\ storing \in BOOLEAN
  /\ stored \subseteq Punches
  /\ accepted \in [Punches -> 0..2]
  /\ evicted \subseteq Punches /\ early \subseteq evicted
  /\ crashes \in 0..MaxCrashes
  /\ storeFailures \in Nat /\ lookupFailures \in Nat
  /\ storeFailures + lookupFailures <= MaxFailures
  /\ lost \subseteq Punches

EmptyMemory ==
  /\ bus' = <<>> /\ seen' = {} /\ hand' = <<>> /\ stage' = "idle"
  /\ queue' = <<>> /\ buffer' = <<>> /\ batch' = <<>> /\ storing' = FALSE
  /\ accepted' = [p \in Punches |-> 0] /\ evicted' = {} /\ early' = {}

Init ==
  /\ log = {} /\ phase = "running"
  /\ bus = <<>> /\ seen = {} /\ hand = <<>> /\ stage = "idle"
  /\ queue = <<>> /\ buffer = <<>> /\ batch = <<>> /\ storing = FALSE
  /\ accepted = [p \in Punches |-> 0] /\ evicted = {} /\ early = {}
  /\ stored = {}
  /\ crashes = 0 /\ storeFailures = 0 /\ lookupFailures = 0 /\ lost = {}

-----------------------------------------------------------------------------
(* Collection.                                                             *)

Record(p) ==
  /\ p \notin log
  /\ log' = log \cup {p}
  /\ UNCHANGED <<phase, memory, stored, counts>>

\* broadcast::send: the oldest event falls out of a full channel; without the
\* engine's receiver the event is dropped (then the step changes nothing).
Publish(p) ==
  /\ p \in log /\ phase = "running"
  /\ bus' = Append(IF Len(bus) = BusCapacity THEN Tail(bus) ELSE bus, p)
  /\ UNCHANGED <<log, phase, seen, hand, stage, queue, buffer, batch, storing, history, stored, counts>>

-----------------------------------------------------------------------------
(* Engine::handle_event: normalise and deduplicate, enrich, enqueue and     *)
(* distribute, one event after the other.                                   *)

Receive(p) == phase = "running" /\ hand = <<>> /\ bus # <<>> /\ Head(bus) = p /\ bus' = Tail(bus)

CacheHit(p) ==
  /\ Receive(p) /\ p \in seen
  /\ UNCHANGED <<log, phase, seen, hand, stage, queue, buffer, batch, storing, history, stored, counts>>

CacheMiss(p) ==
  /\ Receive(p) /\ p \notin seen
  /\ hand' = <<p>> /\ stage' = "asking"
  /\ UNCHANGED <<log, phase, seen, queue, buffer, batch, storing, history, stored, counts>>

\* punch_exists runs in the database, apart from the engine's task.
LookupAnswers ==
  /\ stage = "asking"
  /\ stage' = IF Head(hand) \in stored THEN "found" ELSE "missing"
  /\ UNCHANGED <<log, phase, bus, seen, hand, queue, buffer, batch, storing, history, stored, counts>>

LookupFails ==
  /\ stage = "asking" /\ storeFailures + lookupFailures < MaxFailures
  /\ lookupFailures' = lookupFailures + 1
  /\ stage' = "failed"
  /\ UNCHANGED <<log, phase, bus, seen, hand, queue, buffer, batch, storing, history, stored, crashes, storeFailures, lost>>

\* At capacity some half of the entries makes room, in HashSet order.
Evicted ==
  IF Cardinality(seen) < Capacity THEN {{}}
  ELSE {out \in SUBSET seen : Cardinality(out) = Capacity \div 2}

Remember(p) ==
  \E out \in Evicted :
    /\ seen' = (seen \ out) \cup {p}
    /\ evicted' = evicted \cup out
    /\ early' = early \cup (out \ stored)

StorageHit ==
  /\ stage = "found"
  /\ Remember(Head(hand))
  /\ hand' = <<>> /\ stage' = "idle"
  /\ UNCHANGED <<log, phase, bus, queue, buffer, batch, storing, accepted, stored, counts>>

\* Mutant: the fall-back to storage is missing.
AcceptUnchecked ==
  /\ stage \in {"found", "missing", "failed"}
  /\ Remember(Head(hand))
  /\ stage' = "passed"
  /\ accepted' = [accepted EXCEPT ![Head(hand)] = IF @ < 2 THEN @ + 1 ELSE 2]
  /\ UNCHANGED <<log, phase, bus, hand, queue, buffer, batch, storing, stored, counts>>

\* Mutant: the cache is filled from storage hits only.
AcceptForgets ==
  /\ stage \in {"missing", "failed"}
  /\ stage' = "passed"
  /\ accepted' = [accepted EXCEPT ![Head(hand)] = IF @ < 2 THEN @ + 1 ELSE 2]
  /\ UNCHANGED <<log, phase, bus, seen, hand, queue, buffer, batch, storing, evicted, early, stored, counts>>

\* A failed lookup lets the punch through.
Accept ==
  /\ stage \in {"missing", "failed"}
  /\ Remember(Head(hand))
  /\ stage' = "passed"
  /\ accepted' = [accepted EXCEPT ![Head(hand)] = IF @ < 2 THEN @ + 1 ELSE 2]
  /\ UNCHANGED <<log, phase, bus, hand, queue, buffer, batch, storing, stored, counts>>

\* After enrichment: BatchWriter::enqueue, then the distribution tasks.
Forward ==
  /\ stage = "passed" /\ Len(queue) < MaxQueue
  /\ queue' = queue \o hand
  /\ hand' = <<>> /\ stage' = "idle"
  /\ UNCHANGED <<log, phase, bus, seen, buffer, batch, storing, history, stored, counts>>

-----------------------------------------------------------------------------
(* The batch writer's task, which outlives the engine's run by the cleanup. *)

Flush(punches) == batch' = punches /\ buffer' = <<>> /\ storing' = TRUE

\* Mutant: the buffer's size is tested before the push.
CollectTestsFirst ==
  /\ phase # "down" /\ ~storing /\ queue # <<>>
  /\ queue' = Tail(queue)
  /\ IF Len(buffer) >= MaxBatch
     THEN Flush(buffer)
     ELSE buffer' = Append(buffer, Head(queue)) /\ UNCHANGED <<batch, storing>>
  /\ UNCHANGED <<log, phase, bus, seen, hand, stage, history, stored, counts>>

Collect ==
  /\ phase # "down" /\ ~storing /\ queue # <<>>
  /\ queue' = Tail(queue)
  /\ LET full == Append(buffer, Head(queue))
     IN IF Len(full) >= MaxBatch
        THEN Flush(full)
        ELSE buffer' = full /\ UNCHANGED <<batch, storing>>
  /\ UNCHANGED <<log, phase, bus, seen, hand, stage, history, stored, counts>>

\* Mutant: the interval flush hands over nothing.
IntervalDrops ==
  /\ phase # "down" /\ ~storing /\ buffer # <<>>
  /\ Flush(<<>>)
  /\ UNCHANGED <<log, phase, bus, seen, hand, stage, queue, history, stored, counts>>

\* Mutant: the interval waits for a full batch.
IntervalWaits ==
  /\ phase # "down" /\ ~storing /\ Len(buffer) >= MaxBatch
  /\ Flush(buffer)
  /\ UNCHANGED <<log, phase, bus, seen, hand, stage, queue, history, stored, counts>>

\* The flush interval elapsed; a punch may have arrived just then.
Interval ==
  /\ phase # "down" /\ ~storing /\ buffer # <<>>
  /\ Flush(buffer)
  /\ UNCHANGED <<log, phase, bus, seen, hand, stage, queue, history, stored, counts>>

\* Drop of the engine: the shutdown signal drains the channel.
Drain ==
  /\ phase = "stopping" /\ ~storing /\ queue \o buffer # <<>>
  /\ Flush(buffer \o queue)
  /\ queue' = <<>>
  /\ UNCHANGED <<log, phase, bus, seen, hand, stage, history, stored, counts>>

\* One transaction of INSERT OR IGNORE.
StoreOk ==
  /\ storing
  /\ stored' = stored \cup Elements(batch)
  /\ batch' = <<>> /\ storing' = FALSE
  /\ UNCHANGED <<log, phase, bus, seen, hand, stage, queue, buffer, history, counts>>

\* The error is logged; the batch is gone.
StoreFails ==
  /\ storing /\ storeFailures + lookupFailures < MaxFailures
  /\ storeFailures' = storeFailures + 1
  /\ lost' = lost \cup Elements(batch)
  /\ batch' = <<>> /\ storing' = FALSE
  /\ UNCHANGED <<log, phase, bus, seen, hand, stage, queue, buffer, history, stored, crashes, lookupFailures>>

-----------------------------------------------------------------------------
(* start_server: ctrl_c, the cleanup, the end of the process; a crash.      *)

\* select! drops engine.run(): the receiver and the event in hand with it.
CtrlC ==
  /\ phase = "running" /\ crashes < MaxCrashes
  /\ crashes' = crashes + 1
  /\ phase' = "stopping"
  /\ bus' = <<>> /\ hand' = <<>> /\ stage' = "idle"
  /\ UNCHANGED <<log, seen, queue, buffer, batch, storing, history, stored, storeFailures, lookupFailures, lost>>

\* Nothing awaits the writer: main returns and the runtime drops its task.
Exit ==
  /\ phase = "stopping"
  /\ phase' = "down"
  /\ EmptyMemory
  /\ UNCHANGED <<log, stored, counts>>

Crash ==
  /\ phase = "running" /\ crashes < MaxCrashes
  /\ crashes' = crashes + 1
  /\ phase' = "down"
  /\ EmptyMemory
  /\ UNCHANGED <<log, stored, storeFailures, lookupFailures, lost>>

Start ==
  /\ phase = "down"
  /\ phase' = "running"
  /\ UNCHANGED <<log, memory, stored, counts>>

-----------------------------------------------------------------------------
Consume(p) == CacheHit(p) \/ CacheMiss(p)

Lookup == LookupAnswers \/ LookupFails

Handle == Lookup \/ StorageHit \/ Accept \/ Forward

Write == Collect \/ Interval \/ Drain \/ StoreOk \/ StoreFails

Next ==
  \/ \E p \in Punches : Record(p) \/ Publish(p) \/ Consume(p)
  \/ Handle \/ Write
  \/ CtrlC \/ Exit \/ Crash \/ Start

Spec == Init /\ [][Next]_vars

\* The poller of timekeep-zkteco/src/lib.rs publishes the whole log every
\* minute, the process is restarted, the writer's task is polled, the statement
\* and the engine go on.  Of the copies of a punch that reach the head of the
\* bus the engine reads one some time: it is not outpaced for ever.
Fairness ==
  /\ \A p \in Punches : WF_vars(Publish(p)) /\ SF_vars(Consume(p))
  /\ WF_vars(Handle) /\ WF_vars(Collect \/ Interval \/ StoreOk \/ StoreFails)
  /\ WF_vars(Exit \/ Start)

FairSpec == Spec /\ Fairness

-----------------------------------------------------------------------------
(* Properties.                                                             *)

\* Punches the process let through and has still to store.
Pending == batch \o buffer \o queue \o (IF stage = "passed" THEN hand ELSE <<>>)
InFlight == Elements(Pending)

\* The dedup cache filters only what is safe: every id it remembers is stored,
\* on its way to storage, or of a batch whose flush failed (batch.rs:91-99),
\* whatever order copies, evictions, flushes, lookups and restarts come in.
RememberedIsKept == phase = "running" => seen \subseteq stored \cup InFlight \cup lost

\* A process lets a punch through at most once, whatever the bus drops, the
\* pollers repeat and a failed lookup admits, as long as the cache has not
\* evicted its id (dedup.rs:86 evicts whether the punch is stored or not).
AcceptedOnce == \A p \in Punches \ evicted : accepted[p] <= 1

\* What an earlier flush stored is never forwarded again, although the check
\* against storage and the flush are not atomic and a restart empties the cache,
\* with two exceptions: a lookup failed, or the cache evicted the id before the
\* flush, so that a copy whose lookup came first passes after it.
StoredNotReaccepted ==
  [][lookupFailures = 0 =>
       \A p \in stored \ early : accepted'[p] <= accepted[p]]_vars

\* Every record of a terminal's log reaches the database although the bus
\* overflows, the process crashes or stops, lookups fail and the cache evicts:
\* time and again the table holds the whole log.  Only a failed flush may lose
\* a record (the log and the table only grow).
EventuallyStored ==
  [](storeFailures = 0) => []<>(log \subseteq stored)

=============================================================================
