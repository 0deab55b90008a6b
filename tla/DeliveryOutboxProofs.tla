------------------------ MODULE DeliveryOutboxProofs ------------------------
(***************************************************************************)
(* Proofs about DeliveryOutbox, for any deliveries, handles, bounds on      *)
(* retries and number of crashes and failed statements.                     *)
(***************************************************************************)
EXTENDS DeliveryOutbox, FiniteSetTheorems, TLAPS

\* The types of everything but the counters.  A worker that is not at rest has
\* exactly one delivery in its hands.
Typed ==
  /\ inbox \in Seq(Entry)
  /\ entry \in Seq(Entry) /\ Len(entry) <= 1 /\ (pc["outbox"] # "rest" => Len(entry) = 1)
  /\ batch \subseteq Snapshot
  /\ row \in Seq(Snapshot) /\ Len(row) <= 1 /\ (pc["worker"] # "rest" => Len(row) = 1)
  /\ tried \in 0..Len(Handles)
  /\ pc \in [Workers -> Steps]
  /\ DOMAIN pending \subseteq Deliveries
  /\ \A d \in DOMAIN pending : pending[d] \in [attempts : Nat, due : BOOLEAN]
  /\ dead \subseteq Deliveries /\ acked \subseteq Deliveries \X Endpoints
  /\ refused \in [Deliveries -> [Workers -> Nat]]

Moving == {"move_select", "move_insert", "move_delete"}

\* What memory, snapshots and rows count, was refused at least as often.
Counted ==
  /\ \A i \in 1..Len(inbox) : refused[inbox[i].delivery]["outbox"] >= inbox[i].retries
  /\ \A i \in 1..Len(entry) : refused[entry[i].delivery]["outbox"] >= entry[i].retries
  /\ \A s \in batch : refused[s.delivery]["worker"] >= s.attempts
  /\ \A i \in 1..Len(row) : refused[row[i].delivery]["worker"] >= row[i].attempts
  /\ \A d \in DOMAIN pending : refused[d]["worker"] >= pending[d].attempts

\* A worker about to write a count or to bury has had the refusals for it, unless
\* the stored event does not parse.
Exhausted ==
  /\ pc["worker"] = "update" => refused[InHand]["worker"] > row[1].attempts
  /\ pc["worker"] \in Moving => InHand \in Unreadable \/ refused[InHand]["worker"] >= MaxAttempts
  /\ pc["outbox"] \in Moving => refused[Held]["outbox"] > MaxRetries

\* A worker about to delete a row has had the event taken or the row buried.
Justified ==
  /\ pc["outbox"] = "delete" => Accepted(Held)
  /\ pc["worker"] = "delete" => Accepted(InHand)
  /\ pc["outbox"] = "move_delete" => Held \in dead
  /\ pc["worker"] = "move_delete" => InHand \in dead

DeadInv == Typed /\ Counted /\ Exhausted /\ DeadOnlyWhenExhausted

-----------------------------------------------------------------------------
(* What a refusal, a place of the workers and an entry are worth.          *)

\* A refusal raises one count, or leaves it at a cap above both limits.
LEMMA RefuseRaises ==
  ASSUME Typed, NEW d \in Deliveries, NEW w \in Workers, Refuse(d, w)
  PROVE  /\ refused' \in [Deliveries -> [Workers -> Nat]]
         /\ \A x \in Deliveries, v \in Workers : refused'[x][v] >= refused[x][v]
         /\ refused'[d][w] > refused[d][w] \/ refused'[d][w] >= MaxAttempts + MaxRetries
BY OutboxAssumption DEF Typed, Refuse

\* The delivery in the hands of a worker that is not at rest.
LEMMA InHands ==
  ASSUME Typed
  PROVE  /\ pc["outbox"] # "rest" =>
              /\ entry[1] \in Entry /\ 1 \in 1..Len(entry)
              /\ Held \in Deliveries /\ entry[1].retries \in Nat
         /\ pc["worker"] # "rest" =>
              /\ row[1] \in Snapshot /\ 1 \in 1..Len(row)
              /\ InHand \in Deliveries /\ row[1].attempts \in Nat
<1>1. ASSUME pc["outbox"] # "rest"
      PROVE  entry[1] \in Entry /\ 1 \in 1..Len(entry)
  BY <1>1 DEF Typed
<1>2. ASSUME pc["worker"] # "rest"
      PROVE  row[1] \in Snapshot /\ 1 \in 1..Len(row)
  BY <1>2 DEF Typed
<1> QED BY <1>1, <1>2 DEF Held, InHand, Entry, Snapshot

\* One step of a worker changes where it is and where no other is.
LEMMA GoTyped ==
  ASSUME Typed, NEW w \in Workers, NEW from, NEW to \in Steps, Go(w, from, to)
  PROVE  /\ pc' \in [Workers -> Steps] /\ pc[w] = from /\ pc'[w] = to
         /\ \A v \in Workers \ {w} : pc'[v] = pc[v]
BY DEF Typed, Go

\* The types of what the sequences, the batch and the table hold.
LEMMA HeldTypes ==
  ASSUME Typed
  PROVE  /\ \A i \in 1..Len(inbox) : inbox[i].delivery \in Deliveries /\ inbox[i].retries \in Nat
         /\ \A i \in 1..Len(entry) : entry[i].delivery \in Deliveries /\ entry[i].retries \in Nat
         /\ \A s \in batch : s.delivery \in Deliveries /\ s.attempts \in Nat
         /\ \A i \in 1..Len(row) : row[i].delivery \in Deliveries /\ row[i].attempts \in Nat
         /\ \A d \in DOMAIN pending : d \in Deliveries /\ pending[d].attempts \in Nat
<1>1. \A x \in Entry : x.delivery \in Deliveries /\ x.retries \in Nat
  BY DEF Entry
<1>2. \A x \in Snapshot : x.delivery \in Deliveries /\ x.attempts \in Nat
  BY DEF Snapshot
<1>3. \A i \in 1..Len(inbox) : inbox[i] \in Entry
  BY DEF Typed
<1>4. \A i \in 1..Len(entry) : entry[i] \in Entry
  BY DEF Typed
<1>5. \A i \in 1..Len(row) : row[i] \in Snapshot
  BY DEF Typed
<1>6. \A s \in batch : s \in Snapshot
  BY DEF Typed
<1>7. \A d \in DOMAIN pending : d \in Deliveries /\ pending[d].attempts \in Nat
  BY DEF Typed
<1> QED BY <1>1, <1>2, <1>3, <1>4, <1>5, <1>6, <1>7

\* A refusal leaves what was counted, and the dead letters, justified.
LEMMA RefusalsGrow ==
  ASSUME Typed, Counted, DeadOnlyWhenExhausted,
         refused' \in [Deliveries -> [Workers -> Nat]],
         \A x \in Deliveries, v \in Workers : refused'[x][v] >= refused[x][v]
  PROVE  /\ \A i \in 1..Len(inbox) : refused'[inbox[i].delivery]["outbox"] >= inbox[i].retries
         /\ \A i \in 1..Len(entry) : refused'[entry[i].delivery]["outbox"] >= entry[i].retries
         /\ \A s \in batch : refused'[s.delivery]["worker"] >= s.attempts
         /\ \A i \in 1..Len(row) : refused'[row[i].delivery]["worker"] >= row[i].attempts
         /\ \A d \in DOMAIN pending : refused'[d]["worker"] >= pending[d].attempts
         /\ \A d \in dead \ Unreadable :
              refused'[d]["worker"] >= MaxAttempts \/ refused'[d]["outbox"] > MaxRetries
<1>1. \A x \in Deliveries, n \in Nat, v \in Workers : refused[x][v] >= n => refused'[x][v] >= n
  BY DEF Typed
<1>2. "outbox" \in Workers /\ "worker" \in Workers
  BY DEF Workers
<1>3. \A i \in 1..Len(inbox) : refused'[inbox[i].delivery]["outbox"] >= inbox[i].retries
  BY <1>1, <1>2, HeldTypes DEF Counted
<1>4. \A i \in 1..Len(entry) : refused'[entry[i].delivery]["outbox"] >= entry[i].retries
  BY <1>1, <1>2, HeldTypes DEF Counted
<1>5. /\ \A s \in batch : refused'[s.delivery]["worker"] >= s.attempts
      /\ \A i \in 1..Len(row) : refused'[row[i].delivery]["worker"] >= row[i].attempts
  BY <1>1, <1>2, HeldTypes DEF Counted
<1>6. \A d \in DOMAIN pending : refused'[d]["worker"] >= pending[d].attempts
  BY <1>1, <1>2, HeldTypes DEF Counted
<1>7. ASSUME NEW d \in dead \ Unreadable
      PROVE  refused'[d]["worker"] >= MaxAttempts \/ refused'[d]["outbox"] > MaxRetries
  <2>1. d \in Deliveries /\ MaxAttempts \in Nat /\ MaxRetries \in Nat
    BY OutboxAssumption DEF Typed
  <2>2. refused[d]["worker"] \in Nat /\ refused[d]["outbox"] \in Nat
        /\ refused'[d]["worker"] \in Nat /\ refused'[d]["outbox"] \in Nat
    BY <1>2, <2>1 DEF Typed
  <2>3. refused[d]["worker"] >= MaxAttempts \/ refused[d]["outbox"] > MaxRetries
    BY DEF DeadOnlyWhenExhausted
  <2>4. refused'[d]["worker"] >= refused[d]["worker"] /\ refused'[d]["outbox"] >= refused[d]["outbox"]
    BY <1>2, <2>1
  <2> QED BY <2>1, <2>2, <2>3, <2>4
<1> QED BY <1>3, <1>4, <1>5, <1>6, <1>7

\* The handles name endpoints.
LEMMA HandleIsEndpoint ==
  ASSUME Typed, tried < Len(Handles)
  PROVE  Handles[tried + 1] \in Endpoints /\ tried + 1 \in 0..Len(Handles)
BY OutboxAssumption DEF Typed

LEMMA TargetIsEndpoint ==
  ASSUME NEW d \in Deliveries
  PROVE  Target(d) \in Endpoints
BY OutboxAssumption DEF Target

\* The row the worker takes up leaves the list; it is offered to the handles, or
\* rejected because it does not parse.
LEMMA TakesUp ==
  ASSUME Typed, WorkerTakes \/ WorkerRejects
  PROVE  /\ pc' \in [Workers -> Steps] /\ pc["worker"] = "rest" /\ pc'["outbox"] = pc["outbox"]
         /\ UNCHANGED <<task, inbox, entry, stats, pending, dead, acked, refused, faults>>
         /\ tried' = 0
         /\ \E s \in batch :
              /\ row' = <<s>> /\ batch' = batch \ {s}
              /\ \/ pc'["worker"] = "try"
                 \/ pc'["worker"] = "move_select" /\ s.delivery \in Unreadable
<1>1. ASSUME NEW s \in batch, NEW to \in {"try", "move_select"}, TakeUp(s, to)
      PROVE  /\ pc' \in [Workers -> Steps] /\ pc["worker"] = "rest" /\ pc'["outbox"] = pc["outbox"]
             /\ UNCHANGED <<task, inbox, entry, stats, pending, dead, acked, refused, faults>>
             /\ tried' = 0 /\ row' = <<s>> /\ batch' = batch \ {s} /\ pc'["worker"] = to
  BY <1>1, GoTyped DEF TakeUp, Workers, Steps, db
<1> QED BY <1>1 DEF WorkerTakes, WorkerRejects

-----------------------------------------------------------------------------
(* Types.                                                                  *)

\* Moving a delivery to the dead letters keeps the types; it deletes rows and changes
\* none, and a worker goes on with the row it has or puts it down.
LEMMA MoveTyped ==
  ASSUME Typed, NEW w \in Workers, Move(w)
  PROVE  /\ Typed'
         /\ UNCHANGED <<inbox, entry, batch, refused, acked>>
         /\ pc'["worker"] # "rest" => row' = row
         /\ row' = row \/ row' = <<>>
         /\ \A v \in Workers \ {w} : pc'[v] = pc[v]
         /\ pc[w] \in Moving /\ pc'[w] \in Moving \cup {"rest", "bury"}
         /\ DOMAIN pending' \subseteq DOMAIN pending
         /\ \A d \in DOMAIN pending' : pending'[d] = pending[d]
         /\ dead' = dead \/ dead' = dead \cup {Moved(w)}
<1>1. PICK from \in Moving, to \in {"move_insert", "move_delete", "end"} : MoveStep(w, from, to)
  BY DEF Move, MoveSelect, MoveInsert, MoveConflict, MoveDelete, MoveFails, Moving
<1> DEFINE place == IF to # "end" THEN to ELSE IF w = "outbox" THEN "bury" ELSE "rest"
<1>2. place \in Steps /\ Go(w, from, place)
  BY <1>1 DEF MoveStep, Steps
<1>3. /\ pc' \in [Workers -> Steps] /\ pc[w] = from /\ pc'[w] = place
      /\ \A v \in Workers \ {w} : pc'[v] = pc[v]
  BY <1>2, GoTyped
<1>4. Moved(w) \in Deliveries
  BY <1>3, InHands DEF Moved, Moving, Workers
<1>5. /\ DOMAIN pending' \subseteq DOMAIN pending
      /\ \A d \in DOMAIN pending' : pending'[d] = pending[d]
  <2>1. pending' = pending \/ pending' = Without(Moved(w))
    BY DEF Move, MoveSelect, MoveInsert, MoveConflict, MoveDelete, MoveFails, db
  <2> QED BY <2>1 DEF Without
<1>6. dead' = dead \/ dead' = dead \cup {Moved(w)}
  BY DEF Move, MoveSelect, MoveInsert, MoveConflict, MoveDelete, MoveFails, db
<1>7. /\ row' = row \/ row' = <<>>
      /\ pc'["worker"] # "rest" => row' = row
  <2>1. CASE w = "worker" /\ to = "end"
    BY <1>1, <1>3, <2>1 DEF MoveStep
  <2>2. CASE ~(w = "worker" /\ to = "end")
    BY <1>1, <2>2 DEF MoveStep
  <2> QED BY <2>1, <2>2
<1>8. pc'["worker"] # "rest" => pc["worker"] # "rest"
  BY <1>3 DEF Moving, Workers
<1>9. row' \in Seq(Snapshot) /\ Len(row') <= 1 /\ (pc'["worker"] # "rest" => Len(row') = 1)
  <2>1. CASE row' = row
    BY <1>8, <2>1 DEF Typed
  <2>2. CASE row' = <<>> /\ pc'["worker"] = "rest"
    BY <2>2
  <2>3. row' = row \/ (row' = <<>> /\ pc'["worker"] = "rest")
    BY <1>7
  <2> QED BY <2>1, <2>2, <2>3
<1>10. pc'["outbox"] # "rest" => Len(entry') = 1
  BY <1>1, <1>3 DEF Typed, MoveStep, Moving, Workers
<1>11. UNCHANGED <<inbox, entry, batch, tried, refused, acked>>
  BY <1>1 DEF MoveStep
<1>12. Typed'
  BY <1>3, <1>4, <1>5, <1>6, <1>9, <1>10, <1>11 DEF Typed
<1>13. pc[w] \in Moving /\ pc'[w] \in Moving \cup {"rest", "bury"}
  BY <1>3 DEF Moving
<1> QED BY <1>3, <1>5, <1>6, <1>7, <1>11, <1>12, <1>13

\* A step of the distribution tasks or a passing backoff keeps the types.
LEMMA DistributeTyped ==
  ASSUME Typed,
         \/ \E d \in Deliveries : Spawn(d) \/ BackoffElapses(d)
         \/ Distribute \/ UNCHANGED vars
  PROVE  /\ Typed' /\ UNCHANGED <<entry, batch, row, pc, dead, refused>>
         /\ inbox' = inbox \/ \E d \in Deliveries : inbox' = Append(inbox, NewEntry(d))
         /\ DOMAIN pending' = DOMAIN pending
         /\ \A d \in DOMAIN pending : pending'[d].attempts = pending[d].attempts
         /\ acked \subseteq acked'
<1> USE DEF mem, db, vars
<1>1. ASSUME NEW d \in Deliveries, Spawn(d) \/ TaskQueues(d) \/ TaskFails(d) \/ UNCHANGED vars
      PROVE  /\ UNCHANGED <<inbox, entry, batch, row, tried, pc, pending, dead, acked, refused>>
  BY <1>1 DEF Spawn, TaskQueues, TaskFails
<1>2. ASSUME NEW d \in Deliveries, TaskDelivered(d)
      PROVE  /\ UNCHANGED <<inbox, entry, batch, row, tried, pc, pending, dead, refused>>
             /\ acked \subseteq acked' /\ acked' \subseteq Deliveries \X Endpoints
  BY <1>2, TargetIsEndpoint DEF TaskDelivered, Typed
<1>3. ASSUME NEW d \in Deliveries, TaskSends(d)
      PROVE  /\ UNCHANGED <<entry, batch, row, tried, pc, pending, dead, acked, refused>>
             /\ inbox' = Append(inbox, NewEntry(d)) /\ inbox' \in Seq(Entry)
  <2>1. NewEntry(d) \in Entry
    BY Zenon DEF NewEntry, Entry
  <2> QED BY <1>3, <2>1 DEF TaskSends, Typed
<1>4. ASSUME NEW d \in Deliveries, BackoffElapses(d)
      PROVE  /\ UNCHANGED <<inbox, entry, batch, row, tried, pc, dead, acked, refused>>
             /\ DOMAIN pending' = DOMAIN pending
             /\ \A x \in DOMAIN pending :
                  /\ pending'[x] \in [attempts : Nat, due : BOOLEAN]
                  /\ pending'[x].attempts = pending[x].attempts
  BY <1>4 DEF BackoffElapses, Typed
<1>5. UNCHANGED vars =>
        UNCHANGED <<inbox, entry, batch, row, tried, pc, pending, dead, acked, refused>>
  OBVIOUS
<1> QED BY <1>1, <1>2, <1>3, <1>4, <1>5 DEF Typed, Distribute

\* Every step keeps the types.
LEMMA StepTyped ==
  ASSUME Typed, [Next]_vars
  PROVE  Typed'
<1> USE DEF mem, db
<1>1. ASSUME \/ \E d \in Deliveries : Spawn(d) \/ BackoffElapses(d)
             \/ Distribute \/ UNCHANGED vars
      PROVE  Typed'
  BY <1>1, DistributeTyped
<1>2. ASSUME NEW w \in Workers, Move(w)
      PROVE  Typed'
  BY <1>2, MoveTyped
<1>3. ASSUME OutboxReceive
      PROVE  Typed'
  <2>1. Head(inbox) \in Entry /\ Tail(inbox) \in Seq(Entry)
    BY <1>3 DEF OutboxReceive, Typed
  <2>2. [Head(inbox) EXCEPT !.stored = TRUE] \in Entry
    BY <2>1, Zenon DEF Entry
  <2>3. entry' \in Seq(Entry) /\ Len(entry') = 1
    <3>1. entry' = <<[Head(inbox) EXCEPT !.stored = TRUE]>> \/ entry' = <<Head(inbox)>>
      BY <1>3, Zenon DEF OutboxReceive
    <3>2. ASSUME NEW x \in Entry, entry' = <<x>>
          PROVE  entry' \in Seq(Entry) /\ Len(entry') = 1
      BY <3>2
    <3> QED BY <2>1, <2>2, <3>1, <3>2
  <2>4. /\ DOMAIN pending' \subseteq Deliveries
        /\ \A d \in DOMAIN pending' : pending'[d] \in [attempts : Nat, due : BOOLEAN]
    <3>1. NewRow \in [attempts : Nat, due : BOOLEAN]
      BY Zenon DEF NewRow
    <3>2. pending' = pending \/ pending' = Enqueued(Head(inbox).delivery)
      BY <1>3 DEF OutboxReceive
    <3> QED BY <2>1, <3>1, <3>2 DEF Typed, Enqueued, Entry
  <2>5. pc' \in [Workers -> Steps] /\ pc'["worker"] = pc["worker"]
    BY <1>3, GoTyped DEF OutboxReceive, Workers, Steps
  <2> QED BY <1>3, <2>1, <2>3, <2>4, <2>5 DEF Typed, OutboxReceive
<1>4. ASSUME OutboxDrop \/ OutboxDelivers \/ OutboxGivesUp
      PROVE  Typed'
  <2>1. Held \in Deliveries /\ Len(entry) = 1
    BY <1>4, InHands DEF OutboxDrop, OutboxDelivers, OutboxGivesUp, Go, Typed
  <2>2. pc' \in [Workers -> Steps] /\ pc'["worker"] = pc["worker"]
    BY <1>4, GoTyped DEF OutboxDrop, OutboxDelivers, OutboxGivesUp, Workers, Steps
  <2>3. refused' \in [Deliveries -> [Workers -> Nat]]
    BY <1>4, <2>1, RefuseRaises DEF Typed, OutboxDrop, OutboxDelivers, OutboxGivesUp, Workers
  <2>4. entry' = entry \/ (entry' = <<>> /\ pc'["outbox"] = "rest")
    BY <1>4, GoTyped DEF OutboxDrop, OutboxDelivers, OutboxGivesUp, Workers, Steps
  <2>5. acked' = acked \/ acked' = acked \cup {<<Held, Target(Held)>>}
    BY <1>4 DEF OutboxDrop, OutboxDelivers, OutboxGivesUp
  <2>6. UNCHANGED <<inbox, batch, row, tried, pending, dead>>
    BY <1>4 DEF OutboxDrop, OutboxDelivers, OutboxGivesUp
  <2>7. entry' \in Seq(Entry) /\ Len(entry') <= 1 /\ (pc'["outbox"] # "rest" => Len(entry') = 1)
    <3>1. CASE entry' = entry
      BY <2>1, <3>1 DEF Typed
    <3>2. CASE entry' = <<>> /\ pc'["outbox"] = "rest"
      BY <3>2
    <3> QED BY <2>4, <3>1, <3>2
  <2>8. acked' \subseteq Deliveries \X Endpoints
    BY <2>1, <2>5, TargetIsEndpoint DEF Typed
  <2> QED BY <2>2, <2>3, <2>6, <2>7, <2>8 DEF Typed
<1>5. ASSUME OutboxDeletes \/ OutboxBuries
      PROVE  Typed'
  <2>1. /\ pc' \in [Workers -> Steps] /\ pc'["outbox"] = "rest" /\ pc'["worker"] = pc["worker"]
        /\ entry' = <<>>
    BY <1>5, GoTyped DEF OutboxDeletes, OutboxBuries, Workers, Steps
  <2>2. pending' = pending \/ pending' = Without(Held)
    BY <1>5 DEF OutboxDeletes, OutboxBuries
  <2>3. UNCHANGED <<inbox, batch, row, tried, dead, acked, refused>>
    BY <1>5 DEF OutboxDeletes, OutboxBuries
  <2> QED BY <2>1, <2>2, <2>3 DEF Typed, Without
<1>6. ASSUME OutboxRetries
      PROVE  Typed'
  <2>1. entry[1] \in Entry /\ Held \in Deliveries
    BY <1>6, InHands DEF OutboxRetries, Go
  <2>2. [entry[1] EXCEPT !.retries = @ + 1] \in Entry
    BY <2>1 DEF Entry
  <2>3. refused' \in [Deliveries -> [Workers -> Nat]]
    BY <1>6, <2>1, RefuseRaises DEF OutboxRetries, Workers
  <2>4. /\ pc' \in [Workers -> Steps] /\ pc'["outbox"] = "rest" /\ pc'["worker"] = pc["worker"]
    BY <1>6, GoTyped DEF OutboxRetries, Workers, Steps
  <2> QED BY <1>6, <2>2, <2>3, <2>4 DEF Typed, OutboxRetries
<1>7. ASSUME WorkerPolls
      PROVE  Typed'
  <2>1. DueRows \subseteq Snapshot
    BY DEF DueRows, Snapshot, Typed
  <2> QED BY <1>7, <2>1 DEF Typed, WorkerPolls
<1>8. ASSUME WorkerTakes \/ WorkerRejects
      PROVE  Typed'
  <2>1. PICK s \in batch : row' = <<s>> /\ batch' = batch \ {s}
    BY <1>8, TakesUp
  <2>2. row' \in Seq(Snapshot) /\ Len(row') = 1 /\ batch' \subseteq Snapshot
    BY <2>1 DEF Typed
  <2>3. 0 \in 0..Len(Handles)
    BY OutboxAssumption
  <2> QED BY <1>8, <2>2, <2>3, TakesUp DEF Typed
<1>9. ASSUME WorkerDelivers
      PROVE  Typed'
  <2>1. <<InHand, Handles[tried + 1]>> \in Deliveries \X Endpoints
    BY <1>9, InHands, HandleIsEndpoint DEF WorkerDelivers, Go
  <2>2. pc' \in [Workers -> Steps] /\ pc'["outbox"] = pc["outbox"]
    BY <1>9, GoTyped DEF WorkerDelivers, Workers, Steps
  <2>3. pc["worker"] = "try"
    BY <1>9 DEF WorkerDelivers, Go
  <2> QED BY <1>9, <2>1, <2>2, <2>3 DEF Typed, WorkerDelivers
<1>10. ASSUME WorkerNextHandle
      PROVE  Typed'
  BY <1>10, HandleIsEndpoint DEF Typed, WorkerNextHandle
<1>11. ASSUME WorkerSchedules
      PROVE  Typed'
  <2>1. pc["worker"] = "try" /\ InHand \in Deliveries
    BY <1>11, InHands DEF WorkerSchedules, Go
  <2>2. refused' \in [Deliveries -> [Workers -> Nat]]
    BY <1>11, <2>1, RefuseRaises DEF WorkerSchedules, Workers
  <2>3. pc' \in [Workers -> Steps] /\ pc'["outbox"] = pc["outbox"]
    BY <1>11, GoTyped DEF WorkerSchedules, Workers, Steps
  <2> QED BY <1>11, <2>1, <2>2, <2>3 DEF Typed, WorkerSchedules
<1>12. ASSUME WorkerUpdates \/ WorkerDeletes
      PROVE  Typed'
  <2>1. row[1].attempts + 1 \in Nat
    BY <1>12, InHands DEF WorkerUpdates, WorkerDeletes, Go
  <2>2. pending' \in {pending, Updated(InHand, row[1].attempts + 1), Without(InHand)}
    BY <1>12 DEF WorkerUpdates, WorkerDeletes
  <2>3. [attempts |-> row[1].attempts + 1, due |-> FALSE] \in [attempts : Nat, due : BOOLEAN]
    BY <2>1, Zenon
  <2>4. /\ DOMAIN pending' \subseteq Deliveries
        /\ \A d \in DOMAIN pending' : pending'[d] \in [attempts : Nat, due : BOOLEAN]
    BY <2>2, <2>3 DEF Typed, Updated, Without
  <2>5. /\ pc' \in [Workers -> Steps] /\ pc'["worker"] = "rest" /\ pc'["outbox"] = pc["outbox"]
        /\ row' = <<>>
    BY <1>12, GoTyped DEF WorkerUpdates, WorkerDeletes, Workers, Steps
  <2> QED BY <1>12, <2>4, <2>5 DEF Typed, WorkerUpdates, WorkerDeletes
<1>13. ASSUME Crash
      PROVE  Typed'
  BY <1>13, OutboxAssumption DEF Crash, Typed, Steps, Workers
<1> QED BY <1>1, <1>2, <1>3, <1>4, <1>5, <1>6, <1>7, <1>8, <1>9, <1>10, <1>11, <1>12, <1>13
     DEF Next, RunOutbox, RunWorker, Workers

-----------------------------------------------------------------------------
(* Dead letters.                                                           *)

\* Every step keeps what is counted refused, and buries only what is exhausted.
LEMMA StepDead ==
  ASSUME DeadInv, [Next]_vars
  PROVE  Counted' /\ Exhausted' /\ DeadOnlyWhenExhausted'
<1> DEFINE Goal == Counted' /\ Exhausted' /\ DeadOnlyWhenExhausted'
<1> USE DEF mem, db
<1>0. Typed /\ Counted /\ Exhausted /\ DeadOnlyWhenExhausted /\ Typed'
  BY StepTyped DEF DeadInv
<1>1. ASSUME \/ \E d \in Deliveries : Spawn(d) \/ BackoffElapses(d)
             \/ Distribute \/ UNCHANGED vars
      PROVE  Goal
  <2>1. /\ UNCHANGED <<entry, batch, row, pc, dead, refused>>
        /\ inbox' = inbox \/ \E d \in Deliveries : inbox' = Append(inbox, NewEntry(d))
        /\ DOMAIN pending' = DOMAIN pending
        /\ \A d \in DOMAIN pending : pending'[d].attempts = pending[d].attempts
    BY <1>0, <1>1, DistributeTyped
  <2>2. \A i \in 1..Len(inbox') : refused[inbox'[i].delivery]["outbox"] >= inbox'[i].retries
    <3>1. CASE inbox' = inbox
      BY <1>0, <3>1 DEF Counted
    <3>2. ASSUME NEW d \in Deliveries, inbox' = Append(inbox, NewEntry(d))
          PROVE  \A i \in 1..Len(inbox') : refused[inbox'[i].delivery]["outbox"] >= inbox'[i].retries
      <4>1. /\ Len(inbox') = Len(inbox) + 1 /\ inbox'[Len(inbox) + 1] = NewEntry(d)
            /\ \A i \in 1..Len(inbox) : inbox'[i] = inbox[i]
        BY <1>0, <3>2 DEF Typed
      <4>2. refused[d]["outbox"] \in Nat
        BY <1>0 DEF Typed, Workers
      <4>3. Len(inbox) \in Nat
        BY <1>0 DEF Typed
      <4> QED BY <1>0, <4>1, <4>2, <4>3 DEF NewEntry, Counted
    <3> QED BY <2>1, <3>1, <3>2
  <2> QED BY <1>0, <2>1, <2>2 DEF Counted, Exhausted, DeadOnlyWhenExhausted, Held, InHand
<1>2. ASSUME NEW w \in Workers, Move(w)
      PROVE  Goal
  <2>1. /\ UNCHANGED <<inbox, entry, batch, refused, acked>>
        /\ pc'["worker"] # "rest" => row' = row
        /\ row' = row \/ row' = <<>>
        /\ \A v \in Workers \ {w} : pc'[v] = pc[v]
        /\ pc[w] \in Moving /\ pc'[w] \in Moving \cup {"rest", "bury"}
        /\ DOMAIN pending' \subseteq DOMAIN pending
        /\ \A d \in DOMAIN pending' : pending'[d] = pending[d]
        /\ dead' = dead \/ dead' = dead \cup {Moved(w)}
    BY <1>0, <1>2, MoveTyped
  <2>2. Counted'
    BY <1>0, <2>1 DEF Counted
  <2>3. /\ pc'["worker"] = "update" => pc["worker"] = "update"
        /\ \A v \in Workers : pc'[v] \in Moving => pc[v] \in Moving
    BY <2>1 DEF Moving, Workers
  <2>4. Exhausted'
    BY <1>0, <2>1, <2>3 DEF Exhausted, Held, InHand, Moving, Workers
  <2>5. \/ Moved(w) \in Unreadable
        \/ refused[Moved(w)]["worker"] >= MaxAttempts \/ refused[Moved(w)]["outbox"] > MaxRetries
    BY <1>0, <2>1 DEF Exhausted, Moved, Workers
  <2> QED BY <1>0, <2>1, <2>2, <2>4, <2>5 DEF DeadOnlyWhenExhausted
<1>3. ASSUME OutboxReceive
      PROVE  Goal
  <2>1. /\ pc'["outbox"] = "try" /\ pc'["worker"] = pc["worker"]
        /\ UNCHANGED <<batch, row, dead, refused>>
    BY <1>0, <1>3, GoTyped DEF OutboxReceive, Workers, Steps
  <2>2. /\ Head(inbox) = inbox[1] /\ 1 \in 1..Len(inbox) /\ inbox[1] \in Entry
        /\ \A i \in 1..Len(inbox') : i + 1 \in 1..Len(inbox) /\ inbox'[i] = inbox[i + 1]
    BY <1>0, <1>3 DEF OutboxReceive, Typed
  <2>3. \A i \in 1..Len(entry') :
          entry'[i].delivery = inbox[1].delivery /\ entry'[i].retries = inbox[1].retries
    <3>1. entry' = <<[inbox[1] EXCEPT !.stored = TRUE]>> \/ entry' = <<inbox[1]>>
      BY <1>3, <2>2, Zenon DEF OutboxReceive
    <3>2. /\ [inbox[1] EXCEPT !.stored = TRUE].delivery = inbox[1].delivery
          /\ [inbox[1] EXCEPT !.stored = TRUE].retries = inbox[1].retries
      BY <2>2 DEF Entry
    <3>3. ASSUME NEW x, entry' = <<x>>, x.delivery = inbox[1].delivery, x.retries = inbox[1].retries
          PROVE  \A i \in 1..Len(entry') :
                   entry'[i].delivery = inbox[1].delivery /\ entry'[i].retries = inbox[1].retries
      BY <3>3
    <3> QED BY <3>1, <3>2, <3>3
  <2>4. \A d \in DOMAIN pending' :
          pending'[d] = NewRow \/ (d \in DOMAIN pending /\ pending'[d] = pending[d])
    BY <1>3 DEF OutboxReceive, Enqueued
  <2>5. \A d \in DOMAIN pending' : refused[d]["worker"] \in Nat
    BY <1>0, <2>1 DEF Typed, Workers
  <2>6. Counted'
    BY <1>0, <2>1, <2>2, <2>3, <2>4, <2>5 DEF Counted, NewRow
  <2> QED BY <1>0, <2>1, <2>6 DEF Exhausted, DeadOnlyWhenExhausted, InHand, Moving
<1>4. ASSUME OutboxDrop \/ OutboxDelivers \/ OutboxDeletes \/ OutboxBuries
      PROVE  Goal
  <2>1. /\ pc'["outbox"] \in {"rest", "delete"} /\ pc'["worker"] = pc["worker"]
        /\ UNCHANGED <<inbox, batch, row, dead, refused>> /\ entry' \in {entry, <<>>}
    BY <1>0, <1>4, GoTyped DEF OutboxDrop, OutboxDelivers, OutboxDeletes, OutboxBuries, Workers, Steps
  <2>2. pending' = pending \/ pending' = Without(Held)
    BY <1>4 DEF OutboxDrop, OutboxDelivers, OutboxDeletes, OutboxBuries
  <2>3. Counted'
    BY <1>0, <2>1, <2>2 DEF Counted, Without
  <2> QED BY <1>0, <2>1, <2>3 DEF Exhausted, DeadOnlyWhenExhausted, InHand, Moving
<1>5. ASSUME OutboxRetries \/ OutboxGivesUp
      PROVE  Goal
  <2>1. /\ entry[1] \in Entry /\ 1 \in 1..Len(entry) /\ Held \in Deliveries
        /\ entry[1].retries \in Nat
    BY <1>0, <1>5, InHands DEF OutboxRetries, OutboxGivesUp, Go
  <2>2. /\ \A x \in Deliveries, v \in Workers : refused'[x][v] >= refused[x][v]
        /\ \/ refused'[Held]["outbox"] > refused[Held]["outbox"]
           \/ refused'[Held]["outbox"] >= MaxAttempts + MaxRetries
    BY <1>0, <1>5, <2>1, RefuseRaises DEF OutboxRetries, OutboxGivesUp, Workers
  <2>3. refused[Held]["outbox"] >= entry[1].retries
    BY <1>0, <2>1 DEF Counted, Held
  <2>4. \A x \in Deliveries, v \in Workers : refused[x][v] \in Nat /\ refused'[x][v] \in Nat
    BY <1>0 DEF Typed
  <2>5. /\ UNCHANGED <<batch, row, pending, dead>>
        /\ pc'["worker"] = pc["worker"] /\ pc'["outbox"] \in {"rest", "move_select", "bury"}
        /\ pc'["outbox"] # "rest" => entry' = entry /\ entry[1].retries + 1 > MaxRetries
    BY <1>0, <1>5, GoTyped DEF OutboxRetries, OutboxGivesUp, Workers, Steps
  <2>6. \/ UNCHANGED <<inbox, entry>>
        \/ /\ inbox' = Append(inbox, [entry[1] EXCEPT !.retries = @ + 1]) /\ entry' = <<>>
           /\ entry[1].retries + 1 <= MaxRetries
    BY <1>5 DEF OutboxRetries, OutboxGivesUp
  <2>7. /\ \A i \in 1..Len(inbox) : refused'[inbox[i].delivery]["outbox"] >= inbox[i].retries
        /\ \A i \in 1..Len(entry) : refused'[entry[i].delivery]["outbox"] >= entry[i].retries
        /\ \A s \in batch : refused'[s.delivery]["worker"] >= s.attempts
        /\ \A i \in 1..Len(row) : refused'[row[i].delivery]["worker"] >= row[i].attempts
        /\ \A d \in DOMAIN pending : refused'[d]["worker"] >= pending[d].attempts
        /\ \A d \in dead \ Unreadable :
             refused'[d]["worker"] >= MaxAttempts \/ refused'[d]["outbox"] > MaxRetries
    BY <1>0, <2>2, RefusalsGrow DEF Typed
  <2>8. \A i \in 1..Len(inbox') : refused'[inbox'[i].delivery]["outbox"] >= inbox'[i].retries
    <3>1. CASE UNCHANGED inbox
      BY <2>7, <3>1
    <3>2. CASE inbox' = Append(inbox, [entry[1] EXCEPT !.retries = @ + 1]) /\ entry[1].retries + 1 <= MaxRetries
      <4>1. /\ Len(inbox') = Len(inbox) + 1 /\ Len(inbox) \in Nat
            /\ inbox'[Len(inbox) + 1] = [entry[1] EXCEPT !.retries = @ + 1]
            /\ \A i \in 1..Len(inbox) : inbox'[i] = inbox[i]
        BY <1>0, <3>2 DEF Typed
      <4>2. /\ [entry[1] EXCEPT !.retries = @ + 1].delivery = Held
            /\ [entry[1] EXCEPT !.retries = @ + 1].retries = entry[1].retries + 1
        BY <2>1 DEF Entry, Held
      <4>3. refused'[Held]["outbox"] >= entry[1].retries + 1
        BY <2>1, <2>2, <2>3, <2>4, <3>2, OutboxAssumption DEF Workers
      <4>4. ASSUME NEW i \in 1..Len(inbox')
            PROVE  refused'[inbox'[i].delivery]["outbox"] >= inbox'[i].retries
        <5>1. CASE i = Len(inbox) + 1
          BY <4>1, <4>2, <4>3, <5>1
        <5>2. CASE i \in 1..Len(inbox)
          BY <2>7, <4>1, <5>2
        <5> QED BY <4>1, <5>1, <5>2
      <4> QED BY <4>4
    <3> QED BY <2>6, <3>1, <3>2
  <2>9. \A i \in 1..Len(entry') : refused'[entry'[i].delivery]["outbox"] >= entry'[i].retries
    <3>1. CASE UNCHANGED entry
      BY <2>7, <3>1
    <3>2. CASE entry' = <<>>
      BY <3>2
    <3> QED BY <2>6, <3>1, <3>2
  <2>10. Exhausted'
    <3>1. pc'["outbox"] \in Moving => refused'[Held]["outbox"] > MaxRetries
      BY <2>1, <2>2, <2>3, <2>4, <2>5, OutboxAssumption DEF Moving, Workers
    <3>2. pc["worker"] # "rest" => InHand \in Deliveries /\ row[1].attempts \in Nat
      BY <1>0, InHands
    <3>3. /\ pc["worker"] = "update" => refused'[InHand]["worker"] > row[1].attempts
          /\ pc["worker"] \in Moving =>
               InHand \in Unreadable \/ refused'[InHand]["worker"] >= MaxAttempts
      BY <1>0, <2>2, <2>4, <3>2, OutboxAssumption DEF Exhausted, Moving, Workers
    <3> QED BY <2>5, <3>1, <3>3 DEF Exhausted, Held, InHand, Moving
  <2>11. DeadOnlyWhenExhausted'
    BY <2>5, <2>7 DEF DeadOnlyWhenExhausted
  <2>12. Counted'
    BY <2>5, <2>7, <2>8, <2>9 DEF Counted
  <2> QED BY <2>10, <2>11, <2>12
<1>6. ASSUME WorkerPolls
      PROVE  Goal
  <2>1. /\ UNCHANGED <<inbox, entry, row, pc, pending, dead, refused>> /\ batch' = DueRows
    BY <1>6 DEF WorkerPolls
  <2>2. \A s \in DueRows : refused[s.delivery]["worker"] >= s.attempts
    BY <1>0 DEF Counted, DueRows
  <2> QED BY <1>0, <2>1, <2>2 DEF Counted, Exhausted, DeadOnlyWhenExhausted, Held, InHand
<1>7. ASSUME WorkerTakes \/ WorkerRejects
      PROVE  Goal
  <2>1. PICK s \in batch :
          /\ row' = <<s>> /\ batch' = batch \ {s}
          /\ pc'["worker"] = "try" \/ (pc'["worker"] = "move_select" /\ s.delivery \in Unreadable)
    BY <1>0, <1>7, TakesUp
  <2>2. pc'["outbox"] = pc["outbox"] /\ UNCHANGED <<inbox, entry, pending, dead, refused>>
    BY <1>0, <1>7, TakesUp
  <2>3. Counted'
    BY <1>0, <2>1, <2>2 DEF Counted
  <2>4. InHand' = s.delivery
    BY <2>1 DEF InHand
  <2> QED BY <1>0, <2>1, <2>2, <2>3, <2>4 DEF Exhausted, DeadOnlyWhenExhausted, Held, Moving
<1>8. ASSUME WorkerDelivers \/ WorkerNextHandle \/ WorkerDeletes
      PROVE  Goal
  <2>1. /\ pc'["worker"] \in {"rest", "try", "delete"} /\ pc'["outbox"] = pc["outbox"]
        /\ UNCHANGED <<inbox, entry, batch, dead, refused>> /\ row' \in {row, <<>>}
    <3>1. CASE WorkerNextHandle
      BY <3>1 DEF WorkerNextHandle
    <3>2. CASE WorkerDelivers \/ WorkerDeletes
      BY <1>0, <3>2, GoTyped DEF WorkerDelivers, WorkerDeletes, Workers, Steps
    <3> QED BY <1>8, <3>1, <3>2
  <2>2. pending' = pending \/ pending' = Without(InHand)
    BY <1>8 DEF WorkerDelivers, WorkerNextHandle, WorkerDeletes
  <2>3. Counted'
    BY <1>0, <2>1, <2>2 DEF Counted, Without
  <2> QED BY <1>0, <2>1, <2>3 DEF Exhausted, DeadOnlyWhenExhausted, Held, Moving
<1>9. ASSUME WorkerSchedules
      PROVE  Goal
  <2>1. /\ row[1] \in Snapshot /\ 1 \in 1..Len(row) /\ InHand \in Deliveries
        /\ row[1].attempts \in Nat
    BY <1>0, <1>9, InHands DEF WorkerSchedules, Go
  <2>2. /\ \A x \in Deliveries, v \in Workers : refused'[x][v] >= refused[x][v]
        /\ \/ refused'[InHand]["worker"] > refused[InHand]["worker"]
           \/ refused'[InHand]["worker"] >= MaxAttempts + MaxRetries
    BY <1>0, <1>9, <2>1, RefuseRaises DEF WorkerSchedules, Workers
  <2>3. refused[InHand]["worker"] >= row[1].attempts
    BY <1>0, <2>1 DEF Counted, InHand
  <2>4. \A x \in Deliveries, v \in Workers : refused[x][v] \in Nat /\ refused'[x][v] \in Nat
    BY <1>0 DEF Typed
  <2>5. /\ UNCHANGED <<inbox, entry, batch, row, pending, dead>> /\ pc'["outbox"] = pc["outbox"]
        /\ pc'["worker"] = IF row[1].attempts + 1 >= MaxAttempts THEN "move_select" ELSE "update"
    BY <1>0, <1>9, GoTyped DEF WorkerSchedules, Workers, Steps
  <2>6. Counted' /\ DeadOnlyWhenExhausted'
    <3>1. /\ \A i \in 1..Len(inbox) : refused'[inbox[i].delivery]["outbox"] >= inbox[i].retries
          /\ \A i \in 1..Len(entry) : refused'[entry[i].delivery]["outbox"] >= entry[i].retries
          /\ \A s \in batch : refused'[s.delivery]["worker"] >= s.attempts
          /\ \A i \in 1..Len(row) : refused'[row[i].delivery]["worker"] >= row[i].attempts
          /\ \A d \in DOMAIN pending : refused'[d]["worker"] >= pending[d].attempts
          /\ \A d \in dead \ Unreadable :
               refused'[d]["worker"] >= MaxAttempts \/ refused'[d]["outbox"] > MaxRetries
      BY <1>0, <2>2, RefusalsGrow DEF Typed
    <3> QED BY <2>5, <3>1 DEF Counted, DeadOnlyWhenExhausted
  <2>7. Exhausted'
    <3>1. /\ pc'["worker"] = "update" => refused'[InHand]["worker"] > row[1].attempts
          /\ pc'["worker"] \in Moving => refused'[InHand]["worker"] >= MaxAttempts
      BY <2>1, <2>2, <2>3, <2>4, <2>5, OutboxAssumption DEF Moving, Workers
    <3>2. pc["outbox"] # "rest" => Held \in Deliveries
      BY <1>0, InHands
    <3>3. pc["outbox"] \in Moving => refused'[Held]["outbox"] > MaxRetries
      BY <1>0, <2>2, <2>4, <3>2, OutboxAssumption DEF Exhausted, Moving, Workers
    <3> QED BY <2>5, <3>1, <3>3 DEF Exhausted, Held, InHand
  <2> QED BY <2>6, <2>7
<1>10. ASSUME WorkerUpdates
      PROVE  Goal
  <2>1. /\ pc["worker"] = "update" /\ pc'["worker"] = "rest" /\ pc'["outbox"] = pc["outbox"]
        /\ UNCHANGED <<inbox, entry, batch, dead, refused>> /\ row' = <<>>
    BY <1>0, <1>10, GoTyped DEF WorkerUpdates, Workers, Steps
  <2>2. row[1].attempts \in Nat /\ refused[InHand]["worker"] \in Nat
    BY <1>0, <2>1, InHands DEF Typed, Workers
  <2>3. refused[InHand]["worker"] >= row[1].attempts + 1
    BY <1>0, <2>1, <2>2 DEF Exhausted
  <2>4. pending' = pending \/ pending' = Updated(InHand, row[1].attempts + 1)
    BY <1>10 DEF WorkerUpdates
  <2>5. Counted'
    BY <1>0, <2>1, <2>3, <2>4 DEF Counted, Updated
  <2> QED BY <1>0, <2>1, <2>5 DEF Exhausted, DeadOnlyWhenExhausted, Held, Moving
<1>11. ASSUME Crash
      PROVE  Goal
  <2>1. /\ inbox' = <<>> /\ entry' = <<>> /\ batch' = {} /\ row' = <<>>
        /\ pc'["worker"] = "rest" /\ pc'["outbox"] = "rest" /\ UNCHANGED <<pending, dead, refused>>
    BY <1>11 DEF Crash, Workers
  <2>2. Counted'
    BY <1>0, <2>1 DEF Counted
  <2> QED BY <1>0, <2>1, <2>2 DEF Exhausted, DeadOnlyWhenExhausted, Moving
<1> QED BY <1>1, <1>2, <1>3, <1>4, <1>5, <1>6, <1>7, <1>8, <1>9, <1>10, <1>11
     DEF Next, RunOutbox, RunWorker, Workers

\* Nothing is in memory, counted or buried at the start.
LEMMA InitDead ==
  ASSUME Init
  PROVE  DeadInv
<1>1. Typed
  BY OutboxAssumption DEF Init, Typed, NewRow, Workers, Steps
<1>2. Counted
  BY OutboxAssumption DEF Init, Counted, NewRow, Workers
<1>3. Exhausted
  BY DEF Init, Exhausted, Moving, Workers
<1> QED BY <1>1, <1>2, <1>3 DEF DeadInv, DeadOnlyWhenExhausted, Init

\* process_delivery, Outbox::run and move_to_dead_letter: a dead letter was
\* refused in every round one of the workers owes it.
THEOREM DeadLettersExhausted == Spec => []DeadOnlyWhenExhausted
<1>1. Init => DeadInv
  BY InitDead
<1>2. DeadInv /\ [Next]_vars => DeadInv'
  BY StepTyped, StepDead DEF DeadInv
<1>3. DeadInv => DeadOnlyWhenExhausted
  BY DEF DeadInv
<1> QED BY <1>1, <1>2, <1>3, PTL DEF Spec

-----------------------------------------------------------------------------
(* Rows.                                                                   *)

\* The row d is gone because d was accepted or is a dead letter.
Accounted(d) == d \in dead \/ Accepted(d)

\* Every step keeps what a deletion relies on, and deletes no other row.
LEMMA StepJustified ==
  ASSUME Typed, Justified, [Next]_vars
  PROVE  Justified' /\ \A d \in DOMAIN pending \ DOMAIN pending' : Accounted(d)
<1> DEFINE Goal == Justified' /\ \A d \in DOMAIN pending \ DOMAIN pending' : Accounted(d)
<1> USE DEF mem, db, Accepted
<1>1. ASSUME \/ \E d \in Deliveries : Spawn(d) \/ BackoffElapses(d)
             \/ Distribute \/ UNCHANGED vars
      PROVE  Goal
  <2>1. /\ UNCHANGED <<entry, batch, row, pc, dead, refused>>
        /\ DOMAIN pending' = DOMAIN pending /\ acked \subseteq acked'
    BY <1>1, DistributeTyped
  <2> QED BY <2>1 DEF Justified, Held, InHand
<1>2. ASSUME NEW w \in Workers, Move(w)
      PROVE  Goal
  <2>1. /\ UNCHANGED <<entry, acked>>
        /\ pc'["worker"] # "rest" => row' = row
        /\ \A v \in Workers \ {w} : pc'[v] = pc[v]
        /\ pc[w] \in Moving /\ pc'[w] \in Moving \cup {"rest", "bury"}
        /\ dead' = dead \/ dead' = dead \cup {Moved(w)}
    BY <1>2, MoveTyped
  <2>2. pc'[w] = "move_delete" => Moved(w) \in dead'
    <3>1. ASSUME NEW from, NEW to, MoveStep(w, from, to), pc'[w] = "move_delete"
          PROVE  to = "move_delete"
      BY <3>1 DEF MoveStep, Go, Typed
    <3> QED BY <1>2, <3>1 DEF Move, MoveSelect, MoveInsert, MoveConflict, MoveDelete, MoveFails
  <2>3. Justified'
    <3>1. CASE w = "outbox"
      BY <2>1, <2>2, <3>1 DEF Justified, Moved, Moving, Held, InHand, Workers
    <3>2. CASE w = "worker"
      BY <2>1, <2>2, <3>2 DEF Justified, Moved, Moving, Held, InHand, Workers
    <3> QED BY <3>1, <3>2 DEF Workers
  <2>4. \A d \in DOMAIN pending \ DOMAIN pending' : Accounted(d)
    <3>1. CASE UNCHANGED pending
      BY <3>1
    <3>2. CASE MoveDelete(w)
      <4>1. pc[w] = "move_delete" /\ pending' = Without(Moved(w))
        BY <3>2 DEF MoveDelete, MoveStep, Go
      <4>2. Moved(w) \in dead
        BY <4>1 DEF Justified, Moved, Workers
      <4> QED BY <4>1, <4>2 DEF Without, Accounted
    <3> QED BY <1>2, <3>1, <3>2 DEF Move, MoveSelect, MoveInsert, MoveConflict, MoveFails
  <2> QED BY <2>3, <2>4
<1>3. ASSUME OutboxReceive
      PROVE  Goal
  <2>1. /\ pc'["outbox"] = "try" /\ pc'["worker"] = pc["worker"] /\ UNCHANGED <<row, dead, acked>>
    BY <1>3, GoTyped DEF OutboxReceive, Workers, Steps
  <2>2. DOMAIN pending \subseteq DOMAIN pending'
    BY <1>3 DEF OutboxReceive, Enqueued
  <2> QED BY <2>1, <2>2 DEF Justified, InHand
<1>4. ASSUME OutboxDrop \/ OutboxRetries \/ OutboxGivesUp \/ OutboxBuries
      PROVE  Goal
  <2>1. /\ pc'["outbox"] \in {"rest", "move_select", "bury"} /\ pc'["worker"] = pc["worker"]
        /\ UNCHANGED <<row, pending, dead, acked>>
    BY <1>4, GoTyped DEF OutboxDrop, OutboxRetries, OutboxGivesUp, OutboxBuries, Workers, Steps
  <2> QED BY <2>1 DEF Justified, InHand
<1>5. ASSUME OutboxDelivers
      PROVE  Goal
  <2>1. /\ pc'["outbox"] = "delete" /\ pc'["worker"] = pc["worker"]
        /\ UNCHANGED <<entry, row, pending, dead>>
        /\ acked' = acked \cup {<<Held, Target(Held)>>}
    BY <1>5, GoTyped DEF OutboxDelivers, Workers, Steps
  <2>2. Target(Held) \in Endpoints
    BY <1>5, InHands, TargetIsEndpoint DEF OutboxDelivers, Go
  <2> QED BY <2>1, <2>2 DEF Justified, Held, InHand
<1>6. ASSUME OutboxDeletes
      PROVE  Goal
  <2>1. /\ pc["outbox"] = "delete" /\ pc'["outbox"] = "rest" /\ pc'["worker"] = pc["worker"]
        /\ UNCHANGED <<row, dead, acked>>
    BY <1>6, GoTyped DEF OutboxDeletes, Workers, Steps
  <2>2. pending' = pending \/ pending' = Without(Held)
    BY <1>6 DEF OutboxDeletes
  <2>3. Accounted(Held)
    BY <2>1 DEF Justified, Accounted
  <2> QED BY <2>1, <2>2, <2>3 DEF Justified, InHand, Without
<1>7. ASSUME WorkerPolls
      PROVE  Goal
  BY <1>7 DEF WorkerPolls, Justified, Held, InHand
<1>8. ASSUME WorkerTakes \/ WorkerRejects \/ WorkerSchedules
      PROVE  Goal
  <2>1. /\ pc'["worker"] \in {"try", "move_select", "update"} /\ pc'["outbox"] = pc["outbox"]
        /\ UNCHANGED <<entry, pending, dead, acked>>
    BY <1>8, GoTyped, TakesUp DEF WorkerSchedules, Workers, Steps
  <2> QED BY <2>1 DEF Justified, Held
<1>9. ASSUME WorkerDelivers
      PROVE  Goal
  <2>1. /\ pc'["worker"] = "delete" /\ pc'["outbox"] = pc["outbox"]
        /\ UNCHANGED <<entry, row, pending, dead>>
        /\ acked' = acked \cup {<<InHand, Handles[tried + 1]>>}
    BY <1>9, GoTyped DEF WorkerDelivers, Workers, Steps
  <2>2. Handles[tried + 1] \in Endpoints
    BY <1>9, HandleIsEndpoint DEF WorkerDelivers
  <2> QED BY <2>1, <2>2 DEF Justified, Held, InHand
<1>10. ASSUME WorkerNextHandle
      PROVE  Goal
  BY <1>10 DEF WorkerNextHandle, Justified, Held, InHand
<1>11. ASSUME WorkerUpdates
      PROVE  Goal
  <2>1. /\ pc'["worker"] = "rest" /\ pc'["outbox"] = pc["outbox"]
        /\ UNCHANGED <<entry, dead, acked>> /\ DOMAIN pending' = DOMAIN pending
    BY <1>11, GoTyped DEF WorkerUpdates, Workers, Steps, Updated
  <2> QED BY <2>1 DEF Justified, Held
<1>12. ASSUME WorkerDeletes
      PROVE  Goal
  <2>1. /\ pc["worker"] = "delete" /\ pc'["worker"] = "rest" /\ pc'["outbox"] = pc["outbox"]
        /\ UNCHANGED <<entry, dead, acked>>
    BY <1>12, GoTyped DEF WorkerDeletes, Workers, Steps
  <2>2. pending' = pending \/ pending' = Without(InHand)
    BY <1>12 DEF WorkerDeletes
  <2>3. Accounted(InHand)
    BY <2>1 DEF Justified, Accounted
  <2> QED BY <2>1, <2>2, <2>3 DEF Justified, Held, Without
<1>13. ASSUME Crash
      PROVE  Goal
  BY <1>13 DEF Crash, Justified, Workers
<1> QED BY <1>1, <1>2, <1>3, <1>4, <1>5, <1>6, <1>7, <1>8, <1>9, <1>10, <1>11, <1>12, <1>13
     DEF Next, RunOutbox, RunWorker, Workers

\* Outbox::run, process_delivery and move_to_dead_letter: a stored delivery is
\* deleted only after a handle took the event or a dead letter recorded it.
THEOREM RowsAccounted == Spec => RowNeverVanishes
<1>1. Init => Typed /\ Justified
  BY InitDead DEF DeadInv, Init, Justified, Workers
<1>2. Typed /\ Justified /\ [Next]_vars => Typed' /\ Justified'
  BY StepTyped, StepJustified
<1>3. Typed /\ Justified /\ [Next]_vars =>
        [\A d \in DOMAIN pending \ DOMAIN pending' :
           d \in dead \/ Accepted(d)]_vars
  BY StepJustified DEF Accounted
<1> QED BY <1>1, <1>2, <1>3, PTL DEF Spec, RowNeverVanishes

-----------------------------------------------------------------------------
(* One entry per delivery.                                                 *)

\* A delivery has at most one entry in the outbox, and none before its task has
\* sent it; no task handles what an earlier process stored.
Single ==
  /\ task \in [Deliveries -> {"none", "spawned", "sending", "ended"}]
  /\ \A d \in Backlog : task[d] = "none"
  /\ \A i \in 1..Len(inbox) : task[inbox[i].delivery] = "ended"
  /\ \A i \in 1..Len(entry) : task[entry[i].delivery] = "ended"
  /\ \A i, j \in 1..Len(inbox) : inbox[i].delivery = inbox[j].delivery => i = j
  /\ \A i \in 1..Len(inbox), j \in 1..Len(entry) : inbox[i].delivery # entry[j].delivery

\* The outbox may still store a row for d.
Insertable(d) ==
  /\ d \notin Backlog
  /\ \/ task[d] # "ended"
     \/ \E i \in 1..Len(inbox) : inbox[i].delivery = d /\ ~inbox[i].stored
     \/ \E i \in 1..Len(entry) : entry[i].delivery = d /\ ~entry[i].stored

HasRow(d) == d \in DOMAIN pending

\* A row that left pending_deliveries never comes back: neither a retry of the
\* outbox whose first insert failed nor an UPDATE made from a stale snapshot
\* restores what the other worker delivered or buried.
RowsLeaveForGood ==
  \A d \in Deliveries : [](HasRow(d) => [](~HasRow(d) => []~HasRow(d)))

\* All but four kinds of steps take entries and rows away, or leave them.
LEMMA NothingEnters ==
  ASSUME Typed, Single, [Next]_vars,
         ~OutboxReceive, ~OutboxRetries, ~Crash, \A d \in Deliveries : ~TaskSends(d)
  PROVE  /\ task' \in [Deliveries -> {"none", "spawned", "sending", "ended"}]
         /\ \A d \in Deliveries : task[d] = "ended" => task'[d] = "ended"
         /\ \A d \in Backlog : task'[d] = "none"
         /\ UNCHANGED inbox /\ entry' \in {entry, <<>>}
         /\ DOMAIN pending' \subseteq DOMAIN pending
<1> USE DEF mem, db
<1>1. ASSUME NEW d \in Deliveries,
             Spawn(d) \/ TaskDelivered(d) \/ TaskQueues(d) \/ TaskFails(d)
      PROVE  /\ d \notin Backlog /\ task[d] # "ended" /\ UNCHANGED <<inbox, entry, pending>>
             /\ \E s \in {"spawned", "sending", "ended"} : task' = [task EXCEPT ![d] = s]
  BY <1>1 DEF Spawn, TaskDelivered, TaskQueues, TaskFails, Single
<1>2. ASSUME NEW d \in Deliveries, BackoffElapses(d)
      PROVE  UNCHANGED <<task, inbox, entry>> /\ DOMAIN pending' \subseteq DOMAIN pending
  BY <1>2 DEF BackoffElapses
<1>3. ASSUME OutboxDrop \/ OutboxDelivers \/ OutboxDeletes \/ OutboxGivesUp \/ OutboxBuries
      PROVE  /\ UNCHANGED <<task, inbox>> /\ entry' \in {entry, <<>>}
             /\ DOMAIN pending' \subseteq DOMAIN pending
  BY <1>3 DEF OutboxDrop, OutboxDelivers, OutboxDeletes, OutboxGivesUp, OutboxBuries, Without
<1>4. ASSUME NEW w \in Workers, Move(w)
      PROVE  UNCHANGED <<task, inbox, entry>> /\ DOMAIN pending' \subseteq DOMAIN pending
  BY <1>4, MoveTyped DEF Move, MoveSelect, MoveInsert, MoveConflict, MoveDelete, MoveFails, MoveStep
<1>5. ASSUME \/ WorkerPolls \/ WorkerTakes \/ WorkerRejects \/ WorkerDelivers \/ WorkerNextHandle
             \/ WorkerSchedules \/ WorkerUpdates \/ WorkerDeletes \/ UNCHANGED vars
      PROVE  UNCHANGED <<task, inbox, entry>> /\ DOMAIN pending' \subseteq DOMAIN pending
  BY <1>5, TakesUp DEF WorkerPolls, WorkerDelivers, WorkerNextHandle, WorkerSchedules,
              WorkerUpdates, WorkerDeletes, Updated, Without, vars
<1>6. \/ UNCHANGED <<task, inbox, entry>>
      \/ UNCHANGED <<task, inbox>> /\ entry' \in {entry, <<>>}
      \/ \E d \in Deliveries \ Backlog, s \in {"spawned", "sending", "ended"} :
           /\ task[d] # "ended" /\ UNCHANGED <<inbox, entry>> /\ task' = [task EXCEPT ![d] = s]
  BY <1>1, <1>2, <1>3, <1>4, <1>5 DEF Next, Distribute, RunOutbox, RunWorker, Workers
<1>7. DOMAIN pending' \subseteq DOMAIN pending
  BY <1>1, <1>2, <1>3, <1>4, <1>5 DEF Next, Distribute, RunOutbox, RunWorker, Workers
<1>8. /\ task' \in [Deliveries -> {"none", "spawned", "sending", "ended"}]
      /\ \A d \in Deliveries : task[d] = "ended" => task'[d] = "ended"
      /\ \A d \in Backlog : task'[d] = "none"
  BY <1>6, OutboxAssumption DEF Single
<1> QED BY <1>6, <1>7, <1>8

\* Every step keeps one entry per delivery, and only a delivery that may still
\* be stored gets a row, once.
LEMMA StepSingle ==
  ASSUME Typed, Single, [Next]_vars
  PROVE  /\ Single'
         /\ \A d \in Deliveries :
              /\ ~Insertable(d) => ~Insertable(d)'
              /\ d \in DOMAIN pending' \ DOMAIN pending => Insertable(d) /\ ~Insertable(d)'
<1> DEFINE Goal ==
      /\ Single'
      /\ \A d \in Deliveries :
           /\ ~Insertable(d) => ~Insertable(d)'
           /\ d \in DOMAIN pending' \ DOMAIN pending => Insertable(d) /\ ~Insertable(d)'
<1> USE DEF mem, db
<1>0. /\ \A i \in 1..Len(inbox) : inbox[i].delivery \in Deliveries /\ inbox[i] \in Entry
      /\ \A i \in 1..Len(entry) : entry[i].delivery \in Deliveries /\ entry[i] \in Entry
      /\ Len(inbox) \in Nat /\ Len(entry) \in Nat
  BY HeldTypes DEF Typed
<1>1. ASSUME ~OutboxReceive, ~OutboxRetries, ~Crash, \A d \in Deliveries : ~TaskSends(d)
      PROVE  Goal
  <2>1. /\ task' \in [Deliveries -> {"none", "spawned", "sending", "ended"}]
        /\ \A d \in Deliveries : task[d] = "ended" => task'[d] = "ended"
        /\ \A d \in Backlog : task'[d] = "none"
        /\ UNCHANGED inbox /\ entry' \in {entry, <<>>}
        /\ DOMAIN pending' \subseteq DOMAIN pending
    BY <1>1, NothingEnters
  <2>2. Single'
    BY <1>0, <2>1 DEF Single
  <2>3. \A d \in Deliveries : ~Insertable(d) => ~Insertable(d)'
    BY <2>1 DEF Insertable
  <2> QED BY <2>1, <2>2, <2>3
<1>2. ASSUME NEW d0 \in Deliveries, TaskSends(d0)
      PROVE  Goal
  <2>1. /\ task[d0] = "sending" /\ task' = [task EXCEPT ![d0] = "ended"]
        /\ UNCHANGED <<entry, pending>> /\ inbox' = Append(inbox, NewEntry(d0))
    BY <1>2 DEF TaskSends
  <2>2. /\ Len(inbox') = Len(inbox) + 1 /\ \A i \in 1..Len(inbox) : inbox'[i] = inbox[i]
        /\ inbox'[Len(inbox) + 1].delivery = d0
    BY <2>1 DEF Typed, NewEntry
  <2>3. \A i \in 1..Len(inbox') :
          \/ i \in 1..Len(inbox) /\ inbox'[i] = inbox[i] /\ inbox[i].delivery # d0
          \/ i = Len(inbox) + 1 /\ inbox'[i].delivery = d0
    BY <1>0, <2>1, <2>2 DEF Single
  <2>4. d0 \notin Backlog /\ \A i \in 1..Len(entry) : entry[i].delivery # d0
    BY <2>1 DEF Single
  <2>5. Single'
    BY <1>0, <2>1, <2>3, <2>4 DEF Single
  <2>6. Insertable(d0)
    BY <2>1, <2>4 DEF Insertable
  <2>7. \A d \in Deliveries \ {d0} : Insertable(d)' => Insertable(d)
    BY <2>1, <2>3 DEF Insertable, Single
  <2> QED BY <2>1, <2>5, <2>6, <2>7
<1>3. ASSUME OutboxReceive
      PROVE  Goal
  <2> DEFINE e == inbox[1]
  <2>1. /\ 1 \in 1..Len(inbox) /\ Head(inbox) = e /\ e \in Entry /\ e.delivery \in Deliveries
        /\ \A i \in 1..Len(inbox') : i + 1 \in 1..Len(inbox) /\ inbox'[i] = inbox[i + 1]
    BY <1>0, <1>3 DEF OutboxReceive, Typed
  <2>2. UNCHANGED task
    BY <1>3 DEF OutboxReceive
  <2>3. \/ ~e.stored /\ entry' = <<[e EXCEPT !.stored = TRUE]>> /\ pending' = Enqueued(e.delivery)
        \/ entry' = <<e>> /\ UNCHANGED pending
    BY <1>3, <2>1 DEF OutboxReceive
  <2>4. [e EXCEPT !.stored = TRUE].delivery = e.delivery /\ [e EXCEPT !.stored = TRUE].stored
    BY <2>1 DEF Entry
  <2>5. /\ \A i \in 1..Len(entry') : i = 1 /\ entry'[i].delivery = e.delivery
        /\ \/ ~e.stored /\ entry'[1].stored /\ pending' = Enqueued(e.delivery)
           \/ entry'[1] = e /\ UNCHANGED pending
    <3>1. CASE ~e.stored /\ entry' = <<[e EXCEPT !.stored = TRUE]>> /\ pending' = Enqueued(e.delivery)
      <4>1. ASSUME NEW x, entry' = <<x>>, x.delivery = e.delivery, x.stored
            PROVE  entry'[1].stored /\ \A i \in 1..Len(entry') : i = 1 /\ entry'[i].delivery = e.delivery
        BY <4>1
      <4> QED BY <2>4, <3>1, <4>1
    <3>2. CASE entry' = <<e>> /\ UNCHANGED pending
      BY <3>2
    <3> QED BY <2>3, <3>1, <3>2
  <2>6. \A i \in 1..Len(inbox') : inbox'[i].delivery # e.delivery
    BY <2>1 DEF Single
  <2>7. Single'
    <3>1. \A i, j \in 1..Len(inbox') : inbox'[i].delivery = inbox'[j].delivery => i = j
      BY <1>0, <2>1 DEF Single
    <3>2. task[e.delivery] = "ended"
      BY <2>1 DEF Single
    <3>3. \A i \in 1..Len(inbox') : task[inbox'[i].delivery] = "ended"
      BY <2>1 DEF Single
    <3>4. /\ \A i \in 1..Len(entry') : task[entry'[i].delivery] = "ended"
          /\ \A i \in 1..Len(inbox'), j \in 1..Len(entry') : inbox'[i].delivery # entry'[j].delivery
      BY <2>5, <2>6, <3>2
    <3> HIDE DEF e
    <3> QED BY <2>2, <3>1, <3>3, <3>4 DEF Single
  <2>8. \A d \in Deliveries : Insertable(d)' => Insertable(d)
    BY <2>1, <2>2, <2>5 DEF Insertable
  <2>9. ASSUME NEW d \in DOMAIN pending' \ DOMAIN pending
        PROVE  Insertable(d) /\ ~Insertable(d)'
    <3>1. d = e.delivery /\ ~e.stored /\ entry'[1].stored
      BY <2>5, <2>9 DEF Enqueued
    <3>2. task[d] = "ended" /\ d \notin Backlog
      BY <2>1, <3>1 DEF Single
    <3> QED BY <2>1, <2>2, <2>5, <2>6, <3>1, <3>2 DEF Insertable
  <2> QED BY <2>7, <2>8, <2>9
<1>4. ASSUME OutboxRetries
      PROVE  Goal
  <2> DEFINE e == [entry[1] EXCEPT !.retries = @ + 1]
  <2>1. entry[1] \in Entry /\ 1 \in 1..Len(entry)
    BY <1>4, InHands DEF OutboxRetries, Go
  <2>2. e.delivery = entry[1].delivery /\ e.stored = entry[1].stored
    BY <2>1 DEF Entry
  <2>3. UNCHANGED <<task, pending>> /\ entry' = <<>> /\ inbox' = Append(inbox, e)
    BY <1>4 DEF OutboxRetries
  <2> HIDE DEF e
  <2>4. \A i \in 1..Len(inbox') :
          \/ i \in 1..Len(inbox) /\ inbox'[i] = inbox[i] /\ inbox[i].delivery # entry[1].delivery
          \/ i = Len(inbox) + 1 /\ inbox'[i] = e
    BY <1>0, <2>1, <2>3 DEF Typed, Single
  <2>5. Single'
    BY <1>0, <2>1, <2>2, <2>3, <2>4 DEF Single
  <2>6. \A d \in Deliveries : Insertable(d)' => Insertable(d)
    BY <2>1, <2>2, <2>3, <2>4 DEF Insertable
  <2> QED BY <2>3, <2>5, <2>6
<1>5. ASSUME Crash
      PROVE  Goal
  <2>1. /\ task' = [d \in Deliveries |-> IF task[d] = "none" THEN "none" ELSE "ended"]
        /\ inbox' = <<>> /\ entry' = <<>> /\ UNCHANGED pending
    BY <1>5 DEF Crash
  <2>2. Single'
    BY <2>1, OutboxAssumption DEF Single
  <2>3. \A d \in Deliveries : Insertable(d)' => Insertable(d)
    BY <2>1 DEF Insertable
  <2> QED BY <2>1, <2>2, <2>3
<1> QED BY <1>1, <1>2, <1>3, <1>4, <1>5

\* No task runs and nothing is in memory at the start.
LEMMA InitSingle ==
  ASSUME Init
  PROVE  Single /\ \A d \in DOMAIN pending : ~Insertable(d)
BY OutboxAssumption DEF Init, Single, Insertable

\* Outbox::run and process_delivery: both workers write and delete the same
\* rows, and a row one of them removed stays removed.
THEOREM RowsNeverReturn == Spec => RowsLeaveForGood
<1> SUFFICES ASSUME NEW d \in Deliveries
             PROVE  Spec => [](HasRow(d) => [](~HasRow(d) => []~HasRow(d)))
  BY DEF RowsLeaveForGood
<1> DEFINE Stored == HasRow(d)
           Awaited == Insertable(d)
           Inv == Typed /\ Single /\ (Stored => ~Awaited)
<1>1. Init => Inv
  BY InitDead, InitSingle DEF DeadInv, HasRow
<1>2. Inv /\ [Next]_vars => Inv'
  BY StepTyped, StepSingle DEF HasRow
<1>3. Inv /\ [Next]_vars => (~Awaited /\ ~Stored => ~Awaited' /\ ~Stored')
  BY StepSingle DEF HasRow
<1>4. Inv /\ [Next]_vars => (~Awaited => ~Awaited')
  BY StepSingle
<1>5. Inv => (Stored => ~Awaited)
  OBVIOUS
<1>6. Spec => [](Stored => [](~Stored => []~Stored))
  <2> HIDE DEF Stored, Awaited, Inv
  <2> QED BY <1>1, <1>2, <1>3, <1>4, <1>5, PTL DEF Spec
<1> QED BY <1>6

-----------------------------------------------------------------------------
(* The lifecycle of what an earlier process stored.                        *)

\* What the worker has listed or in hand of it is still in the table, each row
\* once; and what is neither buried nor in the table was accepted.
StoredKept ==
  /\ \A s \in batch : s.delivery \in Backlog => s.delivery \in DOMAIN pending
  /\ \A s, t \in batch : s.delivery = t.delivery => s = t
  /\ pc["worker"] # "rest" =>
       /\ InHand \in Backlog => InHand \in DOMAIN pending
       /\ \A s \in batch : s.delivery # InHand
  /\ \A d \in Backlog : d \in DOMAIN pending \/ Accounted(d)

Tried == Trying \cap Backlog

Taken == {d \in Backlog : Accepted(d)}

Fate == [d \in Backlog |-> IF d \in DOMAIN pending
                           THEN IF d \in dead THEN "split" ELSE "pending"
                           ELSE IF d \in dead THEN "dead" ELSE "delivered"]

\* The outbox never holds what an earlier process stored.
LEMMA HeldIsNew ==
  ASSUME Typed, Single, pc["outbox"] # "rest"
  PROVE  Held \notin Backlog
BY InHands DEF Single, Held

\* The table as an outbox step leaves it for the deliveries stored before.
LEMMA OutboxKeepsBacklog ==
  ASSUME Typed, Single, RunOutbox
  PROVE  /\ UNCHANGED <<batch, row>> /\ pc'["worker"] = pc["worker"]
         /\ \A d \in Backlog : d \in DOMAIN pending' <=> d \in DOMAIN pending
<1> USE DEF mem, db
<1>1. ASSUME OutboxReceive
      PROVE  \A d \in Backlog : d \in DOMAIN pending' <=> d \in DOMAIN pending
  <2>1. 1 \in 1..Len(inbox) /\ Head(inbox) = inbox[1]
    BY <1>1 DEF OutboxReceive, Typed
  <2>2. inbox[1].delivery \notin Backlog
    BY <2>1 DEF Single
  <2>3. pending' = pending \/ pending' = Enqueued(inbox[1].delivery)
    BY <1>1, <2>1 DEF OutboxReceive
  <2> QED BY <2>2, <2>3 DEF Enqueued
<1>2. ASSUME \/ OutboxDrop \/ OutboxDelivers \/ OutboxDeletes \/ OutboxRetries
             \/ OutboxGivesUp \/ OutboxBuries \/ Move("outbox")
      PROVE  \A d \in Backlog : d \in DOMAIN pending' <=> d \in DOMAIN pending
  <2>1. pc["outbox"] # "rest"
    BY <1>2, MoveTyped DEF OutboxDrop, OutboxDelivers, OutboxDeletes, OutboxRetries,
       OutboxGivesUp, OutboxBuries, Go, Moving, Workers
  <2>2. pending' = pending \/ pending' = Without(Held)
    BY <1>2 DEF OutboxDrop, OutboxDelivers, OutboxDeletes, OutboxRetries, OutboxGivesUp,
       OutboxBuries, Move, MoveSelect, MoveInsert, MoveConflict, MoveDelete, MoveFails, Moved
  <2> QED BY <2>1, <2>2, HeldIsNew DEF Without
<1>3. UNCHANGED <<batch, row>> /\ pc'["worker"] = pc["worker"]
  <2>1. CASE Move("outbox")
    BY <2>1, MoveTyped DEF Move, MoveSelect, MoveInsert, MoveConflict, MoveDelete, MoveFails,
       MoveStep, Workers
  <2>2. CASE ~Move("outbox")
    BY <2>2, GoTyped DEF RunOutbox, OutboxReceive, OutboxDrop, OutboxDelivers, OutboxDeletes,
       OutboxRetries, OutboxGivesUp, OutboxBuries, Workers, Steps
  <2> QED BY <2>1, <2>2
<1> QED BY <1>1, <1>2, <1>3 DEF RunOutbox

\* What a step of the database worker that lists and takes up nothing does to
\* the row in hand and the table.
LEMMA WorkerKeepsBacklog ==
  ASSUME Typed, RunWorker, ~WorkerTakes, ~WorkerRejects
  PROVE  /\ UNCHANGED batch /\ pc["worker"] # "rest"
         /\ pc'["worker"] # "rest" => row' = row
         /\ \/ DOMAIN pending' = DOMAIN pending
            \/ pending' = Without(InHand) /\ pc'["worker"] = "rest"
<1> USE DEF mem, db
<1>1. CASE Move("worker")
  <2>1. /\ UNCHANGED batch /\ pc["worker"] # "rest"
        /\ pc'["worker"] # "rest" => row' = row
    BY <1>1, MoveTyped DEF Moving, Workers
  <2>2. pending' = pending \/ MoveDelete("worker")
    BY <1>1 DEF Move, MoveSelect, MoveInsert, MoveConflict, MoveFails
  <2>3. MoveDelete("worker") => pending' = Without(InHand) /\ pc'["worker"] = "rest"
    BY GoTyped DEF MoveDelete, MoveStep, Moved, Workers, Steps
  <2> QED BY <2>1, <2>2, <2>3
<1>2. CASE WorkerDelivers \/ WorkerNextHandle \/ WorkerSchedules
  BY <1>2 DEF WorkerDelivers, WorkerNextHandle, WorkerSchedules, Go
<1>3. CASE WorkerUpdates \/ WorkerDeletes
  BY <1>3, GoTyped DEF WorkerUpdates, WorkerDeletes, Updated, Workers, Steps
<1> QED BY <1>1, <1>2, <1>3 DEF RunWorker

\* Acceptances and dead letters are never taken back.
LEMMA AccountsGrow ==
  ASSUME [Next]_vars
  PROVE  acked \subseteq acked' /\ dead \subseteq dead'
<1> USE DEF mem, db, vars
<1>1. ASSUME NEW w \in Workers, Move(w)
      PROVE  acked \subseteq acked' /\ dead \subseteq dead'
  BY <1>1 DEF Move, MoveSelect, MoveInsert, MoveConflict, MoveDelete, MoveFails, MoveStep
<1>2. ASSUME NEW d \in Deliveries, \/ Spawn(d) \/ BackoffElapses(d) \/ TaskDelivered(d)
                                   \/ TaskQueues(d) \/ TaskSends(d) \/ TaskFails(d)
      PROVE  acked \subseteq acked' /\ dead \subseteq dead'
  BY <1>2 DEF Spawn, BackoffElapses, TaskDelivered, TaskQueues, TaskSends, TaskFails
<1>3. CASE \/ OutboxReceive \/ OutboxDrop \/ OutboxDelivers \/ OutboxDeletes \/ OutboxRetries
           \/ OutboxGivesUp \/ OutboxBuries \/ Crash \/ UNCHANGED vars
  BY <1>3 DEF OutboxReceive, OutboxDrop, OutboxDelivers, OutboxDeletes, OutboxRetries,
     OutboxGivesUp, OutboxBuries, Crash
<1>4. CASE \/ WorkerPolls \/ WorkerTakes \/ WorkerRejects \/ WorkerDelivers \/ WorkerNextHandle
           \/ WorkerSchedules \/ WorkerUpdates \/ WorkerDeletes
  BY <1>4 DEF WorkerPolls, WorkerTakes, WorkerRejects, TakeUp, WorkerDelivers, WorkerNextHandle,
     WorkerSchedules, WorkerUpdates, WorkerDeletes
<1> QED BY <1>1, <1>2, <1>3, <1>4 DEF Next, Distribute, RunOutbox, RunWorker, Workers

\* Nothing but the worker itself takes away what it has listed or in hand.
LEMMA StepKept ==
  ASSUME Typed, Justified, Single, StoredKept, [Next]_vars
  PROVE  StoredKept'
<1> DEFINE Goal == /\ \A s \in batch' : s.delivery \in Backlog => s.delivery \in DOMAIN pending'
                   /\ \A s, t \in batch' : s.delivery = t.delivery => s = t
                   /\ pc'["worker"] # "rest" =>
                        /\ InHand' \in Backlog => InHand' \in DOMAIN pending'
                        /\ \A s \in batch' : s.delivery # InHand'
<1> USE DEF mem, db
<1>1. \A d \in Backlog : d \in DOMAIN pending' \/ Accounted(d)'
  <2>1. \A d \in DOMAIN pending \ DOMAIN pending' : Accounted(d)
    BY StepJustified
  <2>2. ASSUME NEW d, Accounted(d)
        PROVE  Accounted(d)'
    BY <2>2, AccountsGrow DEF Accounted, Accepted
  <2> QED BY <2>1, <2>2 DEF StoredKept
<1>2. ASSUME UNCHANGED <<batch, row>>, pc'["worker"] = pc["worker"],
             \A d \in Backlog : d \in DOMAIN pending' <=> d \in DOMAIN pending
      PROVE  Goal
  BY <1>2 DEF StoredKept, InHand
<1>3. ASSUME \/ \E d \in Deliveries : Spawn(d) \/ BackoffElapses(d)
             \/ Distribute \/ UNCHANGED vars
      PROVE  Goal
  BY <1>2, <1>3, DistributeTyped
<1>4. ASSUME RunOutbox
      PROVE  Goal
  BY <1>2, <1>4, OutboxKeepsBacklog
<1>5. ASSUME WorkerPolls
      PROVE  Goal
  <2>1. pc' = pc /\ pc["worker"] = "rest" /\ batch' = DueRows /\ UNCHANGED pending
    BY <1>5 DEF WorkerPolls
  <2>2. \A s \in DueRows : \E d \in DOMAIN pending :
          s = [delivery |-> d, attempts |-> pending[d].attempts]
    BY DEF DueRows
  <2>3. \A s \in DueRows : s.delivery \in DOMAIN pending
          /\ s = [delivery |-> s.delivery, attempts |-> pending[s.delivery].attempts]
    BY <2>2
  <2> QED BY <2>1, <2>3
<1>6. ASSUME WorkerTakes \/ WorkerRejects
      PROVE  Goal
  <2>1. PICK s \in batch : row' = <<s>> /\ batch' = batch \ {s}
    BY <1>6, TakesUp
  <2>2. UNCHANGED pending /\ InHand' = s.delivery
    BY <1>6, <2>1, TakesUp DEF InHand
  <2> QED BY <2>1, <2>2 DEF StoredKept
<1>7. ASSUME RunWorker, ~WorkerTakes, ~WorkerRejects
      PROVE  Goal
  <2>1. /\ UNCHANGED batch /\ pc["worker"] # "rest"
        /\ pc'["worker"] # "rest" => row' = row
        /\ \/ DOMAIN pending' = DOMAIN pending
           \/ pending' = Without(InHand) /\ pc'["worker"] = "rest"
    BY <1>7, WorkerKeepsBacklog
  <2> QED BY <2>1 DEF StoredKept, InHand, Without
<1>8. ASSUME Crash
      PROVE  Goal
  BY <1>8 DEF Crash, Workers
<1>9. Goal
  BY <1>3, <1>4, <1>5, <1>6, <1>7, <1>8 DEF Next
<1> QED BY <1>1, <1>9 DEF StoredKept

\* A step of a task, of the outbox or of time accepts and buries nothing that was
\* stored before.
LEMMA OthersSpareBacklog ==
  ASSUME Typed, Single,
         \/ \E d \in Deliveries : Spawn(d) \/ BackoffElapses(d)
         \/ Distribute \/ RunOutbox \/ UNCHANGED vars
  PROVE  /\ \A d \in Backlog : d \in dead' <=> d \in dead
         /\ \A d \in Backlog : Accepted(d)' <=> Accepted(d)
<1> USE DEF mem, db, vars
<1>1. ASSUME NEW d \in Deliveries, \/ Spawn(d) \/ BackoffElapses(d)
                                   \/ TaskQueues(d) \/ TaskSends(d) \/ TaskFails(d)
      PROVE  UNCHANGED <<acked, dead>>
  BY <1>1 DEF Spawn, BackoffElapses, TaskQueues, TaskSends, TaskFails
<1>2. ASSUME NEW d \in Deliveries, TaskDelivered(d)
      PROVE  UNCHANGED dead /\ d \notin Backlog /\ acked' = acked \cup {<<d, Target(d)>>}
  BY <1>2 DEF TaskDelivered, Single
<1>3. ASSUME \/ OutboxReceive \/ OutboxDrop \/ OutboxDeletes \/ OutboxRetries
             \/ OutboxGivesUp \/ OutboxBuries \/ UNCHANGED vars
      PROVE  UNCHANGED <<acked, dead>>
  BY <1>3 DEF OutboxReceive, OutboxDrop, OutboxDeletes, OutboxRetries, OutboxGivesUp, OutboxBuries
<1>4. ASSUME OutboxDelivers
      PROVE  /\ UNCHANGED dead /\ Held \notin Backlog
             /\ acked' = acked \cup {<<Held, Target(Held)>>}
  BY <1>4, HeldIsNew DEF OutboxDelivers, Go
<1>5. ASSUME Move("outbox")
      PROVE  /\ UNCHANGED acked /\ Held \notin Backlog
             /\ dead' = dead \/ dead' = dead \cup {Held}
  BY <1>5, MoveTyped, HeldIsNew DEF Moving, Moved, Workers
<1>6. \/ UNCHANGED <<acked, dead>>
      \/ UNCHANGED dead /\ \E x : x \notin Backlog /\ acked' = acked \cup {<<x, Target(x)>>}
      \/ UNCHANGED acked /\ \E x : x \notin Backlog /\ dead' = dead \cup {x}
  BY <1>1, <1>2, <1>3, <1>4, <1>5 DEF Distribute, RunOutbox
<1>7. ASSUME NEW x, x \notin Backlog, acked' = acked \cup {<<x, Target(x)>>}
      PROVE  \A d \in Backlog : Accepted(d)' <=> Accepted(d)
  BY <1>7 DEF Accepted
<1>8. acked' = acked => \A d \in Backlog : Accepted(d)' <=> Accepted(d)
  BY DEF Accepted
<1> QED BY <1>6, <1>7, <1>8

\* The abstract step that a step of the database worker is: of what it tries,
\* had accepted and has recorded.
Shown == <<Tried, Taken, Fate>>

\* Nothing the lifecycle shows has changed.
LEMMA NothingShown ==
  ASSUME Tried' = Tried, \A d \in Backlog : Accepted(d)' <=> Accepted(d),
         \A d \in Backlog : (d \in dead' <=> d \in dead) /\ (d \in DOMAIN pending' <=> d \in DOMAIN pending)
  PROVE  UNCHANGED Shown
<1>1. Taken' = Taken
  BY DEF Taken
<1>2. Fate' = Fate
  BY DEF Fate
<1> QED BY <1>1, <1>2 DEF Shown

\* The worker begins an attempt at a row that is in the table.
LEMMA TryShown ==
  ASSUME NEW d \in Backlog, d \in DOMAIN pending, Tried = {}, Tried' = {d},
         UNCHANGED <<acked, dead, pending>>
  PROVE  Lifecycle!Next
<1>1. Taken' = Taken /\ Fate' = Fate /\ Fate[d] \in {"pending", "split"}
  BY DEF Taken, Fate, Accepted
<1>2. Lifecycle!Try(d)
  BY <1>1 DEF Lifecycle!Try, Tried, Taken, Fate
<1> QED BY <1>2 DEF Lifecycle!Next

\* A handle took the event.
LEMMA AcceptShown ==
  ASSUME NEW d \in Backlog, NEW e \in Endpoints, Tried = {d}, Tried' = {},
         acked' = acked \cup {<<d, e>>}, UNCHANGED <<dead, pending>>
  PROVE  Lifecycle!Next
<1>1. Fate' = Fate /\ Taken' = Taken \cup {d}
  BY DEF Taken, Fate, Accepted
<1>2. Lifecycle!Accept(d)
  BY <1>1 DEF Lifecycle!Accept, Tried, Taken, Fate
<1> QED BY <1>2 DEF Lifecycle!Next

\* Every handle refused it, or the process died.
LEMMA GiveUpShown ==
  ASSUME NEW d \in Backlog, Tried = {d}, Tried' = {}, UNCHANGED <<acked, dead, pending>>
  PROVE  Lifecycle!Next
<1>1. Taken' = Taken /\ Fate' = Fate
  BY DEF Taken, Fate, Accepted
<1>2. Lifecycle!GiveUp(d)
  BY <1>1 DEF Lifecycle!GiveUp, Tried, Taken, Fate
<1> QED BY <1>2 DEF Lifecycle!Next

\* The INSERT of move_to_dead_letter.
LEMMA RecordShown ==
  ASSUME NEW d \in Backlog, d \in DOMAIN pending, d \notin dead, Tried = {}, Tried' = {},
         dead' = dead \cup {d}, UNCHANGED <<acked, pending>>
  PROVE  Lifecycle!Next
<1>1. /\ Taken' = Taken /\ Fate[d] = "pending"
      /\ Fate' = [Fate EXCEPT ![d] = "split"]
  BY DEF Taken, Fate, Accepted
<1>2. Lifecycle!Record(d)
  BY <1>1 DEF Lifecycle!Record, Lifecycle!Turn, Tried, Taken, Fate
<1> QED BY <1>2 DEF Lifecycle!Next

\* The DELETE that ends a burial or follows an acceptance.
LEMMA DeleteShown ==
  ASSUME NEW d \in Backlog, d \in DOMAIN pending, Accounted(d), Tried = {}, Tried' = {},
         pending' = Without(d), UNCHANGED <<acked, dead>>
  PROVE  Lifecycle!Next
<1>1. Taken' = Taken
  BY DEF Taken, Accepted
<1>2. CASE d \in dead
  <2>1. Fate[d] = "split" /\ Fate' = [Fate EXCEPT ![d] = "dead"]
    BY <1>2 DEF Fate, Without
  <2>2. Lifecycle!Delete(d)
    BY <1>1, <2>1 DEF Lifecycle!Delete, Lifecycle!Turn, Tried, Taken, Fate
  <2> QED BY <2>2 DEF Lifecycle!Next
<1>3. CASE d \notin dead
  <2>1. d \in Taken /\ Fate[d] = "pending" /\ Fate' = [Fate EXCEPT ![d] = "delivered"]
    BY <1>3 DEF Fate, Without, Taken, Accounted
  <2>2. Lifecycle!Delete(d)
    BY <1>1, <2>1 DEF Lifecycle!Delete, Lifecycle!Turn, Tried, Taken, Fate
  <2> QED BY <2>2 DEF Lifecycle!Next
<1> QED BY <1>2, <1>3

\* Every step of the database worker is one of the lifecycle, or none.
LEMMA WorkerShown ==
  ASSUME Typed, Justified, Single, StoredKept, RunWorker
  PROVE  Lifecycle!Next \/ UNCHANGED Shown
<1> DEFINE Goal == Lifecycle!Next \/ UNCHANGED Shown
<1> USE DEF mem, db
<1>0. /\ acked' = acked => \A d \in Backlog : Accepted(d)' <=> Accepted(d)
      /\ pc["worker"] # "try" => Tried = {}
      /\ pc'["worker"] # "try" => Tried' = {}
      /\ pc["worker"] = "try" => Tried = {InHand} \cap Backlog
  BY DEF Accepted, Tried, Trying
<1>1. CASE WorkerTakes \/ WorkerRejects
  <2>1. PICK s \in batch : row' = <<s>> /\ (pc'["worker"] = "try" \/ pc'["worker"] = "move_select")
    BY <1>1, TakesUp
  <2>2. Tried = {} /\ UNCHANGED <<acked, dead, pending>>
    BY <1>0, <1>1, TakesUp
  <2>3. CASE pc'["worker"] = "try" /\ s.delivery \in Backlog
    <3>1. Tried' = {s.delivery} /\ s.delivery \in DOMAIN pending
      BY <2>1, <2>3 DEF Tried, Trying, InHand, StoredKept
    <3> QED BY <2>2, <2>3, <3>1, TryShown
  <2>4. CASE ~(pc'["worker"] = "try" /\ s.delivery \in Backlog)
    <3>1. Tried' = {}
      BY <2>1, <2>4 DEF Tried, Trying, InHand
    <3> QED BY <1>0, <2>2, <3>1, NothingShown
  <2> QED BY <2>3, <2>4
<1>2. CASE WorkerDelivers
  <2>1. /\ pc["worker"] = "try" /\ pc'["worker"] = "delete" /\ UNCHANGED <<dead, pending>>
        /\ acked' = acked \cup {<<InHand, Handles[tried + 1]>>} /\ Handles[tried + 1] \in Endpoints
    BY <1>2, GoTyped, HandleIsEndpoint DEF WorkerDelivers, Workers, Steps
  <2>2. CASE InHand \in Backlog
    BY <1>0, <2>1, <2>2, AcceptShown
  <2>3. CASE InHand \notin Backlog
    <3>1. \A d \in Backlog : Accepted(d)' <=> Accepted(d)
      BY <2>1, <2>3 DEF Accepted
    <3> QED BY <1>0, <2>1, <2>3, <3>1, NothingShown
  <2> QED BY <2>2, <2>3
<1>3. CASE WorkerNextHandle
  <2>1. Tried' = Tried /\ UNCHANGED <<acked, dead, pending>>
    BY <1>3 DEF WorkerNextHandle, Tried, Trying, InHand
  <2> QED BY <1>0, <2>1, NothingShown
<1>4. CASE WorkerSchedules
  <2>1. /\ pc["worker"] = "try" /\ pc'["worker"] # "try" /\ UNCHANGED <<acked, dead, pending>>
    BY <1>4, GoTyped DEF WorkerSchedules, Workers, Steps
  <2>2. CASE InHand \in Backlog
    BY <1>0, <2>1, <2>2, GiveUpShown
  <2>3. CASE InHand \notin Backlog
    BY <1>0, <2>1, <2>3, NothingShown
  <2> QED BY <2>2, <2>3
<1>5. CASE WorkerUpdates
  <2>1. /\ pc["worker"] # "try" /\ pc'["worker"] # "try" /\ UNCHANGED <<acked, dead>>
        /\ DOMAIN pending' = DOMAIN pending
    BY <1>5, GoTyped DEF WorkerUpdates, Updated, Workers, Steps
  <2> QED BY <1>0, <2>1, NothingShown
<1>6. ASSUME pc["worker"] \notin {"rest", "try"}, pc'["worker"] # "try", UNCHANGED <<acked, dead>>,
             pending' = pending \/ (pending' = Without(InHand) /\ Accounted(InHand))
      PROVE  Goal
  <2>1. CASE pending' = Without(InHand) /\ Accounted(InHand) /\ InHand \in Backlog
    <3>1. InHand \in DOMAIN pending
      BY <1>6, <2>1 DEF StoredKept
    <3> QED BY <1>0, <1>6, <2>1, <3>1, DeleteShown
  <2>2. CASE pending' = pending \/ InHand \notin Backlog
    <3>1. \A d \in Backlog : d \in DOMAIN pending' <=> d \in DOMAIN pending
      BY <1>6, <2>2 DEF Without
    <3> QED BY <1>0, <1>6, <3>1, NothingShown
  <2> QED BY <1>6, <2>1, <2>2
<1>7. CASE WorkerDeletes
  <2>1. /\ pc["worker"] = "delete" /\ pc'["worker"] = "rest" /\ UNCHANGED <<acked, dead>>
        /\ pending' = pending \/ pending' = Without(InHand)
    BY <1>7, GoTyped DEF WorkerDeletes, Workers, Steps
  <2>2. Accounted(InHand)
    BY <2>1 DEF Justified, Accounted
  <2> QED BY <1>6, <2>1, <2>2
<1>8. CASE Move("worker")
  <2>1. pc["worker"] \notin {"rest", "try"} /\ pc'["worker"] # "try" /\ UNCHANGED acked
    BY <1>8, MoveTyped DEF Moving, Workers
  <2>2. CASE MoveInsert("worker")
    <3>1. InHand \notin dead /\ dead' = dead \cup {InHand} /\ UNCHANGED pending
      BY <2>2 DEF MoveInsert, Moved
    <3>2. CASE InHand \in Backlog
      <4>1. InHand \in DOMAIN pending
        BY <2>1, <3>2 DEF StoredKept
      <4> QED BY <1>0, <2>1, <3>1, <3>2, <4>1, RecordShown
    <3>3. CASE InHand \notin Backlog
      BY <1>0, <2>1, <3>1, <3>3, NothingShown
    <3> QED BY <3>2, <3>3
  <2>3. CASE MoveDelete("worker")
    <3>1. pc["worker"] = "move_delete" /\ pending' = Without(InHand) /\ UNCHANGED dead
      BY <2>3 DEF MoveDelete, MoveStep, Moved, Go
    <3>2. Accounted(InHand)
      BY <3>1 DEF Justified, Accounted
    <3> QED BY <1>6, <2>1, <3>1, <3>2
  <2>4. CASE MoveSelect("worker") \/ MoveConflict("worker") \/ MoveFails("worker")
    <3>1. UNCHANGED <<pending, dead>>
      BY <2>4 DEF MoveSelect, MoveConflict, MoveFails
    <3> QED BY <1>6, <2>1, <3>1
  <2> QED BY <1>8, <2>2, <2>3, <2>4 DEF Move
<1> QED BY <1>1, <1>2, <1>3, <1>4, <1>5, <1>7, <1>8 DEF RunWorker

\* Every step is one of the lifecycle, or none, for the deliveries stored before.
LEMMA StepLifecycle ==
  ASSUME Typed, Justified, Single, StoredKept, [Next]_vars
  PROVE  [Lifecycle!Next]_Shown
<1> USE DEF mem, db, vars
<1>0. acked' = acked => \A d \in Backlog : Accepted(d)' <=> Accepted(d)
  BY DEF Accepted
<1>1. pc'["worker"] = pc["worker"] /\ row' = row => Tried' = Tried
  BY DEF Tried, Trying, InHand
<1>2. CASE \/ \E d \in Deliveries : Spawn(d) \/ BackoffElapses(d)
           \/ Distribute \/ UNCHANGED vars
  <2>1. UNCHANGED <<row, pc>> /\ DOMAIN pending' = DOMAIN pending
    BY <1>2, DistributeTyped
  <2> QED BY <1>1, <1>2, <2>1, OthersSpareBacklog, NothingShown
<1>3. CASE RunOutbox
  BY <1>1, <1>3, OutboxKeepsBacklog, OthersSpareBacklog, NothingShown
<1>4. CASE WorkerPolls
  <2>1. UNCHANGED <<row, pc, acked, dead, pending>>
    BY <1>4 DEF WorkerPolls
  <2> QED BY <1>0, <1>1, <2>1, NothingShown
<1>5. CASE RunWorker
  BY <1>5, WorkerShown
<1>6. CASE Crash
  <2>1. pc'["worker"] # "try" /\ UNCHANGED <<acked, dead, pending>>
    BY <1>6 DEF Crash, Workers
  <2>2. Tried' = {}
    BY <2>1 DEF Tried, Trying
  <2>3. CASE pc["worker"] = "try" /\ InHand \in Backlog
    <3>1. Tried = {InHand}
      BY <2>3 DEF Tried, Trying
    <3> QED BY <2>1, <2>2, <2>3, <3>1, GiveUpShown
  <2>4. CASE ~(pc["worker"] = "try" /\ InHand \in Backlog)
    <3>1. Tried = {}
      BY <2>4 DEF Tried, Trying
    <3> QED BY <1>0, <2>1, <2>2, <3>1, NothingShown
  <2> QED BY <2>3, <2>4
<1> QED BY <1>2, <1>3, <1>4, <1>5, <1>6 DEF Next

\* pending_delivery.rs:5: process_delivery takes every delivery an earlier process
\* stored through the lifecycle as the code keeps it.  What is delivered or wholly
\* buried is never offered or accepted again; only a burial cut off before its
\* DELETE is, while tasks, the outbox, crashes and failed statements go on.
THEOREM StoredImplementLifecycle == Spec => ImplementsLifecycle
<1> DEFINE Inv == Typed /\ Justified /\ Single /\ StoredKept
<1>1. Init => Inv
  <2>1. Init => StoredKept
    BY DEF Init, StoredKept, Workers
  <2> QED BY <2>1, InitDead, InitSingle DEF DeadInv, Init, Justified, Workers
<1>2. Init => Lifecycle!Init
  <2>1. Init => Trying = {} /\ \A d \in Backlog : ~Accepted(d)
    BY DEF Init, Trying, Accepted, Workers
  <2>2. Init => DOMAIN pending = Backlog /\ dead = {}
    BY DEF Init
  <2> QED BY <2>1, <2>2 DEF Lifecycle!Init
<1>3. Inv /\ [Next]_vars => Inv'
  BY StepTyped, StepJustified, StepSingle, StepKept
<1>4. Inv /\ [Next]_vars => [Lifecycle!Next]_Shown
  BY StepLifecycle
<1> QED BY <1>1, <1>2, <1>3, <1>4, PTL
    DEF Spec, ImplementsLifecycle, Lifecycle!Spec, Shown, Tried, Taken, Fate

-----------------------------------------------------------------------------
(* The counters.                                                           *)

\* The places in a sequence, one sent, one received, and one in hand.
LEMMA PlacesFinite ==
  ASSUME NEW s \in Seq(Entry), NEW e
  PROVE  IsFiniteSet(Places(s, e)) /\ Cardinality(Places(s, e)) \in Nat
<1>1. IsFiniteSet(1..Len(s))
  BY FS_Interval
<1>2. Places(s, e) \in SUBSET (1..Len(s))
  BY DEF Places
<1> QED BY <1>1, <1>2, FS_Subset, FS_CardinalityType

LEMMA PlacesOfEmpty ==
  ASSUME NEW e
  PROVE  Cardinality(Places(<<>>, e)) = 0
<1>1. Places(<<>>, e) = {}
  BY DEF Places
<1> QED BY <1>1, FS_EmptySet

LEMMA PlacesOfOne ==
  ASSUME NEW x \in Entry, NEW e
  PROVE  Cardinality(Places(<<x>>, e)) = IF Target(x.delivery) = e THEN 1 ELSE 0
<1>1. Places(<<x>>, e) = IF Target(x.delivery) = e THEN {1} ELSE {}
  BY DEF Places
<1> QED BY <1>1, FS_EmptySet, FS_Singleton

LEMMA PlacesOfAppend ==
  ASSUME NEW s \in Seq(Entry), NEW x \in Entry, NEW e
  PROVE  Cardinality(Places(Append(s, x), e))
           = Cardinality(Places(s, e)) + (IF Target(x.delivery) = e THEN 1 ELSE 0)
<1> DEFINE n == Len(s) + 1
<1>1. Places(Append(s, x), e) = Places(s, e) \cup (IF Target(x.delivery) = e THEN {n} ELSE {})
  BY DEF Places
<1>2. n \notin Places(s, e)
  BY DEF Places
<1>3. IsFiniteSet(Places(s, e)) /\ Cardinality(Places(s, e)) \in Nat
  BY PlacesFinite
<1> HIDE DEF n
<1>4. CASE Target(x.delivery) = e
  <2>1. Places(Append(s, x), e) = Places(s, e) \cup {n}
    BY <1>1, <1>4
  <2> QED BY <1>2, <1>3, <1>4, <2>1, FS_AddElement
<1>5. CASE Target(x.delivery) # e
  <2>1. Places(Append(s, x), e) = Places(s, e)
    BY <1>1, <1>5
  <2> QED BY <1>3, <1>5, <2>1
<1> QED BY <1>4, <1>5

LEMMA PlacesOfTail ==
  ASSUME NEW s \in Seq(Entry), s # <<>>, NEW e
  PROVE  Cardinality(Places(s, e))
           = Cardinality(Places(Tail(s), e)) + (IF Target(Head(s).delivery) = e THEN 1 ELSE 0)
<1> DEFINE T == Places(Tail(s), e)
           S == Places(s, e) \ {1}
           f == [i \in T |-> i + 1]
<1>1. /\ Tail(s) \in Seq(Entry) /\ DOMAIN Tail(s) = 1..(Len(s) - 1) /\ DOMAIN s = 1..Len(s)
      /\ Len(s) \in Nat \ {0} /\ Head(s) = s[1]
      /\ \A i \in 1..(Len(s) - 1) : Tail(s)[i] = s[i + 1]
  OBVIOUS
<1>2. f \in [T -> S]
  BY <1>1 DEF Places
<1>3. \A x, y \in T : f[x] = f[y] => x = y
  BY <1>1 DEF Places
<1>4. \A y \in S : \E x \in T : f[x] = y
  <2> SUFFICES ASSUME NEW y \in S
               PROVE  \E x \in T : f[x] = y
    OBVIOUS
  <2>1. y \in 2..Len(s) /\ Target(s[y].delivery) = e
    BY <1>1 DEF Places
  <2>2. y - 1 \in 1..(Len(s) - 1) /\ Tail(s)[y - 1] = s[y]
    BY <1>1, <2>1
  <2>3. y - 1 \in T
    BY <1>1, <2>1, <2>2 DEF Places
  <2>4. f[y - 1] = y
    BY <2>1, <2>3
  <2> QED BY <2>3, <2>4
<1>5. f \in Bijection(T, S)
  BY <1>2, <1>3, <1>4 DEF Bijection, Injection, Surjection, IsInjective
<1>6. IsFiniteSet(T) /\ Cardinality(T) \in Nat
  BY <1>1, PlacesFinite
<1>7. Cardinality(S) = Cardinality(T)
  BY <1>5, <1>6, FS_Bijection DEF ExistsBijection
<1>8. IsFiniteSet(Places(s, e)) /\ Cardinality(Places(s, e)) \in Nat
  BY PlacesFinite
<1>9. 1 \in Places(s, e) <=> Target(Head(s).delivery) = e
  BY <1>1 DEF Places
<1>10. Cardinality(S) = IF 1 \in Places(s, e) THEN Cardinality(Places(s, e)) - 1
                        ELSE Cardinality(Places(s, e))
  BY <1>8, FS_RemoveElement
<1> QED BY <1>6, <1>7, <1>8, <1>9, <1>10

\* Who is where: an outbox at rest holds no entry, one past the handle lookup has
\* an entry some handle takes, and no count in the table is at the limit.
InPlace ==
  /\ task \in [Deliveries -> {"none", "spawned", "sending", "ended"}]
  /\ pc["outbox"] = "rest" => entry = <<>>
  /\ pc["outbox"] \in {"delete", "bury"} \cup Moving => Target(Held) \in ToSet(Handles)
  /\ pc["worker"] = "update" => row[1].attempts + 1 < MaxAttempts
  /\ \A d \in DOMAIN pending : pending[d].attempts < MaxAttempts
  /\ faults \in 0..MaxFaults

LEMMA FaultBounded ==
  ASSUME faults \in 0..MaxFaults, Fault \/ UNCHANGED faults
  PROVE  faults' \in 0..MaxFaults
BY OutboxAssumption DEF Fault

\* A move to the dead letters ends the outbox's work on the entry with its burial.
LEMMA MoveInPlace ==
  ASSUME Typed, InPlace, NEW w \in Workers, Move(w)
  PROVE  InPlace'
<1> USE DEF mem, db
<1>1. /\ UNCHANGED <<inbox, entry>>
      /\ pc'["worker"] # "rest" => row' = row
      /\ \A v \in Workers \ {w} : pc'[v] = pc[v]
      /\ pc[w] \in Moving /\ pc'[w] \in Moving \cup {"rest", "bury"}
      /\ DOMAIN pending' \subseteq DOMAIN pending
      /\ \A d \in DOMAIN pending' : pending'[d] = pending[d]
  BY MoveTyped
<1>2. UNCHANGED task /\ (Fault \/ UNCHANGED faults)
  BY DEF Move, MoveSelect, MoveInsert, MoveConflict, MoveDelete, MoveFails, MoveStep
<1>3. w = "outbox" => pc'["outbox"] # "rest"
  <2>1. ASSUME NEW from, NEW to, MoveStep(w, from, to), w = "outbox", to # "rest"
        PROVE  pc'["outbox"] # "rest"
    BY <2>1 DEF MoveStep, Go, Typed
  <2> QED BY <2>1 DEF Move, MoveSelect, MoveInsert, MoveConflict, MoveDelete, MoveFails
<1>4. faults' \in 0..MaxFaults
  BY <1>2, FaultBounded DEF InPlace
<1>5. pc'["outbox"] = "rest" => pc["outbox"] = "rest"
  BY <1>1, <1>3 DEF Workers
<1>6. pc'["outbox"] \in {"delete", "bury"} \cup Moving => pc["outbox"] \in {"delete", "bury"} \cup Moving
  BY <1>1 DEF Workers
<1>7. pc'["worker"] = "update" => pc["worker"] = "update"
  BY <1>1 DEF Workers, Moving
<1> QED BY <1>1, <1>2, <1>4, <1>5, <1>6, <1>7 DEF InPlace, Held

LEMMA StepInPlace ==
  ASSUME Typed, InPlace, [Next]_vars
  PROVE  InPlace'
<1> USE DEF mem, db
<1>1. ASSUME \/ \E d \in Deliveries : Spawn(d) \/ BackoffElapses(d)
             \/ Distribute \/ UNCHANGED vars
      PROVE  InPlace'
  <2>1. /\ UNCHANGED <<entry, row, pc>> /\ DOMAIN pending' = DOMAIN pending
        /\ \A d \in DOMAIN pending : pending'[d].attempts = pending[d].attempts
    BY <1>1, DistributeTyped
  <2>2. /\ UNCHANGED faults
        /\ task' \in [Deliveries -> {"none", "spawned", "sending", "ended"}]
    BY <1>1 DEF InPlace, Spawn, BackoffElapses, Distribute, TaskDelivered, TaskQueues, TaskSends,
                TaskFails, vars
  <2> QED BY <2>1, <2>2 DEF InPlace, Held
<1>2. ASSUME OutboxReceive
      PROVE  InPlace'
  <2>1. pc'["outbox"] = "try" /\ pc'["worker"] = pc["worker"] /\ UNCHANGED <<task, row>>
    BY <1>2, GoTyped DEF OutboxReceive, Workers, Steps
  <2>2. Fault \/ UNCHANGED faults
    BY <1>2 DEF OutboxReceive
  <2>3. \A d \in DOMAIN pending' : pending'[d].attempts < MaxAttempts
    <3>1. pending' = pending \/ pending' = Enqueued(Head(inbox).delivery)
      BY <1>2 DEF OutboxReceive
    <3> QED BY <3>1, OutboxAssumption DEF InPlace, Enqueued, NewRow
  <2>4. faults' \in 0..MaxFaults
    BY <2>2, FaultBounded DEF InPlace
  <2> QED BY <2>1, <2>3, <2>4 DEF InPlace, Moving
<1>3. ASSUME OutboxDrop \/ OutboxRetries \/ OutboxBuries \/ OutboxDeletes
      PROVE  InPlace'
  <2>1. pc'["outbox"] = "rest" /\ pc'["worker"] = pc["worker"] /\ entry' = <<>> /\ UNCHANGED <<task, row>>
    BY <1>3, GoTyped DEF OutboxDrop, OutboxRetries, OutboxBuries, OutboxDeletes, Workers, Steps
  <2>2. (Fault \/ UNCHANGED faults) /\ (pending' = pending \/ pending' = Without(Held))
    BY <1>3 DEF OutboxDrop, OutboxRetries, OutboxBuries, OutboxDeletes
  <2>3. faults' \in 0..MaxFaults
    BY <2>2, FaultBounded DEF InPlace
  <2> QED BY <2>1, <2>2, <2>3 DEF InPlace, Without, Moving
<1>4. ASSUME OutboxDelivers \/ OutboxGivesUp
      PROVE  InPlace'
  <2>1. pc'["outbox"] # "rest" /\ pc'["worker"] = pc["worker"] /\ Target(Held) \in ToSet(Handles)
    BY <1>4, GoTyped DEF OutboxDelivers, OutboxGivesUp, Workers, Steps
  <2>2. UNCHANGED <<task, entry, row, pending, faults>>
    BY <1>4 DEF OutboxDelivers, OutboxGivesUp
  <2> QED BY <2>1, <2>2 DEF InPlace, Held
<1>5. ASSUME WorkerPolls \/ WorkerNextHandle
      PROVE  InPlace'
  BY <1>5 DEF WorkerPolls, WorkerNextHandle, InPlace, Held
<1>6. ASSUME WorkerTakes \/ WorkerRejects \/ WorkerDelivers \/ WorkerDeletes
      PROVE  InPlace'
  <2>1. pc'["worker"] # "update" /\ pc'["outbox"] = pc["outbox"] /\ UNCHANGED <<task, entry>>
    BY <1>6, GoTyped, TakesUp DEF WorkerDelivers, WorkerDeletes, Workers, Steps
  <2>2. (Fault \/ UNCHANGED faults) /\ (pending' = pending \/ pending' = Without(InHand))
    BY <1>6, TakesUp DEF WorkerDelivers, WorkerDeletes
  <2>3. faults' \in 0..MaxFaults
    BY <2>2, FaultBounded DEF InPlace
  <2> QED BY <2>1, <2>2, <2>3 DEF InPlace, Without, Held
<1>7. ASSUME WorkerSchedules
      PROVE  InPlace'
  <2>1. pc["worker"] = "try" /\ pc'["outbox"] = pc["outbox"]
        /\ pc'["worker"] = IF row[1].attempts + 1 >= MaxAttempts THEN "move_select" ELSE "update"
    BY <1>7, GoTyped DEF WorkerSchedules, Workers, Steps
  <2>2. UNCHANGED <<task, entry, row, pending, faults>>
    BY <1>7 DEF WorkerSchedules
  <2>3. pc'["worker"] = "update" => row[1].attempts + 1 < MaxAttempts
    <3>1. row[1].attempts \in Nat
      BY <2>1, InHands
    <3> QED BY <2>1, <3>1, OutboxAssumption
  <2> QED BY <2>1, <2>2, <2>3 DEF InPlace, Held
<1>8. ASSUME WorkerUpdates
      PROVE  InPlace'
  <2>1. pc["worker"] = "update" /\ pc'["worker"] = "rest" /\ pc'["outbox"] = pc["outbox"]
        /\ UNCHANGED <<task, entry>>
    BY <1>8, GoTyped DEF WorkerUpdates, Workers, Steps
  <2>2. /\ Fault \/ UNCHANGED faults
        /\ pending' = pending \/ pending' = Updated(InHand, row[1].attempts + 1)
    BY <1>8 DEF WorkerUpdates
  <2>3. faults' \in 0..MaxFaults
    BY <2>2, FaultBounded DEF InPlace
  <2> QED BY <2>1, <2>2, <2>3 DEF InPlace, Updated, Held
<1>9. ASSUME Crash
      PROVE  InPlace'
  <2>1. faults' \in 0..MaxFaults
    BY <1>9, FaultBounded DEF InPlace, Crash
  <2> QED BY <1>9, <2>1 DEF Crash, InPlace, Workers, Moving
<1> QED BY <1>1, <1>2, <1>3, <1>4, <1>5, <1>6, <1>7, <1>8, <1>9, MoveInPlace
     DEF Next, RunOutbox, RunWorker, Workers

SendingTasks == {d \in Deliveries : task[d] = "sending"}

\* What the counters are, and that they count the backlog.
CountInv ==
  /\ stats \in [Endpoints -> Counters]
  /\ IsFiniteSet(SendingTasks)
  /\ QueuedIsBacklog

\* A delivery that reached an endpoint or was lost is no backlog; a queued one is.
LEMMA CountFacts ==
  ASSUME stats \in [Endpoints -> Counters], NEW e \in Endpoints
  PROVE  /\ Count(e, "delivered", 1) \/ Count(e, "dead", 1) =>
              /\ stats' \in [Endpoints -> Counters]
              /\ \A x \in Endpoints : stats'[x].queued = stats[x].queued
         /\ Count(e, "queued", 1) =>
              /\ stats' \in [Endpoints -> Counters]
              /\ \A x \in Endpoints :
                   stats'[x].queued = IF x = e THEN stats[x].queued + 1 ELSE stats[x].queued
BY DEF Count, Counters

\* Settling an event moves one from queued to another counter.
LEMMA SettleFacts ==
  ASSUME stats \in [Endpoints -> Counters], NEW e \in Endpoints, stats[e].queued >= 1,
         Settle(e, "delivered") \/ Settle(e, "dead")
  PROVE  /\ stats' \in [Endpoints -> Counters]
         /\ \A x \in Endpoints :
              stats'[x].queued = IF x = e THEN stats[x].queued - 1 ELSE stats[x].queued
BY DEF Settle, Counters

LEMMA SendingFinite ==
  ASSUME IsFiniteSet(SendingTasks), NEW e
  PROVE  IsFiniteSet(Sending(e)) /\ Cardinality(Sending(e)) \in Nat
<1>1. Sending(e) \in SUBSET SendingTasks
  BY DEF Sending, SendingTasks
<1> QED BY <1>1, FS_Subset, FS_CardinalityType

\* A task that was not sending and is still not leaves the set of sending ones alone.
LEMMA SendingSame ==
  ASSUME \A d \in Deliveries : task'[d] = "sending" <=> task[d] = "sending"
  PROVE  SendingTasks' = SendingTasks /\ \A e : Sending(e)' = Sending(e)
BY DEF SendingTasks, Sending

\* A task that counted its entry is one more about to send.
LEMMA SendingMore ==
  ASSUME InPlace, IsFiniteSet(SendingTasks), NEW d \in Deliveries, task[d] = "spawned",
         task' = [task EXCEPT ![d] = "sending"], NEW e
  PROVE  /\ IsFiniteSet(SendingTasks')
         /\ Cardinality(Sending(e)') = Cardinality(Sending(e)) + (IF Target(d) = e THEN 1 ELSE 0)
<1>1. SendingTasks' = SendingTasks \cup {d}
  BY DEF InPlace, SendingTasks
<1>2. d \notin Sending(e)
  BY DEF Sending
<1>3. Sending(e)' = IF Target(d) = e THEN Sending(e) \cup {d} ELSE Sending(e)
  BY DEF InPlace, Sending
<1>4. IsFiniteSet(Sending(e)) /\ Cardinality(Sending(e)) \in Nat
  BY SendingFinite
<1>5. Target(d) = e => Cardinality(Sending(e)') = Cardinality(Sending(e)) + 1
  BY <1>2, <1>3, <1>4, FS_AddElement
<1> QED BY <1>1, <1>3, <1>4, <1>5, FS_AddElement

\* One that sent is one fewer.
LEMMA SendingLess ==
  ASSUME InPlace, IsFiniteSet(SendingTasks), NEW d \in Deliveries, task[d] = "sending",
         task' = [task EXCEPT ![d] = "ended"], NEW e
  PROVE  /\ IsFiniteSet(SendingTasks')
         /\ Cardinality(Sending(e)') = Cardinality(Sending(e)) - (IF Target(d) = e THEN 1 ELSE 0)
<1>1. SendingTasks' \in SUBSET SendingTasks
  BY DEF InPlace, SendingTasks
<1>2. Target(d) = e => d \in Sending(e)
  BY DEF Sending
<1>3. Sending(e)' = IF Target(d) = e THEN Sending(e) \ {d} ELSE Sending(e)
  BY DEF InPlace, Sending
<1>4. IsFiniteSet(Sending(e)) /\ Cardinality(Sending(e)) \in Nat
  BY SendingFinite
<1>5. Target(d) = e => Cardinality(Sending(e)') = Cardinality(Sending(e)) - 1
  BY <1>2, <1>3, <1>4, FS_RemoveElement
<1> QED BY <1>1, <1>3, <1>4, <1>5, FS_Subset

\* The backlog of an endpoint is a number, no smaller than what the outbox holds of it.
LEMMA MemoryIsNat ==
  ASSUME Typed, CountInv, NEW e
  PROVE  /\ Cardinality(Sending(e)) \in Nat /\ Cardinality(Places(inbox, e)) \in Nat
         /\ Cardinality(Places(entry, e)) \in Nat
<1>1. IsFiniteSet(SendingTasks)
  BY DEF CountInv
<1> QED BY <1>1, SendingFinite, PlacesFinite DEF Typed

LEMMA HandlesAreEndpoints == ToSet(Handles) \subseteq Endpoints
BY OutboxAssumption DEF ToSet

\* The outbox's entry as part of the backlog.
LEMMA HeldCounts ==
  ASSUME Typed, pc["outbox"] # "rest", NEW e
  PROVE  /\ Cardinality(Places(entry, e)) = IF Target(Held) = e THEN 1 ELSE 0
         /\ entry[1] \in Entry /\ Held \in Deliveries /\ Target(Held) \in Endpoints
<1>1. entry = <<entry[1]>> /\ entry[1] \in Entry /\ Held \in Deliveries
  BY InHands DEF Typed
<1>2. Cardinality(Places(<<entry[1]>>, e)) = IF Target(entry[1].delivery) = e THEN 1 ELSE 0
  BY <1>1, PlacesOfOne
<1> QED BY <1>1, <1>2, TargetIsEndpoint DEF Held

\* A step of the distribution tasks keeps the counters.
LEMMA DistributeCounted ==
  ASSUME Typed, InPlace, CountInv, NEW d \in Deliveries,
         \/ Spawn(d) \/ TaskDelivered(d) \/ TaskQueues(d) \/ TaskSends(d) \/ TaskFails(d)
  PROVE  CountInv'
<1>1. Target(d) \in Endpoints /\ stats \in [Endpoints -> Counters] /\ IsFiniteSet(SendingTasks)
  BY TargetIsEndpoint DEF CountInv
<1>2. \A e \in ToSet(Handles) :
        /\ e \in Endpoints /\ stats[e].queued = InMemory(e)
        /\ Cardinality(Sending(e)) \in Nat /\ Cardinality(Places(inbox, e)) \in Nat
        /\ Cardinality(Places(entry, e)) \in Nat
  BY MemoryIsNat, HandlesAreEndpoints DEF CountInv, QueuedIsBacklog
<1>3. CASE Spawn(d) \/ TaskDelivered(d) \/ TaskFails(d)
  <2>1. \A x \in Deliveries : task'[x] = "sending" <=> task[x] = "sending"
    BY <1>3 DEF InPlace, Spawn, TaskDelivered, TaskFails
  <2>2. SendingTasks' = SendingTasks /\ \A e : Sending(e)' = Sending(e)
    BY <2>1, SendingSame
  <2>3. UNCHANGED <<inbox, entry>>
    BY <1>3 DEF Spawn, TaskDelivered, TaskFails
  <2>4. /\ stats' \in [Endpoints -> Counters]
        /\ \A x \in Endpoints : stats'[x].queued = stats[x].queued
    BY <1>1, <1>3, CountFacts DEF Spawn, TaskDelivered, TaskFails
  <2>5. \A e : InMemory(e)' = InMemory(e)
    BY <2>2, <2>3 DEF InMemory
  <2>6. QueuedIsBacklog'
    BY <1>2, <2>4, <2>5 DEF QueuedIsBacklog
  <2> QED BY <1>1, <2>2, <2>4, <2>6 DEF CountInv
<1>4. CASE TaskQueues(d)
  <2>1. /\ task[d] = "spawned" /\ task' = [task EXCEPT ![d] = "sending"] /\ UNCHANGED <<inbox, entry>>
        /\ Count(Target(d), "queued", 1)
    BY <1>4 DEF TaskQueues
  <2>2. IsFiniteSet(SendingTasks')
    BY <1>1, <2>1, SendingMore
  <2>3. \A e : Cardinality(Sending(e)') = Cardinality(Sending(e)) + (IF Target(d) = e THEN 1 ELSE 0)
    BY <1>1, <2>1, SendingMore
  <2>4. /\ stats' \in [Endpoints -> Counters]
        /\ \A x \in Endpoints :
             stats'[x].queued = IF x = Target(d) THEN stats[x].queued + 1 ELSE stats[x].queued
    BY <1>1, <2>1, CountFacts
  <2>5. ASSUME NEW e \in ToSet(Handles)
        PROVE  stats'[e].queued = InMemory(e)'
    BY <1>2, <2>1, <2>3, <2>4 DEF InMemory
  <2> QED BY <2>2, <2>4, <2>5 DEF CountInv, QueuedIsBacklog
<1>5. CASE TaskSends(d)
  <2>1. /\ task[d] = "sending" /\ task' = [task EXCEPT ![d] = "ended"] /\ UNCHANGED <<entry, stats>>
        /\ inbox' = Append(inbox, NewEntry(d))
    BY <1>5 DEF TaskSends
  <2>2. IsFiniteSet(SendingTasks')
    BY <1>1, <2>1, SendingLess
  <2>3. \A e : Cardinality(Sending(e)') = Cardinality(Sending(e)) - (IF Target(d) = e THEN 1 ELSE 0)
    BY <1>1, <2>1, SendingLess
  <2>4. NewEntry(d) \in Entry /\ NewEntry(d).delivery = d
    BY Zenon DEF NewEntry, Entry
  <2>5. \A e : Cardinality(Places(inbox', e))
                 = Cardinality(Places(inbox, e)) + (IF Target(d) = e THEN 1 ELSE 0)
    BY <2>1, <2>4, PlacesOfAppend DEF Typed
  <2>6. ASSUME NEW e \in ToSet(Handles)
        PROVE  stats'[e].queued = InMemory(e)'
    <3>1. InMemory(e)' = Cardinality(Sending(e)') + Cardinality(Places(inbox', e))
                           + Cardinality(Places(entry, e))
      BY <2>1 DEF InMemory, Places
    <3> QED BY <1>2, <2>1, <2>3, <2>5, <3>1 DEF InMemory
  <2> QED BY <1>1, <2>1, <2>2, <2>6 DEF CountInv, QueuedIsBacklog
<1> QED BY <1>3, <1>4, <1>5

\* The outbox moves an entry from the channel to its hands, back, or out of memory:
\* only in the last case the counters move, with it.
LEMMA OutboxCounted ==
  ASSUME Typed, InPlace, CountInv,
         \/ OutboxReceive \/ OutboxDrop \/ OutboxDeletes \/ OutboxRetries \/ OutboxBuries
  PROVE  CountInv'
<1>1. /\ stats \in [Endpoints -> Counters] /\ IsFiniteSet(SendingTasks)
  BY DEF CountInv
<1>2. \A e \in ToSet(Handles) :
        /\ e \in Endpoints /\ stats[e].queued = InMemory(e)
        /\ Cardinality(Sending(e)) \in Nat /\ Cardinality(Places(inbox, e)) \in Nat
        /\ Cardinality(Places(entry, e)) \in Nat
  BY MemoryIsNat, HandlesAreEndpoints DEF CountInv, QueuedIsBacklog
<1>3. UNCHANGED task
  BY DEF OutboxReceive, OutboxDrop, OutboxDeletes, OutboxRetries, OutboxBuries
<1>4. SendingTasks' = SendingTasks /\ \A e : Sending(e)' = Sending(e)
  BY <1>3, SendingSame
<1>5. \A e : InMemory(e)' = Cardinality(Sending(e)) + Cardinality(Places(inbox', e))
                              + Cardinality(Places(entry', e))
  BY <1>4 DEF InMemory, Places
<1>6. SUFFICES /\ stats' \in [Endpoints -> Counters]
               /\ \A e \in ToSet(Handles) : stats'[e].queued = InMemory(e)'
  BY <1>1, <1>4 DEF CountInv, QueuedIsBacklog
<1>7. CASE OutboxReceive
  <2>1. inbox # <<>> /\ inbox' = Tail(inbox) /\ entry = <<>> /\ UNCHANGED stats
    BY <1>7 DEF OutboxReceive, Go, InPlace
  <2>2. PICK x \in Entry : entry' = <<x>> /\ x.delivery = Head(inbox).delivery
    <3>1. Head(inbox) \in Entry
      BY <2>1 DEF Typed
    <3>2. /\ [Head(inbox) EXCEPT !.stored = TRUE] \in Entry
          /\ [Head(inbox) EXCEPT !.stored = TRUE].delivery = Head(inbox).delivery
      BY <3>1, Zenon DEF Entry
    <3>3. entry' = <<[Head(inbox) EXCEPT !.stored = TRUE]>> \/ entry' = <<Head(inbox)>>
      BY <1>7, Zenon DEF OutboxReceive
    <3> QED BY <3>1, <3>2, <3>3
  <2>3. ASSUME NEW e \in ToSet(Handles)
        PROVE  stats'[e].queued = InMemory(e)'
    <3>1. Cardinality(Places(entry, e)) = 0
      BY <2>1, PlacesOfEmpty
    <3>2. Cardinality(Places(entry', e)) = IF Target(Head(inbox).delivery) = e THEN 1 ELSE 0
      BY <2>2, PlacesOfOne
    <3>3. Cardinality(Places(inbox, e)) = Cardinality(Places(inbox', e))
            + (IF Target(Head(inbox).delivery) = e THEN 1 ELSE 0)
      BY <2>1, PlacesOfTail DEF Typed
    <3>4. Cardinality(Places(inbox', e)) \in Nat
      <4>1. inbox' \in Seq(Entry)
        BY <2>1 DEF Typed
      <4> QED BY <4>1, PlacesFinite
    <3> QED BY <1>2, <1>5, <2>1, <3>1, <3>2, <3>3, <3>4 DEF InMemory
  <2> QED BY <1>1, <2>1, <2>3
<1>8. CASE OutboxDrop
  <2>1. /\ pc["outbox"] # "rest" /\ Target(Held) \notin ToSet(Handles)
        /\ entry' = <<>> /\ UNCHANGED <<inbox, stats>>
    BY <1>8 DEF OutboxDrop, Go
  <2>2. ASSUME NEW e \in ToSet(Handles)
        PROVE  stats'[e].queued = InMemory(e)'
    <3>1. Cardinality(Places(entry, e)) = 0 /\ Cardinality(Places(entry', e)) = 0
      BY <2>1, HeldCounts, PlacesOfEmpty
    <3> QED BY <1>2, <1>5, <2>1, <3>1 DEF InMemory
  <2> QED BY <1>1, <2>1, <2>2
<1>9. CASE OutboxRetries
  <2> DEFINE x == [entry[1] EXCEPT !.retries = @ + 1]
  <2>1. /\ pc["outbox"] # "rest" /\ entry' = <<>> /\ UNCHANGED stats
        /\ inbox' = Append(inbox, x)
    BY <1>9 DEF OutboxRetries, Go
  <2>2. x \in Entry /\ x.delivery = Held
    <3>1. entry[1] \in Entry
      BY <2>1, InHands
    <3> QED BY <3>1 DEF Entry, Held
  <2>3. ASSUME NEW e \in ToSet(Handles)
        PROVE  stats'[e].queued = InMemory(e)'
    <3>1. /\ Cardinality(Places(entry, e)) = IF Target(Held) = e THEN 1 ELSE 0
          /\ Cardinality(Places(entry', e)) = 0
      BY <2>1, HeldCounts, PlacesOfEmpty
    <3>2. Cardinality(Places(inbox', e))
            = Cardinality(Places(inbox, e)) + (IF Target(Held) = e THEN 1 ELSE 0)
      <4> HIDE DEF x
      <4> QED BY <2>1, <2>2, PlacesOfAppend DEF Typed
    <3>3. stats'[e].queued = InMemory(e)
      BY <1>2, <2>1
    <3>4. InMemory(e)' = InMemory(e)
      BY <1>2, <1>5, <3>1, <3>2 DEF InMemory
    <3> QED BY <3>3, <3>4
  <2> QED BY <1>1, <2>1, <2>3
<1>10. CASE OutboxDeletes \/ OutboxBuries
  <2>1. /\ pc["outbox"] \in {"delete", "bury"} /\ entry' = <<>> /\ UNCHANGED inbox
        /\ Settle(Target(Held), "delivered") \/ Settle(Target(Held), "dead")
    BY <1>10 DEF OutboxDeletes, OutboxBuries, Go
  <2>2. Target(Held) \in ToSet(Handles) /\ Target(Held) \in Endpoints
    BY <2>1, HandlesAreEndpoints DEF InPlace
  <2>3. \A e : Cardinality(Places(entry, e)) = IF Target(Held) = e THEN 1 ELSE 0
    BY <2>1, HeldCounts
  <2>4. stats[Target(Held)].queued >= 1
    BY <1>2, <2>2, <2>3 DEF InMemory
  <2>5. /\ stats' \in [Endpoints -> Counters]
        /\ \A e \in Endpoints :
             stats'[e].queued = IF e = Target(Held) THEN stats[e].queued - 1 ELSE stats[e].queued
    BY <1>1, <2>1, <2>2, <2>4, SettleFacts
  <2>6. \A e : Cardinality(Places(entry', e)) = 0
    BY <2>1, PlacesOfEmpty
  <2>7. ASSUME NEW e \in ToSet(Handles)
        PROVE  stats'[e].queued = InMemory(e)'
    BY <1>2, <1>5, <2>1, <2>3, <2>5, <2>6, <2>7 DEF InMemory
  <2> QED BY <2>5, <2>7
<1> QED BY <1>7, <1>8, <1>9, <1>10

\* Every step keeps the counters in step with the backlog.
LEMMA StepCounted ==
  ASSUME Typed, InPlace, CountInv, [Next]_vars
  PROVE  CountInv'
<1> USE DEF mem, db
<1>1. ASSUME NEW d \in Deliveries,
             \/ Spawn(d) \/ TaskDelivered(d) \/ TaskQueues(d) \/ TaskSends(d) \/ TaskFails(d)
      PROVE  CountInv'
  BY <1>1, DistributeCounted
<1>2. ASSUME \/ OutboxReceive \/ OutboxDrop \/ OutboxDeletes \/ OutboxRetries \/ OutboxBuries
      PROVE  CountInv'
  BY <1>2, OutboxCounted
<1>3. ASSUME UNCHANGED <<task, inbox, entry, stats>>
      PROVE  CountInv'
  <2>1. SendingTasks' = SendingTasks /\ \A e : Sending(e)' = Sending(e)
    BY <1>3, SendingSame
  <2>2. \A e : InMemory(e)' = InMemory(e)
    BY <1>3, <2>1 DEF InMemory, Places
  <2> QED BY <1>3, <2>1, <2>2 DEF CountInv, QueuedIsBacklog
<1>4. UNCHANGED vars \/ (\E d \in Deliveries : BackoffElapses(d)) => UNCHANGED <<task, inbox, entry, stats>>
  BY DEF vars, BackoffElapses
<1>5. OutboxDelivers \/ OutboxGivesUp \/ WorkerPolls => UNCHANGED <<task, inbox, entry, stats>>
  BY DEF OutboxDelivers, OutboxGivesUp, WorkerPolls
<1>6. ASSUME NEW w \in Workers, Move(w)
      PROVE  UNCHANGED <<task, inbox, entry, stats>>
  BY <1>6 DEF Move, MoveSelect, MoveInsert, MoveConflict, MoveDelete, MoveFails, MoveStep
<1>7. RunWorker => UNCHANGED <<task, inbox, entry, stats>>
  BY <1>6 DEF RunWorker, WorkerTakes, WorkerRejects, TakeUp, WorkerDelivers, WorkerNextHandle, WorkerSchedules,
              WorkerUpdates, WorkerDeletes, Workers
<1>8. ASSUME Crash
      PROVE  CountInv'
  <2>1. inbox' = <<>> /\ entry' = <<>> /\ stats' = NoStats /\ SendingTasks' = {}
    BY <1>8 DEF Crash, SendingTasks, InPlace
  <2>2. \A e : Sending(e)' = {}
    BY <2>1 DEF Sending, SendingTasks
  <2>3. ASSUME NEW e \in ToSet(Handles)
        PROVE  stats'[e].queued = InMemory(e)'
    <3>1. Cardinality(Sending(e)') = 0 /\ Cardinality(Places(inbox', e)) = 0
          /\ Cardinality(Places(entry', e)) = 0
      BY <2>1, <2>2, PlacesOfEmpty, FS_EmptySet
    <3>2. InMemory(e)' = 0
      BY <3>1 DEF InMemory, Places
    <3>3. stats'[e].queued = 0
      BY <2>1, HandlesAreEndpoints DEF NoStats
    <3> QED BY <3>2, <3>3
  <2>4. stats' \in [Endpoints -> Counters]
    BY <2>1 DEF NoStats, Counters
  <2> QED BY <2>1, <2>3, <2>4, FS_EmptySet DEF CountInv, QueuedIsBacklog
<1> QED BY <1>1, <1>2, <1>3, <1>4, <1>5, <1>6, <1>7, <1>8
     DEF Next, Distribute, RunOutbox, Workers

LEMMA InitCounted ==
  ASSUME Init
  PROVE  InPlace /\ CountInv
<1>1. InPlace
  BY OutboxAssumption DEF Init, InPlace, Workers, NewRow, Moving
<1>2. inbox = <<>> /\ entry = <<>> /\ stats = NoStats /\ SendingTasks = {}
  BY DEF Init, SendingTasks
<1>3. \A e : Sending(e) = {}
  BY <1>2 DEF Sending, SendingTasks
<1>4. ASSUME NEW e \in ToSet(Handles)
      PROVE  stats[e].queued = InMemory(e)
  <2>1. Cardinality(Sending(e)) = 0 /\ Cardinality(Places(inbox, e)) = 0
        /\ Cardinality(Places(entry, e)) = 0
    BY <1>2, <1>3, PlacesOfEmpty, FS_EmptySet
  <2> QED BY <1>2, <2>1, HandlesAreEndpoints DEF InMemory, NoStats
<1>5. stats \in [Endpoints -> Counters]
  BY <1>2 DEF NoStats, Counters
<1> QED BY <1>1, <1>2, <1>4, <1>5, FS_EmptySet DEF CountInv, QueuedIsBacklog

\* What is in step with what, in every state.
LEMMA AlwaysCounted == Spec => [](Typed /\ InPlace /\ CountInv)
<1>1. Init => Typed /\ InPlace /\ CountInv
  BY InitDead, InitCounted DEF DeadInv
<1>2. Typed /\ InPlace /\ CountInv /\ [Next]_vars => (Typed /\ InPlace /\ CountInv)'
  BY StepTyped, StepInPlace, StepCounted
<1> QED BY <1>1, <1>2, PTL DEF Spec

\* Every variable keeps its type: no count of a row reaches the limit at which it
\* is buried, and no counter of DistributorStats, an u64, goes below zero.
THEOREM OutboxTypeCorrect == Spec => []TypeOK
<1>1. ASSUME Typed, InPlace, CountInv
      PROVE  TypeOK
  <2>1. \A d \in DOMAIN pending : pending[d] \in [attempts : 0..(MaxAttempts - 1), due : BOOLEAN]
    <3> SUFFICES ASSUME NEW d \in DOMAIN pending
                 PROVE  pending[d] \in [attempts : 0..(MaxAttempts - 1), due : BOOLEAN]
      OBVIOUS
    <3>1. pending[d] \in [attempts : Nat, due : BOOLEAN] /\ pending[d].attempts < MaxAttempts
      BY <1>1 DEF Typed, InPlace
    <3>2. pending[d].attempts \in 0..(MaxAttempts - 1)
      BY <3>1, OutboxAssumption
    <3> QED BY <3>1, <3>2
  <2> QED BY <1>1, <2>1 DEF TypeOK, Typed, InPlace, CountInv
<1> QED BY <1>1, AlwaysCounted, PTL

\* The queued counter of DistributorStats is the endpoint's backlog in memory: a task
\* counts its entry before it sends it, and the outbox takes the count back when it
\* lets go of the entry, whatever retries, buries or is lost in a crash meanwhile.
THEOREM QueuedCountsBacklog == Spec => []QueuedIsBacklog
<1>1. CountInv => QueuedIsBacklog
  BY DEF CountInv
<1> QED BY <1>1, AlwaysCounted, PTL

=============================================================================
