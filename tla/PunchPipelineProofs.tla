------------------------ MODULE PunchPipelineProofs ------------------------
(***************************************************************************)
(* Proofs about PunchPipeline, for any punches, capacities and bounds.      *)
(***************************************************************************)
EXTENDS PunchPipeline, TLAPS

-----------------------------------------------------------------------------
(* Sequences of punches.                                                   *)

\* The elements of a concatenation (queue \o hand, buffer \o queue).
LEMMA ElementsConcat ==
  ASSUME NEW S, NEW s \in Seq(S), NEW t \in Seq(S)
  PROVE  s \o t \in Seq(S) /\ Elements(s \o t) = Elements(s) \cup Elements(t)
<1>1. s \o t \in Seq(S) /\ Len(s \o t) = Len(s) + Len(t)
  OBVIOUS
<1>2. ASSUME NEW x \in Elements(s \o t)
      PROVE  x \in Elements(s) \cup Elements(t)
  <2>1. PICK i \in 1..(Len(s) + Len(t)) : x = (s \o t)[i]
    BY <1>1, <1>2 DEF Elements
  <2>2. CASE i <= Len(s)
    <3>1. i \in 1..Len(s) /\ x = s[i]
      BY <2>1, <2>2
    <3> QED BY <3>1 DEF Elements
  <2>3. CASE i > Len(s)
    <3>1. i - Len(s) \in 1..Len(t) /\ x = t[i - Len(s)]
      BY <2>1, <2>3
    <3> QED BY <3>1 DEF Elements
  <2> QED BY <2>1, <2>2, <2>3
<1>3. ASSUME NEW x \in Elements(s)
      PROVE  x \in Elements(s \o t)
  <2>1. PICK i \in 1..Len(s) : x = s[i]
    BY <1>3 DEF Elements
  <2>2. i \in 1..(Len(s) + Len(t)) /\ (s \o t)[i] = x
    BY <2>1
  <2> QED BY <1>1, <2>2 DEF Elements
<1>4. ASSUME NEW x \in Elements(t)
      PROVE  x \in Elements(s \o t)
  <2>1. PICK i \in 1..Len(t) : x = t[i]
    BY <1>4 DEF Elements
  <2>2. Len(s) + i \in 1..(Len(s) + Len(t)) /\ (s \o t)[Len(s) + i] = x
    BY <2>1
  <2> QED BY <1>1, <2>2 DEF Elements
<1> QED BY <1>1, <1>2, <1>3, <1>4

\* One more element (Vec::push).
LEMMA ElementsAppend ==
  ASSUME NEW S, NEW s \in Seq(S), NEW e \in S
  PROVE  /\ Append(s, e) \in Seq(S) /\ Len(Append(s, e)) = Len(s) + 1
         /\ Elements(Append(s, e)) = Elements(s) \cup {e}
<1>1. /\ Append(s, e) \in Seq(S) /\ Len(Append(s, e)) = Len(s) + 1
      /\ \A i \in 1..Len(s) : Append(s, e)[i] = s[i]
      /\ Append(s, e)[Len(s) + 1] = e
  OBVIOUS
<1>2. DOMAIN Append(s, e) = 1..(Len(s) + 1) /\ DOMAIN s = 1..Len(s)
  BY <1>1
<1>3. 1..(Len(s) + 1) = (1..Len(s)) \cup {Len(s) + 1}
  OBVIOUS
<1> QED BY <1>1, <1>2, <1>3 DEF Elements

\* The elements of a sequence are its head and those of its tail.
LEMMA ElementsTail ==
  ASSUME NEW S, NEW s \in Seq(S), s # <<>>
  PROVE  /\ Head(s) \in S /\ Tail(s) \in Seq(S) /\ Len(Tail(s)) = Len(s) - 1
         /\ Elements(s) = {Head(s)} \cup Elements(Tail(s))
<1>1. /\ Head(s) \in S /\ Tail(s) \in Seq(S) /\ Len(s) > 0
      /\ Len(Tail(s)) = Len(s) - 1 /\ Head(s) = s[1]
      /\ \A i \in 1..(Len(s) - 1) : Tail(s)[i] = s[i + 1]
  OBVIOUS
<1>2. DOMAIN s = 1..Len(s) /\ DOMAIN Tail(s) = 1..(Len(s) - 1)
  BY <1>1
<1>3. ASSUME NEW x \in Elements(s)
      PROVE  x \in {Head(s)} \cup Elements(Tail(s))
  <2>1. PICK i \in 1..Len(s) : x = s[i]
    BY <1>2, <1>3 DEF Elements
  <2>2. CASE i = 1
    BY <1>1, <2>1, <2>2
  <2>3. CASE i > 1
    <3>1. i - 1 \in 1..(Len(s) - 1) /\ Tail(s)[i - 1] = x
      BY <1>1, <2>1, <2>3
    <3> QED BY <1>2, <3>1 DEF Elements
  <2> QED BY <2>1, <2>2, <2>3
<1>4. Head(s) \in Elements(s)
  BY <1>1, <1>2 DEF Elements
<1>5. ASSUME NEW x \in Elements(Tail(s))
      PROVE  x \in Elements(s)
  <2>1. PICK i \in 1..(Len(s) - 1) : x = Tail(s)[i]
    BY <1>2, <1>5 DEF Elements
  <2>2. i + 1 \in 1..Len(s) /\ s[i + 1] = x
    BY <1>1, <2>1
  <2> QED BY <1>2, <2>2 DEF Elements
<1> QED BY <1>1, <1>3, <1>4, <1>5

\* The empty buffer holds nothing.
LEMMA ElementsEmpty == Elements(<<>>) = {}
BY DEF Elements

-----------------------------------------------------------------------------
(* Type correctness.                                                       *)

\* The cache holds punches only, before and after an eviction.
LEMMA RememberType ==
  ASSUME TypeOK, NEW p \in Punches, Remember(p)
  PROVE  seen' \subseteq Punches /\ evicted' \subseteq Punches /\ early' \subseteq evicted'
<1>1. PICK out \in Evicted : /\ seen' = (seen \ out) \cup {p}
                            /\ evicted' = evicted \cup out
                            /\ early' = early \cup (out \ stored)
  BY DEF Remember
<1>2. out \subseteq seen
  BY DEF Evicted
<1> QED BY <1>1, <1>2 DEF TypeOK

\* The memory of a new process is well typed.
LEMMA EmptyMemoryType ==
  ASSUME EmptyMemory
  PROVE  /\ bus' \in Seq(Punches) /\ Len(bus') <= BusCapacity
         /\ seen' \subseteq Punches
         /\ hand' \in Seq(Punches) /\ Len(hand') <= 1
         /\ stage' \in Stages /\ (stage' = "idle" <=> hand' = <<>>)
         /\ queue' \in Seq(Punches)
         /\ buffer' \in Seq(Punches) /\ Len(buffer') < MaxBatch
         /\ batch' \in Seq(Punches) /\ storing' \in BOOLEAN
         /\ accepted' \in [Punches -> 0..2]
         /\ evicted' \subseteq Punches /\ early' \subseteq evicted'
<1>1. <<>> \in Seq(Punches) /\ Len(<<>>) = 0
  OBVIOUS
<1>2. [p \in Punches |-> 0] \in [Punches -> 0..2]
  OBVIOUS
<1>3. seen' \subseteq Punches /\ evicted' \subseteq Punches /\ early' \subseteq evicted'
  BY DEF EmptyMemory
<1>4. storing' \in BOOLEAN
  BY Zenon DEF EmptyMemory
<1>5. stage' \in Stages /\ (stage' = "idle" <=> hand' = <<>>)
  BY Zenon DEF EmptyMemory, Stages
<1>6. 0 <= BusCapacity /\ 0 < MaxBatch /\ 0 <= 1
  BY PipelineAssumption
<1>7. /\ bus' \in Seq(Punches) /\ Len(bus') <= BusCapacity
      /\ hand' \in Seq(Punches) /\ Len(hand') <= 1
      /\ queue' \in Seq(Punches)
      /\ buffer' \in Seq(Punches) /\ Len(buffer') < MaxBatch
      /\ batch' \in Seq(Punches)
  BY <1>1, <1>6, Zenon DEF EmptyMemory
<1>8. accepted' \in [Punches -> 0..2]
  BY <1>2 DEF EmptyMemory
<1> QED BY <1>3, <1>4, <1>5, <1>7, <1>8

\* Every step of the engine, the writer and the process keeps the types, the
\* bus within its capacity and the writer's buffer below a full batch.
LEMMA TypeStep == TypeOK /\ [Next]_vars => TypeOK'
<1> SUFFICES ASSUME TypeOK, [Next]_vars PROVE TypeOK'
  OBVIOUS
<1> USE PipelineAssumption DEF history
<1>1. ASSUME NEW p \in Punches, Record(p) PROVE TypeOK'
  BY <1>1 DEF TypeOK, Record, memory, counts
<1>2. ASSUME NEW p \in Punches, Publish(p) PROVE TypeOK'
  <2>1. bus' \in Seq(Punches) /\ Len(bus') <= BusCapacity
    <3>1. CASE Len(bus) = BusCapacity
      <4>1. Tail(bus) \in Seq(Punches) /\ Len(Tail(bus)) = BusCapacity - 1
        BY <3>1, ElementsTail DEF TypeOK
      <4> QED BY <1>2, <3>1, <4>1, ElementsAppend DEF Publish
    <3>2. CASE Len(bus) < BusCapacity
      BY <1>2, <3>2, ElementsAppend DEF Publish, TypeOK
    <3> QED BY <3>1, <3>2 DEF TypeOK
  <2> QED BY <1>2, <2>1 DEF TypeOK, Publish, counts
<1>3. ASSUME NEW p \in Punches, CacheHit(p) PROVE TypeOK'
  <2>1. bus' \in Seq(Punches) /\ Len(bus') <= BusCapacity
    BY <1>3, ElementsTail DEF TypeOK, CacheHit, Receive
  <2> QED BY <1>3, <2>1 DEF TypeOK, CacheHit, Receive, counts
<1>4. ASSUME NEW p \in Punches, CacheMiss(p) PROVE TypeOK'
  <2>1. bus' \in Seq(Punches) /\ Len(bus') <= BusCapacity
    BY <1>4, ElementsTail DEF TypeOK, CacheMiss, Receive
  <2>2. hand' \in Seq(Punches) /\ Len(hand') <= 1 /\ hand' # <<>> /\ stage' = "asking"
    BY <1>4 DEF CacheMiss
  <2> QED BY <1>4, <2>1, <2>2 DEF TypeOK, CacheMiss, Receive, counts, Stages
<1>5. CASE LookupAnswers
  BY <1>5 DEF TypeOK, LookupAnswers, counts, Stages
<1>6. CASE LookupFails
  BY <1>6 DEF TypeOK, LookupFails, counts, Stages
<1>7. CASE StorageHit
  <2>1. Head(hand) \in Punches
    BY <1>7, ElementsTail DEF TypeOK, StorageHit
  <2>2. seen' \subseteq Punches /\ evicted' \subseteq Punches /\ early' \subseteq evicted'
    BY <1>7, <2>1, RememberType DEF StorageHit
  <2> QED BY <1>7, <2>2 DEF TypeOK, StorageHit, counts, Stages
<1>8. CASE Accept
  <2>1. Head(hand) \in Punches /\ hand # <<>>
    BY <1>8, ElementsTail DEF TypeOK, Accept
  <2>2. seen' \subseteq Punches /\ evicted' \subseteq Punches /\ early' \subseteq evicted'
    BY <1>8, <2>1, RememberType DEF Accept
  <2>3. accepted' \in [Punches -> 0..2]
    BY <1>8, <2>1 DEF TypeOK, Accept
  <2> QED BY <1>8, <2>1, <2>2, <2>3 DEF TypeOK, Accept, counts, Stages
<1>9. CASE Forward
  <2>1. queue' \in Seq(Punches)
    BY <1>9, ElementsConcat DEF TypeOK, Forward
  <2> QED BY <1>9, <2>1 DEF TypeOK, Forward, counts, Stages
<1>10. CASE Collect
  <2>1. Head(queue) \in Punches /\ queue' \in Seq(Punches)
    BY <1>10, ElementsTail DEF TypeOK, Collect
  <2> DEFINE full == Append(buffer, Head(queue))
  <2>2. full \in Seq(Punches)
    BY <2>1, ElementsAppend DEF TypeOK
  <2>3. CASE Len(full) >= MaxBatch
    <3>1. batch' = full /\ buffer' = <<>> /\ storing' = TRUE
      BY <1>10, <2>3 DEF Collect, Flush
    <3>2. buffer' \in Seq(Punches) /\ Len(buffer') < MaxBatch
      BY <3>1
    <3> HIDE DEF full
    <3> QED BY <1>10, <2>1, <2>2, <3>1, <3>2 DEF TypeOK, Collect, counts
  <2>4. CASE ~(Len(full) >= MaxBatch)
    <3>1. buffer' = full /\ batch' = batch /\ storing' = storing /\ Len(full) < MaxBatch
      BY <1>10, <2>2, <2>4 DEF Collect
    <3> HIDE DEF full
    <3> QED BY <1>10, <2>1, <2>2, <3>1 DEF TypeOK, Collect, counts
  <2> QED BY <2>3, <2>4
<1>11. CASE Interval
  <2>1. buffer' \in Seq(Punches) /\ Len(buffer') < MaxBatch /\ batch' = buffer /\ storing' = TRUE
    BY <1>11 DEF Interval, Flush
  <2> QED BY <1>11, <2>1 DEF TypeOK, Interval, counts
<1>12. CASE Drain
  <2>1. buffer' \in Seq(Punches) /\ Len(buffer') < MaxBatch /\ storing' = TRUE
    BY <1>12 DEF Drain, Flush
  <2>2. batch' \in Seq(Punches) /\ queue' \in Seq(Punches)
    BY <1>12, ElementsConcat DEF Drain, Flush, TypeOK
  <2> QED BY <1>12, <2>1, <2>2 DEF TypeOK, Drain, counts
<1>13. CASE StoreOk
  <2>1. Elements(batch) \subseteq Punches
    BY DEF TypeOK, Elements
  <2>2. batch' \in Seq(Punches) /\ storing' \in BOOLEAN
    <3>1. batch' = <<>>
      BY <1>13 DEF StoreOk
    <3>2. storing' \in BOOLEAN
      BY <1>13, Zenon DEF StoreOk
    <3> QED BY <3>1, <3>2
  <2>3. stored' \subseteq Punches
    BY <1>13, <2>1 DEF StoreOk, TypeOK
  <2> QED BY <1>13, <2>2, <2>3 DEF TypeOK, StoreOk, counts
<1>14. CASE StoreFails
  <2>1. batch' \in Seq(Punches) /\ storing' \in BOOLEAN
    <3>1. batch' = <<>>
      BY <1>14 DEF StoreFails
    <3>2. storing' \in BOOLEAN
      BY <1>14, Zenon DEF StoreFails
    <3> QED BY <3>1, <3>2
  <2>2. lost' \subseteq Punches
    BY <1>14 DEF StoreFails, TypeOK, Elements
  <2> QED BY <1>14, <2>1, <2>2 DEF TypeOK, StoreFails
<1>15. CASE CtrlC
  BY <1>15 DEF TypeOK, CtrlC, Stages
<1>16. CASE Exit
  <2>1. EmptyMemory
    BY <1>16 DEF Exit
  <2> QED BY <1>16, <2>1, EmptyMemoryType DEF TypeOK, Exit, counts
<1>17. CASE Crash
  <2>1. EmptyMemory
    BY <1>17 DEF Crash
  <2> QED BY <1>17, <2>1, EmptyMemoryType DEF TypeOK, Crash
<1>18. CASE Start
  BY <1>18 DEF TypeOK, Start, memory, counts
<1>19. CASE UNCHANGED vars
  BY <1>19 DEF TypeOK, vars, memory, counts
<1> QED
  BY <1>1, <1>2, <1>3, <1>4, <1>5, <1>6, <1>7, <1>8, <1>9, <1>10, <1>11, <1>12,
     <1>13, <1>14, <1>15, <1>16, <1>17, <1>18, <1>19
  DEF Next, Consume, Handle, Lookup, Write

\* The pipeline is type correct: in particular a lagging receiver never exceeds
\* the bus's capacity and the writer never holds a full batch unflushed.
THEOREM PipelineTypeCorrect == Spec => []TypeOK
<1>1. Init => TypeOK
  <2> SUFFICES ASSUME Init PROVE TypeOK
    OBVIOUS
  <2>1. <<>> \in Seq(Punches) /\ Len(<<>>) = 0
    OBVIOUS
  <2>2. accepted \in [Punches -> 0..2]
    BY DEF Init
  <2>3. /\ log \subseteq Punches /\ seen \subseteq Punches /\ stored \subseteq Punches /\ lost \subseteq Punches
        /\ evicted \subseteq Punches /\ early \subseteq evicted
    BY DEF Init
  <2>4. storing \in BOOLEAN
    BY Zenon DEF Init
  <2>5. stage \in Stages /\ (stage = "idle" <=> hand = <<>>) /\ phase \in {"running", "stopping", "down"}
    BY Zenon DEF Init, Stages
  <2>6. 0 <= BusCapacity /\ 0 < MaxBatch /\ 0 <= 1
    BY PipelineAssumption
  <2>7. /\ bus \in Seq(Punches) /\ Len(bus) <= BusCapacity
        /\ hand \in Seq(Punches) /\ Len(hand) <= 1
        /\ queue \in Seq(Punches)
        /\ buffer \in Seq(Punches) /\ Len(buffer) < MaxBatch
        /\ batch \in Seq(Punches)
    BY <2>1, <2>6, Zenon DEF Init
  <2>8. /\ crashes \in 0..MaxCrashes
        /\ storeFailures \in Nat /\ lookupFailures \in Nat
        /\ storeFailures + lookupFailures <= MaxFailures
    BY PipelineAssumption DEF Init
  <2> QED BY <2>2, <2>3, <2>4, <2>5, <2>7, <2>8 DEF TypeOK
<1> QED BY <1>1, TypeStep, PTL DEF Spec

-----------------------------------------------------------------------------
(* What the cache remembers is kept.  RememberedIsKept is not inductive: a   *)
(* storage hit needs the answer still to hold when it is applied, a start    *)
(* needs the cache empty, a flush needs the previous batch gone.             *)

\* InFlight as a union.
Flight ==
  Elements(batch) \cup Elements(buffer) \cup Elements(queue)
    \cup (IF stage = "passed" THEN Elements(hand) ELSE {})

\* Where the punches are that a process may forget about.
Kept == stored \cup Flight \cup lost

KeptInv ==
  /\ phase = "running" => seen \subseteq Kept
  /\ stage = "found" => Head(hand) \in stored
  /\ phase = "down" => seen = {} /\ hand = <<>>
  /\ ~storing => batch = <<>>

\* The elements of the four stations a punch passes on its way to storage.
LEMMA FourElements ==
  ASSUME NEW S, NEW a \in Seq(S), NEW b \in Seq(S), NEW c \in Seq(S), NEW d \in Seq(S)
  PROVE  Elements(a \o b \o c \o d) = Elements(a) \cup Elements(b) \cup Elements(c) \cup Elements(d)
<1> DEFINE ab == a \o b
           abc == ab \o c
<1>1. ab \in Seq(S) /\ Elements(ab) = Elements(a) \cup Elements(b)
  BY ElementsConcat
<1> HIDE DEF ab
<1>2. abc \in Seq(S) /\ Elements(abc) = Elements(ab) \cup Elements(c)
  BY <1>1, ElementsConcat
<1> HIDE DEF abc
<1>3. Elements(abc \o d) = Elements(abc) \cup Elements(d)
  BY <1>2, ElementsConcat
<1> QED BY <1>1, <1>2, <1>3 DEF ab, abc

\* InFlight, read off the sequences, is the union Flight.
LEMMA InFlightIsFlight == TypeOK => InFlight = Flight
<1> SUFFICES ASSUME TypeOK PROVE InFlight = Flight
  OBVIOUS
<1>1. CASE stage = "passed"
  <2>1. Elements(batch \o buffer \o queue \o hand)
          = Elements(batch) \cup Elements(buffer) \cup Elements(queue) \cup Elements(hand)
    BY FourElements DEF TypeOK
  <2> QED BY <1>1, <2>1 DEF InFlight, Pending, Flight
<1>2. CASE stage # "passed"
  <2> DEFINE none == <<>>
  <2>1. none \in Seq(Punches) /\ Elements(none) = {}
    BY ElementsEmpty
  <2> HIDE DEF none
  <2>2. Elements(batch \o buffer \o queue \o none)
          = Elements(batch) \cup Elements(buffer) \cup Elements(queue) \cup Elements(none)
    BY <2>1, FourElements DEF TypeOK
  <2> QED BY <1>2, <2>1, <2>2 DEF none, InFlight, Pending, Flight
<1> QED BY <1>1, <1>2

\* A punch moves from station to station and leaves the last one for the
\* database or, when the flush fails, for the lost ones; what the engine newly
\* remembers or lets through is stored or enters the first station.
LEMMA StationsHandOn ==
  ASSUME TypeOK, KeptInv, [Next]_vars, phase = "running", phase' = "running"
  PROVE  /\ Kept \subseteq Kept'
         /\ seen' \subseteq seen \cup Kept'
         /\ \A p \in Punches : accepted'[p] # accepted[p] => p \in Kept'
<1> USE DEF history
<1> DEFINE Goal == /\ Kept \subseteq Kept'
                   /\ seen' \subseteq seen \cup Kept'
                   /\ \A p \in Punches : accepted'[p] # accepted[p] => p \in Kept'
<1>1. ASSUME NEW p \in Punches, Record(p) \/ Publish(p) \/ CacheHit(p) PROVE Goal
  BY <1>1 DEF Kept, Flight, Record, Publish, CacheHit, Receive, memory, counts
<1>2. ASSUME NEW p \in Punches, CacheMiss(p) PROVE Goal
  BY <1>2 DEF Kept, Flight, CacheMiss, Receive, TypeOK, counts
<1>3. CASE LookupAnswers \/ LookupFails
  BY <1>3 DEF Kept, Flight, LookupAnswers, LookupFails, counts
<1>4. CASE StorageHit
  <2>1. seen' \subseteq seen \cup {Head(hand)} /\ Head(hand) \in stored
    BY <1>4 DEF StorageHit, Remember, Evicted, KeptInv, counts
  <2>2. Flight' = Flight
    BY <1>4 DEF StorageHit, Flight
  <2> QED BY <1>4, <2>1, <2>2 DEF StorageHit, Kept, counts
<1>5. CASE Accept
  <2>1. seen' \subseteq seen \cup {Head(hand)}
    BY <1>5 DEF Accept, Remember, Evicted
  <2>2. Head(hand) \in Elements(hand)
    BY <1>5, ElementsTail DEF Accept, TypeOK
  <2>3. Flight' = Flight \cup Elements(hand)
    BY <1>5 DEF Accept, Flight
  <2>4. \A p \in Punches : p # Head(hand) => accepted'[p] = accepted[p]
    BY <1>5 DEF Accept, TypeOK
  <2> QED BY <1>5, <2>1, <2>2, <2>3, <2>4 DEF Accept, Kept, counts
<1>6. CASE Forward
  <2>1. Elements(queue') = Elements(queue) \cup Elements(hand)
    BY <1>6, ElementsConcat DEF Forward, TypeOK
  <2> QED BY <1>6, <2>1 DEF Kept, Flight, Forward, counts
<1>7. CASE Collect
  <2>1. /\ Head(queue) \in Punches /\ queue' = Tail(queue)
        /\ Elements(queue) = {Head(queue)} \cup Elements(queue')
    BY <1>7, ElementsTail DEF Collect, TypeOK
  <2> DEFINE full == Append(buffer, Head(queue))
  <2>2. Elements(full) = Elements(buffer) \cup {Head(queue)}
    BY <2>1, ElementsAppend DEF TypeOK
  <2>3. batch = <<>>
    BY <1>7 DEF Collect, KeptInv, counts
  <2>4. Flight' = Flight
    <3>1. CASE Len(full) >= MaxBatch
      <4>1. batch' = full /\ buffer' = <<>>
        BY <1>7, <3>1 DEF Collect, Flush
      <4> QED BY <1>7, <2>1, <2>2, <2>3, <4>1, ElementsEmpty DEF Flight, Collect
    <3>2. CASE ~(Len(full) >= MaxBatch)
      <4>1. buffer' = full /\ batch' = batch
        BY <1>7, <3>2 DEF Collect
      <4> QED BY <1>7, <2>1, <2>2, <4>1 DEF Flight, Collect
    <3> QED BY <3>1, <3>2
  <2> QED BY <1>7, <2>4 DEF Kept, Collect, counts
<1>8. CASE Interval
  <2>1. batch = <<>> /\ batch' = buffer /\ buffer' = <<>>
    BY <1>8 DEF Interval, Flush, KeptInv, counts
  <2>2. Flight' = Flight
    BY <1>8, <2>1, ElementsEmpty DEF Flight, Interval
  <2> QED BY <1>8, <2>2 DEF Kept, Interval, counts
<1>9. CASE StoreOk
  <2>1. batch' = <<>>
    BY <1>9 DEF StoreOk
  <2>2. Kept' = Kept
    BY <1>9, <2>1, ElementsEmpty DEF StoreOk, Kept, Flight, counts
  <2> QED BY <1>9, <2>2 DEF StoreOk
<1>10. CASE StoreFails
  <2>1. batch' = <<>> /\ lost' = lost \cup Elements(batch)
    BY <1>10 DEF StoreFails
  <2>2. Kept' = Kept
    BY <1>10, <2>1, ElementsEmpty DEF StoreFails, Kept, Flight
  <2> QED BY <1>10, <2>2 DEF StoreFails
<1>11. CASE UNCHANGED vars
  BY <1>11 DEF Kept, Flight, vars, memory, counts
<1> QED
  BY <1>1, <1>2, <1>3, <1>4, <1>5, <1>6, <1>7, <1>8, <1>9, <1>10, <1>11
  DEF Next, Consume, Handle, Lookup, Write, Drain, CtrlC, Exit, Crash, Start

\* Only the process's start, stop and death change the phase, and only Accept
\* lets punches through, until the memory is gone.
LEMMA PhaseAndAccepted ==
  ASSUME [Next]_vars
  PROVE  /\ UNCHANGED phase \/ CtrlC \/ Exit \/ Crash \/ Start
         /\ UNCHANGED accepted \/ Accept \/ EmptyMemory
<1> USE DEF history
<1>1. CASE \E p \in Punches : Record(p) \/ Publish(p) \/ Consume(p)
  BY <1>1 DEF Record, Publish, Consume, CacheHit, CacheMiss, memory
<1>2. CASE Handle
  BY <1>2 DEF Handle, Lookup, LookupAnswers, LookupFails, StorageHit, Accept, Forward
<1>3. CASE Write
  BY <1>3 DEF Write, Collect, Interval, Drain, StoreOk, StoreFails
<1>4. CASE CtrlC \/ Exit \/ Crash \/ Start \/ UNCHANGED vars
  BY <1>4 DEF CtrlC, Exit, Crash, Start, vars, memory
<1> QED BY <1>1, <1>2, <1>3, <1>4 DEF Next

\* Every step keeps the strengthened invariant.
LEMMA KeptStep ==
  ASSUME TypeOK, KeptInv, [Next]_vars
  PROVE  KeptInv'
<1>1. (phase = "running" => seen \subseteq Kept)'
  <2>1. CASE phase = "running"
    BY <2>1, StationsHandOn DEF KeptInv
  <2>2. CASE phase # "running" /\ phase' = "running"
    <3>1. Start
      BY <2>2, PhaseAndAccepted DEF CtrlC, Exit, Crash
    <3> QED BY <3>1 DEF Start, KeptInv, memory
  <2> QED BY <2>1, <2>2
<1> DEFINE Goal == /\ stage' = "found" => Head(hand)' \in stored'
                   /\ phase' = "down" => seen' = {} /\ hand' = <<>>
                   /\ ~storing' => batch' = <<>>
<1> SUFFICES Goal
  BY <1>1 DEF KeptInv
<1>2. ASSUME NEW p \in Punches, Record(p) \/ Publish(p) \/ Consume(p) PROVE Goal
  BY <1>2 DEF KeptInv, Record, Publish, Consume, CacheHit, CacheMiss, Receive, memory, counts
<1>3. CASE Lookup \/ Forward
  BY <1>3 DEF KeptInv, Lookup, LookupAnswers, LookupFails, Forward, counts
<1>4. CASE StorageHit \/ Accept
  <2>1. phase # "down"
    BY <1>4 DEF StorageHit, Accept, KeptInv, TypeOK
  <2> QED BY <1>4, <2>1 DEF StorageHit, Accept, KeptInv
<1>5. CASE Collect \/ Interval \/ Drain
  <2>1. storing' \/ (UNCHANGED <<storing, batch>>)
    BY <1>5, Zenon DEF Collect, Interval, Drain, Flush
  <2> QED BY <1>5, <2>1 DEF Collect, Interval, Drain, KeptInv, counts
<1>6. CASE StoreOk \/ StoreFails
  BY <1>6 DEF KeptInv, StoreOk, StoreFails, counts
<1>7. CASE CtrlC \/ Start \/ UNCHANGED vars
  BY <1>7 DEF KeptInv, CtrlC, Start, vars, memory, counts
<1>8. CASE Exit \/ Crash
  BY <1>8 DEF Exit, Crash, EmptyMemory
<1> QED BY <1>2, <1>3, <1>4, <1>5, <1>6, <1>7, <1>8 DEF Next, Handle, Write

\* The dedup cache never holds the id of a punch that is neither stored nor on
\* its way, except through a failed flush: filtering on it loses nothing else,
\* whatever the sizes of bus, cache and batch and however often the process dies.
THEOREM CacheLosesNothing ==
  Spec => []RememberedIsKept
<1>1. Init => KeptInv
  BY DEF Init, KeptInv
<1>2. TypeOK /\ KeptInv => RememberedIsKept
  BY InFlightIsFlight DEF KeptInv, Kept, RememberedIsKept
<1>3. TypeOK /\ KeptInv /\ [Next]_vars => KeptInv'
  BY KeptStep
<1> QED BY <1>1, <1>2, <1>3, PipelineTypeCorrect, PTL DEF Spec

-----------------------------------------------------------------------------
(* What a running process let through is kept, also once the cache has       *)
(* evicted it.                                                               *)

\* Behind Accept a punch passes the four stations to the database; only a
\* failed flush ends its way elsewhere.
AcceptedIsKept ==
  phase = "running" => \A p \in Punches : accepted[p] > 0 => p \in stored \cup InFlight \cup lost

\* The same of the union; a process starts without having let anything through.
AcceptedInv ==
  /\ phase = "running" => \A p \in Punches : accepted[p] > 0 => p \in Kept
  /\ phase = "down" => \A p \in Punches : accepted[p] = 0

\* A process that is up lets punches through only while it runs.
LEMMA AcceptedStep ==
  ASSUME TypeOK, KeptInv, AcceptedInv, [Next]_vars
  PROVE  AcceptedInv'
<1> USE DEF history
<1>1. CASE phase = "running" /\ phase' = "running"
  BY <1>1, StationsHandOn DEF AcceptedInv
<1>2. CASE phase' = "down"
  <2>1. CASE EmptyMemory
    BY <1>2, <2>1 DEF AcceptedInv, EmptyMemory
  <2>2. CASE ~EmptyMemory
    <3>1. phase = "down"
      BY <1>2, <2>2, PhaseAndAccepted DEF CtrlC, Exit, Crash, Start
    <3>2. ~Accept
      BY <3>1 DEF Accept, KeptInv, TypeOK
    <3> QED BY <1>2, <2>2, <3>1, <3>2, PhaseAndAccepted DEF AcceptedInv
  <2> QED BY <2>1, <2>2
<1>3. CASE phase # "running" /\ phase' = "running"
  <2>1. Start
    BY <1>3, PhaseAndAccepted DEF CtrlC, Exit, Crash
  <2> QED BY <1>3, <2>1 DEF Start, memory, AcceptedInv
<1>4. CASE phase' = "stopping"
  BY <1>4 DEF AcceptedInv
<1> QED BY <1>1, <1>2, <1>3, <1>4, TypeStep DEF TypeOK

\* What a running process let through is stored, on its way, or of a batch whose
\* flush failed, whatever the cache has since evicted: a copy that passes the
\* cache a second time can at worst be written twice, never lost.
THEOREM AcceptedNeverLost ==
  Spec => []AcceptedIsKept
<1>1. Init => KeptInv /\ AcceptedInv
  BY DEF Init, KeptInv, AcceptedInv
<1>2. TypeOK /\ AcceptedInv => AcceptedIsKept
  BY InFlightIsFlight DEF AcceptedInv, Kept, AcceptedIsKept
<1>3. TypeOK /\ KeptInv /\ AcceptedInv /\ [Next]_vars => KeptInv' /\ AcceptedInv'
  BY KeptStep, AcceptedStep
<1> QED BY <1>1, <1>2, <1>3, PipelineTypeCorrect, PTL DEF Spec

-----------------------------------------------------------------------------
(* A punch whose id stays in the cache is let through once, and a stored one  *)
(* only when its id was evicted before the flush.                            *)

\* What was let through is remembered unless it was evicted, as is what is on its
\* way unless it was evicted early or stored; the punch in hand is not, and what
\* the lookup answered still holds unless the flush of an early evicted one came
\* between.
OnceInv ==
  /\ \A p \in Punches \ evicted : accepted[p] <= 1
  /\ \A p \in Punches : accepted[p] > 0 => p \in seen \cup evicted
  /\ Flight \subseteq seen \cup early \cup stored
  /\ stage \in {"asking", "found", "missing", "failed"} => Head(hand) \notin seen
  /\ stage = "missing" => Head(hand) \notin stored \ early
  /\ stage = "failed" => lookupFailures > 0

\* DedupCache::insert: an id that leaves the cache is evicted, and evicted early
\* unless it is stored.
LEMMA RememberAccounts ==
  ASSUME NEW p, Remember(p)
  PROVE  /\ p \in seen' /\ evicted \subseteq evicted' /\ early \subseteq early'
         /\ seen \subseteq seen' \cup evicted'
         /\ seen \subseteq seen' \cup early' \cup stored
BY DEF Remember

\* Every step keeps OnceInv, and lets a stored punch through only after a failed
\* lookup or an early eviction.
LEMMA OnceStep ==
  ASSUME TypeOK, OnceInv, [Next]_vars
  PROVE  /\ OnceInv'
         /\ lookupFailures = 0 => \A p \in stored \ early : accepted'[p] <= accepted[p]
<1> USE DEF history
<1> DEFINE Goal ==
      /\ OnceInv'
      /\ lookupFailures = 0 => \A p \in stored \ early : accepted'[p] <= accepted[p]
<1>0. /\ \A p \in stored : accepted[p] <= accepted[p]
      /\ lookupFailures \in Nat
  <2>1. \A p \in Punches : accepted[p] \in 0..2
    BY DEF TypeOK
  <2>2. \A n \in 0..2 : n <= n
    OBVIOUS
  <2>3. stored \subseteq Punches /\ lookupFailures \in Nat
    BY DEF TypeOK
  <2> QED BY <2>1, <2>2, <2>3
<1>1. ASSUME NEW p \in Punches, Record(p) \/ Publish(p) \/ CacheHit(p) PROVE Goal
  BY <1>0, <1>1 DEF OnceInv, Flight, Record, Publish, CacheHit, Receive, memory, counts
<1>2. ASSUME NEW p \in Punches, CacheMiss(p) PROVE Goal
  <2>1. /\ hand' = <<p>> /\ stage' = "asking" /\ stage # "passed" /\ p \notin seen
        /\ UNCHANGED <<seen, queue, buffer, batch, history, stored, lookupFailures>>
    BY <1>2 DEF CacheMiss, Receive, TypeOK, counts
  <2>2. Flight' = Flight
    BY <2>1 DEF Flight
  <2> QED BY <1>0, <2>1, <2>2 DEF OnceInv
<1>3. ASSUME LookupAnswers PROVE Goal
  BY <1>0, <1>3 DEF OnceInv, Flight, LookupAnswers, counts
<1>4. ASSUME LookupFails PROVE Goal
  BY <1>0, <1>4 DEF OnceInv, Flight, LookupFails, counts
<1>5. ASSUME StorageHit PROVE Goal
  <2>1. /\ evicted \subseteq evicted' /\ seen \subseteq seen' \cup evicted'
        /\ early \subseteq early' /\ seen \subseteq seen' \cup early' \cup stored
    BY <1>5, RememberAccounts DEF StorageHit
  <2>2. Flight' = Flight
    BY <1>5 DEF StorageHit, Flight
  <2>3. stage' = "idle" /\ UNCHANGED <<accepted, stored, lookupFailures>>
    BY <1>5 DEF StorageHit, counts
  <2> QED BY <1>0, <2>1, <2>2, <2>3 DEF OnceInv
<1>6. ASSUME Accept PROVE Goal
  <2> DEFINE h == Head(hand)
  <2>1. h \in Punches /\ h \notin seen
    BY <1>6 DEF Accept, TypeOK, OnceInv
  <2>2. /\ h \in seen'
        /\ evicted \subseteq evicted' /\ seen \subseteq seen' \cup evicted'
        /\ early \subseteq early' /\ seen \subseteq seen' \cup early' \cup stored
    BY <1>6, <2>1, RememberAccounts DEF Accept
  <2>3. Elements(hand) = {h}
    BY <1>6 DEF Accept, TypeOK, Elements
  <2>4. Flight' \subseteq Flight \cup {h} /\ stage' = "passed" /\ stored' = stored
    BY <1>6, <2>3 DEF Accept, Flight
  <2>5. /\ accepted' \in [Punches -> 0..2]
        /\ \A p \in Punches \ {h} : accepted'[p] = accepted[p]
        /\ accepted[h] = 0 => accepted'[h] = 1
    BY <1>6, <2>1 DEF Accept, TypeOK
  <2>6. h \notin evicted => accepted[h] = 0
    <3>1. accepted[h] \in 0..2
      BY <2>1 DEF TypeOK
    <3> QED BY <2>1, <3>1 DEF OnceInv
  <2>7. \A p \in Punches \ evicted' : accepted'[p] <= 1
    <3>1. ASSUME NEW p \in Punches \ evicted' PROVE accepted'[p] <= 1
      <4>1. CASE p = h
        BY <2>2, <2>5, <2>6, <3>1, <4>1
      <4>2. CASE p # h
        <5>1. accepted[p] <= 1 /\ accepted'[p] = accepted[p]
          BY <2>2, <2>5, <3>1, <4>2 DEF OnceInv
        <5> QED BY <5>1
      <4> QED BY <4>1, <4>2
    <3> QED BY <3>1
  <2>8. \A p \in Punches : accepted'[p] > 0 => p \in seen' \cup evicted'
    BY <2>2, <2>5 DEF OnceInv
  <2>9. lookupFailures = 0 => \A p \in stored \ early : accepted'[p] <= accepted[p]
    <3>1. lookupFailures = 0 => h \notin stored \ early
      BY <1>6 DEF Accept, OnceInv
    <3>2. \A p \in stored : p # h => accepted'[p] = accepted[p]
      BY <2>5 DEF TypeOK
    <3> QED BY <1>0, <3>1, <3>2
  <2> HIDE DEF h
  <2>10. Flight' \subseteq seen' \cup early' \cup stored'
    BY <2>2, <2>4 DEF OnceInv
  <2> QED BY <2>4, <2>7, <2>8, <2>9, <2>10 DEF OnceInv
<1>7. ASSUME Forward PROVE Goal
  <2>1. Elements(queue') = Elements(queue) \cup Elements(hand)
    BY <1>7, ElementsConcat DEF Forward, TypeOK
  <2> QED BY <1>0, <1>7, <2>1 DEF OnceInv, Flight, Forward, counts
<1>8. ASSUME UNCHANGED <<seen, hand, stage, history, lookupFailures>>, Flight' \subseteq Flight,
             stored \subseteq stored', stored' \subseteq stored \cup Flight
      PROVE  Goal
  BY <1>0, <1>8 DEF OnceInv
<1>9. ASSUME Collect PROVE Goal
  <2>1. /\ Head(queue) \in Punches /\ queue' = Tail(queue)
        /\ Elements(queue) = {Head(queue)} \cup Elements(queue')
    BY <1>9, ElementsTail DEF Collect, TypeOK
  <2> DEFINE full == Append(buffer, Head(queue))
  <2>2. Elements(full) = Elements(buffer) \cup {Head(queue)}
    BY <2>1, ElementsAppend DEF TypeOK
  <2>3. \/ batch' = full /\ buffer' = <<>>
        \/ buffer' = full /\ batch' = batch
    BY <1>9 DEF Collect, Flush
  <2> HIDE DEF full
  <2>4. Flight' \subseteq Flight
    BY <1>9, <2>1, <2>2, <2>3, ElementsEmpty DEF Flight, Collect
  <2> QED BY <1>8, <1>9, <2>4 DEF Collect, counts
<1>10. ASSUME Interval PROVE Goal
  <2>1. Flight' \subseteq Flight
    BY <1>10, ElementsEmpty DEF Interval, Flush, Flight
  <2> QED BY <1>8, <1>10, <2>1 DEF Interval, counts
<1>11. ASSUME Drain PROVE Goal
  <2>1. Elements(batch') = Elements(buffer) \cup Elements(queue)
    BY <1>11, ElementsConcat DEF Drain, Flush, TypeOK
  <2>2. Flight' \subseteq Flight
    BY <1>11, <2>1, ElementsEmpty DEF Drain, Flush, Flight
  <2> QED BY <1>8, <1>11, <2>2 DEF Drain, counts
<1>12. ASSUME StoreOk \/ StoreFails PROVE Goal
  <2>1. Flight' \subseteq Flight /\ stored \subseteq stored' /\ stored' \subseteq stored \cup Flight
    BY <1>12, ElementsEmpty DEF StoreOk, StoreFails, Flight
  <2> QED BY <1>8, <1>12, <2>1 DEF StoreOk, StoreFails, counts
<1>13. ASSUME CtrlC PROVE Goal
  BY <1>0, <1>13 DEF OnceInv, Flight, CtrlC
<1>14. ASSUME Exit \/ Crash PROVE Goal
  <2>1. /\ stage' = "idle" /\ batch' = <<>> /\ buffer' = <<>> /\ queue' = <<>>
        /\ accepted' = [p \in Punches |-> 0] /\ UNCHANGED stored
    BY <1>14 DEF Exit, Crash, EmptyMemory
  <2>2. Flight' = {}
    BY <2>1, ElementsEmpty DEF Flight
  <2>3. \A p \in Punches : accepted'[p] = 0 /\ accepted[p] \in Nat
    BY <2>1 DEF TypeOK
  <2> QED BY <2>1, <2>2, <2>3 DEF OnceInv, TypeOK
<1>15. ASSUME Start \/ UNCHANGED vars PROVE Goal
  BY <1>0, <1>15 DEF OnceInv, Flight, Start, vars, memory, counts
<1> QED
  BY <1>1, <1>2, <1>3, <1>4, <1>5, <1>6, <1>7, <1>9, <1>10, <1>11, <1>12,
     <1>13, <1>14, <1>15
  DEF Next, Consume, Handle, Lookup, Write

\* Nothing was let through at the start.
LEMMA InitOnce == Init => OnceInv
BY ElementsEmpty DEF Init, OnceInv, Flight

\* DedupCache::is_duplicate: one process lets a punch through once as long as the
\* cache has not evicted its id, whatever copies the pollers publish and lookups
\* fail, for a cache of any size.
THEOREM CacheAdmitsOnce == Spec => []AcceptedOnce
<1>1. TypeOK /\ OnceInv /\ [Next]_vars => OnceInv'
  BY OnceStep
<1>2. OnceInv => AcceptedOnce
  BY DEF OnceInv, AcceptedOnce
<1> QED BY <1>1, <1>2, InitOnce, PipelineTypeCorrect, PTL DEF Spec

\* The check against storage, although it is not atomic with the flush: while no
\* lookup failed, no stored punch is let through again, over restarts too, but one
\* whose id the cache evicted before the flush, for a cache of any size.
THEOREM StorageCheckHolds == Spec => StoredNotReaccepted
<1>1. TypeOK /\ OnceInv /\ [Next]_vars => OnceInv'
  BY OnceStep
<1>2. TypeOK /\ OnceInv /\ [Next]_vars =>
        [lookupFailures = 0 => \A p \in stored \ early : accepted'[p] <= accepted[p]]_vars
  BY OnceStep
<1> QED BY <1>1, <1>2, InitOnce, PipelineTypeCorrect, PTL DEF Spec, StoredNotReaccepted
=============================================================================
