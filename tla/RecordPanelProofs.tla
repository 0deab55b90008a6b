-------------------------- MODULE RecordPanelProofs --------------------------
(***************************************************************************)
(* Proofs about RecordPanel, for any records, fields and number of changes. *)
(***************************************************************************)
EXTENDS RecordPanel, TLAPS

Lists == [Ids -> Record \cup {Absent}]

\* What the query of a key holds when it holds data.
DataOf(k) == IF k = "list" THEN Lists ELSE Record

\* An edit with the snapshots onMutate returned.
EditOf == [id : Ids \cup {NoId}, field : Fields,
           phase : {"sent", "applied", "overdue", "settled"},
           list : {NoData} \cup Lists, detail : {NoData} \cup Record]

CacheTyped(c) ==
  c \in [Keys -> Entry] /\ \A k \in Keys : c[k].data \in {NoData} \cup DataOf(k)

FetchTyped(f) ==
  /\ f \in [Keys -> {Idle} \cup Request]
  /\ \A k \in Keys : f[k] # Idle => f[k].answer \in {NoData, Absent} \cup DataOf(k)

EditsTyped ==
  /\ edits \in Seq(EditOf) /\ Len(edits) <= MaxChanges
  /\ \A e \in DOMAIN edits : edits[e].phase # "settled" => edits[e].id \in Ids

\* The types of everything, snapshots included.
Typed ==
  /\ db \in Lists
  /\ CacheTyped(cache) /\ FetchTyped(fetch) /\ EditsTyped
  /\ panel \in Ids \cup {NoId, NewForm}
  /\ creation \in {"none", "sent", "stored", "settled"}
  /\ removal \in [id : Ids \cup {NoId}, phase : {"none", "sent", "gone", "settled"}]
  /\ removal.phase # "none" => removal.id \in Ids

-----------------------------------------------------------------------------
(* Data and entries.                                                       *)

LEMMA KeyTypes ==
  /\ "list" \in Keys /\ Ids \subseteq Keys /\ NewId \in Ids /\ MaxChanges \in Nat
  /\ \A id \in Ids : id # "list" /\ id # NoId /\ id # NewForm
BY RecordAssumption, DataAssumption DEF Keys

\* The data of a key are data, and are told from no data and no record.
LEMMA DataTypes ==
  ASSUME NEW k \in Keys
  PROVE  /\ {NoData} \cup DataOf(k) \subseteq Data
         /\ NoData \notin DataOf(k) /\ Absent \notin DataOf(k) /\ NoData # Absent
BY DataAssumption DEF DataOf, Data, Lists

\* The answer to a key is data of the key or, for a record, that there is none.
LEMMA AnswerTypes ==
  ASSUME db \in Lists, NEW k \in Keys
  PROVE  Answer(k) \in {Absent} \cup DataOf(k)
BY DEF Answer, DataOf, Lists, Keys

\* Entries with one field replaced.
LEMMA EntryTypes ==
  ASSUME NEW x \in Entry, NEW d \in Data, NEW s \in {"fresh", "invalid", "error"}, NEW l \in BOOLEAN
  PROVE  /\ [x EXCEPT !.data = d, !.state = s] \in Entry
         /\ [x EXCEPT !.state = s] \in Entry /\ [x EXCEPT !.late = l] \in Entry
         /\ [data |-> d, state |-> s, late |-> l] \in Entry
<1> HIDE DEF Data
<1> QED BY DEF Entry

-----------------------------------------------------------------------------
(* The operations of the query cache.                                      *)

\* setQueryData keeps the types, touches one key, and makes data of none nowhere.
LEMMA WrittenFacts ==
  ASSUME NEW c, CacheTyped(c), NEW k \in Keys, NEW d \in {NoData} \cup DataOf(k)
  PROVE  /\ CacheTyped(Written(c, k, d))
         /\ \A j \in Keys : /\ Written(c, k, d)[j].data = NoData <=> c[j].data = NoData
                            /\ Written(c, k, d)[j].late = c[j].late
                            /\ j # k => Written(c, k, d)[j] = c[j]
<1>1. CASE c[k].data = NoData \/ d = NoData
  BY <1>1 DEF Written
<1>2. CASE c[k].data # NoData /\ d # NoData
  <2>1. d \in Data /\ c[k] \in Entry
    BY DataTypes DEF CacheTyped
  <2>2. [c[k] EXCEPT !.data = d, !.state = "fresh"] \in Entry
    BY <2>1, EntryTypes
  <2>3. Written(c, k, d) = [c EXCEPT ![k] = [c[k] EXCEPT !.data = d, !.state = "fresh"]]
    BY <1>2, <2>1 DEF Written, CacheTyped, Entry
  <2> QED BY <1>2, <2>1, <2>2, <2>3 DEF CacheTyped, Entry
<1> QED BY <1>1, <1>2

\* invalidateQueries keeps data and types; what has data is no longer fresh.
LEMMA InvalidatedFacts ==
  ASSUME NEW c, CacheTyped(c), NEW keys
  PROVE  /\ CacheTyped(Invalidated(c, keys))
         /\ \A j \in Keys : /\ Invalidated(c, keys)[j].data = c[j].data
                            /\ Invalidated(c, keys)[j].late = c[j].late
                            /\ j \notin keys => Invalidated(c, keys)[j] = c[j]
                            /\ j \in keys /\ c[j].data # NoData =>
                                 Invalidated(c, keys)[j].state = "invalid"
<1>1. ASSUME NEW j \in Keys
      PROVE  /\ c[j] \in Entry /\ [c[j] EXCEPT !.state = "invalid"] \in Entry
             /\ [c[j] EXCEPT !.state = "invalid"].data = c[j].data
             /\ [c[j] EXCEPT !.state = "invalid"].late = c[j].late
             /\ [c[j] EXCEPT !.state = "invalid"].state = "invalid"
  <2>1. c[j] \in Entry
    BY DEF CacheTyped
  <2> HIDE DEF Data
  <2> QED BY <2>1 DEF Entry
<1> QED BY <1>1 DEF CacheTyped, Invalidated

\* A request repeated is new; one that goes on is marked late.
LEMMA RefetchedFacts ==
  ASSUME FetchTyped(fetch), EditsTyped, NEW c, NEW keys
  PROVE  /\ FetchTyped(Refetched(c, keys))
         /\ \A j \in Keys :
              /\ j \notin keys => Refetched(c, keys)[j] = fetch[j]
              /\ j \in keys => \/ Refetched(c, keys)[j] = Idle
                               \/ Refetched(c, keys)[j].answer = NoData
                               \/ Refetched(c, keys)[j].late
              /\ \/ Refetched(c, keys)[j] = Idle
                 \/ Refetched(c, keys)[j].since = Len(edits)
                 \/ fetch[j] # Idle /\ Refetched(c, keys)[j].since = fetch[j].since
              /\ Refetched(c, keys)[j] # Idle =>
                   \/ Refetched(c, keys)[j].answer = NoData
                   \/ fetch[j] # Idle /\ Refetched(c, keys)[j].answer = fetch[j].answer
<1> DEFINE r(j) == Refetched(c, keys)[j]
<1>1. ASSUME NEW j \in Keys
      PROVE  \/ j \notin keys /\ r(j) = fetch[j]
             \/ j \in keys /\ r(j) = Asked
             \/ j \in keys /\ fetch[j] # Idle /\ r(j) = [fetch[j] EXCEPT !.late = TRUE]
             \/ j \in keys /\ r(j) = Idle
  BY DEF Refetched
<1>2. ASSUME NEW j \in Keys, fetch[j] # Idle
      PROVE  LET x == [fetch[j] EXCEPT !.late = TRUE]
             IN  x \in Request /\ x.late /\ x.since = fetch[j].since /\ x.answer = fetch[j].answer
  <2>1. fetch[j] \in Request
    BY <1>2 DEF FetchTyped
  <2> HIDE DEF Data
  <2> QED BY <2>1 DEF Request
<1>3. Asked \in Request /\ Asked.answer = NoData /\ Asked.since = Len(edits)
  <2>1. Len(edits) \in 0..MaxChanges /\ NoData \in Data
    BY KeyTypes DEF EditsTyped, Data
  <2> HIDE DEF Data
  <2> QED BY <2>1 DEF Request, Asked
<1>4. ASSUME NEW j \in Keys
      PROVE  /\ r(j) \in {Idle} \cup Request
             /\ r(j) # Idle => r(j).answer \in {NoData, Absent} \cup DataOf(j)
  BY <1>1, <1>2, <1>3 DEF FetchTyped
<1>5. Refetched(c, keys) = [j \in Keys |-> r(j)]
  BY DEF Refetched
<1>6. FetchTyped(Refetched(c, keys))
  BY <1>4, <1>5 DEF FetchTyped
<1> QED BY <1>1, <1>2, <1>3, <1>6

\* A mounted query is fetched anew or left alone.
LEMMA MountedFacts ==
  ASSUME NEW f, FetchTyped(f), EditsTyped, NEW id \in Ids, NEW g \in Mounted(f, id)
  PROVE  /\ g = f \/ g = [f EXCEPT ![id] = Asked]
         /\ FetchTyped(g)
<1>1. g = f \/ g = [f EXCEPT ![id] = Asked]
  BY DEF Mounted
<1>2. Asked \in Request /\ Asked.answer = NoData
  <2>1. Len(edits) \in 0..MaxChanges /\ NoData \in Data
    BY KeyTypes DEF EditsTyped, Data
  <2> HIDE DEF Data
  <2> QED BY <2>1 DEF Request, Asked
<1> QED BY <1>1, <1>2, KeyTypes DEF FetchTyped

-----------------------------------------------------------------------------
(* Edits.                                                                  *)

\* Snapshots are of the type of what they were taken of.
LEMMA EditTypes ==
  ASSUME EditsTyped, NEW e \in DOMAIN edits
  PROVE  /\ edits[e] \in EditOf /\ e \in 1..Len(edits) /\ e \in Edits
         /\ edits[e].list \in {NoData} \cup DataOf("list")
         /\ edits[e].phase # "settled" => edits[e].id \in Ids /\ edits[e].id \in Keys
         /\ \A id \in Ids : edits[e].detail \in {NoData} \cup DataOf(id)
<1>1. edits[e] \in EditOf /\ e \in 1..Len(edits)
  BY DEF EditsTyped
<1>2. e \in Edits
  BY <1>1, KeyTypes DEF Edits, EditsTyped
<1>3. /\ edits[e].list \in {NoData} \cup Lists
      /\ edits[e].detail \in {NoData} \cup Record
  BY <1>1 DEF EditOf
<1> QED BY <1>1, <1>2, <1>3, KeyTypes DEF EditsTyped, DataOf

\* A settled edit gives its snapshots back and leaves the others alone.
LEMMA SettledFacts ==
  ASSUME EditsTyped, NEW e \in DOMAIN edits, edits[e].phase # "settled",
         NEW phase \in {"overdue", "settled"}, Settled(e, phase)
  PROVE  /\ EditsTyped' /\ DOMAIN edits' = DOMAIN edits /\ Len(edits') = Len(edits)
         /\ edits'[e].phase = phase
         /\ phase = "overdue" => edits'[e].id = edits[e].id
         /\ \A d \in DOMAIN edits \ {e} : edits'[d] = edits[d]
<1> DEFINE x == [edits[e] EXCEPT !.phase = phase, !.list = NoData, !.detail = NoData,
                                 !.id = IF phase = "settled" THEN NoId ELSE edits[e].id]
<1>1. edits[e] \in EditOf /\ edits[e].id \in Ids /\ e \in 1..Len(edits)
  BY EditTypes
<1>2. /\ x \in EditOf /\ x.phase = phase
      /\ phase = "overdue" => x.id = edits[e].id
  <2> HIDE DEF Lists, Record
  <2> QED BY <1>1, Zenon DEF EditOf
<1>3. edits' = [edits EXCEPT ![e] = x]
  BY Zenon DEF Settled
<1> HIDE DEF x
<1> QED BY <1>1, <1>2, <1>3 DEF EditsTyped

LEMMA AppliedFacts ==
  ASSUME EditsTyped, NEW e \in DOMAIN edits, edits[e].phase = "sent",
         edits' = [edits EXCEPT ![e].phase = "applied"]
  PROVE  /\ EditsTyped' /\ DOMAIN edits' = DOMAIN edits /\ Len(edits') = Len(edits)
         /\ edits'[e].phase = "applied" /\ edits'[e].id = edits[e].id
         /\ \A d \in DOMAIN edits \ {e} : edits'[d] = edits[d]
<1> DEFINE x == [edits[e] EXCEPT !.phase = "applied"]
<1>1. edits[e] \in EditOf /\ edits[e].id \in Ids /\ e \in 1..Len(edits)
  BY EditTypes
<1>2. x \in EditOf /\ x.phase = "applied" /\ x.id = edits[e].id
  BY <1>1, Zenon DEF EditOf
<1>3. edits' = [edits EXCEPT ![e] = x]
  BY <1>1
<1> HIDE DEF x
<1> QED BY <1>1, <1>2, <1>3 DEF EditsTyped

\* A new edit is the last one.
LEMMA EditFacts ==
  ASSUME Typed, NEW id \in Ids, NEW f \in Fields, Edit(id, f)
  PROVE  /\ EditsTyped' /\ Len(edits') = Len(edits) + 1 /\ Len(edits) + 1 \in Edits
         /\ edits'[Len(edits) + 1].id = id /\ edits'[Len(edits) + 1].phase = "sent"
         /\ \A d \in DOMAIN edits : d \in DOMAIN edits' /\ edits'[d] = edits[d]
         /\ \A d \in DOMAIN edits' : d \in DOMAIN edits \/ d = Len(edits) + 1
<1> DEFINE x == [id |-> id, field |-> f, phase |-> "sent",
                 list |-> cache["list"].data, detail |-> cache[id].data]
<1>1. x \in EditOf
  <2>1. cache["list"].data \in {NoData} \cup Lists /\ cache[id].data \in {NoData} \cup Record
    BY KeyTypes DEF Typed, CacheTyped, DataOf
  <2> QED BY <2>1 DEF EditOf
<1>2. Len(edits) \in Nat /\ Len(edits) + 1 <= MaxChanges
  <2>1. Len(edits) \in Nat
    BY DEF Typed, EditsTyped
  <2>2. Changes < MaxChanges
    BY DEF Edit
  <2>3. \E n \in {0, 1}, m \in {0, 1} : Changes = Len(edits) + n + m
    BY DEF Changes
  <2> QED BY <2>1, <2>2, <2>3, KeyTypes
<1>3. edits' = Append(edits, x)
  BY DEF Edit
<1>4. x.id = id /\ x.phase = "sent"
  OBVIOUS
<1> HIDE DEF x
<1> QED BY <1>1, <1>2, <1>3, <1>4, KeyTypes DEF Typed, EditsTyped, Edits

\* The server stores a value in a record it has.
LEMMA StoreTyped ==
  ASSUME Typed, NEW e \in DOMAIN edits, edits[e].id \in Ids, Store(e)
  PROVE  /\ db' \in Lists
         /\ \A k \in Ids : k # edits[e].id => db'[k] = db[k]
         /\ \A k \in Ids : db[k] = Absent => db'[k] = Absent
<1>1. e \in Edits /\ edits[e].field \in Fields
  BY EditTypes DEF Typed, EditOf
<1> DEFINE i == edits[e].id
<1>2. CASE db[i] = Absent
  BY <1>2 DEF Store, Typed
<1>3. CASE db[i] # Absent
  <2>1. db[i] \in Record
    BY <1>3 DEF Typed, Lists
  <2>2. [db[i] EXCEPT ![edits[e].field] = e] \in Record
    BY <1>1, <2>1 DEF Record
  <2>3. db' = [db EXCEPT ![i] = [db[i] EXCEPT ![edits[e].field] = e]]
    BY <1>3 DEF Store
  <2> QED BY <1>3, <2>2, <2>3 DEF Typed, Lists
<1> QED BY <1>2, <1>3

\* The optimistic values are of the types of what they replace.
LEMMA OptimisticTyped ==
  ASSUME Typed, NEW id \in Ids, NEW f \in Fields, NEW e \in Edits
  PROVE  /\ ListWith(id, f, e) \in {NoData} \cup DataOf("list")
         /\ DetailWith(id, f, e) \in {NoData} \cup DataOf(id)
<1>1. cache["list"].data \in {NoData} \cup Lists /\ cache[id].data \in {NoData} \cup Record
  BY KeyTypes DEF Typed, CacheTyped, DataOf
<1>2. ASSUME NEW r \in Record
      PROVE  [r EXCEPT ![f] = e] \in Record
  BY DEF Record
<1>3. DetailWith(id, f, e) \in {NoData} \cup Record
  BY <1>1, <1>2 DEF DetailWith
<1>4. ListWith(id, f, e) \in {NoData} \cup Lists
  <2>1. ASSUME NEW l \in Lists, l[id] # Absent
        PROVE  [l EXCEPT ![id] = [l[id] EXCEPT ![f] = e]] \in Lists
    <3>1. l[id] \in Record
      BY <2>1 DEF Lists
    <3> QED BY <1>2, <3>1 DEF Lists
  <2>2. ASSUME NEW l \in Lists
        PROVE  [l EXCEPT ![id][f] = e] = [l EXCEPT ![id] = [l[id] EXCEPT ![f] = e]]
    BY DEF Lists
  <2> QED BY <1>1, <2>1, <2>2 DEF ListWith
<1> QED BY <1>3, <1>4, KeyTypes DEF DataOf

-----------------------------------------------------------------------------
(* Types.                                                                  *)

\* Rolling an edit back.
LEMMA RollbackTyped ==
  ASSUME Typed, NEW e \in DOMAIN edits, edits[e].phase # "settled"
  PROVE  CacheTyped(Rollback(e))
<1>1. /\ edits[e].id \in Ids /\ edits[e].id \in Keys /\ "list" \in Keys
      /\ edits[e].list \in {NoData} \cup DataOf("list")
      /\ edits[e].detail \in {NoData} \cup DataOf(edits[e].id)
  BY EditTypes, KeyTypes DEF Typed
<1>2. CacheTyped(Written(cache, "list", edits[e].list))
  BY <1>1, WrittenFacts DEF Typed
<1> QED BY <1>1, <1>2, WrittenFacts DEF Rollback

LEMMA BrowserTyped ==
  ASSUME Typed, NEW k \in Keys, Refetch(k) \/ Fetched(k) \/ FetchFails(k)
  PROVE  Typed'
<1>1. CASE Refetch(k)
  <2>1. fetch' = [fetch EXCEPT ![k] = Asked]
    BY <1>1 DEF Refetch
  <2>2. Asked \in Request /\ Asked.answer = NoData
    <3>1. Len(edits) \in 0..MaxChanges /\ NoData \in Data
      BY KeyTypes DEF Typed, EditsTyped, Data
    <3> HIDE DEF Data
    <3> QED BY <3>1 DEF Request, Asked
  <2>3. FetchTyped(fetch')
    BY <2>1, <2>2 DEF Typed, FetchTyped
  <2> QED BY <1>1, <2>3 DEF Typed, Refetch, EditsTyped
<1>2. CASE Fetched(k)
  <2>1. fetch[k] \in Request /\ fetch[k].answer \in DataOf(k)
    BY <1>2 DEF Fetched, Typed, FetchTyped
  <2>2. fetch[k].answer \in Data /\ fetch[k].late \in BOOLEAN
    BY <2>1, DataTypes DEF Request
  <2>3. [data |-> fetch[k].answer, state |-> "fresh", late |-> fetch[k].late] \in Entry
    <3> HIDE DEF Data
    <3> QED BY <2>2 DEF Entry
  <2>4. CacheTyped(cache')
    BY <1>2, <2>1, <2>3 DEF Fetched, Typed, CacheTyped
  <2>5. FetchTyped(fetch')
    BY <1>2 DEF Fetched, Typed, FetchTyped
  <2> QED BY <1>2, <2>4, <2>5 DEF Typed, Fetched, EditsTyped
<1>3. CASE FetchFails(k)
  <2>1. PICK s \in {"fresh", "invalid", "error"} :
          cache' = [cache EXCEPT ![k] = [cache[k] EXCEPT !.state = s]]
    <3>1. cache[k] \in Entry
      BY DEF Typed, CacheTyped
    <3>2. cache[k].state \in {"fresh", "invalid", "error"}
      <4> HIDE DEF Data
      <4> QED BY <3>1 DEF Entry
    <3> QED BY <1>3, <3>2 DEF FetchFails, Typed, CacheTyped
  <2>2. [cache[k] EXCEPT !.state = s] \in Entry /\ [cache[k] EXCEPT !.state = s].data = cache[k].data
    <3>1. cache[k] \in Entry
      BY DEF Typed, CacheTyped
    <3> HIDE DEF Data
    <3> QED BY <3>1 DEF Entry
  <2>3. CacheTyped(cache')
    BY <2>1, <2>2 DEF Typed, CacheTyped
  <2>4. FetchTyped(fetch')
    BY <1>3 DEF FetchFails, Typed, FetchTyped
  <2> QED BY <1>3, <2>3, <2>4 DEF Typed, FetchFails, EditsTyped
<1> QED BY <1>1, <1>2, <1>3

LEMMA ServerTyped ==
  ASSUME Typed, Server
  PROVE  Typed'
<1>1. ASSUME NEW k \in Keys, ServerReads(k)
      PROVE  Typed'
  <2>1. Answer(k) \in {Absent} \cup DataOf(k) /\ fetch[k] \in Request
    BY <1>1, AnswerTypes DEF Typed, FetchTyped, ServerReads
  <2>2. Answer(k) \in Data \cup {Absent}
    BY <2>1, DataTypes
  <2>3. [fetch[k] EXCEPT !.answer = Answer(k)] \in Request
        /\ [fetch[k] EXCEPT !.answer = Answer(k)].answer = Answer(k)
    <3> HIDE DEF Data
    <3> QED BY <2>1, <2>2 DEF Request
  <2>4. fetch' = [fetch EXCEPT ![k] = [fetch[k] EXCEPT !.answer = Answer(k)]]
    BY <1>1 DEF ServerReads
  <2>5. FetchTyped(fetch')
    BY <2>1, <2>3, <2>4 DEF Typed, FetchTyped
  <2> QED BY <1>1, <2>5 DEF Typed, ServerReads, EditsTyped
<1>2. ASSUME NEW e \in DOMAIN edits, Applied(e)
      PROVE  Typed'
  <2>1. EditsTyped'
    BY <1>2, AppliedFacts DEF Typed, Applied
  <2>2. db' \in Lists
    BY <1>2, StoreTyped, EditTypes DEF Typed, Applied
  <2> QED BY <1>2, <2>1, <2>2 DEF Typed, Applied
<1>3. ASSUME NEW e \in DOMAIN edits, Overdue(e)
      PROVE  Typed'
  <2>1. EditsTyped' /\ db' \in Lists
    BY <1>3, SettledFacts, StoreTyped, EditTypes DEF Typed, Overdue
  <2>2. ASSUME NEW k \in Keys, NEW l \in BOOLEAN
        PROVE  /\ [cache[k] EXCEPT !.late = l] \in Entry
               /\ [cache[k] EXCEPT !.late = l].data = cache[k].data
    <3>1. cache[k] \in Entry
      BY DEF Typed, CacheTyped
    <3> HIDE DEF Data
    <3> QED BY <3>1 DEF Entry
  <2>3. ASSUME NEW k \in Keys, NEW l \in BOOLEAN, fetch[k] # Idle
        PROVE  /\ [fetch[k] EXCEPT !.late = l] \in Request
               /\ [fetch[k] EXCEPT !.late = l].answer = fetch[k].answer
    <3>1. fetch[k] \in Request
      BY <2>3 DEF Typed, FetchTyped
    <3> HIDE DEF Data
    <3> QED BY <3>1 DEF Request
  <2>4. \A k \in Keys : cache[k].late \in BOOLEAN /\ (fetch[k] # Idle => fetch[k].late \in BOOLEAN)
    BY DEF Typed, CacheTyped, FetchTyped, Entry, Request
  <2>5. CacheTyped(cache')
    <3>1. cache' = [k \in Keys |-> [cache[k] EXCEPT !.late = @ \/ k \in {"list", edits[e].id}]]
      BY <1>3 DEF Overdue
    <3>2. \A k \in Keys : \E l \in BOOLEAN : cache'[k] = [cache[k] EXCEPT !.late = l]
      BY <3>1, <2>4
    <3> QED BY <2>2, <3>1, <3>2 DEF Typed, CacheTyped
  <2>6. FetchTyped(fetch')
    <3>1. \A k \in Keys : \/ fetch'[k] = fetch[k]
                          \/ fetch[k] # Idle /\ \E l \in BOOLEAN : fetch'[k] = [fetch[k] EXCEPT !.late = l]
      BY <1>3, <2>4 DEF Overdue
    <3>2. fetch' = [k \in Keys |-> fetch'[k]]
      BY <1>3 DEF Overdue
    <3>3. ASSUME NEW k \in Keys
          PROVE  /\ fetch'[k] \in {Idle} \cup Request
                 /\ fetch'[k] # Idle => fetch'[k].answer \in {NoData, Absent} \cup DataOf(k)
      <4>1. CASE fetch'[k] = fetch[k]
        BY <4>1 DEF Typed, FetchTyped
      <4>2. CASE fetch[k] # Idle /\ \E l \in BOOLEAN : fetch'[k] = [fetch[k] EXCEPT !.late = l]
        BY <2>3, <4>2 DEF Typed, FetchTyped
      <4> QED BY <3>1, <4>1, <4>2
    <3> QED BY <3>2, <3>3 DEF FetchTyped
  <2> QED BY <1>3, <2>1, <2>5, <2>6 DEF Typed, Overdue
<1>4. ASSUME Created
      PROVE  Typed'
  <2>1. Unwritten \in Record
    BY DEF Unwritten, Record
  <2> QED BY <1>4, <2>1, KeyTypes DEF Typed, Created, Lists, EditsTyped
<1>5. ASSUME Deleted
      PROVE  Typed'
  BY <1>5 DEF Typed, Deleted, Lists, EditsTyped
<1> QED BY <1>1, <1>2, <1>3, <1>4, <1>5 DEF Server

LEMMA UserTyped ==
  ASSUME Typed, User
  PROVE  Typed'
<1>1. ASSUME NEW id \in Ids, OpenRecord(id)
      PROVE  Typed'
  <2>1. FetchTyped(fetch')
    BY <1>1, MountedFacts DEF Typed, OpenRecord
  <2> QED BY <1>1, <2>1 DEF Typed, OpenRecord, EditsTyped
<1>2. ASSUME NEW id \in Ids, Delete(id)
      PROVE  Typed'
  BY <1>2 DEF Typed, Delete, EditsTyped
<1>3. ASSUME NEW id \in Ids, NEW f \in Fields, Edit(id, f)
      PROVE  Typed'
  <2> DEFINE e == Len(edits) + 1
             c == Written(cache, "list", ListWith(id, f, e))
  <2>1. EditsTyped' /\ e \in Edits
    BY <1>3, EditFacts
  <2>2. CacheTyped(c)
    BY <2>1, OptimisticTyped, WrittenFacts, KeyTypes DEF Typed
  <2>3. CacheTyped(cache')
    <3>1. cache' = Written(c, id, DetailWith(id, f, e)) /\ id \in Keys
      BY <1>3, KeyTypes DEF Edit
    <3>2. DetailWith(id, f, e) \in {NoData} \cup DataOf(id)
      BY <2>1, OptimisticTyped
    <3> HIDE DEF c, e
    <3> QED BY <2>2, <3>1, <3>2, WrittenFacts
  <2>4. FetchTyped(fetch')
    BY <1>3 DEF Typed, Edit, Cancelled, FetchTyped
  <2> QED BY <1>3, <2>1, <2>3, <2>4 DEF Typed, Edit
<1>4. ASSUME OpenForm \/ Close \/ Create
      PROVE  Typed'
  BY <1>4 DEF Typed, OpenForm, Close, Create, EditsTyped
<1> QED BY <1>1, <1>2, <1>3, <1>4 DEF User

\* What settles a change invalidates cached data it keeps.
LEMMA SettleTyped ==
  ASSUME Typed,
         \/ \E e \in DOMAIN edits : Settle(e)
         \/ CreateSucceeds \/ CreateFails \/ DeleteSucceeds \/ DeleteFails
  PROVE  Typed'
<1>1. ASSUME NEW e \in DOMAIN edits, EditSucceeds(e)
      PROVE  Typed'
  <2>1. EditsTyped'
    BY <1>1, SettledFacts DEF Typed, EditSucceeds
  <2>2. CacheTyped(cache') /\ FetchTyped(fetch')
    BY <1>1, InvalidatedFacts, RefetchedFacts DEF Typed, EditSucceeds
  <2> QED BY <1>1, <2>1, <2>2 DEF Typed, EditSucceeds
<1>2. ASSUME NEW e \in DOMAIN edits, EditFails(e)
      PROVE  Typed'
  <2>1. EditsTyped'
    BY <1>2, SettledFacts DEF Typed, EditFails, Pending
  <2>2. CacheTyped(cache') /\ FetchTyped(fetch')
    BY <1>2, RollbackTyped, InvalidatedFacts, RefetchedFacts DEF Typed, EditFails, Pending
  <2> QED BY <1>2, <2>1, <2>2 DEF Typed, EditFails
<1>3. ASSUME CreateSucceeds
      PROVE  Typed'
  <2>1. FetchTyped(Refetched(cache, {"list"}))
    BY RefetchedFacts DEF Typed
  <2>2. FetchTyped(fetch')
    BY <1>3, <2>1, MountedFacts, KeyTypes DEF Typed, CreateSucceeds
  <2>3. CacheTyped(cache')
    BY <1>3, InvalidatedFacts DEF Typed, CreateSucceeds
  <2> QED BY <1>3, <2>2, <2>3, KeyTypes DEF Typed, CreateSucceeds, EditsTyped
<1>4. ASSUME DeleteSucceeds
      PROVE  Typed'
  <2>1. CacheTyped(cache') /\ FetchTyped(fetch')
    BY <1>4, InvalidatedFacts, RefetchedFacts DEF Typed, DeleteSucceeds
  <2> QED BY <1>4, <2>1 DEF Typed, DeleteSucceeds, EditsTyped
<1>5. ASSUME CreateFails \/ DeleteFails
      PROVE  Typed'
  BY <1>5 DEF Typed, CreateFails, DeleteFails, EditsTyped
<1> QED BY <1>1, <1>2, <1>3, <1>4, <1>5 DEF Settle

LEMMA InitTyped == Init => Typed
<1> SUFFICES ASSUME Init
             PROVE  Typed
  OBVIOUS
<1>1. db \in Lists
  BY DEF Init, Lists, Unwritten, Record
<1>2. ASSUME NEW d \in Data
      PROVE  [data |-> d, state |-> "fresh", late |-> FALSE] \in Entry
  <2> HIDE DEF Data
  <2> QED BY DEF Entry
<1>3. db \in Data /\ NoData \in Data
  BY <1>1 DEF Data, Lists
<1>4. CacheTyped(cache)
  BY <1>1, <1>2, <1>3 DEF Init, CacheTyped, DataOf
<1>5. FetchTyped(fetch)
  BY DEF Init, FetchTyped
<1>6. EditsTyped
  BY KeyTypes DEF Init, EditsTyped
<1> QED BY <1>1, <1>4, <1>5, <1>6 DEF Init, Typed

LEMMA StepTyped ==
  ASSUME Typed, [Next]_vars
  PROVE  Typed'
<1>1. CASE UNCHANGED vars
  BY <1>1 DEF vars, Typed, EditsTyped
<1> QED BY <1>1, UserTyped, ServerTyped, SettleTyped, BrowserTyped DEF Next, Browser

\* Cache and snapshots hold what the queries return: a record of the list, of the
\* panel or of a rollback is never taken for something else.
THEOREM PanelTypeCorrect == Spec => []TypeOK
<1>1. Typed => TypeOK
  <2> SUFFICES ASSUME Typed
               PROVE  TypeOK
    OBVIOUS
  <2>1. \A k \in Keys : /\ cache[k] \in Entry /\ fetch[k] \in {Idle} \cup Request
                        /\ k \in Ids => cache[k].data \in {NoData} \cup Record
    BY KeyTypes DEF Typed, CacheTyped, FetchTyped, DataOf
  <2>2. \A e \in DOMAIN edits :
          /\ edits[e].id \in Ids \cup {NoId} /\ edits[e].field \in Fields
          /\ edits[e].phase \in {"sent", "applied", "overdue", "settled"}
    <3> HIDE DEF Lists
    <3> QED BY EditTypes DEF Typed, EditOf
  <2>3. removal.phase \in {"none", "sent", "gone", "settled"}
    BY DEF Typed
  <2> QED BY <2>1, <2>2, <2>3 DEF TypeOK, Typed, EditsTyped, Lists
<1> QED BY <1>1, InitTyped, StepTyped, PTL DEF Spec

-----------------------------------------------------------------------------
(* What is held for fresh is stored.                                       *)

\* A change of what key k shows is stored, or may be, and k has not been
\* invalidated for it.
Unsettled(k) ==
  \/ \E e \in DOMAIN edits : edits[e].phase # "settled" /\ k \in {"list", edits[e].id}
  \/ k = "list" /\ (creation = "stored" \/ removal.phase = "gone")

\* The cache, or a request that was answered, vouches for data of key k.
Claims(k) == cache[k].data # NoData /\ cache[k].state = "fresh" /\ ~cache[k].late
Offers(k) == fetch[k] # Idle /\ ~fetch[k].late /\ fetch[k].answer \notin {NoData, Absent}

Current(k, data) == Answer(k) # Absent => data = Answer(k)

\* Nothing is known of a record before it is created.
Unborn ==
  creation \in {"none", "sent"} =>
    /\ db[NewId] = Absent /\ cache[NewId].data = NoData
    /\ fetch[NewId] # Idle => fetch[NewId].answer \in {NoData, Absent}

\* Data a query vouches for are stored, unless an invalidation is to come.
KeptFor(k) ==
  /\ Claims(k) => Unsettled(k) \/ Current(k, cache[k].data)
  /\ Offers(k) => Unsettled(k) \/ Current(k, fetch[k].answer)

CurrentInv == Unborn /\ \A k \in Keys : KeptFor(k)

\* A key about which nothing new is claimed, and for which a change that is no
\* longer unsettled, or stored, leaves nothing claimed at all.
LEMMA KeyKept ==
  ASSUME NEW k \in Keys, KeptFor(k),
         Claims(k)' => Claims(k) /\ cache'[k].data = cache[k].data,
         Offers(k)' => Offers(k) /\ fetch'[k].answer = fetch[k].answer,
         \/ ~Claims(k)' /\ ~Offers(k)'
         \/ Unsettled(k)'
         \/ ~Unsettled(k) /\ (Answer(k)' = Answer(k) \/ Answer(k)' = Absent)
  PROVE  KeptFor(k)'
BY DEF KeptFor, Current

\* Requests of the browser that change no query's claims but of one key.
LEMMA BrowserCurrent ==
  ASSUME Typed, CurrentInv, NEW j \in Keys,
         Refetch(j) \/ ServerReads(j) \/ Fetched(j) \/ FetchFails(j)
  PROVE  CurrentInv'
<1>1. /\ UNCHANGED <<db, edits, creation, removal>>
      /\ \A k \in Keys \ {j} : cache'[k] = cache[k] /\ fetch'[k] = fetch[k]
  BY DEF Refetch, ServerReads, Fetched, FetchFails, Typed, CacheTyped, FetchTyped
<1>2. \A k \in Keys : Unsettled(k)' = Unsettled(k) /\ Answer(k)' = Answer(k)
  BY <1>1 DEF Unsettled, Answer
<1>3. \A k \in Keys \ {j} : KeptFor(k)'
  BY <1>1, <1>2 DEF CurrentInv, KeptFor, Claims, Offers, Current
<1>4. CASE Refetch(j)
  <2>1. cache' = cache /\ fetch'[j].answer = NoData
    BY <1>4 DEF Refetch, Asked, Typed, FetchTyped
  <2>2. KeptFor(j)'
    BY <1>2, <2>1 DEF CurrentInv, KeptFor, Claims, Offers, Current
  <2>3. Unborn'
    BY <1>1, <2>1, KeyTypes DEF CurrentInv, Unborn
  <2> QED BY <1>3, <2>2, <2>3 DEF CurrentInv
<1>5. CASE ServerReads(j)
  <2>1. cache' = cache /\ fetch'[j].answer = Answer(j)
    <3>1. fetch[j] \in Request
      BY <1>5 DEF ServerReads, Typed, FetchTyped
    <3>2. fetch' = [fetch EXCEPT ![j] = [fetch[j] EXCEPT !.answer = Answer(j)]]
      BY <1>5 DEF ServerReads
    <3>3. [fetch[j] EXCEPT !.answer = Answer(j)].answer = Answer(j)
      <4> HIDE DEF Data
      <4> QED BY <3>1 DEF Request
    <3> QED BY <1>5, <3>2, <3>3 DEF ServerReads, Typed, FetchTyped
  <2>2. KeptFor(j)'
    BY <1>2, <2>1 DEF CurrentInv, KeptFor, Claims, Offers, Current
  <2>3. Unborn'
    BY <1>1, <2>1, KeyTypes DEF CurrentInv, Unborn, Answer
  <2> QED BY <1>3, <2>2, <2>3 DEF CurrentInv
<1>6. CASE Fetched(j)
  <2>1. /\ fetch[j] # Idle /\ fetch[j].answer \notin {NoData, Absent} /\ fetch'[j] = Idle
        /\ cache'[j] = [data |-> fetch[j].answer, state |-> "fresh", late |-> fetch[j].late]
    BY <1>6 DEF Fetched, Typed, CacheTyped, FetchTyped
  <2>2. KeptFor(j)'
    BY <1>2, <2>1 DEF CurrentInv, KeptFor, Claims, Offers, Current
  <2>3. Unborn'
    BY <1>1, <2>1, KeyTypes DEF CurrentInv, Unborn
  <2> QED BY <1>3, <2>2, <2>3 DEF CurrentInv
<1>7. CASE FetchFails(j)
  <2>1. /\ fetch'[j] = Idle /\ cache'[j].data = cache[j].data /\ cache'[j].late = cache[j].late
        /\ cache'[j].state = "fresh" => cache[j].state = "fresh"
    <3>1. cache[j] \in Entry /\ fetch'[j] = Idle
      BY <1>7 DEF FetchFails, Typed, CacheTyped, FetchTyped
    <3>2. cache' = [cache EXCEPT ![j] = [cache[j] EXCEPT
                      !.state = IF cache[j].state = "invalid" THEN "error" ELSE cache[j].state]]
      BY <1>7 DEF FetchFails
    <3>3. cache'[j] = [cache[j] EXCEPT
                         !.state = IF cache[j].state = "invalid" THEN "error" ELSE cache[j].state]
      BY <3>2 DEF Typed, CacheTyped
    <3> HIDE DEF Data
    <3> QED BY <3>1, <3>3 DEF Entry
  <2>2. KeptFor(j)'
    BY <1>2, <2>1 DEF CurrentInv, KeptFor, Claims, Offers, Current
  <2>3. Unborn'
    BY <1>1, <2>1, KeyTypes DEF CurrentInv, Unborn
  <2> QED BY <1>3, <2>2, <2>3 DEF CurrentInv
<1> QED BY <1>4, <1>5, <1>6, <1>7

\* A change of the panel, or a creation or deletion on its way, claims nothing.
LEMMA PanelCurrent ==
  ASSUME Typed, CurrentInv,
         \/ \E id \in Ids : OpenRecord(id) \/ Delete(id)
         \/ OpenForm \/ Close \/ Create \/ CreateFails \/ DeleteFails \/ UNCHANGED vars
  PROVE  CurrentInv'
<1>1. /\ UNCHANGED <<db, cache, edits>>
      /\ fetch' = fetch \/ \E id \in Ids : fetch' = [fetch EXCEPT ![id] = Asked]
  BY MountedFacts DEF Typed, OpenRecord, Delete, OpenForm, Close, Create, CreateFails, DeleteFails, vars
<1>2. /\ creation' = "stored" <=> creation = "stored"
      /\ creation' \in {"none", "sent"} => creation \in {"none", "sent"}
      /\ removal'.phase = "gone" <=> removal.phase = "gone"
  BY DEF OpenRecord, Delete, OpenForm, Close, Create, CreateFails, DeleteFails, vars
<1>3. \A k \in Keys : Unsettled(k)' = Unsettled(k) /\ Answer(k)' = Answer(k)
  BY <1>1, <1>2 DEF Unsettled, Answer
<1>4. \A k \in Keys : fetch'[k] = fetch[k] \/ fetch'[k].answer = NoData
  BY <1>1, KeyTypes DEF Asked, Typed, FetchTyped
<1>5. \A k \in Keys : KeptFor(k)'
  BY <1>1, <1>3, <1>4 DEF CurrentInv, KeptFor, Claims, Offers, Current
<1>6. Unborn'
  BY <1>1, <1>2, <1>4, KeyTypes DEF CurrentInv, Unborn
<1> QED BY <1>5, <1>6 DEF CurrentInv

\* An edit, made or stored, leaves the list and its record unsettled and the
\* other records alone.
LEMMA EditCurrent ==
  ASSUME Typed, CurrentInv,
         \/ \E id \in Ids, f \in Fields : Edit(id, f)
         \/ \E e \in DOMAIN edits : Applied(e)
  PROVE  CurrentInv'
<1>1. ASSUME NEW id \in Ids, NEW f \in Fields, Edit(id, f)
      PROVE  CurrentInv'
  <2> DEFINE e == Len(edits) + 1
             c == Written(cache, "list", ListWith(id, f, e))
  <2>1. /\ edits'[e].id = id /\ edits'[e].phase = "sent" /\ e \in DOMAIN edits'
        /\ \A d \in DOMAIN edits : d \in DOMAIN edits' /\ edits'[d] = edits[d]
        /\ \A d \in DOMAIN edits' : d \in DOMAIN edits \/ d = e
    BY <1>1, EditFacts DEF EditsTyped
  <2>2. \A k \in Keys : k \in {"list", id} => Unsettled(k)'
    BY <2>1 DEF Unsettled
  <2>3. \A k \in Keys \ {"list", id} : Unsettled(k) => Unsettled(k)'
    BY <1>1, <2>1 DEF Unsettled, Edit
  <2>4. CacheTyped(c)
        /\ \A k \in Keys : /\ c[k].data = NoData <=> cache[k].data = NoData
                           /\ k # "list" => c[k] = cache[k]
    BY <1>1, EditFacts, OptimisticTyped, WrittenFacts, KeyTypes DEF Typed
  <2>5. \A k \in Keys : /\ cache'[k].data = NoData <=> c[k].data = NoData
                        /\ k # id => cache'[k] = c[k]
    <3>1. cache' = Written(c, id, DetailWith(id, f, e)) /\ id \in Keys
      BY <1>1, KeyTypes DEF Edit
    <3>2. DetailWith(id, f, e) \in {NoData} \cup DataOf(id)
      BY <1>1, EditFacts, OptimisticTyped
    <3> HIDE DEF c, e
    <3> QED BY <2>4, <3>1, <3>2, WrittenFacts
  <2>6. db' = db /\ creation' = creation /\ \A k \in Keys : fetch'[k] = fetch[k] \/ fetch'[k] = Idle
    BY <1>1 DEF Edit, Cancelled
  <2> HIDE DEF c, e
  <2>7. ASSUME NEW k \in Keys
        PROVE  KeptFor(k)'
    <3>1. CASE k \in {"list", id}
      BY <2>2, <3>1 DEF KeptFor
    <3>2. CASE k \notin {"list", id}
      <4>1. cache'[k] = cache[k] /\ Answer(k)' = Answer(k) /\ (Unsettled(k) => Unsettled(k)')
        BY <2>3, <2>4, <2>5, <2>6, <3>2 DEF Answer
      <4> QED BY <2>6, <4>1 DEF CurrentInv, KeptFor, Claims, Offers, Current
    <3> QED BY <3>1, <3>2
  <2>8. Unborn'
    BY <2>4, <2>5, <2>6, KeyTypes DEF CurrentInv, Unborn
  <2> QED BY <2>7, <2>8 DEF CurrentInv
<1>2. ASSUME NEW e \in DOMAIN edits, Applied(e)
      PROVE  CurrentInv'
  <2>1. /\ edits'[e].phase = "applied" /\ edits'[e].id = edits[e].id
        /\ DOMAIN edits' = DOMAIN edits /\ edits[e].id \in Ids
        /\ \A d \in DOMAIN edits \ {e} : edits'[d] = edits[d]
    BY <1>2, AppliedFacts, EditTypes DEF Typed, Applied
  <2>2. \A k \in Keys : k \in {"list", edits[e].id} => Unsettled(k)'
    BY <2>1 DEF Unsettled
  <2>3. \A k \in Keys \ {"list", edits[e].id} : Unsettled(k) => Unsettled(k)'
    BY <1>2, <2>1 DEF Unsettled, Applied
  <2>4. /\ \A k \in Ids : k # edits[e].id => db'[k] = db[k]
        /\ \A k \in Ids : db[k] = Absent => db'[k] = Absent
    BY <1>2, <2>1, StoreTyped DEF Applied
  <2>5. UNCHANGED <<cache, fetch, creation>>
    BY <1>2 DEF Applied
  <2>6. ASSUME NEW k \in Keys
        PROVE  KeptFor(k)'
    <3>1. CASE k \in {"list", edits[e].id}
      BY <2>2, <3>1 DEF KeptFor
    <3>2. CASE k \notin {"list", edits[e].id}
      BY <2>3, <2>4, <2>5, <3>2 DEF CurrentInv, KeptFor, Claims, Offers, Current, Answer, Keys
    <3> QED BY <3>1, <3>2
  <2>7. Unborn'
    BY <2>4, <2>5, KeyTypes DEF CurrentInv, Unborn
  <2> QED BY <2>6, <2>7 DEF CurrentInv
<1> QED BY <1>1, <1>2

\* When a change of key k is over, k is invalidated and its requests repeated or late.
Disowned(keys) == \A k \in Keys \cap keys : ~Claims(k) /\ ~Offers(k)

\* The other keys, and what is not yet created, are left as they were.
LEMMA InvalidateCurrent ==
  ASSUME Typed, NEW c, CacheTyped(c), NEW keys, NEW f,
         cache' = Invalidated(c, keys),
         f = Refetched(c, keys), fetch' = f \/ \E id \in Ids : fetch' = [f EXCEPT ![id] = Asked],
         \A k \in Keys : c[k].data = NoData <=> cache[k].data = NoData,
         \A k \in Keys \ keys : c[k] = cache[k]
  PROVE  /\ Disowned(keys)'
         /\ \A k \in Keys \ keys : /\ cache'[k] = cache[k]
                                   /\ fetch'[k] = fetch[k] \/ fetch'[k].answer = NoData
         /\ \A k \in Keys : /\ cache'[k].data = NoData <=> cache[k].data = NoData
                            /\ fetch'[k] # Idle => \/ fetch'[k].answer = NoData
                                                   \/ fetch[k] # Idle /\ fetch'[k].answer = fetch[k].answer
<1>1. /\ FetchTyped(f)
      /\ \A k \in Keys : /\ k \notin keys => f[k] = fetch[k]
                         /\ k \in keys => f[k] = Idle \/ f[k].answer = NoData \/ f[k].late
                         /\ f[k] # Idle => \/ f[k].answer = NoData
                                           \/ fetch[k] # Idle /\ f[k].answer = fetch[k].answer
  BY RefetchedFacts DEF Typed
<1>2. \A k \in Keys : fetch'[k] = f[k] \/ fetch'[k].answer = NoData
  <2>1. f \in [Keys -> {Idle} \cup Request] /\ Asked.answer = NoData
    BY <1>1 DEF FetchTyped, Asked
  <2> QED BY <2>1, KeyTypes
<1>3. \A k \in Keys : /\ cache'[k].data = c[k].data
                      /\ k \notin keys => cache'[k] = c[k]
                      /\ k \in keys /\ c[k].data # NoData => cache'[k].state = "invalid"
  BY InvalidatedFacts
<1>4. Disowned(keys)'
  BY <1>1, <1>2, <1>3 DEF Disowned, Claims, Offers
<1> QED BY <1>1, <1>2, <1>3, <1>4

\* What settles a change disowns the keys it is about.
LEMMA SettleCurrent ==
  ASSUME Typed, CurrentInv,
         (\E e \in DOMAIN edits : Settle(e)) \/ CreateSucceeds \/ DeleteSucceeds
  PROVE  CurrentInv'
<1>1. ASSUME NEW keys, Disowned(keys)',
             \A k \in Keys \ keys : /\ cache'[k] = cache[k]
                                    /\ fetch'[k] = fetch[k] \/ fetch'[k].answer = NoData,
             \A k \in Keys : /\ cache'[k].data = NoData <=> cache[k].data = NoData
                             /\ fetch'[k] # Idle =>
                                  \/ fetch'[k].answer = NoData
                                  \/ fetch[k] # Idle /\ fetch'[k].answer = fetch[k].answer,
             \A k \in Keys \ keys : Unsettled(k) => Unsettled(k)',
             db' = db, creation' \in {"none", "sent"} => creation \in {"none", "sent"}
      PROVE  CurrentInv'
  <2>1. ASSUME NEW k \in Keys
        PROVE  KeptFor(k)'
    <3>1. CASE k \in keys
      BY <1>1, <3>1 DEF Disowned, KeptFor
    <3>2. CASE k \notin keys
      <4>1. Answer(k)' = Answer(k)
        BY <1>1 DEF Answer
      <4> QED BY <1>1, <3>2, <4>1 DEF CurrentInv, KeptFor, Claims, Offers, Current
    <3> QED BY <3>1, <3>2
  <2>2. Unborn'
    BY <1>1, KeyTypes DEF CurrentInv, Unborn
  <2> QED BY <2>1, <2>2 DEF CurrentInv
<1>2. ASSUME NEW e \in DOMAIN edits, Settle(e)
      PROVE  CurrentInv'
  <2> DEFINE keys == {"list", edits[e].id}
  <2>1. PICK phase \in {"overdue", "settled"} : Settled(e, phase)
    BY <1>2 DEF Settle, EditSucceeds, EditFails
  <2>2. edits[e].phase # "settled"
    BY <1>2 DEF Settle, EditSucceeds, EditFails, Pending
  <2>3. /\ DOMAIN edits' = DOMAIN edits
        /\ \A d \in DOMAIN edits \ {e} : edits'[d] = edits[d]
    BY <2>1, <2>2, SettledFacts DEF Typed
  <2>4. UNCHANGED <<db, creation, removal>>
    BY <1>2 DEF Settle, EditSucceeds, EditFails
  <2>5. \A k \in Keys \ keys : Unsettled(k) => Unsettled(k)'
    BY <2>3, <2>4 DEF Unsettled
  <2>6. PICK c : /\ CacheTyped(c)
                 /\ cache' = Invalidated(c, keys) /\ fetch' = Refetched(c, keys)
                 /\ \A k \in Keys : c[k].data = NoData <=> cache[k].data = NoData
                 /\ \A k \in Keys \ keys : c[k] = cache[k]
    <3>1. CASE EditSucceeds(e)
      BY <3>1 DEF EditSucceeds, Typed
    <3>2. CASE EditFails(e)
      <4>1. CacheTyped(Rollback(e))
        BY <2>2, RollbackTyped
      <4>2. /\ edits[e].id \in Keys /\ "list" \in Keys /\ edits[e].id \in Ids
            /\ edits[e].list \in {NoData} \cup DataOf("list")
            /\ edits[e].detail \in {NoData} \cup DataOf(edits[e].id)
        BY <2>2, EditTypes, KeyTypes DEF Typed
      <4>3. \A k \in Keys : /\ Rollback(e)[k].data = NoData <=> cache[k].data = NoData
                            /\ k \notin keys => Rollback(e)[k] = cache[k]
        BY <4>2, WrittenFacts DEF Rollback, Typed
      <4> QED BY <3>2, <4>1, <4>3 DEF EditFails
    <3> QED BY <1>2, <3>1, <3>2 DEF Settle
  <2> HIDE DEF keys
  <2> QED BY <1>1, <2>4, <2>5, <2>6, InvalidateCurrent
<1>3. ASSUME CreateSucceeds \/ DeleteSucceeds
      PROVE  CurrentInv'
  <2>1. /\ UNCHANGED <<db, edits>> /\ CacheTyped(cache)
        /\ creation' \in {"none", "sent"} => creation \in {"none", "sent"}
    BY <1>3 DEF CreateSucceeds, DeleteSucceeds, Typed
  <2>2. \A k \in Keys \ {"list"} : Unsettled(k) => Unsettled(k)'
    BY <2>1 DEF Unsettled
  <2> DEFINE f == Refetched(cache, {"list"})
  <2>3. FetchTyped(f)
    BY RefetchedFacts DEF Typed
  <2>4. /\ cache' = Invalidated(cache, {"list"})
        /\ fetch' = f \/ \E id \in Ids : fetch' = [f EXCEPT ![id] = Asked]
    BY <1>3, <2>3, MountedFacts, KeyTypes DEF CreateSucceeds, DeleteSucceeds, Typed
  <2> HIDE DEF f
  <2>5. /\ Disowned({"list"})'
        /\ \A k \in Keys \ {"list"} : /\ cache'[k] = cache[k]
                                      /\ fetch'[k] = fetch[k] \/ fetch'[k].answer = NoData
        /\ \A k \in Keys : /\ cache'[k].data = NoData <=> cache[k].data = NoData
                           /\ fetch'[k] # Idle =>
                                \/ fetch'[k].answer = NoData
                                \/ fetch[k] # Idle /\ fetch'[k].answer = fetch[k].answer
    BY <2>1, <2>4, InvalidateCurrent DEF f
  <2> QED BY <1>1, <2>1, <2>2, <2>5
<1> QED BY <1>2, <1>3

\* Creating or deleting a record unsettles the list; the record was unknown
\* before, or is gone.
LEMMA StoredCurrent ==
  ASSUME Typed, CurrentInv, Created \/ Deleted
  PROVE  CurrentInv'
<1>1. UNCHANGED <<cache, fetch, edits>>
  BY DEF Created, Deleted
<1>2. Unsettled("list")'
  BY DEF Created, Deleted, Unsettled, Typed
<1>3. \A k \in Ids : Unsettled(k)' = Unsettled(k)
  BY <1>1, KeyTypes DEF Unsettled
<1>4. CASE Created
  <2>1. /\ creation = "sent" /\ creation' = "stored"
        /\ \A k \in Ids \ {NewId} : db'[k] = db[k]
    BY <1>4 DEF Created, Typed, Lists
  <2>2. ~Claims(NewId)' /\ ~Offers(NewId)'
    BY <1>1, <2>1 DEF CurrentInv, Unborn, Claims, Offers
  <2>3. \A k \in Ids \ {NewId} : KeptFor(k)'
    BY <1>1, <1>3, <2>1, KeyTypes DEF CurrentInv, KeptFor, Claims, Offers, Current, Answer
  <2>4. KeptFor(NewId)' /\ KeptFor("list")' /\ Unborn'
    BY <1>2, <2>1, <2>2 DEF KeptFor, Unborn
  <2> QED BY <2>3, <2>4 DEF CurrentInv, Keys
<1>5. CASE Deleted
  <2>1. /\ creation' = creation /\ removal.id \in Ids
        /\ \A k \in Ids : db'[k] = db[k] \/ db'[k] = Absent
    BY <1>5 DEF Deleted, Typed, Lists
  <2>2. \A k \in Ids : KeptFor(k)'
    BY <1>1, <1>3, <2>1, KeyTypes DEF CurrentInv, KeptFor, Claims, Offers, Current, Answer
  <2>3. KeptFor("list")' /\ Unborn'
    BY <1>1, <1>2, <2>1, KeyTypes DEF KeptFor, CurrentInv, Unborn
  <2> QED BY <2>2, <2>3 DEF CurrentInv, Keys
<1> QED BY <1>4, <1>5

\* An edit that was given up is stored after all: what was read before is late.
LEMMA OverdueCurrent ==
  ASSUME Typed, CurrentInv, NEW e \in DOMAIN edits, Overdue(e)
  PROVE  CurrentInv'
<1> DEFINE keys == {"list", edits[e].id}
<1>1. /\ DOMAIN edits' = DOMAIN edits /\ \A d \in DOMAIN edits \ {e} : edits'[d] = edits[d]
      /\ edits[e].id \in Ids
  BY SettledFacts, EditTypes DEF Typed, Overdue
<1>2. /\ \A k \in Ids : k # edits[e].id => db'[k] = db[k]
      /\ \A k \in Ids : db[k] = Absent => db'[k] = Absent
  BY <1>1, StoreTyped DEF Overdue
<1>3. \A k \in Keys \ keys : Unsettled(k) => Unsettled(k)'
  BY <1>1 DEF Unsettled, Overdue
<1>4. ASSUME NEW k \in Keys
      PROVE  /\ cache'[k].data = cache[k].data /\ cache'[k].state = cache[k].state
             /\ cache'[k].late = (cache[k].late \/ k \in keys)
  <2>1. cache[k] \in Entry
    BY DEF Typed, CacheTyped
  <2>2. cache'[k] = [cache[k] EXCEPT !.late = cache[k].late \/ k \in keys]
    BY DEF Overdue
  <2> HIDE DEF Data, keys
  <2> QED BY <2>1, <2>2, Zenon DEF Entry
<1>5. ASSUME NEW k \in Keys
      PROVE  /\ k \notin keys => fetch'[k] = fetch[k]
             /\ fetch'[k] # Idle => fetch[k] # Idle /\ fetch'[k].answer = fetch[k].answer
             /\ k \in keys => ~Offers(k)'
  <2>1. CASE k \notin keys \/ fetch[k] = Idle
    BY <2>1 DEF Overdue, Offers
  <2>2. CASE k \in keys /\ fetch[k] # Idle
    <3>1. fetch[k] \in Request
      BY <2>2 DEF Typed, FetchTyped
    <3>2. fetch'[k] = [fetch[k] EXCEPT !.late = fetch[k].late \/ fetch[k].answer # NoData]
      BY <2>2 DEF Overdue
    <3>3. /\ fetch'[k].answer = fetch[k].answer
          /\ fetch'[k].late = (fetch[k].late \/ fetch[k].answer # NoData)
      <4> HIDE DEF Data
      <4> QED BY <3>1, <3>2, Zenon DEF Request
    <3> QED BY <2>2, <3>3 DEF Offers
  <2> QED BY <2>1, <2>2
<1>6. ASSUME NEW k \in Keys
      PROVE  KeptFor(k)'
  <2>1. CASE k \in keys
    BY <1>4, <1>5, <2>1 DEF KeptFor, Claims
  <2>2. CASE k \notin keys
    <3>1. Answer(k)' = Answer(k)
      BY <1>2, <2>2 DEF Answer, Keys
    <3>2. Claims(k)' <=> Claims(k)
      <4>1. cache[k].late \in BOOLEAN
        BY DEF Typed, CacheTyped, Entry
      <4> HIDE DEF keys
      <4>2. cache'[k].late = cache[k].late
        BY <1>4, <2>2, <4>1
      <4> QED BY <1>4, <4>2, Zenon DEF Claims
    <3>3. KeptFor(k) /\ cache'[k].data = cache[k].data /\ fetch'[k] = fetch[k]
      BY <1>4, <1>5, <2>2 DEF CurrentInv
    <3>4. Offers(k)' <=> Offers(k)
      BY <3>3, Zenon DEF Offers
    <3>5. Unsettled(k) => Unsettled(k)'
      BY <1>3, <2>2
    <3> HIDE DEF keys
    <3> QED BY <3>1, <3>2, <3>3, <3>4, <3>5 DEF KeptFor, Current
  <2> QED BY <2>1, <2>2
<1>7. Unborn'
  BY <1>2, <1>4, <1>5, KeyTypes DEF CurrentInv, Unborn, Overdue
<1> QED BY <1>6, <1>7 DEF CurrentInv

LEMMA StepCurrent ==
  ASSUME Typed, CurrentInv, [Next]_vars
  PROVE  CurrentInv'
BY BrowserCurrent, PanelCurrent, EditCurrent, SettleCurrent, StoredCurrent, OverdueCurrent
   DEF Next, User, Server, Browser

\* use-record-inline-edit.ts: when no change is on its way, a list or a record the
\* cache holds for fresh is what the server stores, however edits, rollbacks,
\* refetches, creations and deletions overlapped.
THEOREM FreshDataIsStored == Spec => []FreshIsStored
<1>1. Init => CurrentInv
  <2> SUFFICES ASSUME Init
               PROVE  CurrentInv
    OBVIOUS
  <2>1. /\ cache["list"].data = db /\ \A k \in Keys : fetch[k] = Idle
        /\ \A k \in Ids : cache[k].data = NoData
    BY KeyTypes DEF Init
  <2>2. db[NewId] = Absent
    BY KeyTypes DEF Init
  <2> QED BY <2>1, <2>2, KeyTypes
      DEF CurrentInv, Unborn, KeptFor, Claims, Offers, Current, Answer, Keys
<1>2. Typed /\ CurrentInv => FreshIsStored
  BY DEF CurrentInv, KeptFor, Claims, Unsettled, Current, FreshIsStored, Quiet, Trusted
<1> QED BY <1>1, <1>2, InitTyped, StepTyped, StepCurrent, PTL DEF Spec

-----------------------------------------------------------------------------
(* Optimistic values.                                                      *)

\* A request for the list or a record started after the pending edits of it,
\* because onMutate cancelled those before.
StartedAfter ==
  \A e \in DOMAIN edits : Pending(e) =>
    \A k \in {"list", edits[e].id} : fetch[k] # Idle => e <= fetch[k].since

\* The data of a key change when its request is answered, an edit is made or settles.
LEMMA DataKept ==
  ASSUME Typed, [Next]_vars, NEW k \in Keys
  PROVE  \/ cache'[k].data = cache[k].data
         \/ Fetched(k)
         \/ \E id \in Ids, f \in Fields : Edit(id, f)
         \/ \E d \in DOMAIN edits : Settle(d)
<1>1. CASE \/ \E id \in Ids : OpenRecord(id) \/ Delete(id)
           \/ OpenForm \/ Close \/ Create \/ CreateFails \/ DeleteFails \/ Created \/ Deleted
           \/ \E j \in Keys : ServerReads(j) \/ Refetch(j)
           \/ \E e \in DOMAIN edits : Applied(e)
           \/ UNCHANGED vars
  BY <1>1 DEF OpenRecord, Delete, OpenForm, Close, Create, CreateFails, DeleteFails, Created,
              Deleted, ServerReads, Refetch, Applied, vars
<1>2. ASSUME NEW j \in Keys, j # k, Fetched(j)
      PROVE  cache'[k].data = cache[k].data
  BY <1>2 DEF Fetched
<1>3. ASSUME NEW j \in Keys, FetchFails(j)
      PROVE  cache'[k].data = cache[k].data
  <2>1. \E s : cache' = [cache EXCEPT ![j] = [cache[j] EXCEPT !.state = s]]
    BY <1>3 DEF FetchFails
  <2>2. cache[j] \in Entry
    BY DEF Typed, CacheTyped
  <2>3. \A s : [cache[j] EXCEPT !.state = s].data = cache[j].data
    <3> HIDE DEF Data
    <3> QED BY <2>2 DEF Entry
  <2> QED BY <2>1, <2>3 DEF Typed, CacheTyped
<1>4. ASSUME CreateSucceeds \/ DeleteSucceeds
      PROVE  cache'[k].data = cache[k].data
  BY <1>4, InvalidatedFacts DEF CreateSucceeds, DeleteSucceeds, Typed
<1>5. ASSUME NEW e \in DOMAIN edits, Overdue(e)
      PROVE  cache'[k].data = cache[k].data
  <2>1. \E l : cache'[k] = [cache[k] EXCEPT !.late = l]
    BY <1>5 DEF Overdue
  <2>2. cache[k] \in Entry
    BY DEF Typed, CacheTyped
  <2> HIDE DEF Data
  <2> QED BY <2>1, <2>2 DEF Entry
<1> QED BY <1>1, <1>2, <1>3, <1>4, <1>5 DEF Next, User, Server, Browser

\* A request that is there after a step was there before, or starts with it.
LEMMA RequestKept ==
  ASSUME Typed, [Next]_vars, NEW k \in Keys, fetch'[k] # Idle
  PROVE  \/ fetch'[k].since = Len(edits)
         \/ fetch[k] # Idle /\ fetch'[k].since = fetch[k].since
<1>0. Asked.since = Len(edits)
  BY DEF Asked
<1>1. CASE \/ OpenForm \/ Close \/ Create \/ CreateFails \/ DeleteFails \/ Created \/ Deleted
           \/ \E id \in Ids : Delete(id)
           \/ \E e \in DOMAIN edits : Applied(e)
           \/ UNCHANGED vars
  BY <1>1 DEF Delete, OpenForm, Close, Create, CreateFails, DeleteFails, Created, Deleted,
              Applied, vars
<1>2. ASSUME NEW id \in Ids, OpenRecord(id)
      PROVE  fetch' = fetch \/ fetch' = [fetch EXCEPT ![id] = Asked]
  BY <1>2, MountedFacts DEF OpenRecord, Typed
<1>3. ASSUME NEW j \in Keys, Refetch(j)
      PROVE  fetch' = [fetch EXCEPT ![j] = Asked]
  BY <1>3 DEF Refetch
<1>4. ASSUME NEW j \in Keys, Fetched(j) \/ FetchFails(j)
      PROVE  fetch' = [fetch EXCEPT ![j] = Idle]
  BY <1>4 DEF Fetched, FetchFails
<1>5. ASSUME NEW id \in Ids, NEW f \in Fields, Edit(id, f)
      PROVE  fetch'[k] = fetch[k]
  BY <1>5 DEF Edit, Cancelled
<1>6. ASSUME NEW j \in Keys, ServerReads(j)
      PROVE  fetch[k] # Idle /\ fetch'[k].since = fetch[k].since
  <2>1. fetch[j] \in Request /\ fetch[j] # Idle
    BY <1>6 DEF ServerReads, Typed, FetchTyped
  <2>2. fetch' = [fetch EXCEPT ![j] = [fetch[j] EXCEPT !.answer = Answer(j)]]
    BY <1>6 DEF ServerReads
  <2>3. [fetch[j] EXCEPT !.answer = Answer(j)].since = fetch[j].since
    <3> HIDE DEF Data
    <3> QED BY <2>1 DEF Request
  <2> QED BY <2>1, <2>2, <2>3 DEF Typed, FetchTyped
<1>7. ASSUME NEW e \in DOMAIN edits, Overdue(e)
      PROVE  fetch[k] # Idle /\ fetch'[k].since = fetch[k].since
  <2>1. fetch[k] # Idle /\ (fetch'[k] = fetch[k] \/ \E l : fetch'[k] = [fetch[k] EXCEPT !.late = l])
    BY <1>7 DEF Overdue
  <2>2. fetch[k] \in Request
    BY <2>1 DEF Typed, FetchTyped
  <2> HIDE DEF Data
  <2> QED BY <2>1, <2>2 DEF Request
<1>8. ASSUME NEW c, NEW keys, fetch' = Refetched(c, keys)
      PROVE  \/ fetch'[k].since = Len(edits)
             \/ fetch[k] # Idle /\ fetch'[k].since = fetch[k].since
  BY <1>8, RefetchedFacts DEF Typed
<1>9. ASSUME CreateSucceeds
      PROVE  \/ fetch'[k].since = Len(edits)
             \/ fetch[k] # Idle /\ fetch'[k].since = fetch[k].since
  <2> DEFINE f == Refetched(cache, {"list"})
  <2>1. FetchTyped(f) /\ (f[k] = Idle \/ f[k].since = Len(edits)
                            \/ (fetch[k] # Idle /\ f[k].since = fetch[k].since))
    BY RefetchedFacts DEF Typed
  <2>2. fetch' = f \/ fetch' = [f EXCEPT ![NewId] = Asked]
    BY <1>9, <2>1, MountedFacts, KeyTypes DEF CreateSucceeds, Typed
  <2> HIDE DEF f
  <2> QED BY <1>0, <2>1, <2>2, KeyTypes DEF FetchTyped
<1>10. fetch \in [Keys -> {Idle} \cup Request]
  BY DEF Typed, FetchTyped
<1>11. (DeleteSucceeds \/ \E e \in DOMAIN edits : Settle(e)) =>
         \E c, keys : fetch' = Refetched(c, keys)
  BY DEF DeleteSucceeds, Settle, EditSucceeds, EditFails
<1> QED BY <1>0, <1>1, <1>2, <1>3, <1>4, <1>5, <1>6, <1>7, <1>8, <1>9, <1>10, <1>11, KeyTypes
    DEF Next, User, Server, Browser

\* A pending edit was pending before, of the same record, or is made by the step.
LEMMA PendingKept ==
  ASSUME Typed, [Next]_vars, NEW e \in DOMAIN edits', Pending(e)'
  PROVE  \/ e \in DOMAIN edits /\ Pending(e) /\ edits'[e].id = edits[e].id
         \/ e = Len(edits) + 1 /\ \E f \in Fields : Edit(edits'[e].id, f) /\ edits'[e].id \in Ids
<1>1. CASE edits' = edits
  BY <1>1 DEF Pending
<1>2. ASSUME NEW id \in Ids, NEW f \in Fields, Edit(id, f)
      PROVE  \/ e \in DOMAIN edits /\ Pending(e) /\ edits'[e].id = edits[e].id
             \/ e = Len(edits) + 1 /\ edits'[e].id = id
  BY <1>2, EditFacts DEF Pending
<1>3. ASSUME NEW d \in DOMAIN edits, Settle(d) \/ Overdue(d)
      PROVE  e \in DOMAIN edits /\ Pending(e) /\ edits'[e].id = edits[e].id
  <2>1. PICK phase \in {"overdue", "settled"} : Settled(d, phase)
    BY <1>3 DEF Settle, EditSucceeds, EditFails, Overdue
  <2>2. edits[d].phase # "settled"
    BY <1>3 DEF Settle, EditSucceeds, EditFails, Overdue, Pending
  <2> QED BY <2>1, <2>2, SettledFacts DEF Typed, Pending
<1>4. ASSUME NEW d \in DOMAIN edits, Applied(d)
      PROVE  e \in DOMAIN edits /\ Pending(e) /\ edits'[e].id = edits[e].id
  BY <1>4, AppliedFacts DEF Typed, Applied, Pending
<1>5. \/ edits' = edits
      \/ \E id \in Ids, f \in Fields : Edit(id, f)
      \/ \E d \in DOMAIN edits : Settle(d) \/ Overdue(d) \/ Applied(d)
  BY DEF Next, User, Server, Browser, OpenRecord, Delete, OpenForm, Close, Create, CreateFails,
         CreateSucceeds, DeleteFails, DeleteSucceeds, Created, Deleted, ServerReads, Refetch,
         Fetched, FetchFails, vars
<1> QED BY <1>1, <1>2, <1>3, <1>4, <1>5

LEMMA StepStarted ==
  ASSUME Typed, StartedAfter, [Next]_vars
  PROVE  StartedAfter'
<1> SUFFICES ASSUME NEW e \in DOMAIN edits', Pending(e)', NEW k \in {"list", edits'[e].id},
                    fetch'[k] # Idle
             PROVE  e <= fetch'[k].since
  BY DEF StartedAfter
<1>1. CASE e \in DOMAIN edits /\ Pending(e) /\ edits'[e].id = edits[e].id
  <2>1. e <= Len(edits) /\ k \in Keys
    BY <1>1, EditTypes, KeyTypes DEF Typed, EditsTyped, Pending
  <2> QED BY <1>1, <2>1, RequestKept DEF StartedAfter
<1>2. ASSUME NEW id \in Ids, NEW f \in Fields, Edit(id, f), id = edits'[e].id
      PROVE  FALSE
  BY <1>2, KeyTypes DEF Edit, Cancelled
<1> QED BY <1>1, <1>2, PendingKept

\* use-record-inline-edit.ts "Cancel outgoing refetches so they don't overwrite
\* our optimistic update": no answer to a request from before an edit replaces its
\* value while it is pending.
THEOREM OptimisticValuesLast == Spec => OptimisticKept
<1> DEFINE Kept ==
      \A e \in DOMAIN edits, id \in Ids, f \in Fields : \A k \in {"list", id} :
        /\ Pending(e) /\ edits[e].id = id /\ edits[e].field = f
        /\ Shows(k, id, f, e) /\ ~Shows(k, id, f, e)'
        => \/ \E d \in DOMAIN edits : Pending(d) /\ ~Pending(d)'
           \/ Len(edits') > Len(edits)
           \/ fetch[k] # Idle /\ e <= fetch[k].since
<1>1. Init => StartedAfter
  BY DEF Init, StartedAfter
<1>2. Typed /\ StartedAfter /\ [Next]_vars => Kept
  <2> SUFFICES ASSUME Typed, StartedAfter, [Next]_vars,
                      NEW e \in DOMAIN edits, NEW id \in Ids, NEW f \in Fields,
                      NEW k \in {"list", id},
                      Pending(e), edits[e].id = id, Shows(k, id, f, e), ~Shows(k, id, f, e)'
               PROVE  \/ \E d \in DOMAIN edits : Pending(d) /\ ~Pending(d)'
                      \/ Len(edits') > Len(edits)
                      \/ fetch[k] # Idle /\ e <= fetch[k].since
    OBVIOUS
  <2>1. k \in Keys /\ cache'[k].data # cache[k].data
    BY KeyTypes DEF Shows
  <2>2. CASE Fetched(k)
    BY <2>2 DEF Fetched, StartedAfter
  <2>3. ASSUME NEW i \in Ids, NEW g \in Fields, Edit(i, g)
        PROVE  Len(edits') > Len(edits)
    BY <2>3, EditFacts DEF Typed, EditsTyped
  <2>4. ASSUME NEW d \in DOMAIN edits, Settle(d)
        PROVE  Pending(d) /\ ~Pending(d)'
    <3>1. Pending(d)
      BY <2>4 DEF Settle, EditSucceeds, EditFails, Pending
    <3>2. PICK phase \in {"overdue", "settled"} : Settled(d, phase)
      BY <2>4 DEF Settle, EditSucceeds, EditFails
    <3> QED BY <3>1, <3>2, SettledFacts DEF Typed, Pending
  <2> QED BY <2>1, <2>2, <2>3, <2>4, DataKept
<1>3. Typed /\ StartedAfter /\ [Next]_vars => [Kept]_vars
  BY <1>2
<1> QED BY <1>1, <1>3, InitTyped, StepTyped, StepStarted, PTL DEF Spec, OptimisticKept

=============================================================================
