----------------------------- MODULE RecordPanel -----------------------------
(***************************************************************************)
(* Records of one entity type on a list page of the dashboard and in the    *)
(* side panel beside it: the cached queries of the page and of the panel    *)
(* (use-record-detail.ts), inline edits with their optimistic writes        *)
(* (use-record-inline-edit.ts), creating a record from the panel            *)
(* (record-detail-actions.tsx) and deleting one (action-factories.ts).      *)
(*                                                                         *)
(* The list query is mounted for as long as the page is, the query of a     *)
(* record while the panel shows it.  A fetch reads the database at some     *)
(* time between its start and its answer.  Awaits that settle in            *)
(* microtasks, like those of onMutate, are not steps of their own.          *)
(***************************************************************************)
EXTENDS Naturals, Sequences

CONSTANTS
  Ids,       \* records
  NewId,     \* the one the server gives to the record created
  Fields,    \* editable fields
  MaxChanges, \* bound: edits, creations and deletions
  Absent,    \* no such record
  NoData,    \* a query without data, a fetch the server has not read for
  Idle,      \* no fetch in flight
  NoId,      \* the panel is closed
  NewForm    \* the panel shows an empty form

ASSUME RecordAssumption == NewId \in Ids /\ MaxChanges \in Nat

VARIABLES
  db,       \* the server's records; a field holds the number of the edit that wrote it
  cache,    \* data of the queries
  fetch,    \* requests of the queries
  panel,    \* what the active entry of the panel names
  edits,    \* inline edits in the order they were made
  creation, \* the record being created
  removal   \* the record being deleted

vars == <<db, cache, fetch, panel, edits, creation, removal>>

Edits == 1..MaxChanges
Record == [Fields -> {0} \cup Edits]
Keys == {"list"} \cup Ids

Unwritten == [f \in Fields |-> 0]

-----------------------------------------------------------------------------
(* The query cache, as the dashboard uses TanStack Query.                  *)

Data == {NoData} \cup Record \cup [Ids -> Record \cup {Absent}]

\* A query is "invalid" until it is fetched again, and in "error" if that failed.
\* "late" is auxiliary: the answer was asked for before an invalidation that did not
\* repeat the request.  "since" is auxiliary: the edits made before the fetch started.
Entry == [data : Data, state : {"fresh", "invalid", "error"}, late : BOOLEAN]
Request == [answer : Data \cup {Absent}, late : BOOLEAN, since : 0..MaxChanges]

\* Queries have keys of their own (query-keys.ts), and null and undefined are no data.
ASSUME DataAssumption ==
  /\ Ids \cap {"list", NoId, NewForm} = {}
  /\ NoData # Absent /\ {NoData, Absent} \cap (Record \cup [Ids -> Record \cup {Absent}]) = {}
  /\ Idle \notin Request

Pending(e) == edits[e].phase \in {"sent", "applied"}

\* A query key is watched by the page or by the panel.
Active(k) == k = "list" \/ k = panel

\* A fetch starts.
Asked == [answer |-> NoData, late |-> FALSE, since |-> Len(edits)]

Stale(k) == cache[k].data = NoData \/ cache[k].state # "fresh"

\* setQueryData: nothing without data, else the data counts as fresh.
Written(c, k, data) ==
  IF c[k].data = NoData \/ data = NoData THEN c
  ELSE [c EXCEPT ![k].data = data, ![k].state = "fresh"]

\* Mutant: an entry without observers is left alone.
InvalidatedActive(c, keys) ==
  [k \in Keys |->
    IF k \in keys /\ Active(k) /\ c[k].data # NoData THEN [c[k] EXCEPT !.state = "invalid"] ELSE c[k]]

\* invalidateQueries: the entries are stale ...
Invalidated(c, keys) ==
  [k \in Keys |->
    IF k \in keys /\ c[k].data # NoData THEN [c[k] EXCEPT !.state = "invalid"] ELSE c[k]]

\* Mutant: invalidateQueries with refetchType "none".
RefetchedNever(c, keys) ==
  [k \in Keys |-> IF k \in keys /\ fetch[k] # Idle THEN [fetch[k] EXCEPT !.late = TRUE] ELSE fetch[k]]

\* ... and those that are watched are fetched again, a running fetch being
\* replaced only if there is data already.
Refetched(c, keys) ==
  [k \in Keys |->
    IF k \notin keys THEN fetch[k]
    ELSE IF Active(k) /\ (fetch[k] = Idle \/ c[k].data # NoData) THEN Asked
    ELSE IF fetch[k] # Idle THEN [fetch[k] EXCEPT !.late = TRUE]
    ELSE Idle]

\* A component mounts a query: it is fetched if it is stale, as it may be by time
\* alone.
Mounted(f, id) ==
  IF f[id] # Idle THEN {f}
  ELSE IF Stale(id) THEN {[f EXCEPT ![id] = Asked]}
  ELSE {f, [f EXCEPT ![id] = Asked]}

\* The window gets the focus, or the connection is back (main.tsx).
Refetch(k) ==
  /\ Active(k) /\ k \in Keys /\ fetch[k] = Idle
  /\ fetch' = [fetch EXCEPT ![k] = Asked]
  /\ UNCHANGED <<db, cache, panel, edits, creation, removal>>

\* Mutant: fetchById asks for the list.
AnswerList(k) == db

\* What the server answers to the request of a key.
Answer(k) == IF k = "list" THEN db ELSE db[k]

ServerReads(k) ==
  /\ fetch[k] # Idle /\ fetch[k].answer = NoData
  /\ fetch' = [fetch EXCEPT ![k].answer = Answer(k)]
  /\ UNCHANGED <<db, cache, panel, edits, creation, removal>>

Fetched(k) ==
  /\ fetch[k] # Idle /\ fetch[k].answer \notin {NoData, Absent}
  /\ cache' = [cache EXCEPT ![k] =
       [data |-> fetch[k].answer, state |-> "fresh", late |-> fetch[k].late]]
  /\ fetch' = [fetch EXCEPT ![k] = Idle]
  /\ UNCHANGED <<db, panel, edits, creation, removal>>

\* The record is gone, or no attempt was answered.
FetchFails(k) ==
  /\ fetch[k] # Idle
  /\ fetch' = [fetch EXCEPT ![k] = Idle]
  /\ cache' = [cache EXCEPT ![k].state = IF @ = "invalid" THEN "error" ELSE @]
  /\ UNCHANGED <<db, panel, edits, creation, removal>>

-----------------------------------------------------------------------------
(* The panel.                                                              *)

\* pushEntry, for a row of the list.
OpenRecord(id) ==
  /\ cache["list"].data # NoData /\ cache["list"].data[id] # Absent
  /\ panel # id
  /\ panel' = id
  /\ fetch' \in Mounted(fetch, id)
  /\ UNCHANGED <<db, cache, edits, creation, removal>>

OpenForm ==
  /\ panel # NewForm
  /\ panel' = NewForm
  /\ UNCHANGED <<db, cache, fetch, edits, creation, removal>>

Close ==
  /\ panel # NoId
  /\ panel' = NoId
  /\ UNCHANGED <<db, cache, fetch, edits, creation, removal>>

-----------------------------------------------------------------------------
(* Inline edits.                                                           *)

\* Changes made so far.
Changes ==
  Len(edits) + (IF creation = "none" THEN 0 ELSE 1) + (IF removal.phase = "none" THEN 0 ELSE 1)

\* A cell of the list or a field of the panel can be edited.
Editable(id) ==
  \/ cache["list"].data # NoData /\ cache["list"].data[id] # Absent
  \/ panel = id /\ cache[id].data # NoData

\* The optimistic write of the list query.
ListWith(id, f, value) ==
  LET list == cache["list"].data
  IN  IF list = NoData THEN NoData
      ELSE IF list[id] = Absent THEN list
      ELSE [list EXCEPT ![id][f] = value]

DetailWith(id, f, value) ==
  IF cache[id].data = NoData THEN NoData ELSE [cache[id].data EXCEPT ![f] = value]

\* Mutant: onMutate without cancelQueries.
NotCancelled(keys) == fetch

\* cancelQueries: running fetches of the two keys are dropped.
Cancelled(keys) == [k \in Keys |-> IF k \in keys THEN Idle ELSE fetch[k]]

\* mutate and onMutate.
Edit(id, f) ==
  LET e == Len(edits) + 1
  IN  /\ Changes < MaxChanges /\ Editable(id)
      /\ edits' = Append(edits, [id |-> id, field |-> f, phase |-> "sent",
                                list |-> cache["list"].data, detail |-> cache[id].data])
      /\ fetch' = Cancelled({"list", id})
      /\ cache' = Written(Written(cache, "list", ListWith(id, f, e)), id, DetailWith(id, f, e))
      /\ UNCHANGED <<db, panel, creation, removal>>

Store(e) ==
  db' = IF db[edits[e].id] = Absent THEN db
        ELSE [db EXCEPT ![edits[e].id][edits[e].field] = e]

\* updateById arrives; a record that is gone, or a value the server rejects, is refused.
Applied(e) ==
  /\ edits[e].phase = "sent" /\ db[edits[e].id] # Absent
  /\ Store(e)
  /\ edits' = [edits EXCEPT ![e].phase = "applied"]
  /\ UNCHANGED <<cache, fetch, panel, creation, removal>>

Settled(e, phase) ==
  edits' = [edits EXCEPT ![e] =
    [edits[e] EXCEPT !.phase = phase, !.list = NoData, !.detail = NoData,
                     !.id = IF phase = "settled" THEN NoId ELSE edits[e].id]]

\* onSettled after a success.
EditSucceeds(e) ==
  /\ edits[e].phase = "applied"
  /\ Settled(e, "settled")
  /\ cache' = Invalidated(cache, {"list", edits[e].id})
  /\ fetch' = Refetched(cache, {"list", edits[e].id})
  /\ UNCHANGED <<db, panel, creation, removal>>

\* onError: the snapshots are put back.
Rollback(e) ==
  Written(Written(cache, "list", edits[e].list), edits[e].id, edits[e].detail)

\* onError and onSettled: refused, or without an answer in time, in which case the
\* server may have applied the edit or do so later.
EditFails(e) ==
  /\ Pending(e)
  /\ \E phase \in {"settled", "overdue"} :
       /\ phase = "overdue" => edits[e].phase = "sent"
       /\ Settled(e, phase)
  /\ cache' = Invalidated(Rollback(e), {"list", edits[e].id})
  /\ fetch' = Refetched(Rollback(e), {"list", edits[e].id})
  /\ UNCHANGED <<db, panel, creation, removal>>

\* An edit the page gave up is applied after all, or never.
Overdue(e) ==
  LET keys == {"list", edits[e].id}
  IN  /\ edits[e].phase = "overdue"
      /\ Settled(e, "settled")
      /\ Store(e)
      /\ cache' = [k \in Keys |-> [cache[k] EXCEPT !.late = @ \/ k \in keys]]
      /\ fetch' = [k \in Keys |->
           IF k \in keys /\ fetch[k] # Idle
           THEN [fetch[k] EXCEPT !.late = @ \/ fetch[k].answer # NoData] ELSE fetch[k]]
      /\ UNCHANGED <<panel, creation, removal>>

-----------------------------------------------------------------------------
(* Creating and deleting.                                                  *)

Create ==
  /\ panel = NewForm /\ creation = "none" /\ Changes < MaxChanges
  /\ creation' = "sent"
  /\ UNCHANGED <<db, cache, fetch, panel, edits, removal>>

Created ==
  /\ creation = "sent"
  /\ creation' = "stored"
  /\ db' = [db EXCEPT ![NewId] = Unwritten]
  /\ UNCHANGED <<cache, fetch, panel, edits, removal>>

\* onError: refused.  That a record stored is answered too late is left out.
CreateFails ==
  /\ creation = "sent"
  /\ creation' = "none"
  /\ UNCHANGED <<db, cache, fetch, panel, edits, removal>>

\* onSuccess: replaceActiveEntityId names the new record in the entry that is
\* active now, if there is one.
CreateSucceeds ==
  /\ creation = "stored"
  /\ creation' = "settled"
  /\ panel' = IF panel = NoId THEN NoId ELSE NewId
  /\ cache' = Invalidated(cache, {"list"})
  /\ fetch' \in IF panel = NoId THEN {Refetched(cache, {"list"})}
                ELSE Mounted(Refetched(cache, {"list"}), NewId)
  /\ UNCHANGED <<db, edits, removal>>

Delete(id) ==
  /\ panel = id /\ cache[id].data # NoData /\ removal.phase = "none"
  /\ Changes < MaxChanges
  /\ removal' = [id |-> id, phase |-> "sent"]
  /\ UNCHANGED <<db, cache, fetch, panel, edits, creation>>

Deleted ==
  /\ removal.phase = "sent"
  /\ removal' = [removal EXCEPT !.phase = "gone"]
  /\ db' = [db EXCEPT ![removal.id] = Absent]
  /\ UNCHANGED <<cache, fetch, panel, edits, creation>>

\* The server refuses, as it does for a record already gone.
DeleteFails ==
  /\ removal.phase = "sent"
  /\ removal' = [id |-> NoId, phase |-> "none"]
  /\ UNCHANGED <<db, cache, fetch, panel, edits, creation>>

\* The list is fetched again; the panel and its query stay.
DeleteSucceeds ==
  /\ removal.phase = "gone"
  /\ removal' = [removal EXCEPT !.phase = "settled"]
  /\ cache' = Invalidated(cache, {"list"})
  /\ fetch' = Refetched(cache, {"list"})
  /\ UNCHANGED <<db, panel, edits, creation>>

-----------------------------------------------------------------------------
Init ==
  /\ db = [id \in Ids |-> IF id = NewId THEN Absent ELSE Unwritten]
  /\ cache = [k \in Keys |->
       [data |-> IF k = "list" THEN db ELSE NoData, state |-> "fresh", late |-> FALSE]]
  /\ fetch = [k \in Keys |-> Idle]
  /\ panel = NoId
  /\ edits = <<>>
  /\ creation = "none"
  /\ removal = [id |-> NoId, phase |-> "none"]

User ==
  \/ \E id \in Ids : OpenRecord(id) \/ Delete(id)
  \/ \E id \in Ids, f \in Fields : Edit(id, f)
  \/ OpenForm \/ Close \/ Create

Settle(e) == EditSucceeds(e) \/ EditFails(e)

Server ==
  \/ \E k \in Keys : ServerReads(k)
  \/ \E e \in DOMAIN edits : Applied(e) \/ Overdue(e)
  \/ Created \/ Deleted

Browser ==
  \/ \E k \in Keys : Refetch(k) \/ Fetched(k) \/ FetchFails(k)
  \/ \E e \in DOMAIN edits : Settle(e)
  \/ CreateSucceeds \/ CreateFails \/ DeleteSucceeds \/ DeleteFails

Next == User \/ Server \/ Browser

Spec == Init /\ [][Next]_vars

\* The server handles what it is sent, and the browser hands over what arrives or
\* gives up after API_TIMEOUT_MS.  Nothing is assumed of the user or of refetches.
Fairness ==
  /\ \A k \in Keys : WF_vars(ServerReads(k)) /\ WF_vars(Fetched(k))
  /\ \A e \in Edits : WF_vars(e \in DOMAIN edits /\ Settle(e))

FairSpec == Spec /\ Fairness

-----------------------------------------------------------------------------
(* Properties.                                                             *)

TypeOK ==
  /\ db \in [Ids -> Record \cup {Absent}]
  /\ \A k \in Keys :
       /\ cache[k] \in Entry /\ fetch[k] \in {Idle} \cup Request
       /\ k \in Ids => cache[k].data \in {NoData} \cup Record
  /\ panel \in Ids \cup {NoId, NewForm}
  /\ Len(edits) <= MaxChanges
  /\ \A e \in DOMAIN edits :
       /\ edits[e].id \in Ids \cup {NoId} /\ edits[e].field \in Fields
       /\ edits[e].phase \in {"sent", "applied", "overdue", "settled"}
  /\ creation \in {"none", "sent", "stored", "settled"}
  /\ removal.phase \in {"none", "sent", "gone", "settled"}

\* No request of the page is on its way or being answered.
Quiet ==
  /\ \A e \in DOMAIN edits : edits[e].phase = "settled"
  /\ creation \in {"none", "settled"} /\ removal.phase \in {"none", "settled"}

\* What the page shows of a query, without being about to fetch it again.
Trusted(k) ==
  cache[k].data # NoData /\ cache[k].state = "fresh" /\ fetch[k] = Idle

\* use-record-inline-edit.ts "rolls back on failure, and invalidates the list on
\* settle": when every edit, creation and deletion is over, a list or a record the
\* cache holds for fresh is what the server stores, whatever overlapped, failed or
\* was rolled back.  Excepted are a record that was deleted, and data asked for
\* before an invalidation that did not repeat the request.
FreshIsStored ==
  Quiet => \A k \in Keys :
    Trusted(k) /\ ~cache[k].late /\ Answer(k) # Absent => cache[k].data = Answer(k)

\* The query of key k shows the value written by edit e.
Shows(k, id, f, e) ==
  LET data == cache[k].data
      rec  == IF data = NoData THEN NoData ELSE IF k = "list" THEN data[id] ELSE data
  IN  rec \notin {NoData, Absent} /\ rec[f] = e

\* "Cancel outgoing refetches so they don't overwrite our optimistic update": an
\* optimistic value disappears only when an edit settles, another is made or a
\* fetch is answered that started after it.
OptimisticKept ==
  [][\A e \in DOMAIN edits, id \in Ids, f \in Fields : \A k \in {"list", id} :
       /\ Pending(e) /\ edits[e].id = id /\ edits[e].field = f
       /\ Shows(k, id, f, e) /\ ~Shows(k, id, f, e)'
       => \/ \E d \in DOMAIN edits : Pending(d) /\ ~Pending(d)'
          \/ Len(edits') > Len(edits)
          \/ fetch[k] # Idle /\ e <= fetch[k].since]_vars

\* In the end the list page shows what the server stores, unless it could not
\* fetch it or gave up an edit that was applied later.
ListCatchesUp ==
  <>[](Quiet => \/ cache["list"].data = db
                \/ cache["list"].state = "error" \/ cache["list"].late)

=============================================================================
