----------------------------- MODULE SdkSession -----------------------------
(***************************************************************************)
(* The SDK connections to one terminal (crates/timekeep-zkteco/src/sdk/     *)
(* connection.rs) and the two tasks that pull punches over them: the poll   *)
(* loop and the handlers, on the connection that is kept since startup, and *)
(* the background poller (crates/timekeep-zkteco/src/lib.rs), on one of its *)
(* own per poll.                                                            *)
(*                                                                          *)
(* An answer is whatever packet comes next: reply ids are not compared.     *)
(* After a read that timed out, or a live event nobody asked for, every     *)
(* later answer on that connection belongs to an earlier request.           *)
(***************************************************************************)
EXTENDS Integers, Sequences

CONSTANTS
  Held,         \* records of the datasets other than the attendance log
  Width,        \* bytes of a record of each dataset
  SmallSet,     \* records the terminal sends in one packet
  ChunkSize,    \* records that fit a chunk of MAX_CHUNK bytes
  Others,       \* the shared connection's operations that read no dataset
  Stored,       \* punches in the terminal's log when the process starts
  MaxPunches,   \* bound: punches in the log
  MaxLate,      \* bound: reads that time out
  MaxShift,     \* bound: packets to come when an operation starts
  MaxGoal       \* bound: records a packet that is no answer to PREPARE_BUFFER announces

Attendance == "attendance"
Datasets   == {Attendance} \cup DOMAIN Held
Conns      == {"shared", "poller"}

Records(set, n) == IF set = Attendance THEN n ELSE Held[set]

\* bytes / count, by which a reader recognises its records.
RecordSize(set, n, by) == (Width[set] * Records(set, n)) \div by

ASSUME SdkAssumption ==
  /\ Attendance \notin DOMAIN Held
  /\ \A set \in DOMAIN Held : Held[set] \in Nat
  /\ Others \subseteq {"command", "option"}
  /\ SmallSet \in Nat /\ ChunkSize \in Nat \ {0}
  /\ MaxPunches \in Nat /\ Stored \in 0..MaxPunches
  /\ MaxLate \in Nat /\ MaxShift \in Nat /\ MaxGoal \in Nat

VARIABLES
  count,        \* punches in the terminal's attendance log
  disabled,     \* the terminal is locked by CMD_DISABLE_DEVICE
  buffer,       \* buffer[c]: what the terminal prepared for the connection
  line,         \* line[c]: packets the terminal sent and nobody has read
  call,         \* call[c]: the operation that runs on the connection
  published,    \* the newest punch published on the event bus
  late          \* reads that timed out

vars == <<count, disabled, buffer, line, call, published, late>>
-----------------------------------------------------------------------------
(* Packets: the reply code, what the data is, and for records whose and     *)
(* which; n is the length of the attendance log when they were prepared.    *)

Packet(code, body, set, n, from, to) ==
  [code |-> code, body |-> body, set |-> set, n |-> n, from |-> from, to |-> to]

Plain(code, body) == Packet(code, body, Attendance, 0, 0, 0)

NoPacket == Plain("none", "none")
Ack      == Plain("ok", "none")
Refusal  == Plain("error", "none")
Event    == Plain("event", "none")
Text     == Plain("ok", "text")
Sizes(n) == Packet("ok", "sizes", Attendance, n, 0, 0)

Total(set, n) == Packet("ok", "total", set, n, 0, 0)
Whole(set, n) == Packet("data", "whole", set, n, 1, Records(set, n))
Chunk(b, from, to)   == Packet("data", "chunk", b.set, b.n, from, to)
Announce(b, from)    == Packet("prepare", "chunk", b.set, b.n, from, from - 1)

NoBuffer == [set |-> "none", n |-> 0]

\* The operation's place in connection.rs: the answer it waits for, and its
\* local variables.
Call(at, set) ==
  [at |-> at, set |-> set, got |-> NoPacket, sizes |-> 0, goal |-> 0, next |-> 1, parts |-> <<>>]

Idle == Call("idle", Attendance)

Commands == {"disable", "enable", "free", "command"}
Options  == {"platform", "option"}

Init ==
  /\ count = Stored
  /\ disabled = FALSE
  /\ buffer = [c \in Conns |-> NoBuffer]
  /\ line = [c \in Conns |-> <<>>]
  /\ call = [c \in Conns |-> Idle]
  /\ published = 0
  /\ late = 0
-----------------------------------------------------------------------------
(* Requests.  The terminal serves each as it is sent; what may be late is   *)
(* its answer, which queues behind the packets nobody has read yet.         *)

AtMost(a, b) == IF a <= b THEN a ELSE b

\* The last record of the chunk the operation asks for.
ChunkEnd(k) == AtMost(k.next + ChunkSize - 1, k.goal)

\* What the terminal makes of it: one packet or two, and not more than it has.
Chunks(k, b) ==
  LET chunk == Chunk(b, k.next, AtMost(ChunkEnd(k), Records(b.set, b.n))) IN
  IF b # NoBuffer /\ k.next <= Records(b.set, b.n)
  THEN {<<chunk>>, <<Announce(b, k.next), chunk>>}
  ELSE {<<Refusal>>}

\* A dataset that fits comes at once.
Prepared(set) ==
  IF Records(set, count) <= SmallSet THEN Whole(set, count) ELSE Total(set, count)

Answers(c, k) ==
  CASE k.at \in Commands  -> {<<Ack>>}
    [] k.at \in Options   -> {<<Text>>}
    [] k.at = "sizes"     -> {<<Sizes(count)>>}
    [] k.at = "prepare"   -> {<<Prepared(k.set)>>}
    [] k.at = "chunk"     -> Chunks(k, buffer[c])

\* send_and_receive, up to the wait for the answer.
Request(c, k, rest) ==
  /\ call' = [call EXCEPT ![c] = k]
  /\ \E packets \in Answers(c, k) : line' = [line EXCEPT ![c] = rest \o packets]
  /\ disabled' = (k.at = "disable" \/ (disabled /\ k.at # "enable"))
  /\ buffer' = [buffer EXCEPT ![c] =
                  CASE k.at = "prepare" -> [set |-> k.set, n |-> count]
                    [] k.at = "free"    -> NoBuffer
                    [] OTHER            -> @]
  /\ UNCHANGED <<count, published>>

\* Mutant: the poller keeps one connection and reads on in its stream.
EndKeeps(c, rest) ==
  /\ call' = [call EXCEPT ![c] = Idle]
  /\ line' = [line EXCEPT ![c] = rest]
  /\ UNCHANGED <<count, disabled, buffer>>

\* An operation ends and leaves the kept connection as it is, with the packets
\* still to come on it.  The poller drops its connection.
End(c, rest) ==
  /\ call' = [call EXCEPT ![c] = Idle]
  /\ line' = [line EXCEPT ![c] = IF c = "poller" THEN <<>> ELSE rest]
  /\ buffer' = [buffer EXCEPT ![c] = IF c = "poller" THEN NoBuffer ELSE @]
  /\ UNCHANGED <<count, disabled>>
-----------------------------------------------------------------------------
(* Answers: receive_packet takes the next packet of the stream.             *)

Accepted == {"ok", "data"}

Reading(c, steps) == call[c].at \in steps /\ line[c] # <<>> /\ UNCHANGED late

Answer(c)  == Head(line[c])
Unread(c)  == Tail(line[c])

Go(c, k)   == Request(c, k, Unread(c))
Fail(c)    == End(c, Unread(c)) /\ UNCHANGED published

Return(c, k) ==
  /\ call' = [call EXCEPT ![c] = [k EXCEPT !.at = "returned"]]
  /\ line' = [line EXCEPT ![c] = Unread(c)]
  /\ UNCHANGED <<count, disabled, buffer, published>>

\* The next step, without the answer or with it.
At(c, at)  == Call(at, call[c].set)
Got(c, at) == [call[c] EXCEPT !.at = at, !.got = Answer(c)]

\* send_command: set_time, enable_realtime and the like are any number of them.
TakeCommand(c) ==
  /\ Reading(c, {"disable", "command"})
  /\ \/ /\ Answer(c).code \in Accepted
        /\ Go(c, At(c, IF call[c].at = "disable" THEN "sizes" ELSE "command"))
     \/ /\ Answer(c).code \notin Accepted \/ call[c].at = "command"
        /\ Fail(c)

\* get_string_param, of which get_device_info makes several and connect one:
\* an error or a strange answer is an empty or a strange value.
AfterOption(c, rest) ==
  \/ Request(c, At(c, IF call[c].at = "platform" THEN "disable" ELSE "option"), rest)
  \/ call[c].at = "option" /\ End(c, rest) /\ UNCHANGED published

TakeOption(c) == Reading(c, Options) /\ AfterOption(c, Unread(c))

TakeSizes(c) == Reading(c, {"sizes"}) /\ Go(c, Got(c, "enable"))

\* read_sizes looks at its own answer only after CMD_ENABLE_DEVICE.
TakeEnable(c) ==
  LET reply == call[c].got
      n     == Records(call[c].set, reply.n)
  IN
  /\ Reading(c, {"enable"})
  /\ \/ /\ Answer(c).code \in Accepted /\ reply.body = "sizes"
        /\ \/ n = 0 /\ Return(c, Idle)
           \/ n > 0 /\ Go(c, [Got(c, "prepare") EXCEPT !.sizes = n])
     \/ /\ Answer(c).code \notin Accepted \/ reply.body # "sizes"
        /\ Fail(c)

\* Data that starts in the middle of a dataset has no header to go by.
HasHeader(parts) == parts # <<>> /\ parts[1].from = 1

\* Mutant: whatever was read is cut into records.
SizeUnchecked(k, part) == TRUE

\* The size in the header, by the count of read_sizes, is the size of a record.
SizeFits(k, part) == RecordSize(part.set, part.n, k.sizes) = Width[k.set]

Finish(c, parts) ==
  \/ /\ HasHeader(parts) => SizeFits(call[c], parts[1])
     /\ parts # <<>>
     /\ Return(c, [Call("returned", call[c].set) EXCEPT !.parts = parts, !.sizes = call[c].sizes])
  \/ /\ HasHeader(parts) => ~SizeFits(call[c], parts[1])
     /\ Fail(c)

TakePrepare(c) ==
  LET p == Answer(c) IN
  /\ Reading(c, {"prepare"})
  /\ \/ p.code = "data" /\ Finish(c, <<p>>)
     \/ /\ p.code = "ok" /\ p.body # "none"
        /\ \E goal \in IF p.body = "total" THEN {Records(p.set, p.n)} ELSE 0..MaxGoal :
             Go(c, [Got(c, IF goal = 0 THEN "free" ELSE "chunk") EXCEPT !.goal = goal])
     \/ /\ p.code \notin Accepted \/ (p.code = "ok" /\ p.body = "none")
        /\ Fail(c)

\* read_chunk and the loop of read_with_buffer.
TakeChunk(c) ==
  LET p == Answer(c)
      k == call[c]
  IN
  /\ Reading(c, {"chunk", "rest"})
  /\ \/ /\ p.code = "data"
        /\ \/ /\ ChunkEnd(k) < k.goal
              /\ Go(c, [Got(c, "chunk") EXCEPT !.next = ChunkEnd(k) + 1, !.parts = Append(@, p)])
           \/ /\ ChunkEnd(k) >= k.goal
              /\ Go(c, [Call("free", k.set) EXCEPT !.sizes = k.sizes, !.parts = Append(k.parts, p)])
     \/ /\ p.code = "prepare" /\ k.at = "chunk"
        /\ call' = [call EXCEPT ![c] = Got(c, "rest")]
        /\ line' = [line EXCEPT ![c] = Unread(c)]
        /\ UNCHANGED <<count, disabled, buffer, published>>
     \/ /\ p.code # "data" /\ ~(p.code = "prepare" /\ k.at = "chunk")
        /\ Fail(c)

TakeFree(c) ==
  /\ Reading(c, {"free"})
  /\ \/ Answer(c).code \in Accepted /\ Finish(c, call[c].parts)
     \/ Answer(c).code \notin Accepted /\ Fail(c)

\* IO_TIMEOUT: the read gives up, the answer is still to come.
Timeout(c) ==
  /\ call[c].at \notin {"idle", "returned"}
  /\ late < MaxLate
  /\ late' = late + 1
  /\ \/ call[c].at \in Options /\ AfterOption(c, line[c])
     \/ call[c].at \notin Options /\ End(c, line[c]) /\ UNCHANGED published
-----------------------------------------------------------------------------
\* The handlers and the poll loop hold the device's lock during an operation.
BeginShared ==
  /\ call["shared"].at = "idle" /\ Len(line["shared"]) <= MaxShift
  /\ \E k \in {Call("disable", set) : set \in Datasets}
                \cup {Call(at, Attendance) : at \in Others} :
       Request("shared", k, line["shared"])
  /\ UNCHANGED late

\* The poller connects; the handshake on the fresh connection succeeds or the
\* poll is over, and detect_zk8 asks for the platform.
BeginPoll ==
  /\ call["poller"].at = "idle"
  /\ Request("poller", Call("platform", Attendance), line["poller"])
  /\ UNCHANGED late

\* The punches returned go to the event bus; so would what another dataset's
\* bytes make, which is no punch of the log.
Publish(c) ==
  LET parts == call[c].parts IN
  /\ call[c].at = "returned"
  /\ IF call[c].set = Attendance /\ parts # <<>> /\ parts[1].set = Attendance
     THEN published' = IF parts[Len(parts)].to > published THEN parts[Len(parts)].to ELSE published
     ELSE UNCHANGED published
  /\ End(c, line[c])
  /\ UNCHANGED late

\* With real-time events registered, the terminal reports a punch at once.
Punch ==
  /\ ~disabled
  /\ count < MaxPunches
  /\ count' = count + 1
  /\ \/ line' = [line EXCEPT !["shared"] = Append(@, Event)]
     \/ UNCHANGED line
  /\ UNCHANGED <<disabled, buffer, call, published, late>>

Work(c) ==
  \/ TakeCommand(c) \/ TakeOption(c) \/ TakeSizes(c) \/ TakeEnable(c)
  \/ TakePrepare(c) \/ TakeChunk(c) \/ TakeFree(c) \/ Publish(c)

Next == Punch \/ BeginShared \/ BeginPoll \/ \E c \in Conns : Work(c) \/ Timeout(c)

Spec == Init /\ [][Next]_vars

\* The terminal answers, the runtime runs a task whose packet is there, the
\* poller's interval elapses, and who finds the terminal locked tries again.
Fairness ==
  /\ WF_vars(BeginPoll)
  /\ \A c \in Conns : WF_vars(Work(c))
  /\ SF_vars(Punch)

FairSpec == Spec /\ Fairness
-----------------------------------------------------------------------------
(* Properties.                                                             *)

\* The records of one dataset from the first on, without a gap.
InOrder(parts) ==
  /\ parts[1].from = 1
  /\ \A i \in 1..Len(parts) : parts[i].set = parts[1].set /\ parts[i].n <= count
  /\ \A i \in 1..(Len(parts) - 1) : parts[i + 1].from = parts[i].to + 1

\* The datasets whose bytes happen to be those of so many punches, the division
\* rounding down: 5 operation logs of 16 bytes for 2 punches, 5 users of 72 for 9.
\* Nothing in get_attendance tells them from punches.
Lookalikes(n) == {set \in DOMAIN Held : RecordSize(set, 0, n) = Width[Attendance]}

\* However many answers late reads and live events have shifted a connection
\* by, what get_attendance returns are punches of this terminal, in order: never
\* users or operation logs read in their place, unless their bytes divided by
\* the count of punches just read come to 40, and never chunks of two answers
\* put together (read_sizes, read_with_buffer and read_chunk accept a packet by
\* its code and length alone).
RecordsAreRecords ==
  \A c \in Conns :
    LET parts == call[c].parts IN
    call[c].at = "returned" /\ call[c].set = Attendance /\ parts # <<>>
      => /\ InOrder(parts)
         /\ parts[1].set \in {Attendance} \cup Lookalikes(call[c].sizes)

\* Reads time out, live events shift the kept connection for good, and a poll
\* that gives up after CMD_DISABLE_DEVICE leaves the terminal locked: every
\* punch still gets in and reaches the event bus, by the background poller's
\* fresh connections.
PunchesGetIn == <>(published >= MaxPunches)

=============================================================================
