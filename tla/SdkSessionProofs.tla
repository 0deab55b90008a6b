-------------------------- MODULE SdkSessionProofs --------------------------
(***************************************************************************)
(* RecordsAreRecords, for any datasets, sizes and bounds: by an invariant   *)
(* on the order of the packets a connection still has to read.              *)
(***************************************************************************)
EXTENDS SdkSession, TLAPS

-----------------------------------------------------------------------------
(* Types.  n is the length of the attendance log.                          *)

Codes  == {"none", "ok", "data", "prepare", "event", "error"}
Bodies == {"none", "text", "sizes", "total", "whole", "chunk"}
Steps  == Commands \cup Options
            \cup {"idle", "sizes", "prepare", "chunk", "rest", "returned"}

\* What the code of a packet says of its data.
WellFormed(p) ==
  /\ p.code = "data" => p.body \in {"whole", "chunk"}
  /\ p.code = "prepare" => p.body = "chunk" /\ p.to = p.from - 1
  /\ p.body = "whole" => p.code = "data" /\ p.from = 1
  /\ p.body = "chunk" => p.code \in {"data", "prepare"} /\ p.from > 0
  /\ p.body = "total" => p.code = "ok" /\ p.to = 0
  /\ p.body \in {"text", "sizes"} => p.code = "ok"

Packets(n) ==
  {p \in [code : Codes, body : Bodies, set : Datasets, n : 0..n, from : Nat, to : Nat] :
     WellFormed(p)}

Buffers(n) == {NoBuffer} \cup [set : Datasets, n : 0..n]

Calls(n) ==
  [at : Steps, set : Datasets, got : Packets(n), sizes : Nat, goal : Nat,
   next : Nat \ {0}, parts : Seq(Packets(n))]

-----------------------------------------------------------------------------
(* The order of a connection's packets.                                    *)

\* After these packets an operation is over, or nothing it has read.
Wild(p) == p.code \in {"none", "event", "error"} \/ p.body = "whole"

Continues(p, q) ==
  /\ p.body \in {"total", "chunk"}
  /\ q.set = p.set /\ q.n = p.n
  /\ q.from = p.to + 1

\* q may come next after p: chunks follow the total or the chunk before them, a
\* dataset the answer to CMD_ENABLE_DEVICE.
Follows(p, q) ==
  /\ q.body = "chunk" => Wild(p) \/ Continues(p, q)
  /\ q.body \in {"whole", "total"} => Wild(p) \/ p.body = "none"

\* g was read last, l is still to come.
Linked(g, l) ==
  /\ l # <<>> => Follows(g, l[1])
  /\ \A i \in 1..(Len(l) - 1) : Follows(l[i], l[i + 1])

Newest(g, l) == IF l = <<>> THEN g ELSE l[Len(l)]

\* What the newest packet is, by the request it answers.
Ready(k, p, b) ==
  /\ k.at = "enable" => Wild(p) \/ p.body = "none"
  /\ k.at = "prepare" =>
       Wild(p) \/ (p.body = "total" /\ p.set = b.set /\ p.n = b.n)
  /\ k.at \in {"chunk", "rest"} =>
       \/ Wild(p)
       \/ /\ p.body = "chunk" /\ p.set = b.set /\ p.n = b.n
          /\ p.to = AtMost(ChunkEnd(k), Records(b.set, b.n))

\* Chunks of one dataset from its first record on.
Contiguous(parts) ==
  /\ \A i \in 1..Len(parts) : parts[i].body \in {"whole", "chunk"}
  /\ parts # <<>> => parts[1].from = 1
  /\ \A i \in 1..Len(parts) : parts[i].set = parts[1].set
  /\ \A i \in 1..(Len(parts) - 1) : parts[i + 1].from = parts[i].to + 1

\* A dataset the size of a record lets through for so many punches.
Passes(set, n) == set \in {Attendance} \cup Lookalikes(n)

\* What an operation has read so far.
Holding(k) ==
  /\ k.at \in {"prepare", "chunk", "rest", "free"} =>
       k.sizes > 0
  /\ k.at \in {"sizes", "enable", "prepare"} => k.next = 1 /\ k.parts = <<>>
  /\ k.at = "prepare" => ~Wild(k.got) /\ k.got.body \in {"none", "text", "sizes"}
  /\ k.at \in {"chunk", "rest", "free"} => Contiguous(k.parts)
  /\ k.at = "chunk" =>
       IF k.parts = <<>>
       THEN ~Wild(k.got) /\ k.got.body \in {"text", "sizes", "total"}
       ELSE k.got = k.parts[Len(k.parts)] /\ k.got.body = "chunk"
  /\ k.at = "rest" =>
       /\ k.got.body = "chunk" /\ k.got.code = "prepare"
       /\ IF k.parts = <<>>
          THEN k.got.from = 1
          ELSE /\ k.got.from = k.parts[Len(k.parts)].to + 1
               /\ k.got.set = k.parts[1].set
  /\ k.at = "returned" /\ k.set = Attendance /\ k.parts # <<>> =>
       Contiguous(k.parts) /\ Passes(k.parts[1].set, k.sizes)

Good(k, l, b, n) ==
  /\ k \in Calls(n) /\ l \in Seq(Packets(n)) /\ b \in Buffers(n)
  /\ Linked(k.got, l)
  /\ Ready(k, Newest(k.got, l), b)
  /\ Holding(k)

\* Typed and strengthened: every connection's packets are in order.
Inv ==
  /\ count \in 0..MaxPunches
  /\ call \in [Conns -> Calls(count)]
  /\ line \in [Conns -> Seq(Packets(count))]
  /\ buffer \in [Conns -> Buffers(count)]
  /\ \A c \in Conns : Good(call[c], line[c], buffer[c], count)
-----------------------------------------------------------------------------
(* Sequences of packets.                                                   *)

\* Without its first packet a line stays in order, after that packet or after nothing.
LEMMA TailLinked ==
  ASSUME NEW S, NEW l \in Seq(S), l # <<>>, NEW g, Linked(g, l),
         NEW h, h = l[1] \/ Wild(h)
  PROVE  Linked(h, Tail(l))
<1>1. Tail(l) \in Seq(S) /\ Len(Tail(l)) = Len(l) - 1
  OBVIOUS
<1>2. \A i \in 1..Len(Tail(l)) : Tail(l)[i] = l[i + 1]
  OBVIOUS
<1>3. \A i \in 1..(Len(Tail(l)) - 1) : Follows(Tail(l)[i], Tail(l)[i + 1])
  BY <1>1, <1>2 DEF Linked
<1>4. ASSUME Tail(l) # <<>> PROVE Follows(h, Tail(l)[1])
  <2>1. Len(l) > 1 /\ Tail(l)[1] = l[2]
    BY <1>1, <1>2, <1>4
  <2>2. Follows(l[1], l[2])
    BY <2>1 DEF Linked
  <2> QED BY <2>1, <2>2 DEF Follows
<1> QED BY <1>3, <1>4 DEF Linked

\* Reading a packet does not change which one is the newest.
LEMMA TailNewest ==
  ASSUME NEW S, NEW l \in Seq(S), l # <<>>, NEW g
  PROVE  Newest(l[1], Tail(l)) = Newest(g, l)
<1>1. Tail(l) \in Seq(S) /\ Len(Tail(l)) = Len(l) - 1
  OBVIOUS
<1>2. CASE Tail(l) = <<>>
  <2>1. Len(l) = 1
    BY <1>1, <1>2
  <2> QED BY <1>2, <2>1 DEF Newest
<1>3. CASE Tail(l) # <<>>
  <2>1. Len(Tail(l)) > 0 /\ Tail(l)[Len(Tail(l))] = l[Len(Tail(l)) + 1]
    BY <1>1, <1>3
  <2> QED BY <1>1, <1>3, <2>1 DEF Newest
<1> QED BY <1>2, <1>3

\* A packet that may follow the newest one may be added.
LEMMA AppendLinked ==
  ASSUME NEW S, NEW l \in Seq(S), NEW p \in S, NEW g, Linked(g, l), Follows(Newest(g, l), p)
  PROVE  Linked(g, Append(l, p)) /\ Newest(g, Append(l, p)) = p
<1>1. Append(l, p) \in Seq(S) /\ Len(Append(l, p)) = Len(l) + 1
  OBVIOUS
<1>2. \A i \in 1..Len(l) : Append(l, p)[i] = l[i]
  OBVIOUS
<1>3. Append(l, p)[Len(l) + 1] = p
  OBVIOUS
<1>4. Append(l, p) # <<>> /\ Newest(g, Append(l, p)) = p
  BY <1>1, <1>3 DEF Newest
<1>5. Follows(g, Append(l, p)[1])
  <2>1. CASE l = <<>>
    BY <1>3, <2>1 DEF Newest
  <2>2. CASE l # <<>>
    BY <1>2, <2>2 DEF Linked
  <2> QED BY <2>1, <2>2
<1>6. ASSUME NEW i \in 1..Len(l) PROVE Follows(Append(l, p)[i], Append(l, p)[i + 1])
  <2>1. CASE i < Len(l)
    BY <1>2, <2>1 DEF Linked
  <2>2. CASE i = Len(l)
    BY <1>2, <1>3, <2>2 DEF Newest
  <2> QED BY <2>1, <2>2
<1> QED BY <1>1, <1>4, <1>5, <1>6 DEF Linked

\* An answer of one packet.
LEMMA AppendOne ==
  ASSUME NEW S, NEW l \in Seq(S), NEW p \in S
  PROVE  l \o <<p>> = Append(l, p)
OBVIOUS

\* An answer of an announcement and the data.
LEMMA AppendTwo ==
  ASSUME NEW S, NEW l \in Seq(S), NEW p \in S, NEW q \in S
  PROVE  l \o <<p, q>> = Append(Append(l, p), q)
OBVIOUS
-----------------------------------------------------------------------------
(* Packets and calls.                                                      *)

\* Datasets have a length.
LEMMA RecordsNat ==
  ASSUME NEW set \in Datasets, NEW n \in Nat
  PROVE  Records(set, n) \in Nat
BY SdkAssumption DEF Records, Datasets

\* The packets without records.
LEMMA PlainTyped ==
  ASSUME NEW n \in Nat
  PROVE  /\ NoPacket \in Packets(n) /\ Ack \in Packets(n) /\ Refusal \in Packets(n)
         /\ Event \in Packets(n) /\ Text \in Packets(n) /\ Sizes(n) \in Packets(n)
BY DEF NoPacket, Ack, Refusal, Event, Text, Sizes, Plain, Packet, Packets, WellFormed,
       Codes, Bodies, Datasets

\* The answers to CMD_PREPARE_BUFFER.
LEMMA PreparedTyped ==
  ASSUME NEW n \in Nat, NEW set \in Datasets
  PROVE  Total(set, n) \in Packets(n) /\ Whole(set, n) \in Packets(n)
<1>1. Records(set, n) \in Nat
  BY RecordsNat
<1> QED BY <1>1 DEF Total, Whole, Packet, Packets, WellFormed, Codes, Bodies

\* The answers to CMD_READ_BUFFER.
LEMMA ChunkTyped ==
  ASSUME NEW n \in Nat, NEW b \in [set : Datasets, n : 0..n],
         NEW from \in Nat \ {0}, NEW to \in Nat
  PROVE  Chunk(b, from, to) \in Packets(n) /\ Announce(b, from) \in Packets(n)
BY DEF Chunk, Announce, Packet, Packets, WellFormed, Codes, Bodies

\* What is well typed stays so when the attendance log grows.
LEMMA Grows ==
  ASSUME NEW n \in Nat, NEW m \in Nat, n <= m
  PROVE  /\ Packets(n) \subseteq Packets(m)
         /\ Buffers(n) \subseteq Buffers(m)
         /\ Seq(Packets(n)) \subseteq Seq(Packets(m))
         /\ Calls(n) \subseteq Calls(m)
<1>1. 0..n \subseteq 0..m
  OBVIOUS
<1>2. Packets(n) \subseteq Packets(m)
  BY <1>1 DEF Packets
<1>3. Seq(Packets(n)) \subseteq Seq(Packets(m))
  BY <1>2
<1>4. Buffers(n) \subseteq Buffers(m)
  BY <1>1 DEF Buffers
<1>5. Calls(n) \subseteq Calls(m)
  BY <1>2, <1>3 DEF Calls
<1> QED BY <1>2, <1>3, <1>4, <1>5

\* An operation without what it has read.
LEMMA CallTyped ==
  ASSUME NEW n \in Nat, NEW at \in Steps, NEW set \in Datasets
  PROVE  Call(at, set) \in Calls(n)
<1>1. <<>> \in Seq(Packets(n))
  OBVIOUS
<1> QED BY <1>1, PlainTyped DEF Call, Calls

\* An operation that has read nothing yet expects anything.
LEMMA NoPacketWild == Wild(NoPacket)
BY DEF Wild, NoPacket, Plain, Packet

\* Who has read nothing finds every line in order.
LEMMA WildLinks ==
  ASSUME NEW S, NEW l \in Seq(S), NEW g, Linked(g, l), NEW h, Wild(h)
  PROVE  Linked(h, l)
BY DEF Linked, Follows

\* The end of a chunk is a record.
LEMMA ChunkEndNat ==
  ASSUME NEW n \in Nat, NEW k \in Calls(n)
  PROVE  ChunkEnd(k) \in Nat
<1>1. k.next \in Nat \ {0} /\ k.goal \in Nat /\ ChunkSize \in Nat
  BY SdkAssumption DEF Calls
<1> QED BY <1>1 DEF ChunkEnd, AtMost
-----------------------------------------------------------------------------
(* A request, and the answer the terminal adds to the connection.          *)

Asking == Commands \cup Options \cup {"sizes", "prepare", "chunk"}

\* What the newest packet has to be when the request is made.
Entry(k, p, b) ==
  /\ k.at = "prepare" => Wild(p) \/ p.body = "none"
  /\ k.at = "chunk" =>
       \/ Wild(p)
       \/ /\ p.body \in {"total", "chunk"} /\ p.set = b.set /\ p.n = b.n
          /\ k.next <= Records(b.set, b.n) => p.to = k.next - 1

Served(k, b) ==
  CASE k.at = "prepare" -> [set |-> k.set, n |-> count]
    [] k.at = "free"    -> NoBuffer
    [] OTHER            -> b

\* One packet the newest one allows, and that the operation is ready for, keeps the connection in order.
LEMMA OneAnswer ==
  ASSUME count \in Nat, NEW k \in Calls(count), NEW rest \in Seq(Packets(count)),
         NEW b \in Buffers(count), NEW p \in Packets(count),
         Linked(k.got, rest), Holding(k), Follows(Newest(k.got, rest), p), Ready(k, p, b)
  PROVE  Good(k, rest \o <<p>>, b, count)
<1>1. rest \o <<p>> = Append(rest, p)
  BY AppendOne
<1>2. Linked(k.got, Append(rest, p)) /\ Newest(k.got, Append(rest, p)) = p
  BY AppendLinked
<1>3. Append(rest, p) \in Seq(Packets(count))
  OBVIOUS
<1> QED BY <1>1, <1>2, <1>3 DEF Good

\* The terminal's answers to each request are such packets.
LEMMA RequestKeeps ==
  ASSUME count \in Nat, NEW c \in Conns, NEW k \in Calls(count), NEW rest \in Seq(Packets(count)),
         NEW packets \in Answers(c, k), buffer[c] \in Buffers(count), k.at \in Asking,
         Linked(k.got, rest), Holding(k), Entry(k, Newest(k.got, rest), buffer[c])
  PROVE  Good(k, rest \o packets, Served(k, buffer[c]), count)
<1> DEFINE b == buffer[c]
           g == Newest(k.got, rest)
<1>0. k.set \in Datasets
  BY DEF Calls
<1>1. CASE k.at \in Commands
  <2>1. packets = <<Ack>>
    BY <1>1 DEF Answers, Commands, Options
  <2>2. Follows(g, Ack) /\ Ack.body = "none"
    BY DEF Follows, Ack, Plain, Packet
  <2>3. Served(k, b) \in Buffers(count)
    BY <1>1 DEF Served, Commands, Buffers
  <2>4. Ready(k, Ack, Served(k, b))
    BY <1>1, <2>2 DEF Ready, Commands
  <2> QED BY <2>1, <2>2, <2>3, <2>4, PlainTyped, OneAnswer
<1>2. CASE k.at \in Options
  <2>1. packets = <<Text>>
    BY <1>2 DEF Answers, Commands, Options
  <2>2. Follows(g, Text)
    BY DEF Follows, Text, Plain, Packet
  <2>3. Served(k, b) = b /\ Ready(k, Text, b)
    BY <1>2 DEF Served, Ready, Options
  <2> QED BY <2>1, <2>2, <2>3, PlainTyped, OneAnswer
<1>3. CASE k.at = "sizes"
  <2>1. packets = <<Sizes(count)>>
    BY <1>3 DEF Answers, Commands, Options
  <2>2. Follows(g, Sizes(count))
    BY DEF Follows, Sizes, Packet
  <2>3. Served(k, b) = b /\ Ready(k, Sizes(count), b)
    BY <1>3 DEF Served, Ready
  <2> QED BY <2>1, <2>2, <2>3, PlainTyped, OneAnswer
<1>4. CASE k.at = "prepare"
  <2>1. packets = <<Prepared(k.set)>>
    BY <1>4 DEF Answers, Commands, Options
  <2>2. Prepared(k.set) \in Packets(count)
    BY <1>0, PreparedTyped DEF Prepared
  <2>3. Wild(g) \/ g.body = "none"
    BY <1>4 DEF Entry
  <2>4. Prepared(k.set).body \in {"whole", "total"}
    BY DEF Prepared, Whole, Total, Packet
  <2>5. Follows(g, Prepared(k.set))
    BY <2>3, <2>4 DEF Follows
  <2>6. Served(k, b) = [set |-> k.set, n |-> count]
    BY <1>4 DEF Served
  <2>7. Served(k, b) \in Buffers(count)
    BY <1>0, <2>6 DEF Buffers
  <2>8. Ready(k, Prepared(k.set), Served(k, b))
    BY <1>4, <2>6 DEF Ready, Prepared, Whole, Total, Packet, Wild
  <2> QED BY <2>1, <2>2, <2>5, <2>7, <2>8, OneAnswer
<1>5. CASE k.at = "chunk"
  <2>0. Served(k, b) = b /\ Answers(c, k) = Chunks(k, b)
    BY <1>5 DEF Served, Answers, Commands, Options
  <2>1. CASE ~(b # NoBuffer /\ k.next <= Records(b.set, b.n))
    <3>1. packets = <<Refusal>>
      BY <2>0, <2>1 DEF Chunks
    <3>2. Follows(g, Refusal) /\ Wild(Refusal)
      BY DEF Follows, Wild, Refusal, Plain, Packet
    <3>3. Ready(k, Refusal, b)
      BY <1>5, <3>2 DEF Ready
    <3> QED BY <2>0, <3>1, <3>2, <3>3, PlainTyped, OneAnswer
  <2>2. CASE b # NoBuffer /\ k.next <= Records(b.set, b.n)
    <3> DEFINE to == AtMost(ChunkEnd(k), Records(b.set, b.n))
               p  == Chunk(b, k.next, to)
               a  == Announce(b, k.next)
    <3>1. packets = <<p>> \/ packets = <<a, p>>
      BY <2>0, <2>2 DEF Chunks
    <3>2. b \in [set : Datasets, n : 0..count]
      BY <2>2 DEF Buffers
    <3>3. k.next \in Nat \ {0} /\ to \in Nat
      <4>1. b.set \in Datasets /\ b.n \in Nat
        BY <3>2
      <4>2. Records(b.set, b.n) \in Nat /\ ChunkEnd(k) \in Nat
        BY <4>1, RecordsNat, ChunkEndNat
      <4> QED BY <4>2 DEF AtMost, Calls
    <3>4. p \in Packets(count) /\ a \in Packets(count)
      BY <3>2, <3>3, ChunkTyped
    <3>5. Wild(g) \/ (/\ g.body \in {"total", "chunk"} /\ g.set = b.set /\ g.n = b.n
                      /\ g.to = k.next - 1)
      BY <1>5, <2>2 DEF Entry
    <3>6. /\ p.body = "chunk" /\ p.set = b.set /\ p.n = b.n /\ p.from = k.next /\ p.to = to
          /\ a.body = "chunk" /\ a.set = b.set /\ a.n = b.n /\ a.from = k.next /\ a.to = k.next - 1
      BY DEF Chunk, Announce, Packet
    <3>7. Follows(g, p) /\ Follows(g, a) /\ Follows(a, p)
      <4>1. g.to = k.next - 1 => k.next = g.to + 1
        BY <3>3
      <4>2. k.next = (k.next - 1) + 1
        BY <3>3
      <4> QED BY <3>5, <3>6, <4>1, <4>2 DEF Follows, Continues
    <3>8. Ready(k, p, b)
      BY <1>5, <3>6 DEF Ready
    <3>9. CASE packets = <<p>>
      BY <2>0, <3>4, <3>7, <3>8, <3>9, OneAnswer
    <3>10. CASE packets = <<a, p>>
      <4>1. /\ Linked(k.got, Append(rest, a)) /\ Newest(k.got, Append(rest, a)) = a
            /\ Append(rest, a) \in Seq(Packets(count))
        BY <3>4, <3>7, AppendLinked
      <4>2. rest \o <<a, p>> = Append(rest, a) \o <<p>>
        BY <3>4, <4>1, AppendOne, AppendTwo
      <4>3. Good(k, Append(rest, a) \o <<p>>, b, count)
        BY <3>4, <3>7, <3>8, <4>1, OneAnswer
      <4> QED BY <2>0, <3>10, <4>2, <4>3
    <3> QED BY <3>1, <3>9, <3>10
  <2> QED BY <2>1, <2>2
<1> QED BY <1>1, <1>2, <1>3, <1>4, <1>5 DEF Asking
-----------------------------------------------------------------------------
(* What every action does to the invariant: it moves one connection.       *)

\* An action that moves one connection has to keep only that one in order.
LEMMA OneConnection ==
  ASSUME Inv, NEW c \in Conns, NEW k, NEW l, NEW b, Good(k, l, b, count), UNCHANGED count,
         call' = [call EXCEPT ![c] = k], line' = [line EXCEPT ![c] = l],
         buffer' = [buffer EXCEPT ![c] = b]
  PROVE  Inv'
<1>1. k \in Calls(count) /\ l \in Seq(Packets(count)) /\ b \in Buffers(count)
  BY DEF Good
<1>2. /\ call' \in [Conns -> Calls(count')] /\ line' \in [Conns -> Seq(Packets(count'))]
      /\ buffer' \in [Conns -> Buffers(count')] /\ count' \in 0..MaxPunches
  BY <1>1 DEF Inv
<1>3. ASSUME NEW d \in Conns PROVE Good(call'[d], line'[d], buffer'[d], count')
  <2>1. CASE d = c
    BY <2>1 DEF Inv
  <2>2. CASE d # c
    BY <2>2 DEF Inv
  <2> QED BY <2>1, <2>2
<1> QED BY <1>2, <1>3 DEF Inv

\* The parts of the invariant.
LEMMA State ==
  ASSUME Inv, NEW c \in Conns
  PROVE  /\ count \in Nat /\ count <= MaxPunches /\ MaxPunches \in Nat
         /\ call[c] \in Calls(count) /\ line[c] \in Seq(Packets(count))
         /\ buffer[c] \in Buffers(count)
         /\ Linked(call[c].got, line[c]) /\ Holding(call[c])
         /\ Ready(call[c], Newest(call[c].got, line[c]), buffer[c])
BY SdkAssumption DEF Inv, Good

\* Every request.
LEMMA RequestStep ==
  ASSUME Inv, NEW c \in Conns, NEW k \in Calls(count), NEW rest \in Seq(Packets(count)),
         Request(c, k, rest), k.at \in Asking,
         Linked(k.got, rest), Holding(k), Entry(k, Newest(k.got, rest), buffer[c])
  PROVE  Inv'
<1>1. PICK packets \in Answers(c, k) : line' = [line EXCEPT ![c] = rest \o packets]
  BY DEF Request
<1>2. Good(k, rest \o packets, Served(k, buffer[c]), count)
  BY State, RequestKeeps
<1>3. buffer' = [buffer EXCEPT ![c] = Served(k, buffer[c])]
  BY DEF Request, Served, Inv
<1> QED BY <1>1, <1>2, <1>3, OneConnection DEF Request

\* Every end of an operation.
LEMMA EndStep ==
  ASSUME Inv, NEW c \in Conns, NEW rest \in Seq(Packets(count)),
         End(c, rest), Linked(NoPacket, rest)
  PROVE  Inv'
<1> DEFINE l == IF c = "poller" THEN <<>> ELSE rest
           b == IF c = "poller" THEN NoBuffer ELSE buffer[c]
<1>1. Idle \in Calls(count) /\ Idle.at = "idle" /\ Idle.got = NoPacket
  <2>1. count \in Nat /\ "idle" \in Steps /\ Attendance \in Datasets
    BY State DEF Steps, Datasets
  <2> QED BY <2>1, CallTyped DEF Idle, Call
<1>2. l \in Seq(Packets(count)) /\ Linked(NoPacket, l)
  BY DEF Linked
<1>3. b \in Buffers(count)
  BY State DEF Buffers
<1>4. Ready(Idle, Newest(NoPacket, l), b) /\ Holding(Idle)
  BY <1>1 DEF Ready, Holding
<1>5. Good(Idle, l, b, count)
  BY <1>1, <1>2, <1>3, <1>4 DEF Good
<1>6. /\ call' = [call EXCEPT ![c] = Idle] /\ line' = [line EXCEPT ![c] = l]
      /\ buffer' = [buffer EXCEPT ![c] = b] /\ UNCHANGED count
  BY DEF End, Inv
<1> QED BY <1>5, <1>6, OneConnection

\* An answer is taken: what is behind it is in order.
LEMMA Taken ==
  ASSUME Inv, NEW c \in Conns, line[c] # <<>>
  PROVE  /\ Answer(c) \in Packets(count) /\ Unread(c) \in Seq(Packets(count))
         /\ Follows(call[c].got, Answer(c))
         /\ Linked(Answer(c), Unread(c)) /\ Linked(NoPacket, Unread(c))
         /\ Newest(Answer(c), Unread(c)) = Newest(call[c].got, line[c])
<1>1. line[c] \in Seq(Packets(count)) /\ Linked(call[c].got, line[c])
  BY State
<1>2. Answer(c) = line[c][1] /\ Answer(c) \in Packets(count) /\ Unread(c) \in Seq(Packets(count))
  BY <1>1 DEF Answer, Unread
<1>3. Follows(call[c].got, Answer(c))
  BY <1>1, <1>2 DEF Linked
<1>4. Linked(Answer(c), Unread(c)) /\ Linked(NoPacket, Unread(c))
  BY <1>1, <1>2, NoPacketWild, TailLinked DEF Unread
<1>5. Newest(Answer(c), Unread(c)) = Newest(call[c].got, line[c])
  BY <1>1, <1>2, TailNewest DEF Unread
<1> QED BY <1>2, <1>3, <1>4, <1>5

\* An answer that ends the operation.
LEMMA FailStep ==
  ASSUME Inv, NEW c \in Conns, line[c] # <<>>, Fail(c)
  PROVE  Inv'
BY Taken, EndStep DEF Fail

\* An operation that starts afresh, or whose next step looks at no earlier answer.
LEMMA PlainRequest ==
  ASSUME Inv, NEW c \in Conns, NEW set \in Datasets, NEW rest \in Seq(Packets(count)),
         NEW at \in {"disable", "command", "platform", "option", "sizes"},
         Linked(NoPacket, rest), Request(c, Call(at, set), rest)
  PROVE  Inv'
<1> DEFINE k == Call(at, set)
<1>1. at \in Steps /\ at \in Asking
  BY DEF Steps, Asking, Commands, Options
<1>2. k \in Calls(count)
  BY <1>1, State, CallTyped
<1>3. k.at = at /\ k.got = NoPacket /\ k.next = 1 /\ k.parts = <<>>
  BY DEF Call
<1>4. Holding(k) /\ Entry(k, Newest(k.got, rest), buffer[c])
  BY <1>3 DEF Holding, Entry
<1> QED BY <1>1, <1>2, <1>3, <1>4, RequestStep

\* send_command.
LEMMA TakeCommandStep ==
  ASSUME Inv, NEW c \in Conns, TakeCommand(c)
  PROVE  Inv'
<1> DEFINE next == IF call[c].at = "disable" THEN "sizes" ELSE "command"
<1>1. line[c] # <<>> /\ call[c].set \in Datasets
  BY State DEF TakeCommand, Reading, Calls
<1>2. CASE Go(c, At(c, next))
  BY <1>1, <1>2, Taken, PlainRequest DEF Go, At
<1>3. CASE Fail(c)
  BY <1>1, <1>3, FailStep
<1> QED BY <1>2, <1>3 DEF TakeCommand

\* get_string_param, with an answer or without.
LEMMA AfterOptionStep ==
  ASSUME Inv, NEW c \in Conns, NEW rest \in Seq(Packets(count)), Linked(NoPacket, rest),
         AfterOption(c, rest)
  PROVE  Inv'
<1> DEFINE next == IF call[c].at = "platform" THEN "disable" ELSE "option"
<1>1. call[c].set \in Datasets
  BY State DEF Calls
<1>2. CASE Request(c, At(c, next), rest)
  BY <1>1, <1>2, PlainRequest DEF At
<1>3. CASE End(c, rest)
  BY <1>3, EndStep
<1> QED BY <1>2, <1>3 DEF AfterOption

\* get_string_param with an answer.
LEMMA TakeOptionStep ==
  ASSUME Inv, NEW c \in Conns, TakeOption(c)
  PROVE  Inv'
BY Taken, AfterOptionStep DEF TakeOption, Reading

\* The answer to CMD_GET_FREE_SIZES is kept and looked at one step later.
LEMMA TakeSizesStep ==
  ASSUME Inv, NEW c \in Conns, TakeSizes(c)
  PROVE  Inv'
<1> DEFINE k == Got(c, "enable")
<1>1. line[c] # <<>> /\ call[c].at = "sizes" /\ Request(c, k, Unread(c))
  BY DEF TakeSizes, Reading, Go
<1>2. call[c] \in Calls(count) /\ call[c].next = 1 /\ call[c].parts = <<>>
  BY <1>1, State DEF Holding
<1>3. k \in Calls(count) /\ k.at = "enable" /\ k.got = Answer(c) /\ k.next = 1 /\ k.parts = <<>>
  BY <1>1, <1>2, Taken DEF Got, Calls, Steps, Commands
<1>4. Holding(k) /\ Entry(k, Newest(k.got, Unread(c)), buffer[c]) /\ k.at \in Asking
  BY <1>3 DEF Holding, Entry, Asking, Commands
<1> QED BY <1>1, <1>3, <1>4, Taken, RequestStep

\* An operation that returns what it has read.
LEMMA ReturnStep ==
  ASSUME Inv, NEW c \in Conns, NEW k \in Calls(count), line[c] # <<>>, k.got = NoPacket,
         k.set = Attendance /\ k.parts # <<>> =>
           Contiguous(k.parts) /\ Passes(k.parts[1].set, k.sizes),
         Return(c, k)
  PROVE  Inv'
<1> DEFINE r == [k EXCEPT !.at = "returned"]
<1>1. /\ r \in Calls(count) /\ r.at = "returned" /\ r.got = NoPacket
      /\ r.set = k.set /\ r.parts = k.parts /\ r.sizes = k.sizes
  BY DEF Calls, Steps
<1>2. Holding(r) /\ Ready(r, Newest(r.got, Unread(c)), buffer[c])
  BY <1>1 DEF Holding, Ready
<1>3. Good(r, Unread(c), buffer[c], count)
  BY <1>1, <1>2, Taken, State DEF Good
<1>4. buffer' = [buffer EXCEPT ![c] = buffer[c]]
  BY DEF Return, Inv
<1> QED BY <1>3, <1>4, OneConnection DEF Return

\* What comes after a sizes answer that was its own is neither data nor total.
LEMMA TakeEnableStep ==
  ASSUME Inv, NEW c \in Conns, TakeEnable(c)
  PROVE  Inv'
<1> DEFINE reply == call[c].got
           n == Records(call[c].set, reply.n)
           k == [Got(c, "prepare") EXCEPT !.sizes = n]
<1>1. line[c] # <<>> /\ call[c].at = "enable"
  BY DEF TakeEnable, Reading
<1>2. CASE Fail(c)
  BY <1>1, <1>2, FailStep
<1>3. CASE n = 0 /\ Return(c, Idle)
  <2>1. Idle \in Calls(count) /\ Idle.got = NoPacket /\ Idle.parts = <<>>
    <3>1. count \in Nat /\ "idle" \in Steps /\ Attendance \in Datasets
      BY State DEF Steps, Datasets
    <3> QED BY <3>1, CallTyped DEF Idle, Call
  <2> QED BY <1>1, <1>3, <2>1, ReturnStep
<1>4. CASE Answer(c).code \in Accepted /\ reply.body = "sizes" /\ n > 0 /\ Go(c, k)
  <2>1. /\ call[c] \in Calls(count) /\ call[c].next = 1 /\ call[c].parts = <<>>
        /\ reply \in Packets(count) /\ call[c].set \in Datasets
    BY <1>1, State DEF Holding, Calls
  <2>2. n \in Nat
    <3>1. reply.n \in Nat
      <4>1. reply.n \in 0..count /\ count \in Nat
        BY <2>1, State DEF Packets
      <4> QED BY <4>1
    <3> QED BY <2>1, <3>1, RecordsNat
  <2>3. /\ k \in Calls(count) /\ k.at = "prepare" /\ k.got = Answer(c) /\ k.sizes = n
        /\ k.next = 1 /\ k.parts = <<>> /\ k.set = call[c].set
    BY <1>1, <2>1, <2>2, Taken DEF Got, Calls, Steps
  <2>4. ~Wild(reply) /\ Follows(reply, Answer(c)) /\ Answer(c) \in Packets(count)
    BY <1>1, <1>4, <2>1, Taken DEF Packets, WellFormed, Wild
  <2>5. Answer(c).body \in {"none", "text", "sizes"}
    BY <1>4, <2>4 DEF Follows, Continues, Packets, Bodies
  <2>6. ~Wild(Answer(c))
    BY <1>4, <2>5 DEF Wild, Accepted
  <2>7. Holding(k)
    BY <1>4, <2>2, <2>3, <2>5, <2>6 DEF Holding
  <2>8. Entry(k, Newest(k.got, Unread(c)), buffer[c]) /\ k.at \in Asking
    BY <1>1, <2>3, Taken, State DEF Entry, Ready, Asking
  <2> QED BY <1>1, <1>4, <2>3, <2>7, <2>8, Taken, RequestStep DEF Go
<1> QED BY <1>2, <1>3, <1>4 DEF TakeEnable

\* The next chunk extends a dataset without a gap.
LEMMA Extend ==
  ASSUME NEW n \in Nat, NEW parts \in Seq(Packets(n)), NEW p \in Packets(n), Contiguous(parts),
         p.body \in {"whole", "chunk"},
         IF parts = <<>> THEN p.from = 1
         ELSE p.from = parts[Len(parts)].to + 1 /\ p.set = parts[1].set
  PROVE  /\ Append(parts, p) \in Seq(Packets(n)) /\ Append(parts, p) # <<>>
         /\ Append(parts, p)[Len(Append(parts, p))] = p
         /\ Contiguous(Append(parts, p))
<1> DEFINE a == Append(parts, p)
<1>1. a \in Seq(Packets(n)) /\ Len(a) = Len(parts) + 1 /\ a[Len(parts) + 1] = p
  OBVIOUS
<1>2. \A i \in 1..Len(parts) : a[i] = parts[i]
  OBVIOUS
<1>3. CASE parts = <<>>
  BY <1>1, <1>3 DEF Contiguous
<1>4. CASE parts # <<>>
  <2>1. Len(parts) \in Nat /\ Len(parts) > 0 /\ a[1] = parts[1]
    BY <1>2, <1>4
  <2>2. \A i \in 1..Len(a) : a[i].body \in {"whole", "chunk"} /\ a[i].set = a[1].set
    BY <1>1, <1>2, <1>4, <2>1 DEF Contiguous
  <2>3. ASSUME NEW i \in 1..(Len(a) - 1) PROVE a[i + 1].from = a[i].to + 1
    <3>1. CASE i < Len(parts)
      BY <1>2, <2>1, <3>1 DEF Contiguous
    <3>2. CASE i = Len(parts)
      BY <1>1, <1>2, <1>4, <2>1, <3>2
    <3> QED BY <1>1, <3>1, <3>2
  <2> QED BY <1>1, <1>4, <2>1, <2>2, <2>3 DEF Contiguous
<1> QED BY <1>1, <1>3, <1>4

\* The size of a record tells the attendance log from the other datasets but its
\* lookalikes.
LEMMA SizeTells ==
  ASSUME NEW n, NEW k, NEW part \in Packets(n), k.set = Attendance, SizeFits(k, part)
  PROVE  Passes(part.set, k.sizes)
<1> SUFFICES ASSUME part.set # Attendance PROVE part.set \in Lookalikes(k.sizes)
  BY DEF Passes
<1>1. part.set \in DOMAIN Held
  BY DEF Packets, Datasets
<1>2. RecordSize(part.set, part.n, k.sizes) = RecordSize(part.set, 0, k.sizes)
  BY DEF RecordSize, Records
<1> QED BY <1>1, <1>2 DEF SizeFits, Lookalikes

\* What is cut into records came in one piece, and its size is theirs.
LEMMA FinishStep ==
  ASSUME Inv, NEW c \in Conns, NEW parts \in Seq(Packets(count)), line[c] # <<>>,
         Contiguous(parts), call[c].sizes > 0,
         Finish(c, parts)
  PROVE  Inv'
<1>1. CASE Fail(c)
  BY <1>1, FailStep
<1>2. CASE /\ HasHeader(parts) => SizeFits(call[c], parts[1])
           /\ parts # <<>>
           /\ Return(c, [Call("returned", call[c].set) EXCEPT !.parts = parts, !.sizes = call[c].sizes])
  <2> DEFINE k == [Call("returned", call[c].set) EXCEPT !.parts = parts, !.sizes = call[c].sizes]
  <2>1. call[c] \in Calls(count) /\ call[c].set \in Datasets /\ count \in Nat
    BY State DEF Calls
  <2>2. Call("returned", call[c].set) \in Calls(count)
    BY <2>1, CallTyped DEF Steps
  <2>3. k \in Calls(count) /\ k.got = NoPacket /\ k.set = call[c].set /\ k.parts = parts
        /\ k.sizes = call[c].sizes
    BY <2>1, <2>2 DEF Calls, Call
  <2>4. parts[1] \in Packets(count) /\ parts[1].from = 1
    BY <1>2 DEF Contiguous
  <2>5. SizeFits(call[c], parts[1])
    BY <1>2, <2>4 DEF HasHeader
  <2>6. k.set = Attendance => Passes(parts[1].set, k.sizes)
    BY <2>3, <2>4, <2>5, SizeTells
  <2> QED BY <1>2, <2>3, <2>6, ReturnStep
<1> QED BY <1>1, <1>2 DEF Finish

\* Nothing but a whole dataset or a total follows the answer to CMD_ENABLE_DEVICE.
LEMMA TakePrepareStep ==
  ASSUME Inv, NEW c \in Conns, TakePrepare(c)
  PROVE  Inv'
<1> DEFINE p == Answer(c)
           k(at, goal) == [Got(c, at) EXCEPT !.goal = goal]
<1>1. line[c] # <<>> /\ call[c].at = "prepare"
  BY DEF TakePrepare, Reading
<1>2. /\ call[c] \in Calls(count) /\ call[c].set \in Datasets
      /\ call[c].next = 1 /\ call[c].parts = <<>>
      /\ call[c].sizes > 0
      /\ ~Wild(call[c].got) /\ call[c].got.body \in {"none", "text", "sizes"}
  BY <1>1, State DEF Holding, Calls
<1>3. p \in Packets(count) /\ Follows(call[c].got, p)
  BY <1>1, Taken
<1>4. p.body # "chunk"
  BY <1>2, <1>3 DEF Follows, Continues
<1>5. CASE p.code = "data" /\ Finish(c, <<p>>)
  <2>1. p.body = "whole" /\ p.from = 1
    BY <1>3, <1>4, <1>5 DEF Packets, WellFormed
  <2>2. <<p>> \in Seq(Packets(count)) /\ Contiguous(<<p>>)
    BY <1>3, <2>1 DEF Contiguous
  <2> QED BY <1>1, <1>2, <1>5, <2>2, FinishStep
<1>6. ASSUME p.code = "ok" /\ p.body # "none",
             NEW goal \in IF p.body = "total" THEN {Records(p.set, p.n)} ELSE 0..MaxGoal,
             Go(c, k(IF goal = 0 THEN "free" ELSE "chunk", goal))
      PROVE  Inv'
  <2> DEFINE at == IF goal = 0 THEN "free" ELSE "chunk"
  <2>1. goal \in Nat
    <3>1. p.set \in Datasets /\ p.n \in Nat
      BY <1>3, State DEF Packets
    <3> QED BY <1>6, <3>1, RecordsNat, SdkAssumption
  <2>2. ~Wild(p) /\ p.body \in {"text", "sizes", "total"}
    BY <1>3, <1>4, <1>6 DEF Wild, Packets, WellFormed, Bodies
  <2>3. /\ k(at, goal) \in Calls(count) /\ k(at, goal).at = at /\ k(at, goal).got = p
        /\ k(at, goal).next = 1 /\ k(at, goal).parts = <<>>
        /\ k(at, goal).sizes = call[c].sizes /\ k(at, goal).set = call[c].set
    BY <1>2, <1>3, <2>1 DEF Got, Calls, Steps, Commands
  <2>4. Holding(k(at, goal))
    <3>1. Contiguous(<<>>)
      BY DEF Contiguous
    <3> QED BY <1>2, <2>2, <2>3, <3>1 DEF Holding
  <2>5. Entry(k(at, goal), Newest(p, Unread(c)), buffer[c])
    <3> DEFINE g == Newest(call[c].got, line[c])
               b == buffer[c]
    <3>1. Newest(p, Unread(c)) = g
      BY <1>1, Taken
    <3>2. Wild(g) \/ (g.body = "total" /\ g.set = b.set /\ g.n = b.n)
      BY <1>1, State DEF Ready
    <3>3. g \in Packets(count)
      BY <1>1, State DEF Newest
    <3>4. g.body = "total" => g.to = k(at, goal).next - 1
      BY <2>3, <3>3 DEF Packets, WellFormed
    <3> QED BY <2>3, <3>1, <3>2, <3>4 DEF Entry
  <2>6. at \in Asking
    BY DEF Asking, Commands
  <2> QED BY <1>1, <1>3, <1>6, <2>3, <2>4, <2>5, <2>6, Taken, RequestStep DEF Go
<1>7. CASE Fail(c)
  BY <1>1, <1>7, FailStep
<1> QED BY <1>5, <1>6, <1>7 DEF TakePrepare

\* A chunk follows the one before it, or the total: a whole dataset cannot.
LEMMA NextChunk ==
  ASSUME Inv, NEW c \in Conns, line[c] # <<>>, call[c].at \in {"chunk", "rest"}
  PROVE  /\ Answer(c).code = "data" =>
              /\ Answer(c).body = "chunk"
              /\ Append(call[c].parts, Answer(c)) \in Seq(Packets(count))
              /\ Append(call[c].parts, Answer(c)) # <<>>
              /\ Contiguous(Append(call[c].parts, Answer(c)))
              /\ Append(call[c].parts, Answer(c))[Len(Append(call[c].parts, Answer(c)))] = Answer(c)
         /\ Answer(c).code = "prepare" /\ call[c].at = "chunk" =>
              /\ Answer(c).body = "chunk"
              /\ IF call[c].parts = <<>> THEN Answer(c).from = 1
                 ELSE /\ Answer(c).from = call[c].parts[Len(call[c].parts)].to + 1
                      /\ Answer(c).set = call[c].parts[1].set
<1> DEFINE p == Answer(c)
           k == call[c]
           g == k.got
<1>1. /\ k \in Calls(count) /\ g \in Packets(count) /\ k.parts \in Seq(Packets(count))
      /\ Holding(k) /\ Contiguous(k.parts)
  BY State DEF Calls, Holding
<1>2. p \in Packets(count) /\ Follows(g, p)
  BY Taken
<1>3. ~Wild(g) /\ g.body # "none"
  <2>1. CASE k.at = "chunk" /\ k.parts = <<>>
    BY <1>1, <2>1 DEF Holding
  <2>2. g.body = "chunk" => ~Wild(g)
    BY <1>1 DEF Wild, Packets, WellFormed
  <2>3. ~(k.at = "chunk" /\ k.parts = <<>>) => g.body = "chunk"
    BY <1>1 DEF Holding
  <2> QED BY <2>1, <2>2, <2>3
<1>4. p.code \in {"data", "prepare"} => p.body = "chunk"
  BY <1>2, <1>3 DEF Follows, Packets, WellFormed
<1>5. p.body = "chunk" => p.set = g.set /\ p.from = g.to + 1 /\ g.body \in {"total", "chunk"}
  BY <1>2, <1>3 DEF Follows, Continues
<1>6. ASSUME p.body = "chunk"
      PROVE  IF k.parts = <<>> THEN p.from = 1
             ELSE p.from = k.parts[Len(k.parts)].to + 1 /\ p.set = k.parts[1].set
  <2>1. CASE k.at = "chunk" /\ k.parts = <<>>
    <3>1. g.body = "total"
      BY <1>1, <1>5, <1>6, <2>1 DEF Holding
    <3> QED BY <1>1, <1>5, <1>6, <2>1, <3>1 DEF Packets, WellFormed
  <2>2. CASE k.at = "chunk" /\ k.parts # <<>>
    <3>1. g = k.parts[Len(k.parts)] /\ Len(k.parts) \in 1..Len(k.parts)
      BY <1>1, <2>2 DEF Holding
    <3>2. g.set = k.parts[1].set
      BY <1>1, <3>1 DEF Contiguous
    <3> QED BY <1>5, <1>6, <2>2, <3>1, <3>2
  <2>3. CASE k.at = "rest"
    <3>1. g.code = "prepare" /\ g.to = g.from - 1 /\ g.from \in Nat
      BY <1>1, <2>3 DEF Holding, Packets, WellFormed
    <3>2. p.from = g.from
      BY <1>5, <1>6, <3>1
    <3> QED BY <1>1, <1>5, <1>6, <2>3, <3>2 DEF Holding
  <2> QED BY <2>1, <2>2, <2>3
<1>7. count \in Nat
  BY State
<1> QED BY <1>1, <1>2, <1>4, <1>6, <1>7, Extend

\* read_chunk.
LEMMA TakeChunkStep ==
  ASSUME Inv, NEW c \in Conns, TakeChunk(c)
  PROVE  Inv'
<1> DEFINE p == Answer(c)
           k == call[c]
           b == buffer[c]
           g == Newest(k.got, line[c])
<1>1. line[c] # <<>> /\ k.at \in {"chunk", "rest"}
  BY DEF TakeChunk, Reading
<1>2. /\ k \in Calls(count) /\ k.set \in Datasets /\ k.parts \in Seq(Packets(count))
      /\ k.sizes > 0
      /\ Contiguous(k.parts) /\ count \in Nat
  BY <1>1, State DEF Holding, Calls
<1>3. p \in Packets(count) /\ Newest(p, Unread(c)) = g
  BY <1>1, Taken
<1>4. \/ Wild(g)
      \/ g.body = "chunk" /\ g.set = b.set /\ g.n = b.n /\ g.to = AtMost(ChunkEnd(k), Records(b.set, b.n))
  BY <1>1, State DEF Ready
<1>5. ChunkEnd(k) \in Nat
  BY <1>2, ChunkEndNat
<1>6. CASE p.code = "data" /\ ChunkEnd(k) < k.goal
           /\ Go(c, [Got(c, "chunk") EXCEPT !.next = ChunkEnd(k) + 1, !.parts = Append(@, p)])
  <2> DEFINE m == [Got(c, "chunk") EXCEPT !.next = ChunkEnd(k) + 1, !.parts = Append(@, p)]
             parts == Append(k.parts, p)
  <2>1. /\ p.body = "chunk" /\ parts \in Seq(Packets(count)) /\ parts # <<>> /\ Contiguous(parts)
        /\ parts[Len(parts)] = p
    BY <1>1, <1>6, NextChunk
  <2>2. /\ m \in Calls(count) /\ m.at = "chunk" /\ m.got = p /\ m.next = ChunkEnd(k) + 1
        /\ m.parts = parts /\ m.sizes = k.sizes /\ m.set = k.set
    <3>1. /\ Got(c, "chunk") \in Calls(count) /\ Got(c, "chunk").parts = k.parts
          /\ Got(c, "chunk").at = "chunk" /\ Got(c, "chunk").got = p
          /\ Got(c, "chunk").sizes = k.sizes /\ Got(c, "chunk").set = k.set
      BY <1>2, <1>3 DEF Got, Calls, Steps
    <3>2. ChunkEnd(k) + 1 \in Nat \ {0}
      BY <1>5
    <3>3. m = [[Got(c, "chunk") EXCEPT !.next = ChunkEnd(k) + 1] EXCEPT !.parts = parts]
      BY <3>1
    <3> QED BY <2>1, <3>1, <3>2, <3>3 DEF Calls
  <2>3. Holding(m)
    BY <1>2, <2>1, <2>2 DEF Holding
  <2>4. ~Wild(g) /\ ChunkEnd(k) + 1 <= Records(b.set, b.n) =>
          AtMost(ChunkEnd(k), Records(b.set, b.n)) = ChunkEnd(k)
    <3>1. SUFFICES ASSUME ~Wild(g) PROVE ChunkEnd(k) + 1 <= Records(b.set, b.n) =>
                     AtMost(ChunkEnd(k), Records(b.set, b.n)) = ChunkEnd(k)
      OBVIOUS
    <3>2. g.set = b.set /\ g.n = b.n /\ g \in Packets(count)
      BY <1>1, <1>4, <3>1, State DEF Newest
    <3>3. b.set \in Datasets /\ b.n \in Nat
      BY <1>2, <3>2 DEF Packets
    <3> QED BY <1>5, <3>3, RecordsNat DEF AtMost
  <2>5. Entry(m, Newest(m.got, Unread(c)), b)
    <3>1. ChunkEnd(k) = m.next - 1
      BY <1>5, <2>2
    <3> QED BY <1>3, <1>4, <2>2, <2>4, <3>1 DEF Entry
  <2>6. m.at \in Asking
    BY <2>2 DEF Asking
  <2> QED BY <1>1, <1>6, <2>2, <2>3, <2>5, <2>6, Taken, RequestStep DEF Go
<1>7. CASE p.code = "data"
           /\ Go(c, [Call("free", k.set) EXCEPT !.sizes = k.sizes, !.parts = Append(k.parts, p)])
  <2> DEFINE m == [Call("free", k.set) EXCEPT !.sizes = k.sizes, !.parts = Append(k.parts, p)]
             parts == Append(k.parts, p)
  <2>1. parts \in Seq(Packets(count)) /\ Contiguous(parts)
    BY <1>1, <1>7, NextChunk
  <2>2. Call("free", k.set) \in Calls(count)
    BY <1>2, CallTyped DEF Steps, Commands
  <2>3. /\ m \in Calls(count) /\ m.at = "free" /\ m.got = NoPacket
        /\ m.parts = parts /\ m.sizes = k.sizes /\ m.set = k.set
    BY <1>2, <2>1, <2>2 DEF Call, Calls
  <2>4. Holding(m) /\ Entry(m, Newest(m.got, Unread(c)), b) /\ m.at \in Asking
    BY <1>2, <2>1, <2>3 DEF Holding, Entry, Asking, Commands
  <2> QED BY <1>1, <1>7, <2>3, <2>4, Taken, RequestStep DEF Go
<1>8. CASE /\ p.code = "prepare" /\ k.at = "chunk"
           /\ call' = [call EXCEPT ![c] = Got(c, "rest")]
           /\ line' = [line EXCEPT ![c] = Unread(c)]
           /\ UNCHANGED <<count, disabled, buffer, published>>
  <2> DEFINE m == Got(c, "rest")
  <2>1. /\ m \in Calls(count) /\ m.at = "rest" /\ m.got = p /\ m.parts = k.parts
        /\ m.sizes = k.sizes /\ m.set = k.set /\ m.next = k.next /\ m.goal = k.goal
    BY <1>2, <1>3 DEF Got, Calls, Steps
  <2>2. Holding(m)
    BY <1>1, <1>2, <1>8, <2>1, NextChunk DEF Holding
  <2>3. Ready(m, g, b)
    BY <1>4, <2>1 DEF Ready, ChunkEnd
  <2>4. Good(m, Unread(c), b, count)
    BY <1>1, <1>3, <2>1, <2>2, <2>3, Taken, State DEF Good
  <2>5. buffer' = [buffer EXCEPT ![c] = b]
    BY <1>8 DEF Inv
  <2> QED BY <1>8, <2>4, <2>5, OneConnection
<1>9. CASE Fail(c)
  BY <1>1, <1>9, FailStep
<1> QED BY <1>6, <1>7, <1>8, <1>9 DEF TakeChunk

\* CMD_FREE_DATA.
LEMMA TakeFreeStep ==
  ASSUME Inv, NEW c \in Conns, TakeFree(c)
  PROVE  Inv'
<1>1. line[c] # <<>> /\ call[c].at = "free"
  BY DEF TakeFree, Reading
<1>2. /\ call[c].parts \in Seq(Packets(count)) /\ Contiguous(call[c].parts)
      /\ call[c].sizes > 0
  BY <1>1, State DEF Holding, Calls
<1>3. CASE Finish(c, call[c].parts)
  BY <1>1, <1>2, <1>3, FinishStep
<1>4. CASE Fail(c)
  BY <1>1, <1>4, FailStep
<1> QED BY <1>3, <1>4 DEF TakeFree

\* IO_TIMEOUT: the answer it waited for becomes one nobody expects.
LEMMA TimeoutStep ==
  ASSUME Inv, NEW c \in Conns, Timeout(c)
  PROVE  Inv'
<1>1. line[c] \in Seq(Packets(count)) /\ Linked(NoPacket, line[c])
  BY State, WildLinks, NoPacketWild
<1> QED BY <1>1, AfterOptionStep, EndStep DEF Timeout

\* The operations of the handlers, the poll loop and the poller.
LEMMA BeginStep ==
  ASSUME Inv, BeginShared \/ BeginPoll
  PROVE  Inv'
<1>1. "shared" \in Conns /\ "poller" \in Conns /\ Attendance \in Datasets
  BY DEF Conns, Datasets
<1>2. \A c \in Conns : line[c] \in Seq(Packets(count)) /\ Linked(NoPacket, line[c])
  BY State, WildLinks, NoPacketWild
<1>3. CASE BeginPoll
  BY <1>1, <1>2, <1>3, PlainRequest DEF BeginPoll
<1>4. CASE BeginShared
  <2>1. PICK k \in {Call("disable", set) : set \in Datasets} \cup {Call(at, Attendance) : at \in Others} :
          Request("shared", k, line["shared"])
    BY <1>4 DEF BeginShared
  <2>2. PICK at \in {"disable", "command", "option"}, set \in Datasets : k = Call(at, set)
    BY <1>1, SdkAssumption
  <2> QED BY <1>1, <1>2, <2>1, <2>2, PlainRequest
<1> QED BY <1>3, <1>4

\* The bus takes the punches.
LEMMA PublishStep ==
  ASSUME Inv, NEW c \in Conns, Publish(c)
  PROVE  Inv'
<1>1. line[c] \in Seq(Packets(count)) /\ Linked(NoPacket, line[c])
  BY State, WildLinks, NoPacketWild
<1> QED BY <1>1, EndStep DEF Publish

\* A punch, with its live event on the kept connection or without.
LEMMA PunchStep ==
  ASSUME Inv, Punch
  PROVE  Inv'
<1>1. /\ count \in Nat /\ count' = count + 1 /\ count < MaxPunches /\ MaxPunches \in Nat
      /\ UNCHANGED <<call, buffer>>
      /\ \/ line' = [line EXCEPT !["shared"] = Append(@, Event)]
         \/ UNCHANGED line
  BY SdkAssumption DEF Punch, Inv
<1>2. /\ Packets(count) \subseteq Packets(count') /\ Buffers(count) \subseteq Buffers(count')
      /\ Seq(Packets(count)) \subseteq Seq(Packets(count')) /\ Calls(count) \subseteq Calls(count')
  BY <1>1, Grows
<1>3. Event \in Packets(count')
  BY <1>1, PlainTyped
<1>4. ASSUME NEW c \in Conns
      PROVE  line'[c] \in Seq(Packets(count')) /\ Good(call'[c], line'[c], buffer'[c], count')
  <2> DEFINE k == call[c]
  <2>1. /\ k \in Calls(count') /\ buffer[c] \in Buffers(count') /\ line[c] \in Seq(Packets(count'))
        /\ Linked(k.got, line[c]) /\ Holding(k) /\ Ready(k, Newest(k.got, line[c]), buffer[c])
    BY <1>2, State
  <2>2. CASE line'[c] = line[c]
    BY <1>1, <2>1, <2>2 DEF Good
  <2>3. CASE line'[c] = Append(line[c], Event)
    <3>1. Wild(Event) /\ Event.body = "none"
      BY DEF Wild, Event, Plain, Packet
    <3>2. Follows(Newest(k.got, line[c]), Event)
      BY <3>1 DEF Follows
    <3>3. Linked(k.got, Append(line[c], Event)) /\ Newest(k.got, Append(line[c], Event)) = Event
      BY <1>3, <2>1, <3>2, AppendLinked
    <3>4. Ready(k, Event, buffer[c])
      BY <3>1 DEF Ready
    <3> QED BY <1>1, <1>3, <2>1, <2>3, <3>3, <3>4 DEF Good
  <2>4. line'[c] = line[c] \/ line'[c] = Append(line[c], Event)
    BY <1>1 DEF Inv
  <2> QED BY <2>1, <2>2, <2>3, <2>4, <1>3
<1>5. line' \in [Conns -> Seq(Packets(count'))]
  <2>1. line' = [c \in Conns |-> line'[c]]
    BY <1>1 DEF Inv
  <2> QED BY <1>4, <2>1
<1>6. count' \in 0..MaxPunches /\ call' \in [Conns -> Calls(count')] /\ buffer' \in [Conns -> Buffers(count')]
  BY <1>1, <1>2 DEF Inv
<1> QED BY <1>4, <1>5, <1>6 DEF Inv
-----------------------------------------------------------------------------
(* The invariant holds, and with it the property.                          *)

\* A process starts with fresh connections and nothing read.
LEMMA InitInv == Init => Inv
<1> SUFFICES ASSUME Init PROVE Inv
  OBVIOUS
<1>1. count \in 0..MaxPunches /\ count \in Nat
  BY SdkAssumption DEF Init
<1>2. Idle \in Calls(count) /\ Idle.at = "idle" /\ Idle.got = NoPacket
  <2>1. "idle" \in Steps /\ Attendance \in Datasets
    BY DEF Steps, Datasets
  <2> QED BY <1>1, <2>1, CallTyped DEF Idle, Call
<1>3. <<>> \in Seq(Packets(count)) /\ Linked(NoPacket, <<>>) /\ NoBuffer \in Buffers(count)
  BY DEF Linked, Buffers
<1>4. Ready(Idle, Newest(NoPacket, <<>>), NoBuffer) /\ Holding(Idle)
  BY <1>2 DEF Ready, Holding
<1>5. Good(Idle, <<>>, NoBuffer, count)
  BY <1>2, <1>3, <1>4 DEF Good
<1> QED BY <1>1, <1>2, <1>3, <1>5 DEF Init, Inv

\* Every step of both connections and of the terminal keeps it.
LEMMA NextInv == Inv /\ [Next]_vars => Inv'
<1> SUFFICES ASSUME Inv, [Next]_vars PROVE Inv'
  OBVIOUS
<1>1. CASE UNCHANGED vars
  BY <1>1 DEF vars, Inv, Good
<1>2. CASE Punch
  BY <1>2, PunchStep
<1>3. CASE BeginShared \/ BeginPoll
  BY <1>3, BeginStep
<1>4. ASSUME NEW c \in Conns, Work(c) PROVE Inv'
  BY <1>4, TakeCommandStep, TakeOptionStep, TakeSizesStep, TakeEnableStep, TakePrepareStep,
     TakeChunkStep, TakeFreeStep, PublishStep DEF Work
<1>5. ASSUME NEW c \in Conns, Timeout(c) PROVE Inv'
  BY <1>5, TimeoutStep
<1> QED BY <1>1, <1>2, <1>3, <1>4, <1>5 DEF Next

\* What is returned is in order and starts at the first punch.
LEMMA InvRecords == Inv => RecordsAreRecords
<1> SUFFICES ASSUME Inv, NEW c \in Conns, call[c].at = "returned",
                    call[c].set = Attendance, call[c].parts # <<>>
             PROVE  InOrder(call[c].parts) /\ Passes(call[c].parts[1].set, call[c].sizes)
  BY DEF RecordsAreRecords, Passes
<1> DEFINE parts == call[c].parts
<1>1. parts \in Seq(Packets(count)) /\ Contiguous(parts) /\ Passes(parts[1].set, call[c].sizes)
  BY State DEF Calls, Holding
<1>2. \A i \in 1..Len(parts) : parts[i].n \in 0..count
  <2>1. \A i \in 1..Len(parts) : parts[i] \in Packets(count)
    BY <1>1
  <2>2. \A p \in Packets(count) : p.n \in 0..count
    BY DEF Packets
  <2> QED BY <2>1, <2>2
<1>3. count \in Nat
  BY State
<1> QED BY <1>1, <1>2, <1>3 DEF InOrder, Contiguous

\* For any datasets, sizes, number of reads that time out and live events: what
\* get_attendance returns are the records of one dataset from the first on, the
\* attendance log or one whose bytes happen to be those of the punches counted,
\* whichever answers the connection's packets belong to.
THEOREM PunchesOnly == Spec => []RecordsAreRecords
<1>1. Init => Inv
  BY InitInv
<1>2. Inv /\ [Next]_vars => Inv'
  BY NextInv
<1>3. Inv => RecordsAreRecords
  BY InvRecords
<1> QED BY <1>1, <1>2, <1>3, PTL DEF Spec

=============================================================================
