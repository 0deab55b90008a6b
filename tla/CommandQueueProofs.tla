-------------------------- MODULE CommandQueueProofs --------------------------
(***************************************************************************)
(* Proofs about CommandQueue, for any texts and any number of commands.    *)
(***************************************************************************)
EXTENDS CommandQueue, TLAPS

\* The confirmation of a received command is one.
LEMMA ConfirmTextType ==
    ASSUME NEW c \in Command
    PROVE  ConfirmText(c) \in Confirmation
<1>1. c.id \in Ids /\ c.text \in Texts
  BY DEF Command
<1> QED BY <1>1 DEF ConfirmText, Confirmation

\* Every step keeps the types.
LEMMA QueueTypeStep == TypeOK /\ [Next]_vars => TypeOK'
<1> SUFFICES ASSUME TypeOK, [Next]_vars PROVE TypeOK'
  OBVIOUS
<1>1. ASSUME NEW t \in Texts, Enqueue(t) PROVE TypeOK'
  <2>1. nextId \in Ids
    BY <1>1, QueueAssumption DEF Enqueue, TypeOK, Ids
  <2>2. queue' \subseteq Command
    BY <1>1, <2>1 DEF Enqueue, TypeOK, Command
  <2>3. nextId' \in 1..(MaxCommands + 1) /\ expired' < nextId'
    BY <1>1, <2>1, QueueAssumption DEF Enqueue, TypeOK, Ids
  <2> QED BY <1>1, <2>2, <2>3 DEF Enqueue, TypeOK
<1>2. CASE Tick
  BY <1>2, QueueAssumption DEF Tick, TypeOK
<1>3. CASE GetRequest \/ GetRequestLost
  BY <1>3 DEF GetRequest, GetRequestLost, Fresh, TypeOK
<1>4. ASSUME NEW c \in inbox, Execute(c) PROVE TypeOK'
  <2>1. c \in Command /\ c.id \in Ids
    BY <1>4 DEF TypeOK, Command
  <2>2. acks' \subseteq Confirmation
    BY <1>4, <2>1, ConfirmTextType DEF Execute, TypeOK
  <2> QED BY <1>4, <2>1, <2>2 DEF Execute, TypeOK
<1>5. ASSUME NEW A \in SUBSET acks, NEW F \in SUBSET A, DeviceCmd(A, F) PROVE TypeOK'
  BY <1>5 DEF DeviceCmd, TypeOK
<1>6. ASSUME NEW a \in acks, AckLost(a) PROVE TypeOK'
  BY <1>6 DEF AckLost, TypeOK
<1>7. CASE UNCHANGED vars
  BY <1>7 DEF vars, TypeOK
<1> QED BY <1>1, <1>2, <1>3, <1>4, <1>5, <1>6, <1>7 DEF Next

\* The type invariant of the queue: ids within what the counter has handed out,
\* and never an expired command that was not enqueued.
THEOREM QueueTypeCorrect == Spec => []TypeOK
<1>1. Init => TypeOK
  BY QueueAssumption DEF Init, TypeOK
<1> QED BY <1>1, QueueTypeStep, PTL DEF Spec

-----------------------------------------------------------------------------
(* RemovedForCause needs to know where confirmations come from: every       *)
(* command one of them matches has been carried out.                        *)

MatchesAreEarned == \A a \in acks : \A c \in Matched(a) : c.id \in executed

\* As long as that holds no step of either side removes a command without cause.
LEMMA CauseStep ==
    ASSUME TypeOK, RemovedForCause, MatchesAreEarned, [Next]_vars
    PROVE  RemovedForCause'
<1>1. ASSUME NEW t \in Texts, Enqueue(t) PROVE RemovedForCause'
  <2>1. ASSUME NEW i \in 1..(nextId' - 1)
        PROVE  (\E c \in queue' : c.id = i) \/ i \in executed' \/ i <= expired'
    <3>1. CASE i = nextId
      <4>1. [id |-> nextId, text |-> t] \in queue'
        BY <1>1 DEF Enqueue
      <4> QED BY <3>1, <4>1
    <3>2. CASE i # nextId
      <4>1. i \in 1..(nextId - 1)
        BY <1>1, <2>1, <3>2, QueueAssumption DEF Enqueue, TypeOK
      <4> QED BY <1>1, <4>1 DEF Enqueue, RemovedForCause
    <3> QED BY <3>1, <3>2
  <2> QED BY <2>1 DEF RemovedForCause
<1>2. CASE Tick
  <2>1. ASSUME NEW i \in 1..(nextId - 1), i <= expired
        PROVE  i <= expired'
    BY <1>2, <2>1, QueueAssumption DEF Tick, TypeOK
  <2> QED BY <1>2, <2>1 DEF Tick, RemovedForCause
<1>3. CASE GetRequest \/ GetRequestLost
  <2>1. queue' = Fresh /\ UNCHANGED <<nextId, expired, executed>>
    BY <1>3 DEF GetRequest, GetRequestLost
  <2>2. ASSUME NEW i \in 1..(nextId - 1), NEW c \in queue, c.id = i
        PROVE  (\E d \in queue' : d.id = i) \/ i <= expired
    <3>1. CASE c.id > expired
      BY <2>1, <2>2, <3>1 DEF Fresh
    <3>2. CASE ~(c.id > expired)
      BY <2>2, <3>2, QueueAssumption DEF TypeOK
    <3> QED BY <3>1, <3>2
  <2> QED BY <2>1, <2>2 DEF RemovedForCause
<1>4. ASSUME NEW c \in inbox, Execute(c) PROVE RemovedForCause'
  BY <1>4 DEF Execute, RemovedForCause
<1>5. ASSUME NEW A \in SUBSET acks, NEW F \in SUBSET A, DeviceCmd(A, F) PROVE RemovedForCause'
  <2>1. ASSUME NEW c \in queue, c \notin queue'
        PROVE  c.id \in executed
    BY <1>5, <2>1 DEF DeviceCmd, MatchesAreEarned
  <2>2. UNCHANGED <<nextId, expired, executed>>
    BY <1>5 DEF DeviceCmd
  <2>3. ASSUME NEW i \in 1..(nextId - 1)
        PROVE  (\E c \in queue' : c.id = i) \/ i \in executed \/ i <= expired
    <3>1. CASE \E c \in queue : c.id = i
      BY <2>1, <3>1
    <3>2. CASE ~(\E c \in queue : c.id = i)
      BY <3>2 DEF RemovedForCause
    <3> QED BY <3>1, <3>2
  <2> QED BY <2>2, <2>3 DEF RemovedForCause
<1>6. ASSUME NEW a \in acks, AckLost(a) PROVE RemovedForCause'
  BY <1>6 DEF AckLost, RemovedForCause
<1>7. CASE UNCHANGED vars
  BY <1>7 DEF vars, RemovedForCause
<1> QED BY <1>1, <1>2, <1>3, <1>4, <1>5, <1>6, <1>7 DEF Next

\* What can happen to the terminal's side in one step: it receives what is
\* queued, carries a command out and confirms it, or forgets confirmations.
LEMMA TerminalStep ==
    ASSUME [Next]_vars
    PROVE  /\ inbox' \subseteq inbox \cup queue
           /\ executed \subseteq executed'
           /\ \A a \in acks' : \/ a \in acks
                               \/ \E c \in inbox : a = ConfirmText(c) /\ c.id \in executed'
<1>1. ASSUME NEW c \in inbox, Execute(c)
      PROVE  /\ inbox' \subseteq inbox /\ executed \subseteq executed'
             /\ acks' = acks \cup {ConfirmText(c)} /\ c.id \in executed'
  BY <1>1 DEF Execute
<1>2. CASE ~(\E c \in inbox : Execute(c))
  BY <1>2 DEF Next, Enqueue, Tick, GetRequest, GetRequestLost, Fresh, DeviceCmd, AckLost, vars
<1> QED BY <1>1, <1>2

-----------------------------------------------------------------------------
(* A terminal that echoes ids.                                             *)

\* It sends no confirmation for a command it has not carried out.
AcksAreEarned == \A a \in acks : a.id # NoId /\ a.id \in executed

\* The id of a command is not NoId, so its confirmation names it.
LEMMA EarnedStep ==
    ASSUME EchoesId, TypeOK, AcksAreEarned, [Next]_vars
    PROVE  AcksAreEarned'
<1>1. ASSUME NEW c \in inbox
      PROVE  ConfirmText(c).id = c.id /\ c.id # NoId
  <2>1. c.id \in Ids
    BY <1>1 DEF TypeOK, Command
  <2> QED BY <2>1, QueueAssumption DEF ConfirmText, Ids, NoId
<1> QED BY <1>1, TerminalStep DEF AcksAreEarned

\* A terminal that echoes ids loses no command: whatever answers and
\* confirmations are lost or repeated, confirm and get_pending remove a command
\* only after it was carried out or its TTL passed.
THEOREM RemovalHasCause ==
    ASSUME EchoesId
    PROVE  Spec => []RemovedForCause
<1>1. Init => RemovedForCause /\ AcksAreEarned
  BY DEF Init, RemovedForCause, AcksAreEarned
<1>2. AcksAreEarned => MatchesAreEarned
  BY DEF AcksAreEarned, MatchesAreEarned, Matched
<1>3. TypeOK /\ RemovedForCause /\ AcksAreEarned /\ [Next]_vars => (RemovedForCause /\ AcksAreEarned)'
  BY <1>2, CauseStep, EarnedStep
<1> QED BY <1>1, <1>3, QueueTypeCorrect, PTL DEF Spec

-----------------------------------------------------------------------------
(* A terminal that confirms with the text alone.                           *)

\* The commands queued carry the texts that TextOf gives their ids.
QueuedAs(TextOf) == \A c \in queue : c.text = TextOf[c.id]

\* Then so do those received, and a confirmation carries the text of one that
\* was carried out, and its id or none.
EarnedAs(TextOf) ==
    /\ \A c \in inbox : c.text = TextOf[c.id]
    /\ \A a \in acks : \E i \in executed : a.text = TextOf[i] /\ a.id \in {i, NoId}

\* Texts are handed on with their ids.
LEMMA EarnedAsStep ==
    ASSUME NEW TextOf, TypeOK, QueuedAs(TextOf), EarnedAs(TextOf), [Next]_vars
    PROVE  EarnedAs(TextOf)'
<1>1. \A c \in inbox' : c.text = TextOf[c.id]
  BY TerminalStep DEF QueuedAs, EarnedAs
<1>2. ASSUME NEW a \in acks'
      PROVE  \E i \in executed' : a.text = TextOf[i] /\ a.id \in {i, NoId}
  <2>1. CASE a \in acks
    BY <2>1, TerminalStep DEF EarnedAs
  <2>2. CASE a \notin acks
    <3>1. PICK c \in inbox : a = ConfirmText(c) /\ c.id \in executed'
      BY <2>2, TerminalStep
    <3>2. a.text = TextOf[c.id] /\ a.id \in {c.id, NoId}
      BY <3>1 DEF ConfirmText, EarnedAs
    <3> QED BY <3>1, <3>2
  <2> QED BY <2>1, <2>2
<1> QED BY <1>1, <1>2 DEF EarnedAs

\* Where no two commands have the same text, a terminal that confirms with the
\* text alone loses none either: confirm's fallback to the first command with
\* that text finds the one that was carried out.  (Two commands with one text
\* are what the run of such a terminal shows going wrong.)
THEOREM DistinctTextsSuffice ==
    ASSUME NEW TextOf \in [Ids -> Texts],
           \A i, j \in Ids : TextOf[i] = TextOf[j] => i = j
    PROVE  Spec /\ []QueuedAs(TextOf) => []RemovedForCause
<1>1. Init => RemovedForCause /\ EarnedAs(TextOf)
  BY DEF Init, RemovedForCause, EarnedAs
<1>2. TypeOK /\ QueuedAs(TextOf) /\ EarnedAs(TextOf) => MatchesAreEarned
  <2> SUFFICES ASSUME TypeOK, QueuedAs(TextOf), EarnedAs(TextOf), NEW a \in acks, NEW c \in Matched(a)
               PROVE  c.id \in executed
    BY DEF MatchesAreEarned
  <2>1. PICK i \in executed : a.text = TextOf[i] /\ a.id \in {i, NoId}
    BY DEF EarnedAs
  <2>2. c \in queue /\ (c.id = a.id \/ c.text = a.text)
    BY DEF Matched, First
  <2>3. c.id \in Ids /\ i \in Ids /\ c.text = TextOf[c.id] /\ c.id # NoId
    BY <2>2, QueueAssumption DEF TypeOK, Command, QueuedAs, Ids, NoId
  <2> QED BY <2>1, <2>2, <2>3
<1>3. TypeOK /\ QueuedAs(TextOf) /\ RemovedForCause /\ EarnedAs(TextOf) /\ [Next]_vars
        => (RemovedForCause /\ EarnedAs(TextOf))'
  BY <1>2, CauseStep, EarnedAsStep
<1> QED BY <1>1, <1>3, QueueTypeCorrect, PTL DEF Spec
===============================================================================
