----------------------------- MODULE CommandQueue -----------------------------
(***************************************************************************)
(* The ADMS command queue of one terminal (timekeep-zkteco/src/adms):      *)
(* commands are enqueued by the server, handed out whole at every          *)
(* /iclock/getrequest, and removed when /iclock/devicecmd confirms them or *)
(* when a poll finds them older than their TTL.  HTTP answers and          *)
(* confirmations can be lost, and a confirmation can be repeated.          *)
(*                                                                         *)
(* The VecDeque is a set of [id, text]: ids are taken from a global        *)
(* counter under the queue's lock, so the first match of a scan is the     *)
(* match with the smallest id.  All commands have the same TTL, so they    *)
(* expire in id order and one counter says which have.                     *)
(***************************************************************************)
EXTENDS Integers, FiniteSets

CONSTANTS
    Texts,        \* command texts that validate_command lets through
    MaxCommands,  \* bound: ids handed out
    EchoesId      \* whether the terminal confirms with "ID=n<tab>text" or with the text alone

ASSUME QueueAssumption == MaxCommands \in Nat /\ EchoesId \in BOOLEAN

VARIABLES
    queue,     \* queues[sn]
    nextId,    \* NEXT_COMMAND_ID
    expired,   \* every command up to this id is older than its TTL
    inbox,     \* commands the terminal has received and not yet carried out
    executed,  \* ids the terminal has carried out at least once
    acks       \* confirmations the terminal may still send, or send again

vars == <<queue, nextId, expired, inbox, executed, acks>>

Ids == 1..MaxCommands

NoId == 0

Command == [id : Ids, text : Texts]

Confirmation == [id : Ids \cup {NoId}, text : Texts]

TypeOK ==
    /\ queue \subseteq Command
    /\ nextId \in 1..(MaxCommands + 1)
    /\ expired \in 0..MaxCommands
    /\ expired < nextId
    /\ inbox \subseteq Command
    /\ executed \subseteq Ids
    /\ acks \subseteq Confirmation

Init ==
    /\ queue = {}
    /\ nextId = 1
    /\ expired = 0
    /\ inbox = {}
    /\ executed = {}
    /\ acks = {}

(* Mutant: the counter is tested after the id was taken. *)
EnqueueLate(t) ==
    /\ nextId <= MaxCommands + 1
    /\ queue' = queue \cup {[id |-> nextId, text |-> t]}
    /\ nextId' = nextId + 1
    /\ UNCHANGED <<expired, inbox, executed, acks>>

(* CommandQueue::enqueue of a text that passed validate_command. *)
Enqueue(t) ==
    /\ nextId <= MaxCommands
    /\ queue' = queue \cup {[id |-> nextId, text |-> t]}
    /\ nextId' = nextId + 1
    /\ UNCHANGED <<expired, inbox, executed, acks>>

(* Time passes: the oldest command that has not expired reaches its TTL. *)
Tick ==
    /\ expired + 1 < nextId
    /\ expired' = expired + 1
    /\ UNCHANGED <<queue, nextId, inbox, executed, acks>>

Fresh == {c \in queue : c.id > expired}

(* handle_getrequest: expired commands are dropped, the others are sent    *)
(* and stay queued.                                                        *)
GetRequest ==
    /\ queue' = Fresh
    /\ inbox' = inbox \cup Fresh
    /\ UNCHANGED <<nextId, expired, executed, acks>>

(* The same handler when its answer does not reach the terminal. *)
GetRequestLost ==
    /\ queue' = Fresh
    /\ UNCHANGED <<nextId, expired, inbox, executed, acks>>

(* What the terminal reports of a command it has carried out. *)
ConfirmText(c) == [id |-> IF EchoesId THEN c.id ELSE NoId, text |-> c.text]

(* The terminal carries out a command it received. *)
Execute(c) ==
    /\ c \in inbox
    /\ inbox' = inbox \ {c}
    /\ executed' = executed \cup {c.id}
    /\ acks' = acks \cup {ConfirmText(c)}
    /\ UNCHANGED <<queue, nextId, expired>>

First(S) == {c \in S : \A d \in S : c.id <= d.id}

(* Mutant: the confirmation is compared by text although it carries an id. *)
MatchedByText(a) == First({c \in queue : c.text = a.text})

(* Mutant: the id is not parsed, and the whole line equals no command. *)
MatchedNever(a) == IF a.id # NoId THEN {} ELSE First({c \in queue : c.text = a.text})

(* CommandQueue::confirm of one line: by id when the line carries one,     *)
(* else the first command with that text.  A line "ID=n<tab>text" whose id *)
(* is gone falls back to comparing the whole line, which no validated      *)
(* command equals.                                                         *)
Matched(a) ==
    IF a.id # NoId
    THEN {c \in queue : c.id = a.id}
    ELSE First({c \in queue : c.text = a.text})

(* handle_devicecmd: every line of the body is confirmed under one lock.   *)
(* The lines of one body are distinct, so what they remove does not depend *)
(* on their order.  The terminal forgets the lines in F and may repeat the *)
(* others, as after an answer it never saw.                                *)
DeviceCmd(A, F) ==
    /\ queue' = queue \ UNION {Matched(a) : a \in A}
    /\ acks' = acks \ F
    /\ UNCHANGED <<nextId, expired, inbox, executed>>

(* A confirmation is lost for good: the terminal does not repeat it. *)
AckLost(a) ==
    /\ acks' = acks \ {a}
    /\ UNCHANGED <<queue, nextId, expired, inbox, executed>>

Next ==
    \/ \E t \in Texts : Enqueue(t)
    \/ Tick
    \/ GetRequest
    \/ GetRequestLost
    \/ \E c \in inbox : Execute(c)
    \/ \E A \in SUBSET acks : \E F \in SUBSET A : A # {} /\ DeviceCmd(A, F)
    \/ \E a \in acks : AckLost(a)

Spec == Init /\ [][Next]_vars

(* The terminal polls every few seconds and carries out what it is given;  *)
(* of the answers and of the confirmations that are sent again and again   *)
(* some get through.  Nothing is assumed of the TTL, nor that any one      *)
(* command or confirmation is ever favoured.                               *)
Fairness ==
    /\ SF_vars(GetRequest)
    /\ WF_vars(\E c \in inbox : Execute(c))
    /\ SF_vars(\E a \in acks : DeviceCmd({a}, {a}))

FairSpec == Spec /\ Fairness

----------------------------------------------------------------------------
(* A command leaves the queue only because the terminal has carried it out *)
(* or its TTL has passed, over lost answers, lost and repeated             *)
(* confirmations and several commands with one text (confirm, get_pending).*)
RemovedForCause ==
    \A i \in 1..(nextId - 1) :
        \/ \E c \in queue : c.id = i
        \/ i \in executed
        \/ i <= expired

(* Every command leaves the queue although the TTL is never relied on:     *)
(* a poll gets through, the terminal carries the command out, and its      *)
(* confirmation, lost or not, is produced again by the next poll.          *)
Settles ==
    \A i \in Ids : (\E c \in queue : c.id = i) ~> ~(\E c \in queue : c.id = i)
=============================================================================
