-------------------------- MODULE DeliveryLifecycle --------------------------
(***************************************************************************)
(* The lifecycle drawn in crates/timekeep-core/src/model/pending_delivery.rs*)
(* for a delivery that is stored for retry, with the one state the drawing  *)
(* lacks: "split", a dead letter whose row is still there.  "delivered" and *)
(* "dead" are final: nothing is tried or accepted in them.                  *)
(***************************************************************************)
CONSTANT Deliveries

VARIABLES
  trying,     \* deliveries being offered to the external systems
  accepted,   \* deliveries some external system took
  status      \* pending, delivered (the row is deleted), split or dead

Init ==
  /\ trying = {} /\ accepted = {}
  /\ status = [d \in Deliveries |-> "pending"]

Try(d) ==
  /\ status[d] \in {"pending", "split"}
  /\ trying' = trying \cup {d}
  /\ UNCHANGED <<accepted, status>>

Accept(d) ==
  /\ d \in trying /\ trying' = trying \ {d}
  /\ accepted' = accepted \cup {d}
  /\ UNCHANGED status

\* Every system refused it, or the process died.
GiveUp(d) ==
  /\ d \in trying /\ trying' = trying \ {d}
  /\ UNCHANGED <<accepted, status>>

Turn(d, from, to) ==
  /\ d \notin trying /\ status[d] = from
  /\ status' = [status EXCEPT ![d] = to]
  /\ UNCHANGED <<trying, accepted>>

Record(d) == Turn(d, "pending", "split")

Delete(d) == Turn(d, "split", "dead") \/ (d \in accepted /\ Turn(d, "pending", "delivered"))

Next == \E d \in Deliveries : Try(d) \/ Accept(d) \/ GiveUp(d) \/ Record(d) \/ Delete(d)

Spec == Init /\ [][Next]_<<trying, accepted, status>>
=============================================================================
