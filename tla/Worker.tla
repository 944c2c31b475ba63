------------------------------- MODULE Worker -------------------------------
(***************************************************************************)
(* The life cycle that the interface javafx.concurrent.Worker promises to  *)
(* every observer of a worker's state property.  It is the abstract        *)
(* specification that Task, Service and ScheduledService are checked       *)
(* against; a worker here is nothing but the value of that property.       *)
(*                                                                         *)
(* LateCancel says whether a worker that already SUCCEEDED or FAILED may   *)
(* still be moved to CANCELLED.  The documentation says it may not         *)
(* (LateCancel = FALSE); the code sometimes does it (LateCancel = TRUE).   *)
(* Reusable says whether a concluded worker may return to READY: a Service *)
(* may, a Task may not.                                                    *)
(***************************************************************************)
CONSTANTS Workers, LateCancel, Reusable

VARIABLE state

(* The enumeration Worker.State. *)
State == {"READY", "SCHEDULED", "RUNNING", "SUCCEEDED", "CANCELLED", "FAILED"}

(* The ending states a worker reaches by itself, and all ending states. *)
Concluded == {"SUCCEEDED", "FAILED"}
Ended == Concluded \union {"CANCELLED"}

(* The states in which the worker's running property is true. *)
Active == {"SCHEDULED", "RUNNING"}

(* The moves the documentation of Worker and Worker.State allows. *)
LegalMove(from, to) ==
  \/ from = "READY" /\ to = "SCHEDULED"
  \/ from = "SCHEDULED" /\ to = "RUNNING"
  \/ from = "RUNNING" /\ to \in Concluded
  \/ from \in {"READY", "SCHEDULED", "RUNNING"} /\ to = "CANCELLED"
  \/ LateCancel /\ from \in Concluded /\ to = "CANCELLED"
  \/ Reusable /\ from \in Ended /\ to = "READY"

Init == state = [w \in Workers |-> "READY"]

Move(w, to) ==
  /\ LegalMove(state[w], to)
  /\ state' = [state EXCEPT ![w] = to]

Next == \E w \in Workers, to \in State : Move(w, to)

Spec == Init /\ [][Next]_state
=============================================================================
