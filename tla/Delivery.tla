------------------------------ MODULE Delivery ------------------------------
(***************************************************************************)
(* What PeerCore of src/core/peer-core.mjs promises to whoever sends under *)
(* a message id, with no call, lock, daemon or ledger in sight.  An id is  *)
(* reserved for one content and one target; bytes leave under it at most   *)
(* once, and at most once more under its one recovery, as they were        *)
(* reserved and before anything is said of how that ended; what was said,  *)
(* and what came back, is never taken back.  PeerSend implements this, and *)
(* so do the doorbells and the two extensions, each for the ids that it    *)
(* derives.                                                                *)
(***************************************************************************)
CONSTANTS Messages, Contents, Targets,
          Reports,     \* what may come back about a message
          Droppable     \* the messages whose reservation may be dropped again

Vias == {"first", "second"}
None == [content |-> "none"]

VARIABLES request,      \* of each message: content and target, or None
          recovery,     \* the messages whose recovery is reserved
          left,         \* frames that reached a socket; id only tells them apart
          outcome,      \* of each transport: "none", "written" or "failed"
          evidence,     \* of each message: what came back
          linked        \* messages that an operator linked an answer to

deliveryVars == <<request, recovery, left, outcome, evidence, linked>>

DeliveryInit ==
    /\ request = [m \in Messages |-> None] /\ recovery = {} /\ left = {}
    /\ outcome = [m \in Messages |-> [v \in Vias |-> "none"]]
    /\ evidence = [m \in Messages |-> {}] /\ linked = {}

Under(m, v) == {f \in left : f.msg = m /\ f.via = v}
Allowed(m, v) == request[m] # None /\ (v = "second" => m \in recovery)

\* The id is taken, for good unless it can be dropped.
Reserve(m) ==
    /\ request[m] = None
    /\ \E c \in Contents, t \in Targets :
           request' = [request EXCEPT ![m] = [content |-> c, to |-> t]]
    /\ UNCHANGED <<recovery, left, outcome, evidence, linked>>

Recover(m) ==
    /\ request[m] # None /\ m \notin recovery
    /\ recovery' = recovery \cup {m}
    /\ UNCHANGED <<request, left, outcome, evidence, linked>>

\* Nothing was attempted under the reservation, and nothing will be.
Drop(m) ==
    /\ m \in Droppable /\ m \notin recovery
    /\ Under(m, "first") = {} /\ outcome[m]["first"] = "none"
    /\ request' = [request EXCEPT ![m] = None]
    /\ UNCHANGED <<recovery, left, outcome, evidence, linked>>

\* Bytes leave: what is reserved, for whom it is reserved, once.
Transmit(m, v) ==
    /\ Allowed(m, v) /\ Under(m, v) = {} /\ outcome[m][v] = "none"
    /\ \E f \in left' :
           /\ left' = left \cup {f} /\ f.msg = m /\ f.via = v
           /\ f.content = request[m].content /\ f.to = request[m].to
    /\ UNCHANGED <<request, recovery, outcome, evidence, linked>>

\* How a transport ended is said once, and "written" only of bytes that left.
Settle(m, v, result) ==
    /\ Allowed(m, v) /\ outcome[m][v] = "none"
    /\ result = "written" => Under(m, v) # {}
    /\ outcome' = [outcome EXCEPT ![m][v] = result]
    /\ UNCHANGED <<request, recovery, left, evidence, linked>>

\* What comes back is about bytes that left, unless an operator says so.
Learn(m, e) ==
    /\ \E v \in Vias : Under(m, v) # {}
    /\ evidence' = [evidence EXCEPT ![m] = @ \cup {e}]
    /\ UNCHANGED <<request, recovery, left, outcome, linked>>

Link(m, e) ==
    /\ request[m] # None
    /\ evidence' = [evidence EXCEPT ![m] = @ \cup {e}] /\ linked' = linked \cup {m}
    /\ UNCHANGED <<request, recovery, left, outcome>>

DeliveryNext ==
    \E m \in Messages :
        \/ Reserve(m) \/ Recover(m) \/ Drop(m)
        \/ \E v \in Vias :
               Transmit(m, v) \/ \E result \in {"written", "failed"} : Settle(m, v, result)
        \/ \E e \in Reports : Learn(m, e) \/ Link(m, e)

DeliverySpec == DeliveryInit /\ [][DeliveryNext]_deliveryVars
=============================================================================
