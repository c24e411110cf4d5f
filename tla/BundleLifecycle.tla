-------------------------- MODULE BundleLifecycle --------------------------
(***************************************************************************)
(* What the three pipelines promise a client who submitted a bundle,       *)
(* without pipelines, tables or transactions: a status per bundle and the  *)
(* set of bundles whose operations the network has executed.  At most      *)
(* SlotCapacity bundles are PROCESSING at a time, only a promoted bundle   *)
(* is executed, COMPLETED is said of executed bundles only, and EXPIRED    *)
(* and COMPLETED are final.  FAILED is not: a bundle given up too early is *)
(* corrected to COMPLETED once its transaction is seen to have succeeded.  *)
(***************************************************************************)
EXTENDS Naturals, FiniteSets

CONSTANTS Bundles, SlotCapacity

VARIABLES
  status,    \* bundle -> what the provider says of it
  executed   \* bundles the network has executed

lifecycleVars == <<status, executed>>

Processing == {b \in Bundles : status[b] = "PROCESSING"}

Init ==
  /\ status = [b \in Bundles |-> "ABSENT"]
  /\ executed = {}

Move(b, from, to) ==
  /\ status[b] \in from
  /\ status' = [status EXCEPT ![b] = to]
  /\ UNCHANGED executed

Submit(b) == Move(b, {"ABSENT"}, "PENDING")

Promote(b) ==
  /\ Move(b, {"PENDING"}, "PROCESSING")
  /\ Cardinality(Processing) < SlotCapacity

Expire(b) == Move(b, {"PENDING", "PROCESSING"}, "EXPIRED")

Fail(b) == Move(b, {"PROCESSING"}, "FAILED")

Execute(b) ==
  /\ status[b] \notin {"ABSENT", "PENDING", "COMPLETED"}
  /\ b \notin executed
  /\ executed' = executed \cup {b}
  /\ UNCHANGED status

Complete(b) ==
  /\ Move(b, {"PROCESSING", "FAILED"}, "COMPLETED")
  /\ b \in executed

\* Most of what the pipelines do is no business of a client.
Unseen == UNCHANGED lifecycleVars

Next ==
  \/ Unseen
  \/ \E b \in Bundles :
       Submit(b) \/ Promote(b) \/ Expire(b) \/ Fail(b) \/ Execute(b) \/ Complete(b)

Spec == Init /\ [][Next]_lifecycleVars
=============================================================================
