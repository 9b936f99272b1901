----------------------------- MODULE ControlLease -----------------------------
(***************************************************************************)
(* What SetControllerReference and the order of the components in          *)
(* Reconcile promise together (pkg/controller/cluster_controller.go): all  *)
(* AppleGPUClusters want the same managed objects, and one of them at a    *)
(* time controls them, for as long as it exists.  Nothing here knows of    *)
(* objects, caches or retries.                                             *)
(***************************************************************************)
CONSTANTS
  Clusters,
  Nobody

VARIABLES
  alive,       \* the clusters that exist
  holder       \* the one that controls the managed objects

leaseVars == <<alive, holder>>

Init == alive = {} /\ holder = Nobody

Create(n) ==
  /\ n \notin alive
  /\ alive' = alive \cup {n}
  /\ UNCHANGED holder

(* The first managed object is created, or adopted. *)
Take(n) ==
  /\ n \in alive
  /\ holder = Nobody
  /\ holder' = n
  /\ UNCHANGED alive

(* A cluster goes, and with it its controller references lose their force. *)
Remove(n) ==
  /\ n \in alive
  /\ alive' = alive \ {n}
  /\ holder' = IF holder = n THEN Nobody ELSE holder

Next == \E n \in Clusters : Create(n) \/ Take(n) \/ Remove(n)

Spec == Init /\ [][Next]_leaseVars
=============================================================================
