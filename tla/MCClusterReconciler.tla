------------------------- MODULE MCClusterReconciler -------------------------
(* Constants of ClusterReconciler for TLC. *)
EXTENDS ReconcilerProperties, TLC

FullPipeline ==
  <<"metal-proxy", "metal-device-plugin", "metal-exporter",
    "metal-scheduler-extender">>

PairPipeline == <<"metal-proxy", "metal-device-plugin">>

(* The component that is told coresPerSlot and the one a spec can disable. *)
TunedPipeline == <<"metal-device-plugin", "metal-exporter">>

ExtenderPipeline == <<"metal-scheduler-extender">>

Extender == {"metal-scheduler-extender"}

None == {}

(* Not the one Reconcile visits first. *)
Plugin == {"metal-device-plugin"}

S(rev, cores, exporter, extender) ==
  [rev |-> rev, cores |-> cores, exporter |-> exporter, extender |-> extender]

(* Two specs that differ in every field the controller looks at. *)
TwoSpecs == {S(1, 10, TRUE, TRUE), S(2, 0, FALSE, TRUE)}

PlainSpecs == {S(1, 10, TRUE, TRUE), S(2, 5, TRUE, TRUE)}

OneSpec == {S(1, 10, TRUE, TRUE)}

B(create, edit, fault, restart, relist, foreign) ==
  [create |-> create, edit |-> edit, fault |-> fault, restart |-> restart,
   relist |-> relist, foreign |-> foreign]

SingleBudget == {B(2, 1, 0, 1, 1, 0)}

(* Either one name is used again or an object is deleted by hand. *)
ContentionBudgets == {B(3, 0, 0, 0, 1, 0), B(2, 0, 0, 0, 1, 1)}

LiveBudget  == {B(1, 1, 1, 1, 0, 1)}
ClaimBudget == {B(1, 1, 0, 0, 0, 0)}

(* Clusters only differ by their names; for safety properties. *)
SameClusters == Permutations(Clusters)
=============================================================================
