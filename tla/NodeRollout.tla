----------------------------- MODULE NodeRollout -----------------------------
(***************************************************************************)
(* The nodes of the cluster as the operator sees them: the chip-family     *)
(* label its DaemonSets select by (nodeSelector), the device plugin pods   *)
(* that follow from it and write that very label (LabelNode), and the node *)
(* counts in the status of the AppleGPUCluster (updateStatus).             *)
(*                                                                         *)
(* All nodes are Macs.  Of Reconcile, which ClusterReconciler.tla models,  *)
(* only its last call is of interest here: a List from the informer cache  *)
(* and then a Patch.                                                       *)
(***************************************************************************)
EXTENDS Naturals, FiniteSets

CONSTANTS
  Nodes,
  Budget       \* number of outside events

ASSUME NodesAssumption == IsFiniteSet(Nodes)

ASSUME RolloutBudgetAssumption == Budget \in Nat

VARIABLES
  family,      \* nodes with apple.com/chip-family=m-series
  facts,       \* nodes with the labels only the plugin writes
  ready,       \* nodes whose Ready condition is true
  pod,         \* the device plugin pod of each node
  process,     \* and the process in it
  event,       \* the status of a DaemonSet has changed
  seen,        \* the node cache of the operator: labelled nodes, ready nodes
  queued,      \* the cluster is in the workqueue
  counts,      \* the counts about to be patched
  status,      \* totalNodes and readyNodes as stored
  budget       \* outside events left

nodeVars     == <<family, facts, ready>>
podVars      == <<pod, process>>
operatorVars == <<seen, queued, counts, status>>

vars == <<nodeVars, podVars, event, operatorVars, budget>>

-----------------------------------------------------------------------------
View == [family |-> family, ready |-> ready]

Counts == [total: Nat, ready: Nat]

NoCounts == [total |-> 0, ready |-> 0]

Spend == budget > 0 /\ budget' = budget - 1

(* The DaemonSets run on the nodes with the label. *)
SelectsAllMutant(n) == TRUE                \* the DaemonSet has no nodeSelector

SelectedMutant(n) == n \in facts           \* a label of the plugin's own

Selected(n) == n \in family

CountMutant(v) ==                          \* ready nodes without the selector
  [total |-> Cardinality(v.family), ready |-> Cardinality(v.ready)]

Count(v) ==
  [total |-> Cardinality(v.family), ready |-> Cardinality(v.family \cap v.ready)]

TypeOK ==
  /\ family \subseteq Nodes /\ facts \subseteq Nodes /\ ready \subseteq Nodes
  /\ pod \in [Nodes -> {"none", "present", "ending"}]
  /\ process \in [Nodes -> {"none", "label", "up"}]
  /\ event \in BOOLEAN
  /\ seen \in [family: SUBSET Nodes, ready: SUBSET Nodes]
  /\ queued \in BOOLEAN
  /\ counts \in {{}} \cup {{c} : c \in [total: 0 .. Cardinality(Nodes), ready: 0 .. Cardinality(Nodes)]}
  /\ status \in Counts
  /\ status.ready <= status.total
  /\ budget \in Nat

(* The cluster object has just been created; some nodes were labelled when *)
(* they joined.                                                            *)
Init ==
  /\ family \in SUBSET Nodes
  /\ facts = {}
  /\ ready = Nodes
  /\ pod = [n \in Nodes |-> "none"]
  /\ process = [n \in Nodes |-> "none"]
  /\ event = FALSE
  /\ seen = View
  /\ queued = TRUE
  /\ counts = {}
  /\ status = NoCounts
  /\ budget = Budget

-----------------------------------------------------------------------------
(* Administrators, by hand or with bootstrap-cluster.sh, and the kubelet. *)

AdminLabels(n) ==
  /\ n \notin family
  /\ Spend
  /\ family' = family \cup {n}
  /\ UNCHANGED <<facts, ready, podVars, event, operatorVars>>

AdminUnlabels(n) ==
  /\ n \in family
  /\ Spend
  /\ family' = family \ {n}
  /\ UNCHANGED <<facts, ready, podVars, event, operatorVars>>

ReadyChanges(n) ==
  /\ Spend
  /\ ready' = IF n \in ready THEN ready \ {n} ELSE ready \cup {n}
  /\ UNCHANGED <<family, facts, podVars, event, operatorVars>>

-----------------------------------------------------------------------------
(* The DaemonSet controller and the pods. Every change shows in the status *)
(* of the DaemonSet.                                                       *)

CreatePod(n) ==
  /\ Selected(n)
  /\ pod[n] = "none"
  /\ pod' = [pod EXCEPT ![n] = "present"]
  /\ event' = TRUE
  /\ UNCHANGED <<nodeVars, process, operatorVars, budget>>

DeletePod(n) ==
  /\ ~ Selected(n)
  /\ pod[n] = "present"
  /\ pod' = [pod EXCEPT ![n] = "ending"]
  /\ event' = TRUE
  /\ UNCHANGED <<nodeVars, process, operatorVars, budget>>

PodGone(n) ==
  /\ pod[n] = "ending"
  /\ pod' = [pod EXCEPT ![n] = "none"]
  /\ process' = [process EXCEPT ![n] = "none"]
  /\ event' = TRUE
  /\ UNCHANGED <<nodeVars, operatorVars, budget>>

StartPlugin(n) ==
  /\ pod[n] = "present"
  /\ n \in ready
  /\ process[n] = "none"
  /\ process' = [process EXCEPT ![n] = "label"]
  /\ UNCHANGED <<nodeVars, pod, event, operatorVars, budget>>

(* Also while the pod is ending, and when the label was removed meanwhile. *)
LabelNodeMutant(n) ==                      \* again and again
  /\ process[n] \in {"label", "up"}
  /\ process' = [process EXCEPT ![n] = "up"]
  /\ family' = family \cup {n}
  /\ facts' = facts \cup {n}
  /\ event' = TRUE
  /\ UNCHANGED <<ready, pod, operatorVars, budget>>

LabelNode(n) ==
  /\ process[n] = "label"
  /\ process' = [process EXCEPT ![n] = "up"]
  /\ family' = family \cup {n}
  /\ facts' = facts \cup {n}
  /\ event' = TRUE
  /\ UNCHANGED <<ready, pod, operatorVars, budget>>

LabelNodeFails(n) ==
  /\ process[n] = "label"
  /\ Spend
  /\ process' = [process EXCEPT ![n] = "up"]
  /\ event' = TRUE
  /\ UNCHANGED <<nodeVars, pod, operatorVars>>

Crash(n) ==
  /\ process[n] # "none"
  /\ Spend
  /\ process' = [process EXCEPT ![n] = "none"]
  /\ event' = TRUE
  /\ UNCHANGED <<nodeVars, pod, operatorVars>>

-----------------------------------------------------------------------------
(* The operator.  Nodes are cached but wake nobody: SetupWithManager knows *)
(* the cluster, its DaemonSets and its Deployment only.                    *)

SyncNodes ==
  /\ seen # View
  /\ seen' = View
  /\ UNCHANGED <<nodeVars, podVars, event, queued, counts, status, budget>>

DeliverEvent ==
  /\ event
  /\ event' = FALSE
  /\ queued' = TRUE
  /\ UNCHANGED <<nodeVars, podVars, seen, counts, status, budget>>

(* Every ten hours the informer hands out every object again. *)
Resync ==
  /\ ~ queued
  /\ queued' = TRUE
  /\ UNCHANGED <<nodeVars, podVars, event, seen, counts, status, budget>>

ListNodes ==
  /\ counts = {}
  /\ queued
  /\ queued' = FALSE
  /\ counts' = {Count(seen)}
  /\ UNCHANGED <<nodeVars, podVars, event, seen, status, budget>>

(* A status that changes is an event of the cluster itself. *)
PatchStatusMutant ==                       \* only when totalNodes changes
  /\ counts # {}
  /\ counts' = {}
  /\ \A c \in counts :
       /\ status' = IF c.total = status.total THEN status ELSE c
       /\ queued' = (queued \/ c # status)
  /\ UNCHANGED <<nodeVars, podVars, event, seen, budget>>

PatchStatus ==
  /\ counts # {}
  /\ counts' = {}
  /\ \A c \in counts :
       /\ status' = c
       /\ queued' = (queued \/ c # status)
  /\ UNCHANGED <<nodeVars, podVars, event, seen, budget>>

PatchFails ==
  /\ counts # {}
  /\ Spend
  /\ counts' = {}
  /\ queued' = TRUE
  /\ UNCHANGED <<nodeVars, podVars, event, seen, status>>

-----------------------------------------------------------------------------
Admin(n) == AdminLabels(n) \/ AdminUnlabels(n) \/ ReadyChanges(n)

DaemonSet(n) == CreatePod(n) \/ DeletePod(n) \/ PodGone(n)

Plugin(n) == StartPlugin(n) \/ LabelNode(n) \/ LabelNodeFails(n)

Operator == ListNodes \/ PatchStatus \/ PatchFails

Next ==
  \/ \E n \in Nodes : Admin(n) \/ DaemonSet(n) \/ Plugin(n) \/ Crash(n)
  \/ SyncNodes
  \/ DeliverEvent
  \/ Resync
  \/ Operator

Spec == Init /\ [][Next]_vars

(* Controllers, kubelet and informers go on, and ten hours pass.  Nothing  *)
(* is assumed of administrators.                                           *)
Fairness ==
  /\ \A n \in Nodes : WF_vars(DaemonSet(n)) /\ WF_vars(Plugin(n))
  /\ WF_vars(SyncNodes)
  /\ WF_vars(DeliverEvent)
  /\ WF_vars(Resync)
  /\ WF_vars(Operator)

FairSpec == Spec /\ Fairness

-----------------------------------------------------------------------------
(***************************************************************************)
(* The counts in the status become right, although no change of a node     *)
(* leads to a reconcile and the List may be behind (updateStatus, lines    *)
(* 461-493).  Without Resync they need not: a node that turns NotReady     *)
(* changes nothing the operator watches.                                   *)
(***************************************************************************)
CountsCatchUp == <>[](status = Count(View))

(***************************************************************************)
(* A node that keeps its label and stays ready gets a plugin, although the *)
(* plugin that writes labels is started because of a label (nodeSelector,  *)
(* lines 439-445).                                                         *)
(***************************************************************************)
LabelledServes ==
  \A n \in Nodes : <>[](n \in family \cap ready) => <>[](process[n] = "up")

(***************************************************************************)
(* A node loses its plugin when the label is taken from it.  The plugin    *)
(* writes that label as well (LabelNode, lines 356-378), but only when it  *)
(* starts: a removal that meets a plugin under way is undone, one that     *)
(* meets a running plugin lasts, if nothing disturbs the node afterwards.  *)
(***************************************************************************)
UnlabelledLeaves ==
  \A n \in Nodes :
    (budget = 0 /\ n \notin family /\ process[n] = "up") ~>
       (n \notin family /\ pod[n] = "none")

(***************************************************************************)
(* Once label and pod are gone, a node comes back only by an               *)
(* administrator: no plugin is left that might still write the label, and  *)
(* none is started without it (nodeSelector, lines 439-445; LabelNode in   *)
(* device_plugin.go, lines 356-378).                                       *)
(***************************************************************************)
LeftForGood ==
  [][\A n \in Nodes :
       n \notin family /\ pod[n] = "none" =>
         AdminLabels(n) \/ (n \notin family' /\ pod'[n] = "none")]_vars

=============================================================================
