-------------------------- MODULE NodeRolloutProofs --------------------------
(***************************************************************************)
(* The status of the cluster counts no more ready nodes than nodes, for    *)
(* any finite set of nodes and any number of outside events.               *)
(***************************************************************************)
EXTENDS NodeRollout, FiniteSetTheorems, TLAPS

(* What List and Patch pass on: the counts of a view of the nodes. *)
Counted(c) ==
  /\ c.total \in 0 .. Cardinality(Nodes)
  /\ c.ready \in 0 .. Cardinality(Nodes)
  /\ c.ready <= c.total

CountsOrdered == \A c \in counts : Counted(c)

(* The selector makes one set part of the other, so one count bounds the   *)
(* other (updateStatus lists with MatchingLabels, lines 463-477).          *)
LEMMA CountOrdered ==
  ASSUME NEW v \in [family: SUBSET Nodes, ready: SUBSET Nodes]
  PROVE  /\ Count(v) \in [total: 0 .. Cardinality(Nodes), ready: 0 .. Cardinality(Nodes)]
         /\ Counted(Count(v))
<1>1. /\ v.family \subseteq Nodes
      /\ v.family \cap v.ready \subseteq v.family
      /\ v.family \cap v.ready \subseteq Nodes
  OBVIOUS
<1>2. IsFiniteSet(Nodes) /\ IsFiniteSet(v.family)
  BY <1>1, NodesAssumption, FS_Subset
<1>3. /\ Cardinality(v.family) \in Nat
      /\ Cardinality(v.family \cap v.ready) \in Nat
      /\ Cardinality(Nodes) \in Nat
  BY <1>1, <1>2, FS_Subset, FS_CardinalityType
<1>4. /\ Cardinality(v.family) <= Cardinality(Nodes)
      /\ Cardinality(v.family \cap v.ready) <= Cardinality(Nodes)
      /\ Cardinality(v.family \cap v.ready) <= Cardinality(v.family)
  BY <1>1, <1>2, FS_Subset
<1> QED BY <1>3, <1>4 DEF Count, Counted

LEMMA ViewType ==
  ASSUME TypeOK
  PROVE  View \in [family: SUBSET Nodes, ready: SUBSET Nodes]
BY DEF TypeOK, View

RolloutInv == TypeOK /\ CountsOrdered

LEMMA InitRollout == Init => RolloutInv
<1> SUFFICES ASSUME Init PROVE RolloutInv
  OBVIOUS
<1>1. View \in [family: SUBSET Nodes, ready: SUBSET Nodes]
  BY DEF Init, View
<1>2. CountsOrdered
  BY DEF Init, CountsOrdered
<1>3. status \in Counts /\ status.ready <= status.total /\ budget \in Nat
  BY RolloutBudgetAssumption DEF Init, NoCounts, Counts
<1>4. /\ pod \in [Nodes -> {"none", "present", "ending"}]
      /\ process \in [Nodes -> {"none", "label", "up"}]
  BY DEF Init
<1>5. /\ family \subseteq Nodes /\ facts \subseteq Nodes /\ ready \subseteq Nodes
      /\ event \in BOOLEAN /\ queued \in BOOLEAN /\ counts = {}
      /\ seen \in [family: SUBSET Nodes, ready: SUBSET Nodes]
  BY <1>1 DEF Init
<1>6. TypeOK
  BY <1>3, <1>4, <1>5 DEF TypeOK
<1> QED BY <1>2, <1>6 DEF RolloutInv

LEMMA SpendType ==
  ASSUME TypeOK, Spend
  PROVE  budget' \in Nat
BY DEF TypeOK, Spend

LEMMA NextRollout == RolloutInv /\ [Next]_vars => RolloutInv'
<1> SUFFICES ASSUME RolloutInv, [Next]_vars PROVE RolloutInv'
  OBVIOUS
<1> USE DEF nodeVars, podVars, operatorVars
<1>a. TypeOK /\ CountsOrdered
  BY DEF RolloutInv
<1>1. ASSUME NEW n \in Nodes, Admin(n)
      PROVE  RolloutInv'
  <2>1. budget' \in Nat
    BY <1>a, <1>1, SpendType DEF Admin, AdminLabels, AdminUnlabels, ReadyChanges
  <2>2. family' \subseteq Nodes /\ ready' \subseteq Nodes
    BY <1>a, <1>1 DEF Admin, AdminLabels, AdminUnlabels, ReadyChanges, TypeOK
  <2>3. UNCHANGED <<facts, podVars, event, operatorVars>>
    BY <1>1 DEF Admin, AdminLabels, AdminUnlabels, ReadyChanges
  <2> QED BY <1>a, <2>1, <2>2, <2>3 DEF RolloutInv, TypeOK, CountsOrdered
<1>2. ASSUME NEW n \in Nodes, DaemonSet(n)
      PROVE  RolloutInv'
  BY <1>a, <1>2 DEF DaemonSet, CreatePod, DeletePod, PodGone, RolloutInv, TypeOK, CountsOrdered
<1>3. ASSUME NEW n \in Nodes, Plugin(n) \/ Crash(n)
      PROVE  RolloutInv'
  <2>1. budget' \in Nat
    BY <1>a, <1>3, SpendType
       DEF Plugin, StartPlugin, LabelNode, LabelNodeFails, Crash, TypeOK
  <2>2. /\ family' \subseteq Nodes /\ facts' \subseteq Nodes
        /\ process' \in [Nodes -> {"none", "label", "up"}] /\ event' \in BOOLEAN
    BY <1>a, <1>3 DEF Plugin, StartPlugin, LabelNode, LabelNodeFails, Crash, TypeOK
  <2>3. UNCHANGED <<ready, pod, operatorVars>>
    BY <1>3 DEF Plugin, StartPlugin, LabelNode, LabelNodeFails, Crash
  <2> QED BY <1>a, <2>1, <2>2, <2>3 DEF RolloutInv, TypeOK, CountsOrdered
<1>4. CASE SyncNodes \/ DeliverEvent \/ Resync
  <2>1. View \in [family: SUBSET Nodes, ready: SUBSET Nodes]
    BY <1>a, ViewType
  <2> QED BY <1>a, <1>4, <2>1
       DEF SyncNodes, DeliverEvent, Resync, RolloutInv, TypeOK, CountsOrdered
<1>5. CASE ListNodes
  <2>1. /\ Count(seen) \in [total: 0 .. Cardinality(Nodes), ready: 0 .. Cardinality(Nodes)]
        /\ Counted(Count(seen))
    BY <1>a, CountOrdered DEF TypeOK
  <2>2. counts' = {Count(seen)} /\ queued' = FALSE
        /\ UNCHANGED <<nodeVars, podVars, event, seen, status, budget>>
    BY <1>5 DEF ListNodes
  <2>3. CountsOrdered'
    BY <2>1, <2>2 DEF CountsOrdered
  <2>4. TypeOK'
    BY <1>a, <2>1, <2>2 DEF TypeOK
  <2> QED BY <2>3, <2>4 DEF RolloutInv
<1>6. CASE PatchStatus
  <2>1. PICK c : /\ c \in [total: 0 .. Cardinality(Nodes), ready: 0 .. Cardinality(Nodes)]
                 /\ counts = {c}
    BY <1>a, <1>6 DEF PatchStatus, TypeOK
  <2>2. Counted(c)
    BY <1>a, <2>1 DEF CountsOrdered
  <2>3. /\ status' = c /\ counts' = {} /\ queued' = (queued \/ c # status)
        /\ UNCHANGED <<nodeVars, podVars, event, seen, budget>>
    BY <1>6, <2>1 DEF PatchStatus
  <2>4. c \in Counts /\ c.ready <= c.total
    BY <2>1, <2>2, FS_CardinalityType, NodesAssumption DEF Counts, Counted
  <2>5. queued' \in BOOLEAN
    BY <1>a, <2>3 DEF TypeOK
  <2>6. TypeOK'
    BY <1>a, <2>3, <2>4, <2>5 DEF TypeOK
  <2> QED BY <2>3, <2>6 DEF RolloutInv, CountsOrdered
<1>7. CASE PatchFails
  <2>1. budget' \in Nat
    BY <1>a, <1>7, SpendType DEF PatchFails
  <2> QED BY <1>a, <1>7, <2>1 DEF PatchFails, RolloutInv, TypeOK, CountsOrdered
<1>8. CASE UNCHANGED vars
  BY <1>a, <1>8 DEF vars, RolloutInv, TypeOK, CountsOrdered
<1> QED BY <1>1, <1>2, <1>3, <1>4, <1>5, <1>6, <1>7, <1>8 DEF Next, Operator

(***************************************************************************)
(* The state is well typed, and the status never reports more ready nodes  *)
(* than nodes, whatever happens between List and Patch.                    *)
(***************************************************************************)
THEOREM TypeCorrect == Spec => []TypeOK
<1>1. RolloutInv => TypeOK
  BY DEF RolloutInv
<1> QED BY <1>1, InitRollout, NextRollout, PTL DEF Spec

-----------------------------------------------------------------------------
(* A plugin lives in its pod. *)
ProcessInPod == \A n \in Nodes : process[n] # "none" => pod[n] # "none"

LEMMA ProcessStaysInPod ==
  ASSUME TypeOK, ProcessInPod, [Next]_vars
  PROVE  ProcessInPod'
<1> USE DEF podVars
<1>1. ASSUME NEW n \in Nodes, Admin(n)
      PROVE  ProcessInPod'
  BY <1>1 DEF Admin, AdminLabels, AdminUnlabels, ReadyChanges, ProcessInPod
<1>2. ASSUME NEW n \in Nodes, DaemonSet(n)
      PROVE  ProcessInPod'
  BY <1>2 DEF DaemonSet, CreatePod, DeletePod, PodGone, ProcessInPod, TypeOK
<1>3. ASSUME NEW n \in Nodes, Plugin(n) \/ Crash(n)
      PROVE  ProcessInPod'
  BY <1>3 DEF Plugin, StartPlugin, LabelNode, LabelNodeFails, Crash, ProcessInPod, TypeOK
<1>4. CASE SyncNodes \/ DeliverEvent \/ Resync \/ Operator \/ UNCHANGED vars
  BY <1>4 DEF SyncNodes, DeliverEvent, Resync, Operator, ListNodes, PatchStatus,
              PatchFails, vars, ProcessInPod
<1> QED BY <1>1, <1>2, <1>3, <1>4 DEF Next

(***************************************************************************)
(* A node that has lost its label and its pod stays without both until an  *)
(* administrator labels it, although the plugin writes the label itself.   *)
(***************************************************************************)
THEOREM LeftForGoodAlways == Spec => LeftForGood
<1> DEFINE Stays ==
      \A n \in Nodes :
        n \notin family /\ pod[n] = "none" =>
          AdminLabels(n) \/ (n \notin family' /\ pod'[n] = "none")
<1>1. TypeOK /\ ProcessInPod /\ [Next]_vars => Stays
  <2> SUFFICES ASSUME TypeOK, ProcessInPod, [Next]_vars, NEW n \in Nodes,
                      n \notin family, pod[n] = "none", ~ AdminLabels(n)
               PROVE  n \notin family' /\ pod'[n] = "none"
    OBVIOUS
  <2> USE DEF nodeVars, podVars
  <2>0. process[n] = "none"
    BY DEF ProcessInPod
  <2>1. ASSUME NEW m \in Nodes, Admin(m)
        PROVE  n \notin family' /\ pod'[n] = "none"
    BY <2>1 DEF Admin, AdminLabels, AdminUnlabels, ReadyChanges
  <2>2. ASSUME NEW m \in Nodes, DaemonSet(m)
        PROVE  n \notin family' /\ pod'[n] = "none"
    BY <2>2 DEF DaemonSet, CreatePod, DeletePod, PodGone, Selected, TypeOK
  <2>3. ASSUME NEW m \in Nodes, Plugin(m) \/ Crash(m)
        PROVE  n \notin family' /\ pod'[n] = "none"
    BY <2>0, <2>3 DEF Plugin, StartPlugin, LabelNode, LabelNodeFails, Crash
  <2>4. CASE SyncNodes \/ DeliverEvent \/ Resync \/ Operator \/ UNCHANGED vars
    BY <2>4 DEF SyncNodes, DeliverEvent, Resync, Operator, ListNodes, PatchStatus,
                PatchFails, vars
  <2> QED BY <2>1, <2>2, <2>3, <2>4 DEF Next
<1>2. Init => ProcessInPod
  BY DEF Init, ProcessInPod
<1>3. TypeOK /\ ProcessInPod /\ [Next]_vars => ProcessInPod'
  BY ProcessStaysInPod
<1>4. Spec => []ProcessInPod
  BY <1>2, <1>3, TypeCorrect, PTL DEF Spec
<1>5. TypeOK /\ ProcessInPod /\ [Next]_vars => [Stays]_vars
  BY <1>1
<1> QED BY <1>4, <1>5, TypeCorrect, PTL DEF Spec, LeftForGood
=============================================================================
