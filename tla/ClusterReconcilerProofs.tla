----------------------- MODULE ClusterReconcilerProofs -----------------------
(***************************************************************************)
(* Theorems about ClusterReconciler for any set of clusters, any order of  *)
(* the managed objects, any specs and any number of outside events.        *)
(***************************************************************************)
EXTENDS ReconcilerProperties, TLAPS

-----------------------------------------------------------------------------
(* Types of the operators of ApiObjects. *)

(* What the operator sends back is a spec again. *)
LEMMA RoundTripType ==
  ASSUME NEW s \in ClusterSpec
  PROVE  RoundTrip(s) \in ClusterSpec
BY DEF RoundTrip, ClusterSpec, DefaultCores

(* Every managed object has a template for every spec. *)
LEMMA TemplateType ==
  ASSUME NEW c \in AllObjects, NEW s \in ClusterSpec
  PROVE  TemplateFor(c, s) \in Template
<1>1. MetalProxyTemplate(s) \in Template
  BY DEF MetalProxyTemplate, Template, ClusterSpec
<1>2. DevicePluginTemplate(s) \in Template
  BY DEF DevicePluginTemplate, Template, ClusterSpec
<1>3. ExporterTemplate(s) \in Template
  BY DEF ExporterTemplate, Template, ClusterSpec
<1>4. ExtenderTemplate(s) \in Template
  BY DEF ExtenderTemplate, Template, ClusterSpec
<1> QED BY <1>1, <1>2, <1>3, <1>4 DEF TemplateFor, AllObjects

LEMMA ObjectsType == Objects \subseteq AllObjects
BY PipelineAssumption DEF Objects

LEMMA AbsentType ==
  ASSUME NEW rv \in Nat, NEW uid \in Nat
  PROVE  Absent(rv, uid) \in ClusterVersion
BY DEF Absent, NoSpec, DefaultCores, ClusterVersion, ClusterSpec

LEMMA NoObjectType == NoObject \in ObjectVersion
BY DEF NoObject, NoOwner, ChartTemplate, ObjectVersion, Owner, Template

LEMMA NextGenType ==
  ASSUME NEW v \in ClusterVersion
  PROVE  NextGen(v) \in ClusterVersion
<1>1. v.rv + 1 \in Nat /\ v.gen + 1 \in Nat
  BY DEF ClusterVersion
<1>2. [v EXCEPT !.rv = @ + 1] \in ClusterVersion
  BY <1>1 DEF ClusterVersion
<1> QED BY <1>1, <1>2 DEF NextGen, ClusterVersion

LEMMA WithFinalizerType ==
  ASSUME NEW v \in ClusterVersion
  PROVE  WithFinalizer(v) \in ClusterVersion
<1> DEFINE sent == [v EXCEPT !.spec = RoundTrip(@), !.fin = TRUE]
<1>1. v.spec \in ClusterSpec
  BY DEF ClusterVersion
<1>2. sent \in ClusterVersion
  BY <1>1, RoundTripType DEF ClusterVersion
<1>3. [sent EXCEPT !.rv = @ + 1] \in ClusterVersion
  <2> HIDE DEF sent
  <2> QED BY <1>2 DEF ClusterVersion
<1>4. NextGen(sent) \in ClusterVersion
  <2> HIDE DEF sent
  <2> QED BY <1>2, NextGenType
<1>5. WithFinalizer(v) = IF sent.spec = v.spec
                           THEN [sent EXCEPT !.rv = @ + 1] ELSE NextGen(sent)
  BY DEF WithFinalizer
<1> HIDE DEF sent
<1> QED BY <1>3, <1>4, <1>5

(* It touches the finalizer, the spec, and the counters, nothing else. *)
LEMMA FinalizerFields ==
  ASSUME NEW v \in ClusterVersion
  PROVE  LET w == WithFinalizer(v) IN
         /\ w.rv = v.rv + 1 /\ w.fin /\ w.exists = v.exists
         /\ w.uid = v.uid /\ w.deleting = v.deleting
BY DEF WithFinalizer, NextGen, ClusterVersion

LEMMA DesiredType ==
  ASSUME NEW stored \in ObjectVersion, NEW c \in Objects, NEW n \in Clusters,
         NEW held \in ClusterVersion
  PROVE  Desired(stored, c, n, held) \in ObjectVersion
<1>1. held.spec \in ClusterSpec /\ held.uid \in Nat /\ stored.rv \in Nat
  BY DEF ClusterVersion, ObjectVersion
<1>2. TemplateFor(c, held.spec) \in Template
  BY <1>1, TemplateType, ObjectsType
<1> QED BY <1>1, <1>2 DEF Desired, ObjectVersion, Owner

LEMMA PhaseType ==
  ASSUME NEW v \in ClusterVersion
  PROVE  PhaseFor(v) \in {"idle", "deletion", "finalizer", "namespace"}
BY DEF PhaseFor, ClusterVersion

-----------------------------------------------------------------------------
(* The part of the type invariant that each group of variables carries. *)

CrTypeOK ==
  /\ cr \in [Clusters -> ClusterVersion]
  /\ crCache \in [Clusters -> ClusterVersion]
  /\ crWatch \in [Clusters -> SUBSET ClusterVersion]

OwnedTypeOK ==
  /\ owned \in [Objects -> ObjectVersion]
  /\ ownedCache \in [Objects -> ObjectVersion]
  /\ ownedWatch \in [Objects -> SUBSET ObjectVersion]

NsTypeOK == ns \in BOOLEAN /\ nsCache \in BOOLEAN

WorkTypeOK ==
  /\ pc \in Phases
  /\ idx \in 0 .. Len(Pipeline)
  /\ cur \in Clusters \cup {NoCluster}
  /\ local \in ClusterVersion
  /\ pc # "idle" => cur \in Clusters
  /\ pc = "component" => idx \in 1 .. Len(Pipeline)

UserTypeOK ==
  /\ wanted \in [Clusters -> ClusterSpec]
  /\ budget \in [BudgetKinds -> Nat]

LEMMA TypeParts ==
  TypeOK <=> /\ CrTypeOK
             /\ OwnedTypeOK
             /\ NsTypeOK
             /\ queue \in SUBSET Clusters
             /\ WorkTypeOK
             /\ UserTypeOK
BY DEF TypeOK, CrTypeOK, OwnedTypeOK, NsTypeOK, WorkTypeOK, UserTypeOK

LEMMA PipelineLength == Len(Pipeline) \in Nat \ {0}
BY PipelineAssumption

LEMMA StoreClusterType ==
  ASSUME CrTypeOK, NEW n \in Clusters, NEW v \in ClusterVersion,
         StoreCluster(n, v)
  PROVE  CrTypeOK'
BY DEF CrTypeOK, StoreCluster

LEMMA StoreOwnedType ==
  ASSUME OwnedTypeOK, NEW c \in Objects, NEW v \in ObjectVersion,
         StoreOwned(c, v)
  PROVE  OwnedTypeOK'
<1>1. CASE v = owned[c]
  BY <1>1 DEF StoreOwned, ownedVars, OwnedTypeOK
<1>2. CASE v # owned[c]
  <2>1. [v EXCEPT !.rv = @ + 1] \in ObjectVersion
    BY DEF ObjectVersion
  <2> QED BY <1>2, <2>1 DEF StoreOwned, OwnedTypeOK
<1> QED BY <1>1, <1>2

LEMMA SpendType ==
  ASSUME UserTypeOK, NEW k \in BudgetKinds, Spend(k)
  PROVE  budget' \in [BudgetKinds -> Nat]
BY DEF UserTypeOK, Spend

LEMMA FinishType ==
  ASSUME Finish
  PROVE  WorkTypeOK' /\ pc' = "idle"
BY AbsentType, PipelineLength DEF Finish, WorkTypeOK, Phases

LEMMA RetryType ==
  ASSUME WorkTypeOK, queue \in SUBSET Clusters, pc # "idle", Retry
  PROVE  WorkTypeOK' /\ queue' \in SUBSET Clusters
BY FinishType DEF Retry, WorkTypeOK

LEMMA NextComponentType ==
  ASSUME WorkTypeOK, pc = "component", NextComponent
  PROVE  WorkTypeOK'
BY PipelineLength DEF NextComponent, WorkTypeOK, Phases

LEMMA OwnersType ==
  ASSUME NEW vs \in SUBSET ObjectVersion
  PROVE  OwnersOf(vs) \in SUBSET Clusters
BY DEF OwnersOf, ObjectVersion, Owner

-----------------------------------------------------------------------------
(* A watch and a list do the same: they show a version not seen before. *)
Shown ==
  \/ \E n \in Clusters : \E v \in crWatch[n] : SeeCluster(n, v)
  \/ \E c \in Objects : \E v \in ownedWatch[c] : SeeOwned(c, v)
  \/ SyncNamespace

LEMMA ShownSteps ==
  ASSUME UserTypeOK, Informers \/ Relists
  PROVE  Shown /\ UserTypeOK'
<1>1. ASSUME NEW n \in Clusters, DeliverCluster(n) \/ RelistCluster(n)
      PROVE  Shown /\ UserTypeOK'
  <2>1. PICK v \in crWatch[n] :
          SeeCluster(n, v) /\ (UNCHANGED budget \/ Spend("relist"))
    BY <1>1 DEF DeliverCluster, RelistCluster
  <2> QED BY <2>1, SpendType DEF Shown, SeeCluster, UserTypeOK, BudgetKinds
<1>2. ASSUME NEW c \in Objects, DeliverOwned(c) \/ RelistOwned(c)
      PROVE  Shown /\ UserTypeOK'
  <2>1. PICK v \in ownedWatch[c] :
          SeeOwned(c, v) /\ (UNCHANGED budget \/ Spend("relist"))
    BY <1>2 DEF DeliverOwned, RelistOwned
  <2> QED BY <2>1, SpendType DEF Shown, SeeOwned, UserTypeOK, BudgetKinds
<1>3. ASSUME SyncNamespace
      PROVE  Shown /\ UserTypeOK'
  BY <1>3 DEF SyncNamespace, Shown, userVars, UserTypeOK
<1> QED BY <1>1, <1>2, <1>3 DEF Informers, Relists

LEMMA InitType == Init => TypeOK
<1> SUFFICES ASSUME Init PROVE TypeOK
  OBVIOUS
<1>1. CrTypeOK
  BY AbsentType DEF Init, CrTypeOK
<1>2. OwnedTypeOK
  BY NoObjectType DEF Init, OwnedTypeOK
<1>3. NsTypeOK /\ queue \in SUBSET Clusters
  BY DEF Init, NsTypeOK
<1>4. WorkTypeOK
  BY AbsentType, PipelineLength DEF Init, WorkTypeOK, Phases
<1>5. UserTypeOK
  BY BudgetAssumption DEF Init, UserTypeOK, NoSpec, DefaultCores, ClusterSpec
<1> QED BY <1>1, <1>2, <1>3, <1>4, <1>5, TypeParts

(* One step per action; under it, the groups of variables it touches. *)
LEMMA NextType == TypeOK /\ [Next]_vars => TypeOK'
<1> SUFFICES ASSUME TypeOK, [Next]_vars PROVE TypeOK'
  OBVIOUS
<1> USE DEF crVars, ownedVars, nsVars, workVars, userVars
<1> DEFINE Parts == /\ CrTypeOK /\ OwnedTypeOK /\ NsTypeOK
                    /\ queue \in SUBSET Clusters
                    /\ WorkTypeOK /\ UserTypeOK
<1>a. /\ CrTypeOK /\ OwnedTypeOK /\ NsTypeOK /\ queue \in SUBSET Clusters
      /\ WorkTypeOK /\ UserTypeOK
  BY TypeParts
<1>b. SUFFICES Parts'
  BY DEF TypeOK, CrTypeOK, OwnedTypeOK, NsTypeOK, WorkTypeOK, UserTypeOK
<1>c. \A n \in Clusters : /\ cr[n] \in ClusterVersion
                          /\ crCache[n] \in ClusterVersion
                          /\ crWatch[n] \subseteq ClusterVersion
  BY <1>a DEF CrTypeOK
<1>d. \A c \in Objects : /\ owned[c] \in ObjectVersion
                         /\ ownedCache[c] \in ObjectVersion
                         /\ ownedWatch[c] \subseteq ObjectVersion
  BY <1>a DEF OwnedTypeOK
<1>1. ASSUME NEW n \in Clusters, NEW s \in UserSpecs, CreateCluster(n, s)
      PROVE  Parts'
  <2> DEFINE v == [exists |-> TRUE, rv |-> cr[n].rv + 1, uid |-> cr[n].uid + 1,
                   gen |-> 1, deleting |-> FALSE, fin |-> FALSE, spec |-> s,
                   obs |-> 0]
  <2>1. s \in ClusterSpec
    BY SpecsAssumption
  <2>2. v \in ClusterVersion
    BY <1>c, <2>1 DEF ClusterVersion
  <2>3. StoreCluster(n, v)
    BY <1>1 DEF CreateCluster
  <2> HIDE DEF v
  <2>4. CrTypeOK'
    BY <1>a, <2>2, <2>3, StoreClusterType
  <2>5. UserTypeOK'
    BY <1>a, <1>1, <2>1, SpendType DEF CreateCluster, UserTypeOK, BudgetKinds
  <2> QED BY <1>a, <1>1, <2>4, <2>5 DEF CreateCluster, OwnedTypeOK, NsTypeOK, WorkTypeOK
<1>2. ASSUME NEW n \in Clusters, NEW s \in UserSpecs, EditSpec(n, s)
      PROVE  Parts'
  <2> DEFINE v == [NextGen(cr[n]) EXCEPT !.spec = s]
  <2>1. s \in ClusterSpec
    BY SpecsAssumption
  <2>2. v \in ClusterVersion
    BY <1>c, <2>1, NextGenType DEF ClusterVersion
  <2>3. StoreCluster(n, v)
    BY <1>2 DEF EditSpec
  <2> HIDE DEF v
  <2>4. CrTypeOK'
    BY <1>a, <2>2, <2>3, StoreClusterType
  <2>5. UserTypeOK'
    BY <1>a, <1>2, <2>1, SpendType DEF EditSpec, UserTypeOK, BudgetKinds
  <2> QED BY <1>a, <1>2, <2>4, <2>5 DEF EditSpec, OwnedTypeOK, NsTypeOK, WorkTypeOK
<1>3. ASSUME NEW n \in Clusters, DeleteCluster(n)
      PROVE  Parts'
  <2> DEFINE v == IF cr[n].fin THEN [NextGen(cr[n]) EXCEPT !.deleting = TRUE]
                               ELSE Absent(cr[n].rv + 1, cr[n].uid)
  <2>0. NextGen(cr[n]) \in ClusterVersion
    BY <1>c, NextGenType
  <2>1. [NextGen(cr[n]) EXCEPT !.deleting = TRUE] \in ClusterVersion
    BY <2>0 DEF ClusterVersion
  <2>2. cr[n].rv + 1 \in Nat /\ cr[n].uid \in Nat
    BY <1>c DEF ClusterVersion
  <2>3. v \in ClusterVersion
    BY <2>1, <2>2, AbsentType
  <2>4. StoreCluster(n, v)
    BY <1>3 DEF DeleteCluster
  <2> HIDE DEF v
  <2>5. CrTypeOK'
    BY <1>a, <2>3, <2>4, StoreClusterType
  <2> QED BY <1>a, <1>3, <2>5 DEF DeleteCluster, OwnedTypeOK, NsTypeOK, WorkTypeOK, UserTypeOK
<1>4. ASSUME NEW n \in Clusters, StartReconcile(n)
      PROVE  Parts'
  <2>1. crCache[n] \in ClusterVersion
    BY <1>c
  <2>2. PhaseFor(crCache[n]) \in {"idle", "deletion", "finalizer", "namespace"}
    BY <2>1, PhaseType
  <2>3. WorkTypeOK'
    BY <1>a, <1>4, <2>1, <2>2, PipelineLength DEF StartReconcile, WorkTypeOK, Phases
  <2> QED BY <1>a, <1>4, <2>3 DEF StartReconcile, CrTypeOK, OwnedTypeOK, NsTypeOK, UserTypeOK
<1>5. CASE AddFinalizer
  <2>1. cur \in Clusters /\ local \in ClusterVersion
    BY <1>a, <1>5 DEF AddFinalizer, WorkTypeOK
  <2>2. CASE UpdateAccepted(cr[cur], local)
    <3>1. WithFinalizer(local) \in ClusterVersion
      BY <2>1, WithFinalizerType
    <3>2. CrTypeOK'
      BY <1>a, <1>5, <2>1, <2>2, <3>1, StoreClusterType DEF AddFinalizer
    <3>3. WorkTypeOK'
      BY <1>a, <1>5, <2>1, <2>2, <3>1 DEF AddFinalizer, WorkTypeOK, Phases
    <3> QED BY <1>a, <1>5, <2>2, <3>2, <3>3 DEF AddFinalizer, OwnedTypeOK, NsTypeOK, UserTypeOK
  <2>3. CASE ~ UpdateAccepted(cr[cur], local)
    BY <1>a, <1>5, <2>3, RetryType DEF AddFinalizer, CrTypeOK, OwnedTypeOK, NsTypeOK, UserTypeOK
  <2> QED BY <2>2, <2>3
<1>6. CASE EnsureNamespace
  <2>1. CASE ns /\ ~ nsCache
    BY <1>a, <1>6, <2>1, RetryType DEF EnsureNamespace, CrTypeOK, OwnedTypeOK, NsTypeOK, UserTypeOK
  <2>2. CASE ~ (ns /\ ~ nsCache)
    <3>1. WorkTypeOK'
      BY <1>a, <1>6, <2>2, PipelineLength DEF EnsureNamespace, WorkTypeOK, Phases
    <3> QED BY <1>a, <1>6, <2>2, <3>1 DEF EnsureNamespace, CrTypeOK, OwnedTypeOK, NsTypeOK, UserTypeOK
  <2> QED BY <2>1, <2>2
<1>7. CASE SkipComponent
  BY <1>a, <1>7, NextComponentType DEF SkipComponent, CrTypeOK, OwnedTypeOK, NsTypeOK, UserTypeOK
<1>8. CASE WriteComponent
  <2> DEFINE c == Pipeline[idx]
  <2>1. cur \in Clusters /\ local \in ClusterVersion /\ c \in Objects
    BY <1>a, <1>8 DEF WriteComponent, WorkTypeOK, Objects
  <2>2. Desired(owned[c], c, cur, local) \in ObjectVersion
    BY <1>d, <2>1, DesiredType
  <2>3. StoreOwned(c, Desired(owned[c], c, cur, local)) /\ NextComponent /\ pc = "component"
    BY <1>8 DEF WriteComponent
  <2> HIDE DEF c
  <2>4. OwnedTypeOK'
    BY <1>a, <2>1, <2>2, <2>3, StoreOwnedType
  <2>5. WorkTypeOK'
    BY <1>a, <2>3, NextComponentType
  <2> QED BY <1>a, <1>8, <2>4, <2>5 DEF WriteComponent, CrTypeOK, NsTypeOK, UserTypeOK
<1>9. CASE RefuseComponent
  BY <1>a, <1>9, RetryType DEF RefuseComponent, CrTypeOK, OwnedTypeOK, NsTypeOK, UserTypeOK
<1>10. CASE UpdateStatus
  <2> DEFINE v == [cr[cur] EXCEPT !.obs = local.gen, !.rv = @ + 1]
  <2>1. cur \in Clusters /\ local \in ClusterVersion
    BY <1>a, <1>10 DEF UpdateStatus, WorkTypeOK
  <2>2. CASE ~ cr[cur].exists
    BY <1>a, <1>10, <2>2, RetryType DEF UpdateStatus, CrTypeOK, OwnedTypeOK, NsTypeOK, UserTypeOK
  <2>3. CASE cr[cur].exists
    <3>1. /\ cr[cur] \in ClusterVersion
          /\ cr[cur].rv + 1 \in Nat
          /\ local.gen \in Nat
      BY <1>c, <2>1 DEF ClusterVersion
    <3>2. v \in ClusterVersion
      BY <3>1 DEF ClusterVersion
    <3>3. UNCHANGED crVars \/ StoreCluster(cur, v)
      BY <1>10, <2>3 DEF UpdateStatus
    <3> HIDE DEF v
    <3>4. CrTypeOK'
      BY <1>a, <2>1, <3>2, <3>3, StoreClusterType DEF CrTypeOK
    <3>5. WorkTypeOK'
      BY <1>10, <2>3, FinishType DEF UpdateStatus
    <3> QED BY <1>a, <1>10, <2>3, <3>4, <3>5 DEF UpdateStatus, OwnedTypeOK, NsTypeOK, UserTypeOK
  <2> QED BY <2>2, <2>3
<1>11. CASE RemoveFinalizer
  <2>1. cur \in Clusters
    BY <1>a, <1>11 DEF RemoveFinalizer, WorkTypeOK
  <2>2. CASE ~ UpdateAccepted(cr[cur], local)
    BY <1>a, <1>11, <2>2, RetryType DEF RemoveFinalizer, CrTypeOK, OwnedTypeOK, NsTypeOK, UserTypeOK
  <2>3. CASE UpdateAccepted(cr[cur], local)
    <3>1. cr[cur].rv + 1 \in Nat /\ cr[cur].uid \in Nat
      BY <1>c, <2>1 DEF ClusterVersion
    <3>2. CrTypeOK'
      BY <1>a, <1>11, <2>1, <2>3, <3>1, AbsentType, StoreClusterType DEF RemoveFinalizer
    <3>3. WorkTypeOK'
      BY <1>11, <2>3, FinishType DEF RemoveFinalizer
    <3> QED BY <1>a, <1>11, <2>3, <3>2, <3>3 DEF RemoveFinalizer, OwnedTypeOK, NsTypeOK, UserTypeOK
  <2> QED BY <2>2, <2>3
<1>12. CASE Fault
  <2>1. UserTypeOK'
    BY <1>a, <1>12, SpendType DEF Fault, UserTypeOK, BudgetKinds
  <2> QED BY <1>a, <1>12, <2>1, RetryType DEF Fault, CrTypeOK, OwnedTypeOK, NsTypeOK
<1>13. CASE Restart
  <2>1. UserTypeOK'
    BY <1>a, <1>13, SpendType DEF Restart, UserTypeOK, BudgetKinds
  <2>2. queue' \in SUBSET Clusters
    BY <1>d, <1>13, OwnersType DEF Restart
  <2>3. CrTypeOK' /\ OwnedTypeOK' /\ NsTypeOK'
    BY <1>a, <1>13 DEF Restart, CrTypeOK, OwnedTypeOK, NsTypeOK
  <2>4. WorkTypeOK'
    BY <1>13, FinishType DEF Restart
  <2> QED BY <2>1, <2>2, <2>3, <2>4
<1>14. ASSUME NEW n \in Clusters, NEW v \in crWatch[n], SeeCluster(n, v), UserTypeOK'
       PROVE  Parts'
  <2>1. CrTypeOK' /\ queue' \in SUBSET Clusters
    BY <1>a, <1>c, <1>14 DEF SeeCluster, Newer, CrTypeOK
  <2> QED BY <1>a, <1>14, <2>1 DEF SeeCluster, OwnedTypeOK, NsTypeOK, WorkTypeOK
<1>15. ASSUME NEW c \in Objects, NEW v \in ownedWatch[c], SeeOwned(c, v), UserTypeOK'
       PROVE  Parts'
  <2>1. /\ ownedCache' = [ownedCache EXCEPT ![c] = v]
        /\ ownedWatch' = [ownedWatch EXCEPT ![c] = Newer(@, v)]
        /\ queue' = queue \cup OwnersOf({u \in {ownedCache[c], v} : u.exists})
        /\ UNCHANGED <<owned, crVars, nsVars, workVars>>
    BY <1>15 DEF SeeOwned
  <2>2. v \in ObjectVersion
    BY <1>d
  <2>3. OwnedTypeOK'
    BY <1>a, <1>d, <2>1, <2>2 DEF Newer, OwnedTypeOK
  <2>4. {u \in {ownedCache[c], v} : u.exists} \in SUBSET ObjectVersion
    BY <1>d, <2>2
  <2>5. queue' \in SUBSET Clusters
    BY <1>a, <2>1, <2>4, OwnersType
  <2> QED BY <1>a, <1>15, <2>1, <2>3, <2>5 DEF CrTypeOK, NsTypeOK, WorkTypeOK
<1>16. CASE SyncNamespace
  BY <1>a, <1>16 DEF SyncNamespace, CrTypeOK, OwnedTypeOK, NsTypeOK, WorkTypeOK, UserTypeOK
<1>17. ASSUME NEW c \in Objects, CollectOrphan(c) \/ DeleteOwned(c)
       PROVE  Parts'
  <2>1. [owned[c] EXCEPT !.exists = FALSE] \in ObjectVersion
    BY <1>d DEF ObjectVersion
  <2>2. OwnedTypeOK'
    BY <1>a, <1>17, <2>1, StoreOwnedType DEF CollectOrphan, DeleteOwned
  <2>3. UserTypeOK'
    BY <1>a, <1>17, SpendType DEF CollectOrphan, DeleteOwned, UserTypeOK, BudgetKinds
  <2> QED BY <1>a, <1>17, <2>2, <2>3 DEF CollectOrphan, DeleteOwned, CrTypeOK, NsTypeOK, WorkTypeOK
<1>18. ASSUME NEW c \in HelmManaged, HelmApply(c)
       PROVE  Parts'
  <2> DEFINE v == [exists |-> TRUE, rv |-> owned[c].rv,
                   owner |-> IF owned[c].exists THEN owned[c].owner ELSE NoOwner,
                   tmpl |-> ChartTemplate]
  <2>1. c \in Objects
    BY HelmAssumption
  <2>2. v \in ObjectVersion
    BY <1>d, <2>1 DEF ObjectVersion, NoOwner, Owner, ChartTemplate, Template
  <2>3. StoreOwned(c, v)
    BY <1>18 DEF HelmApply
  <2> HIDE DEF v
  <2>4. OwnedTypeOK'
    BY <1>a, <2>1, <2>2, <2>3, StoreOwnedType
  <2>5. UserTypeOK'
    BY <1>a, <1>18, SpendType DEF HelmApply, UserTypeOK, BudgetKinds
  <2> QED BY <1>a, <1>18, <2>4, <2>5 DEF HelmApply, CrTypeOK, NsTypeOK, WorkTypeOK
<1>19. CASE UNCHANGED vars
  BY <1>a, <1>19 DEF vars, CrTypeOK, OwnedTypeOK, NsTypeOK, WorkTypeOK, UserTypeOK
<1>20. CASE Informers \/ Relists
  BY <1>a, <1>14, <1>15, <1>16, <1>20, ShownSteps DEF Shown
<1> QED
  BY <1>1, <1>2, <1>3, <1>4, <1>5, <1>6, <1>7, <1>8, <1>9, <1>10, <1>11, <1>12,
     <1>13, <1>17, <1>18, <1>19, <1>20, DeletableAssumption
     DEF Next, Users, Worker

(***************************************************************************)
(* Type correctness: TypeOK is inductive as it stands.                     *)
(***************************************************************************)
THEOREM TypeCorrect == Spec => []TypeOK
BY InitType, NextType, PTL DEF Spec

-----------------------------------------------------------------------------
(***************************************************************************)
(* The finalizer.  Two kinds of step: those that store a new version of a  *)
(* cluster, and those that do not.                                         *)
(***************************************************************************)

(* A new version v of n disturbs nothing if it keeps a protected           *)
(* incarnation, or if no version in sight is protected.                    *)
LEMMA StoreKeepsViews ==
  ASSUME TypeOK, SeenBehind, WatchAhead, Protected,
         NEW n \in Clusters, NEW v \in ClusterVersion, StoreCluster(n, v),
         v.rv = cr[n].rv + 1,
         \/ v.exists /\ v.uid = cr[n].uid /\ (cr[n].fin => v.fin)
         \/ /\ ~ (v.exists /\ v.fin /\ ~ v.deleting)
            /\ \A w \in Seen(n) : ~ (w.exists /\ w.fin /\ ~ w.deleting),
         \A m \in Clusters : \A w \in {u \in {local'} : cur' = m} :
            w \in Seen(m) \/ (m = n /\ w = v)
  PROVE  SeenBehind' /\ WatchAhead' /\ Protected'
<1>1. /\ cr' = [cr EXCEPT ![n] = v]
      /\ crWatch' = [crWatch EXCEPT ![n] = @ \cup {v}]
      /\ crCache' = crCache
  BY DEF StoreCluster
<1>2. \A m \in Clusters : /\ cr[m] \in ClusterVersion
                          /\ crCache[m] \in ClusterVersion
                          /\ crWatch[m] \subseteq ClusterVersion
  BY DEF TypeOK
<1>3. local \in ClusterVersion
  BY DEF TypeOK
<1>4. \A m \in Clusters : \A w \in Seen(m) : w \in ClusterVersion
  BY <1>2, <1>3 DEF Seen
<1>5. \A m \in Clusters : \A w \in Seen(m)' : w \in Seen(m) \/ (m = n /\ w = v)
  <2> SUFFICES ASSUME NEW m \in Clusters, NEW w \in Seen(m)'
               PROVE  w \in Seen(m) \/ (m = n /\ w = v)
    OBVIOUS
  <2>1. CASE w \in crWatch'[m]
    BY <1>1, <2>1 DEF Seen, TypeOK
  <2>2. CASE w = crCache'[m]
    BY <1>1, <2>2 DEF Seen
  <2>3. CASE w \in {u \in {local'} : cur' = m}
    BY <2>3
  <2> QED BY <2>1, <2>2, <2>3 DEF Seen
<1>6. cr'[n] = v /\ \A m \in Clusters : m # n => cr'[m] = cr[m]
  BY <1>1 DEF TypeOK
<1>7. \A m \in Clusters : cr[m].rv \in Nat /\ \A w \in Seen(m) : w.rv \in Nat
  BY <1>2, <1>4 DEF ClusterVersion
<1>8. SeenBehind'
  <2> SUFFICES ASSUME NEW m \in Clusters, NEW w \in Seen(m)'
               PROVE  w.rv <= cr'[m].rv /\ (w.rv = cr'[m].rv => w = cr'[m])
    BY DEF SeenBehind
  <2>1. CASE m = n /\ w = v
    BY <1>6, <1>7, <2>1
  <2>2. CASE w \in Seen(m)
    BY <1>6, <1>7, <2>2 DEF SeenBehind
  <2> QED BY <1>5, <2>1, <2>2
<1>9. WatchAhead'
  <2>1. crCache[n] \in Seen(n)
    BY DEF Seen
  <2>2. v.rv > crCache[n].rv
    BY <1>7, <2>1 DEF SeenBehind
  <2> QED BY <1>1, <2>2 DEF WatchAhead, TypeOK
<1>10. Protected'
  <2> SUFFICES ASSUME NEW m \in Clusters, NEW w \in Seen(m)',
                      w.exists, w.fin, ~ w.deleting
               PROVE  cr'[m].exists /\ cr'[m].fin /\ cr'[m].uid = w.uid
    BY DEF Protected
  <2>1. CASE m = n /\ w = v
    BY <1>6, <2>1
  <2>2. CASE w \in Seen(m)
    BY <1>6, <2>2 DEF Protected
  <2> QED BY <1>5, <2>1, <2>2
<1> QED BY <1>8, <1>9, <1>10

(* A step that stores no cluster and ends or continues the reconcile. *)
LEMMA QuietKeepsViews ==
  ASSUME TypeOK, SeenBehind, WatchAhead, Protected, UNCHANGED crVars,
         \/ cur' = NoCluster
         \/ cur' = cur /\ local' = local
         \/ cur' \in Clusters /\ local' = crCache[cur']
  PROVE  SeenBehind' /\ WatchAhead' /\ Protected'
<1>1. cr' = cr /\ crCache' = crCache /\ crWatch' = crWatch
  BY DEF crVars
<1>2. \A m \in Clusters : Seen(m)' \subseteq Seen(m)
  BY <1>1, NoClusterAssumption DEF Seen
<1>3. SeenBehind'
  BY <1>1, <1>2 DEF SeenBehind
<1>4. WatchAhead'
  BY <1>1 DEF WatchAhead
<1>5. Protected'
  BY <1>1, <1>2 DEF Protected
<1> QED BY <1>3, <1>4, <1>5

(* Nothing is held after the end of a reconcile. *)
LEMMA FinishHolds ==
  ASSUME Finish
  PROVE  HeldMatchesPhase' /\ DeletionSeen' /\ cur' = NoCluster
BY DEF Finish, HeldMatchesPhase, DeletionSeen

(* Steps that leave the worker alone. *)
LEMMA IdleHolds ==
  ASSUME HeldMatchesPhase, DeletionSeen, UNCHANGED workVars, crCache' = crCache
  PROVE  HeldMatchesPhase' /\ DeletionSeen'
BY DEF HeldMatchesPhase, DeletionSeen, workVars

LEMMA InitFinalizer == Init => FinalizerInv
<1> SUFFICES ASSUME Init PROVE FinalizerInv
  OBVIOUS
<1>1. \A n \in Clusters : Seen(n) = {cr[n]}
  BY NoClusterAssumption DEF Init, Seen
<1>2. \A n \in Clusters : ~ cr[n].exists /\ cr[n].rv = 0
  BY DEF Init, Absent
<1>3. SeenBehind /\ Protected
  BY <1>1, <1>2 DEF SeenBehind, Protected
<1>4. WatchAhead /\ HeldMatchesPhase /\ DeletionSeen
  BY DEF Init, WatchAhead, HeldMatchesPhase, DeletionSeen
<1> QED BY <1>3, <1>4 DEF FinalizerInv

LEMMA NextFinalizer == TypeOK /\ FinalizerInv /\ [Next]_vars => FinalizerInv'
<1> SUFFICES ASSUME TypeOK, FinalizerInv, [Next]_vars PROVE FinalizerInv'
  OBVIOUS
<1> USE DEF nsVars, ownedVars, userVars
<1>a. SeenBehind /\ WatchAhead /\ Protected /\ HeldMatchesPhase /\ DeletionSeen
  BY DEF FinalizerInv
<1>c. \A n \in Clusters : /\ cr[n] \in ClusterVersion
                          /\ crCache[n] \in ClusterVersion
                          /\ crWatch[n] \subseteq ClusterVersion
  BY DEF TypeOK
<1>d. local \in ClusterVersion /\ (pc # "idle" => cur \in Clusters)
  BY DEF TypeOK
<1>e. \A n \in Clusters : \A w \in {u \in {local} : cur = n} : w \in Seen(n)
  BY DEF Seen
<1>1. ASSUME NEW n \in Clusters, NEW s \in UserSpecs, CreateCluster(n, s)
      PROVE  FinalizerInv'
  <2> DEFINE v == [exists |-> TRUE, rv |-> cr[n].rv + 1, uid |-> cr[n].uid + 1,
                   gen |-> 1, deleting |-> FALSE, fin |-> FALSE, spec |-> s,
                   obs |-> 0]
  <2>1. v \in ClusterVersion /\ v.rv = cr[n].rv + 1 /\ ~ v.fin
    BY <1>c, SpecsAssumption DEF ClusterVersion
  <2>2. StoreCluster(n, v) /\ ~ cr[n].exists /\ UNCHANGED workVars
    BY <1>1 DEF CreateCluster
  <2> HIDE DEF v
  <2>3. \A w \in Seen(n) : ~ (w.exists /\ w.fin /\ ~ w.deleting)
    BY <1>a, <2>2 DEF Protected
  <2>4. SeenBehind' /\ WatchAhead' /\ Protected'
    BY <1>a, <1>e, <2>1, <2>2, <2>3, StoreKeepsViews DEF workVars
  <2> QED BY <1>a, <2>2, <2>4, IdleHolds DEF FinalizerInv, StoreCluster
<1>2. ASSUME NEW n \in Clusters, NEW s \in UserSpecs, EditSpec(n, s)
      PROVE  FinalizerInv'
  <2> DEFINE v == [NextGen(cr[n]) EXCEPT !.spec = s]
  <2>1. NextGen(cr[n]) \in ClusterVersion /\ s \in ClusterSpec
    BY <1>c, NextGenType, SpecsAssumption
  <2>2. /\ v \in ClusterVersion /\ v.rv = cr[n].rv + 1 /\ v.exists = cr[n].exists
        /\ v.fin = cr[n].fin /\ v.uid = cr[n].uid
    BY <1>c, <2>1 DEF ClusterVersion, NextGen
  <2>3. StoreCluster(n, v) /\ cr[n].exists /\ UNCHANGED workVars
    BY <1>2 DEF EditSpec
  <2> HIDE DEF v
  <2>4. SeenBehind' /\ WatchAhead' /\ Protected'
    BY <1>a, <1>e, <2>2, <2>3, StoreKeepsViews DEF workVars
  <2> QED BY <1>a, <2>3, <2>4, IdleHolds DEF FinalizerInv, StoreCluster
<1>3. ASSUME NEW n \in Clusters, DeleteCluster(n)
      PROVE  FinalizerInv'
  <2>1. cr[n].exists /\ UNCHANGED workVars
    BY <1>3 DEF DeleteCluster
  <2>2. CASE cr[n].fin
    <3> DEFINE v == [NextGen(cr[n]) EXCEPT !.deleting = TRUE]
    <3>1. NextGen(cr[n]) \in ClusterVersion
      BY <1>c, NextGenType
    <3>2. /\ v \in ClusterVersion /\ v.rv = cr[n].rv + 1 /\ v.exists = cr[n].exists
          /\ v.fin = cr[n].fin /\ v.uid = cr[n].uid
      BY <1>c, <3>1 DEF ClusterVersion, NextGen
    <3>3. StoreCluster(n, v)
      BY <1>3, <2>2 DEF DeleteCluster
    <3> HIDE DEF v
    <3>4. SeenBehind' /\ WatchAhead' /\ Protected'
      BY <1>a, <1>e, <2>1, <3>2, <3>3, StoreKeepsViews DEF workVars
    <3> QED BY <1>a, <2>1, <3>3, <3>4, IdleHolds DEF FinalizerInv, StoreCluster
  <2>3. CASE ~ cr[n].fin
    <3> DEFINE v == Absent(cr[n].rv + 1, cr[n].uid)
    <3>1. cr[n].rv + 1 \in Nat /\ cr[n].uid \in Nat
      BY <1>c DEF ClusterVersion
    <3>2. v \in ClusterVersion /\ v.rv = cr[n].rv + 1 /\ ~ v.exists
      BY <3>1, AbsentType DEF Absent
    <3>3. StoreCluster(n, v)
      BY <1>3, <2>3 DEF DeleteCluster
    <3> HIDE DEF v
    <3>4. \A w \in Seen(n) : ~ (w.exists /\ w.fin /\ ~ w.deleting)
      BY <1>a, <2>3 DEF Protected
    <3>5. SeenBehind' /\ WatchAhead' /\ Protected'
      BY <1>a, <1>e, <2>1, <3>2, <3>3, <3>4, StoreKeepsViews DEF workVars
    <3> QED BY <1>a, <2>1, <3>3, <3>5, IdleHolds DEF FinalizerInv, StoreCluster
  <2> QED BY <2>2, <2>3
<1>4. ASSUME NEW n \in Clusters, StartReconcile(n)
      PROVE  FinalizerInv'
  <2>1. UNCHANGED crVars
    BY <1>4 DEF StartReconcile
  <2>2. CASE PhaseFor(crCache[n]) = "idle"
    <3>1. pc' = "idle" /\ cur' = cur /\ local' = local
      BY <1>4, <2>2 DEF StartReconcile
    <3>2. SeenBehind' /\ WatchAhead' /\ Protected'
      BY <1>a, <2>1, <3>1, QuietKeepsViews
    <3> QED BY <3>1, <3>2 DEF FinalizerInv, HeldMatchesPhase, DeletionSeen
  <2>3. CASE PhaseFor(crCache[n]) # "idle"
    <3>1. /\ pc' = PhaseFor(crCache[n])
          /\ cur' = n
          /\ local' = crCache[n]
          /\ crCache' = crCache
      BY <1>4, <2>3 DEF StartReconcile, crVars
    <3>2. SeenBehind' /\ WatchAhead' /\ Protected'
      BY <1>a, <2>1, <3>1, QuietKeepsViews
    <3>3. HeldMatchesPhase'
      BY <1>c, <3>1 DEF HeldMatchesPhase, PhaseFor, ClusterVersion
    <3>4. DeletionSeen'
      BY <1>c, <3>1 DEF DeletionSeen, ClusterVersion
    <3> QED BY <3>2, <3>3, <3>4 DEF FinalizerInv
  <2> QED BY <2>2, <2>3
<1>5. CASE AddFinalizer
  <2>1. cur \in Clusters /\ pc = "finalizer"
    BY <1>5, <1>d DEF AddFinalizer
  <2>2. CASE UpdateAccepted(cr[cur], local)
    <3> DEFINE v == WithFinalizer(local)
    <3>1. /\ StoreCluster(cur, v) /\ local' = v /\ cur' = cur
          /\ pc' = "namespace"
      BY <1>5, <2>2 DEF AddFinalizer
    <3>2. local \in Seen(cur) /\ local.rv = cr[cur].rv
      BY <2>1, <2>2 DEF Seen, UpdateAccepted
    <3>3. local = cr[cur]
      BY <1>a, <2>1, <3>2 DEF SeenBehind
    <3>4. /\ v \in ClusterVersion /\ v.rv = local.rv + 1 /\ v.exists = local.exists
          /\ v.fin /\ v.uid = local.uid /\ v.deleting = local.deleting
      BY <1>d, WithFinalizerType, FinalizerFields
    <3>5. local.exists /\ ~ local.deleting
      BY <1>a, <2>1 DEF HeldMatchesPhase
    <3> HIDE DEF v
    <3>6. SeenBehind' /\ WatchAhead' /\ Protected'
      BY <1>a, <2>1, <3>1, <3>3, <3>4, <3>5, StoreKeepsViews
    <3>7. HeldMatchesPhase' /\ DeletionSeen'
      BY <3>1, <3>4, <3>5 DEF HeldMatchesPhase, DeletionSeen
    <3> QED BY <3>6, <3>7 DEF FinalizerInv
  <2>3. CASE ~ UpdateAccepted(cr[cur], local)
    BY <1>5, <1>a, <2>3, FinishHolds, QuietKeepsViews DEF AddFinalizer, Retry, FinalizerInv
  <2> QED BY <2>2, <2>3
<1>6. CASE EnsureNamespace
  <2>1. UNCHANGED crVars
    BY <1>6 DEF EnsureNamespace
  <2>2. CASE ns /\ ~ nsCache
    BY <1>6, <1>a, <2>1, <2>2, FinishHolds, QuietKeepsViews DEF EnsureNamespace, Retry, FinalizerInv
  <2>3. CASE ~ (ns /\ ~ nsCache)
    <3>1. pc = "namespace" /\ pc' = "component" /\ cur' = cur /\ local' = local
      BY <1>6, <2>3 DEF EnsureNamespace
    <3>2. HeldMatchesPhase' /\ DeletionSeen'
      BY <1>a, <3>1 DEF HeldMatchesPhase, DeletionSeen
    <3> QED BY <1>a, <2>1, <3>1, <3>2, QuietKeepsViews DEF FinalizerInv
  <2> QED BY <2>2, <2>3
<1>7. CASE SkipComponent \/ WriteComponent
  <2>1. UNCHANGED crVars /\ pc = "component" /\ NextComponent
    BY <1>7 DEF SkipComponent, WriteComponent
  <2>2. cur' = cur /\ local' = local /\ pc' \in {"component", "status"}
    BY <2>1 DEF NextComponent
  <2>3. HeldMatchesPhase' /\ DeletionSeen'
    BY <1>a, <2>1, <2>2 DEF HeldMatchesPhase, DeletionSeen
  <2> QED BY <1>a, <2>1, <2>2, <2>3, QuietKeepsViews DEF FinalizerInv
<1>8. CASE RefuseComponent \/ Fault
  <2>1. UNCHANGED crVars /\ Finish
    BY <1>8 DEF RefuseComponent, Fault, Retry
  <2> QED BY <1>a, <2>1, FinishHolds, QuietKeepsViews DEF FinalizerInv
<1>9. CASE UpdateStatus
  <2> DEFINE v == [cr[cur] EXCEPT !.obs = local.gen, !.rv = @ + 1]
  <2>1. cur \in Clusters /\ Finish
    BY <1>9, <1>d DEF UpdateStatus, Retry
  <2>2. CASE UNCHANGED crVars
    BY <1>a, <2>1, <2>2, FinishHolds, QuietKeepsViews DEF FinalizerInv
  <2>3. CASE ~ UNCHANGED crVars
    <3>1. cr[cur].exists /\ StoreCluster(cur, v)
      BY <1>9, <2>3 DEF UpdateStatus
    <3>2. cr[cur] \in ClusterVersion /\ cr[cur].rv + 1 \in Nat /\ local.gen \in Nat
      BY <1>c, <1>d, <2>1 DEF ClusterVersion
    <3>3. /\ v \in ClusterVersion /\ v.rv = cr[cur].rv + 1 /\ v.exists = cr[cur].exists
          /\ v.fin = cr[cur].fin /\ v.uid = cr[cur].uid
      BY <3>2 DEF ClusterVersion
    <3> HIDE DEF v
    <3>4. cur' = NoCluster /\ HeldMatchesPhase' /\ DeletionSeen'
      BY <2>1, FinishHolds
    <3>5. v.exists /\ v.uid = cr[cur].uid /\ (cr[cur].fin => v.fin)
      BY <3>1, <3>3
    <3>6. \A m \in Clusters : \A w \in {u \in {local'} : cur' = m} :
             w \in Seen(m) \/ (m = cur /\ w = v)
      BY <3>4, NoClusterAssumption
    <3>7. v \in ClusterVersion /\ v.rv = cr[cur].rv + 1
      BY <3>3
    <3>8. SeenBehind' /\ WatchAhead' /\ Protected'
      BY <1>a, <2>1, <3>1, <3>5, <3>6, <3>7, StoreKeepsViews
    <3> QED BY <3>4, <3>8 DEF FinalizerInv
  <2> QED BY <2>2, <2>3
<1>10. CASE RemoveFinalizer
  <2>1. cur \in Clusters /\ Finish /\ pc = "deletion"
    BY <1>10, <1>d DEF RemoveFinalizer, Retry
  <2>2. cur' = NoCluster /\ HeldMatchesPhase' /\ DeletionSeen'
    BY <2>1, FinishHolds
  <2>3. CASE ~ UpdateAccepted(cr[cur], local)
    BY <1>10, <1>a, <2>2, <2>3, QuietKeepsViews DEF RemoveFinalizer, FinalizerInv
  <2>4. CASE UpdateAccepted(cr[cur], local)
    <3> DEFINE v == Absent(cr[cur].rv + 1, cr[cur].uid)
    <3>1. cr[cur].rv + 1 \in Nat /\ cr[cur].uid \in Nat
      BY <1>c, <2>1 DEF ClusterVersion
    <3>2. v \in ClusterVersion /\ v.rv = cr[cur].rv + 1 /\ ~ v.exists
      BY <3>1, AbsentType DEF Absent
    <3>3. StoreCluster(cur, v)
      BY <1>10, <2>4 DEF RemoveFinalizer
    <3> HIDE DEF v
    (* The cache has reached the stored version, so the watch is empty. *)
    <3>4. local \in Seen(cur) /\ crCache[cur] \in Seen(cur) /\ local.rv = cr[cur].rv
      BY <2>1, <2>4 DEF Seen, UpdateAccepted
    <3>5. local = cr[cur]
      BY <1>a, <2>1, <3>4 DEF SeenBehind
    <3>6. /\ cr[cur].rv \in Nat /\ crCache[cur].rv \in Nat
          /\ \A w \in crWatch[cur] : w.rv \in Nat
      BY <1>c, <2>1 DEF ClusterVersion
    <3>7. cr[cur].rv <= crCache[cur].rv
      BY <1>a, <2>1, <3>4 DEF DeletionSeen
    <3>8. crCache[cur] = cr[cur]
      BY <1>a, <2>1, <3>4, <3>6, <3>7 DEF SeenBehind
    <3>9. \A w \in crWatch[cur] : FALSE
      BY <1>a, <2>1, <3>6, <3>7 DEF SeenBehind, WatchAhead, Seen
    <3>10. cr[cur].deleting
      BY <1>a, <2>1, <3>5 DEF HeldMatchesPhase
    <3>11. \A w \in Seen(cur) : ~ (w.exists /\ w.fin /\ ~ w.deleting)
      BY <3>5, <3>8, <3>9, <3>10 DEF Seen
    <3>12. SeenBehind' /\ WatchAhead' /\ Protected'
      BY <1>a, <2>1, <2>2, <3>2, <3>3, <3>11, NoClusterAssumption, StoreKeepsViews
    <3> QED BY <2>2, <3>12 DEF FinalizerInv
  <2> QED BY <2>3, <2>4
<1>11. CASE Restart
  <2>1. /\ cr' = cr /\ crCache' = cr /\ crWatch' = [n \in Clusters |-> {}]
        /\ Finish
    BY <1>11 DEF Restart
  <2>2. cur' = NoCluster /\ HeldMatchesPhase' /\ DeletionSeen'
    BY <2>1, FinishHolds
  <2>3. \A n \in Clusters : Seen(n)' = {cr[n]}
    BY <2>1, <2>2, NoClusterAssumption DEF Seen
  <2>4. SeenBehind'
    BY <1>c, <2>1, <2>3 DEF SeenBehind, ClusterVersion
  <2>5. WatchAhead'
    BY <2>1 DEF WatchAhead
  <2>6. Protected'
    BY <2>1, <2>3 DEF Protected
  <2> QED BY <2>2, <2>4, <2>5, <2>6 DEF FinalizerInv
<1>12. ASSUME NEW n \in Clusters, NEW v \in crWatch[n], SeeCluster(n, v)
       PROVE  FinalizerInv'
  <2>1. /\ crCache' = [crCache EXCEPT ![n] = v]
        /\ crWatch' = [crWatch EXCEPT ![n] = Newer(@, v)]
        /\ cr' = cr /\ UNCHANGED workVars
    BY <1>12 DEF SeeCluster
  <2>2. \A m \in Clusters : Seen(m)' \subseteq Seen(m)
    BY <2>1 DEF Seen, Newer, workVars, TypeOK
  <2>3. SeenBehind'
    BY <1>a, <2>1, <2>2 DEF SeenBehind
  <2>4. Protected'
    BY <1>a, <2>1, <2>2 DEF Protected
  <2>5. WatchAhead'
    BY <1>a, <2>1 DEF WatchAhead, Newer, TypeOK
  <2>6. HeldMatchesPhase'
    BY <1>a, <2>1 DEF HeldMatchesPhase, workVars
  <2>7. v.rv > crCache[n].rv /\ v.rv \in Nat /\ crCache[n].rv \in Nat /\ local.rv \in Nat
    BY <1>a, <1>c, <1>d DEF WatchAhead, ClusterVersion
  <2>8. DeletionSeen'
    BY <1>a, <1>d, <2>1, <2>7 DEF DeletionSeen, workVars, TypeOK
  <2> QED BY <2>3, <2>4, <2>5, <2>6, <2>8 DEF FinalizerInv
<1>13. CASE UNCHANGED <<crVars, workVars>>
  <2>1. crCache' = crCache /\ cur' = cur /\ local' = local
    BY <1>13 DEF crVars, workVars
  <2> QED BY <1>13, <1>a, <2>1, IdleHolds, QuietKeepsViews DEF FinalizerInv
<1>14. ASSUME NEW c \in Objects,
              \/ \E v \in ownedWatch[c] : SeeOwned(c, v)
              \/ CollectOrphan(c) \/ DeleteOwned(c)
       PROVE  UNCHANGED <<crVars, workVars>>
  BY <1>14 DEF SeeOwned, CollectOrphan, DeleteOwned
<1>15. ASSUME NEW c \in HelmManaged, HelmApply(c)
       PROVE  UNCHANGED <<crVars, workVars>>
  BY <1>15 DEF HelmApply
<1>16. ASSUME SyncNamespace \/ UNCHANGED vars
       PROVE  UNCHANGED <<crVars, workVars>>
  BY <1>16 DEF SyncNamespace, vars
<1>17. CASE Users
  BY <1>1, <1>2, <1>3, <1>17 DEF Users
<1>18. CASE Worker \/ Fault
  BY <1>5, <1>6, <1>7, <1>8, <1>9, <1>10, <1>18 DEF Worker
<1>19. CASE Informers \/ Relists
  <2>1. Shown
    BY <1>19, TypeParts, ShownSteps
  <2> QED BY <1>12, <1>13, <1>14, <1>16, <2>1 DEF Shown
<1>20. CASE \/ \E c \in Objects : CollectOrphan(c) \/ DeleteOwned(c)
            \/ \E c \in HelmManaged : HelmApply(c)
            \/ UNCHANGED vars
  BY <1>13, <1>14, <1>15, <1>16, <1>20
<1> QED BY <1>4, <1>11, <1>17, <1>18, <1>19, <1>20, DeletableAssumption DEF Next

(***************************************************************************)
(* No reconcile in flight ever works for a cluster that is gone, replaced  *)
(* or unprotected, however late its caches are.                            *)
(***************************************************************************)
THEOREM FinalizerInvariant == Spec => []FinalizerInv
<1>1. Spec => []TypeOK
  BY TypeCorrect
<1> QED BY <1>1, InitFinalizer, NextFinalizer, PTL DEF Spec

(***************************************************************************)
(* The operator only writes managed objects and status on behalf of a      *)
(* cluster that exists, in that incarnation, and that cannot disappear     *)
(* before the reconcile ends.                                              *)
(***************************************************************************)
THEOREM InFlightSafe == Spec => []InFlightOwnerAlive
<1>1. TypeOK /\ FinalizerInv => InFlightOwnerAlive
  BY DEF TypeOK, FinalizerInv, InFlightOwnerAlive, HeldMatchesPhase, Protected, Seen
<1> QED BY <1>1, TypeCorrect, FinalizerInvariant, PTL

-----------------------------------------------------------------------------
(***************************************************************************)
(* A cluster with the finalizer that its user did not delete survives      *)
(* every step; in particular a late deletion pass meant for an earlier     *)
(* object of the same name.                                                *)
(***************************************************************************)
THEOREM FinalizerHonouredAlways == Spec => FinalizerHonoured
<1> DEFINE Kept(n) == cr[n].exists /\ ~ cr[n].deleting /\ cr[n].fin =>
                        cr'[n].exists /\ cr'[n].fin /\ cr'[n].uid = cr[n].uid
<1>1. ASSUME TypeOK, FinalizerInv, [Next]_vars
      PROVE  \A n \in Clusters : Kept(n)
  <2> USE DEF crVars
  <2>a. \A n \in Clusters : cr[n] \in ClusterVersion
    BY <1>1 DEF TypeOK
  <2>b. pc # "idle" => cur \in Clusters /\ local \in Seen(cur)
    BY <1>1 DEF TypeOK, Seen
  <2>c. ASSUME pc # "idle", UpdateAccepted(cr[cur], local)
        PROVE  local = cr[cur]
    BY <1>1, <2>b, <2>c DEF UpdateAccepted, FinalizerInv, SeenBehind
  <2>d. cr \in [Clusters -> ClusterVersion]
    BY <1>1 DEF TypeOK
  <2>1. CASE cr' = cr
    BY <2>1
  <2>2. ASSUME NEW m \in Clusters, NEW v \in ClusterVersion, cr' = [cr EXCEPT ![m] = v],
               \/ ~ (cr[m].exists /\ ~ cr[m].deleting /\ cr[m].fin)
               \/ v.exists /\ v.uid = cr[m].uid /\ (cr[m].fin => v.fin)
        PROVE  \A n \in Clusters : Kept(n)
    BY <2>2, <2>d
  <2>3. ASSUME NEW m \in Clusters, NEW s \in UserSpecs, CreateCluster(m, s)
        PROVE  \A n \in Clusters : Kept(n)
    <3> DEFINE v == [exists |-> TRUE, rv |-> cr[m].rv + 1, uid |-> cr[m].uid + 1,
                     gen |-> 1, deleting |-> FALSE, fin |-> FALSE, spec |-> s,
                     obs |-> 0]
    <3>1. v \in ClusterVersion
      BY <2>a, SpecsAssumption DEF ClusterVersion
    <3>2. cr' = [cr EXCEPT ![m] = v] /\ ~ cr[m].exists
      BY <2>3 DEF CreateCluster, StoreCluster
    <3> HIDE DEF v
    <3> QED BY <2>2, <3>1, <3>2
  <2>4. ASSUME NEW m \in Clusters, NEW s \in UserSpecs, EditSpec(m, s)
        PROVE  \A n \in Clusters : Kept(n)
    <3> DEFINE v == [NextGen(cr[m]) EXCEPT !.spec = s]
    <3>1. NextGen(cr[m]) \in ClusterVersion /\ s \in ClusterSpec
      BY <2>a, NextGenType, SpecsAssumption
    <3>2. /\ v \in ClusterVersion /\ v.exists = cr[m].exists
          /\ v.fin = cr[m].fin /\ v.uid = cr[m].uid
      BY <2>a, <3>1 DEF ClusterVersion, NextGen
    <3>3. cr' = [cr EXCEPT ![m] = v] /\ cr[m].exists
      BY <2>4 DEF EditSpec, StoreCluster
    <3> HIDE DEF v
    <3> QED BY <2>2, <3>2, <3>3
  <2>5. ASSUME NEW m \in Clusters, DeleteCluster(m)
        PROVE  \A n \in Clusters : Kept(n)
    <3>1. CASE cr[m].fin
      <4> DEFINE v == [NextGen(cr[m]) EXCEPT !.deleting = TRUE]
      <4>1. NextGen(cr[m]) \in ClusterVersion
        BY <2>a, NextGenType
      <4>2. /\ v \in ClusterVersion /\ v.exists = cr[m].exists
            /\ v.fin = cr[m].fin /\ v.uid = cr[m].uid
        BY <2>a, <4>1 DEF ClusterVersion, NextGen
      <4>3. cr' = [cr EXCEPT ![m] = v] /\ cr[m].exists
        BY <2>5, <3>1 DEF DeleteCluster, StoreCluster
      <4> HIDE DEF v
      <4> QED BY <2>2, <4>2, <4>3
    <3>2. CASE ~ cr[m].fin
      <4>1. cr[m].rv + 1 \in Nat /\ cr[m].uid \in Nat
        BY <2>a DEF ClusterVersion
      <4>2. cr' = [cr EXCEPT ![m] = Absent(cr[m].rv + 1, cr[m].uid)]
        BY <2>5, <3>2 DEF DeleteCluster, StoreCluster
      <4> QED BY <2>2, <3>2, <4>1, <4>2, AbsentType
    <3> QED BY <3>1, <3>2
  <2>6. CASE AddFinalizer /\ cr' # cr
    <3>1. /\ pc = "finalizer" /\ UpdateAccepted(cr[cur], local)
          /\ cr' = [cr EXCEPT ![cur] = WithFinalizer(local)]
      BY <2>6 DEF AddFinalizer, StoreCluster
    <3>2. local = cr[cur] /\ cur \in Clusters /\ ~ local.fin
      BY <1>1, <2>b, <2>c, <3>1 DEF FinalizerInv, HeldMatchesPhase
    <3>3. WithFinalizer(local) \in ClusterVersion
      BY <2>a, <3>2, WithFinalizerType
    <3> QED BY <2>2, <3>1, <3>2, <3>3
  <2>7. CASE UpdateStatus /\ cr' # cr
    <3> DEFINE v == [cr[cur] EXCEPT !.obs = local.gen, !.rv = @ + 1]
    <3>1. pc = "status" /\ cr' = [cr EXCEPT ![cur] = v] /\ cr[cur].exists
      BY <2>7 DEF UpdateStatus, StoreCluster
    <3>2. cr[cur] \in ClusterVersion /\ cr[cur].rv + 1 \in Nat /\ local.gen \in Nat
      BY <1>1, <2>a, <2>b, <3>1 DEF ClusterVersion, TypeOK
    <3>3. /\ v \in ClusterVersion /\ v.exists = cr[cur].exists
          /\ v.fin = cr[cur].fin /\ v.uid = cr[cur].uid
      BY <3>2 DEF ClusterVersion
    <3> HIDE DEF v
    <3> QED BY <2>2, <2>b, <3>1, <3>3
  <2>8. CASE RemoveFinalizer /\ cr' # cr
    <3>1. /\ pc = "deletion" /\ UpdateAccepted(cr[cur], local)
          /\ cr' = [cr EXCEPT ![cur] = Absent(cr[cur].rv + 1, cr[cur].uid)]
      BY <2>8 DEF RemoveFinalizer, StoreCluster
    <3>2. local = cr[cur] /\ cur \in Clusters /\ local.deleting
      BY <1>1, <2>b, <2>c, <3>1 DEF FinalizerInv, HeldMatchesPhase
    <3>3. cr[cur].rv + 1 \in Nat /\ cr[cur].uid \in Nat
      BY <2>a, <3>2 DEF ClusterVersion
    <3> QED BY <2>2, <3>1, <3>2, <3>3, AbsentType
  <2>9. \/ \E m \in Clusters : \/ \E s \in UserSpecs : CreateCluster(m, s) \/ EditSpec(m, s)
                               \/ DeleteCluster(m)
        \/ (AddFinalizer \/ UpdateStatus \/ RemoveFinalizer) /\ cr' # cr
        \/ cr' = cr
    <3>1. CASE \E m \in Clusters : StartReconcile(m)
      BY <3>1 DEF StartReconcile
    <3>2. CASE Worker \/ Fault \/ Restart
      BY <3>2 DEF Worker, EnsureNamespace, SkipComponent, WriteComponent,
                  RefuseComponent, Fault, Restart
    <3>3. CASE Informers \/ Relists
      <4>1. Shown
        BY <1>1, <3>3, TypeParts, ShownSteps
      <4> QED BY <4>1 DEF Shown, SeeCluster, SeeOwned, SyncNamespace
    <3>4. CASE \/ \E c \in Objects : CollectOrphan(c) \/ DeleteOwned(c)
               \/ \E c \in HelmManaged : HelmApply(c)
               \/ UNCHANGED vars
      BY <3>4 DEF CollectOrphan, DeleteOwned, HelmApply, vars
    <3> QED BY <1>1, <3>1, <3>2, <3>3, <3>4, DeletableAssumption DEF Next, Users
  <2> QED BY <2>1, <2>3, <2>4, <2>5, <2>6, <2>7, <2>8, <2>9
<1>2. TypeOK /\ FinalizerInv /\ [Next]_vars => [\A n \in Clusters : Kept(n)]_vars
  BY <1>1
<1> QED BY <1>2, TypeCorrect, FinalizerInvariant, PTL DEF Spec, FinalizerHonoured
=============================================================================
