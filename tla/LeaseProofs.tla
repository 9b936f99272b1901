----------------------------- MODULE LeaseProofs -----------------------------
(***************************************************************************)
(* Who controls the managed objects, and what users wrote: theorems about  *)
(* ClusterReconciler for any set of clusters, any pipeline, any specs and  *)
(* any number of outside events.                                           *)
(***************************************************************************)
EXTENDS ClusterReconcilerProofs

-----------------------------------------------------------------------------
(* The ways in which one step changes the stored version of cluster n.     *)

Creation(n) ==
  /\ ~ cr[n].exists /\ cr'[n].exists
  /\ cr'[n].uid = cr[n].uid + 1
  /\ cr'[n].gen = 1 /\ cr'[n].obs = 0
  /\ ~ cr'[n].fin /\ ~ cr'[n].deleting
  /\ cr'[n].spec = wanted'[n]
  /\ UNCHANGED workVars

(* The object stays the one it is. *)
SameLife(n) ==
  cr[n].exists /\ cr'[n].exists /\ cr'[n].uid = cr[n].uid

Edition(n) ==
  /\ SameLife(n)
  /\ cr'[n].fin = cr[n].fin /\ cr'[n].deleting = cr[n].deleting
  /\ cr'[n].gen = cr[n].gen + 1 /\ cr'[n].obs = cr[n].obs
  /\ cr'[n].spec = wanted'[n]
  /\ UNCHANGED workVars

DeletionMark(n) ==
  /\ SameLife(n)
  /\ cr[n].fin /\ cr'[n].fin /\ cr'[n].deleting
  /\ cr'[n].gen = cr[n].gen + 1 /\ cr'[n].obs = cr[n].obs
  /\ cr'[n].spec = cr[n].spec /\ wanted' = wanted
  /\ UNCHANGED workVars

Disappearance(n) ==
  /\ cr[n].exists /\ ~ cr'[n].exists
  /\ cr'[n].uid = cr[n].uid
  /\ wanted' = wanted
  /\ pc' = "idle" \/ UNCHANGED workVars

Protection(n) ==
  /\ SameLife(n)
  /\ n = cur /\ cur' = cur /\ pc = "finalizer" /\ pc' = "namespace"
  /\ local = cr[n] /\ local' = cr'[n]
  /\ ~ cr[n].fin /\ cr'[n].fin /\ ~ cr[n].deleting /\ ~ cr'[n].deleting
  /\ cr'[n].obs = cr[n].obs
  /\ \/ cr'[n].gen = cr[n].gen /\ cr'[n].spec = cr[n].spec
     \/ cr'[n].gen = cr[n].gen + 1
  /\ cr'[n].spec.rev = cr[n].spec.rev /\ wanted' = wanted

StatusReport(n) ==
  /\ SameLife(n)
  /\ n = cur /\ pc = "status" /\ pc' = "idle"
  /\ cr'[n].fin = cr[n].fin /\ cr'[n].deleting = cr[n].deleting
  /\ cr'[n].gen = cr[n].gen /\ cr'[n].obs = local.gen
  /\ cr'[n].spec = cr[n].spec /\ wanted' = wanted

ClusterStep(n) ==
  /\ StoreCluster(n, cr'[n])
  /\ cr'[n] \in ClusterVersion
  /\ cr'[n].rv = cr[n].rv + 1
  /\ UNCHANGED ownedVars
  /\ \A m \in Clusters \ {n} : cr'[m] = cr[m] /\ wanted'[m] = wanted[m]
  /\ \/ Creation(n) \/ Edition(n) \/ DeletionMark(n) \/ Disappearance(n)
     \/ Protection(n) \/ StatusReport(n)

LEMMA StoredVersion ==
  ASSUME TypeOK, NEW n \in Clusters, NEW v \in ClusterVersion, StoreCluster(n, v)
  PROVE  cr'[n] = v /\ \A m \in Clusters \ {n} : cr'[m] = cr[m]
BY DEF StoreCluster, TypeOK

(* AddFinalizer keeps the text of the spec; a change of the rest is a new  *)
(* generation.                                                             *)
LEMMA FinalizerSpec ==
  ASSUME NEW v \in ClusterVersion
  PROVE  LET w == WithFinalizer(v) IN
         /\ w.obs = v.obs /\ w.spec.rev = v.spec.rev
         /\ \/ w.gen = v.gen /\ w.spec = v.spec
            \/ w.gen = v.gen + 1
<1>1. v.spec \in ClusterSpec
  BY DEF ClusterVersion
<1>2. RoundTrip(v.spec).rev = v.spec.rev
  BY <1>1 DEF RoundTrip, ClusterSpec
<1> QED BY <1>2 DEF WithFinalizer, NextGen, ClusterVersion

LEMMA UserSteps ==
  ASSUME TypeOK, Users
  PROVE  \E n \in Clusters : ClusterStep(n)
<1>a. \A n \in Clusters : cr[n] \in ClusterVersion
  BY DEF TypeOK
<1>b. wanted \in [Clusters -> ClusterSpec]
  BY DEF TypeOK
<1>1. ASSUME NEW n \in Clusters, NEW s \in UserSpecs, CreateCluster(n, s)
      PROVE  ClusterStep(n)
  <2> DEFINE v == [exists |-> TRUE, rv |-> cr[n].rv + 1, uid |-> cr[n].uid + 1,
                   gen |-> 1, deleting |-> FALSE, fin |-> FALSE, spec |-> s,
                   obs |-> 0]
  <2>1. v \in ClusterVersion
    BY <1>a, SpecsAssumption DEF ClusterVersion
  <2>2. StoreCluster(n, v) /\ ~ cr[n].exists
    BY <1>1 DEF CreateCluster
  <2>3. cr'[n] = v /\ \A m \in Clusters \ {n} : cr'[m] = cr[m]
    BY <2>1, <2>2, StoredVersion
  <2>4. wanted' = [wanted EXCEPT ![n] = s] /\ UNCHANGED <<ownedVars, workVars>>
    BY <1>1 DEF CreateCluster
  <2>5. Creation(n)
    BY <1>b, <2>2, <2>3, <2>4 DEF Creation
  <2> QED BY <1>b, <2>1, <2>2, <2>3, <2>4, <2>5 DEF ClusterStep
<1>2. ASSUME NEW n \in Clusters, NEW s \in UserSpecs, EditSpec(n, s)
      PROVE  ClusterStep(n)
  <2> DEFINE v == [NextGen(cr[n]) EXCEPT !.spec = s]
  <2>1. NextGen(cr[n]) \in ClusterVersion /\ s \in ClusterSpec
    BY <1>a, NextGenType, SpecsAssumption
  <2>2. /\ v \in ClusterVersion /\ v.rv = cr[n].rv + 1 /\ v.exists = cr[n].exists
        /\ v.fin = cr[n].fin /\ v.uid = cr[n].uid /\ v.deleting = cr[n].deleting
        /\ v.gen = cr[n].gen + 1 /\ v.obs = cr[n].obs /\ v.spec = s
    BY <1>a, <2>1 DEF ClusterVersion, NextGen
  <2>3. StoreCluster(n, v) /\ cr[n].exists
    BY <1>2 DEF EditSpec
  <2> HIDE DEF v
  <2>4. cr'[n] = v /\ \A m \in Clusters \ {n} : cr'[m] = cr[m]
    BY <2>2, <2>3, StoredVersion
  <2>5. wanted' = [wanted EXCEPT ![n] = s] /\ UNCHANGED <<ownedVars, workVars>>
    BY <1>2 DEF EditSpec
  <2>6. Edition(n)
    BY <1>b, <2>2, <2>3, <2>4, <2>5 DEF Edition, SameLife
  <2> QED BY <1>b, <2>2, <2>3, <2>4, <2>5, <2>6 DEF ClusterStep
<1>3. ASSUME NEW n \in Clusters, DeleteCluster(n)
      PROVE  ClusterStep(n)
  <2>1. cr[n].exists /\ wanted' = wanted /\ UNCHANGED <<ownedVars, workVars>>
    BY <1>3 DEF DeleteCluster
  <2>2. CASE cr[n].fin
    <3> DEFINE v == [NextGen(cr[n]) EXCEPT !.deleting = TRUE]
    <3>1. NextGen(cr[n]) \in ClusterVersion
      BY <1>a, NextGenType
    <3>2. /\ v \in ClusterVersion /\ v.rv = cr[n].rv + 1 /\ v.exists = cr[n].exists
          /\ v.fin = cr[n].fin /\ v.uid = cr[n].uid /\ v.deleting
          /\ v.gen = cr[n].gen + 1 /\ v.obs = cr[n].obs /\ v.spec = cr[n].spec
      BY <1>a, <3>1 DEF ClusterVersion, NextGen
    <3>3. StoreCluster(n, v)
      BY <1>3, <2>2 DEF DeleteCluster
    <3> HIDE DEF v
    <3>4. cr'[n] = v /\ \A m \in Clusters \ {n} : cr'[m] = cr[m]
      BY <3>2, <3>3, StoredVersion
    <3>5. DeletionMark(n)
      BY <2>1, <2>2, <3>2, <3>4 DEF DeletionMark, SameLife
    <3> QED BY <2>1, <3>2, <3>3, <3>4, <3>5 DEF ClusterStep
  <2>3. CASE ~ cr[n].fin
    <3> DEFINE v == Absent(cr[n].rv + 1, cr[n].uid)
    <3>1. cr[n].rv + 1 \in Nat /\ cr[n].uid \in Nat
      BY <1>a DEF ClusterVersion
    <3>2. v \in ClusterVersion /\ v.rv = cr[n].rv + 1 /\ v.uid = cr[n].uid /\ ~ v.exists
      BY <3>1, AbsentType DEF Absent
    <3>3. StoreCluster(n, v)
      BY <1>3, <2>3 DEF DeleteCluster
    <3> HIDE DEF v
    <3>4. cr'[n] = v /\ \A m \in Clusters \ {n} : cr'[m] = cr[m]
      BY <3>2, <3>3, StoredVersion
    <3>5. Disappearance(n)
      BY <2>1, <3>2, <3>4 DEF Disappearance
    <3> QED BY <2>1, <3>2, <3>3, <3>4, <3>5 DEF ClusterStep
  <2> QED BY <2>2, <2>3
<1> QED BY <1>1, <1>2, <1>3 DEF Users

(* The three writes of the worker. *)
LEMMA WorkerSteps ==
  ASSUME TypeOK, FinalizerInv, cr' # cr,
         AddFinalizer \/ UpdateStatus \/ RemoveFinalizer
  PROVE  \E n \in Clusters : ClusterStep(n)
<1>a. \A n \in Clusters : cr[n] \in ClusterVersion
  BY DEF TypeOK
<1>b. cur \in Clusters /\ local \in ClusterVersion /\ local \in Seen(cur)
  BY DEF TypeOK, Seen, AddFinalizer, UpdateStatus, RemoveFinalizer
<1>c. wanted' = wanted /\ UNCHANGED ownedVars
  BY DEF AddFinalizer, UpdateStatus, RemoveFinalizer, userVars
<1>d. UpdateAccepted(cr[cur], local) => local = cr[cur]
  BY <1>b DEF UpdateAccepted, FinalizerInv, SeenBehind
<1>1. CASE AddFinalizer
  <2> DEFINE v == WithFinalizer(local)
  <2>1. UpdateAccepted(cr[cur], local)
    BY <1>1 DEF AddFinalizer, crVars
  <2>2. /\ StoreCluster(cur, v) /\ local' = v /\ cur' = cur
        /\ pc = "finalizer" /\ pc' = "namespace"
    BY <1>1, <2>1 DEF AddFinalizer
  <2>3. local = cr[cur] /\ local.exists /\ ~ local.fin /\ ~ local.deleting
    BY <1>d, <2>1, <2>2 DEF FinalizerInv, HeldMatchesPhase
  <2>4. /\ v \in ClusterVersion /\ v.rv = local.rv + 1 /\ v.exists = local.exists
        /\ v.fin /\ v.uid = local.uid /\ v.deleting = local.deleting
        /\ v.obs = local.obs /\ v.spec.rev = local.spec.rev
        /\ \/ v.gen = local.gen /\ v.spec = local.spec
           \/ v.gen = local.gen + 1
    BY <1>b, WithFinalizerType, FinalizerFields, FinalizerSpec
  <2> HIDE DEF v
  <2>5. cr'[cur] = v /\ \A m \in Clusters \ {cur} : cr'[m] = cr[m]
    BY <1>b, <2>2, <2>4, StoredVersion
  <2>6. Protection(cur)
    BY <1>c, <2>2, <2>3, <2>4, <2>5 DEF Protection, SameLife
  <2>7. ClusterStep(cur)
    BY <1>c, <2>2, <2>3, <2>4, <2>5, <2>6 DEF ClusterStep
  <2> QED BY <1>b, <2>7
<1>2. CASE UpdateStatus
  <2> DEFINE v == [cr[cur] EXCEPT !.obs = local.gen, !.rv = @ + 1]
  <2>1. /\ pc = "status" /\ cr[cur].exists /\ StoreCluster(cur, v) /\ pc' = "idle"
    BY <1>2 DEF UpdateStatus, crVars, Finish
  <2>2. cr[cur] \in ClusterVersion /\ cr[cur].rv + 1 \in Nat /\ local.gen \in Nat
    BY <1>a, <1>b DEF ClusterVersion
  <2>3. /\ v \in ClusterVersion /\ v.rv = cr[cur].rv + 1 /\ v.exists = cr[cur].exists
        /\ v.fin = cr[cur].fin /\ v.uid = cr[cur].uid /\ v.deleting = cr[cur].deleting
        /\ v.gen = cr[cur].gen /\ v.obs = local.gen /\ v.spec = cr[cur].spec
    BY <2>2 DEF ClusterVersion
  <2> HIDE DEF v
  <2>4. cr'[cur] = v /\ \A m \in Clusters \ {cur} : cr'[m] = cr[m]
    BY <1>b, <2>1, <2>3, StoredVersion
  <2>5. StatusReport(cur)
    BY <1>c, <2>1, <2>3, <2>4 DEF StatusReport, SameLife
  <2>6. ClusterStep(cur)
    BY <1>c, <2>1, <2>3, <2>4, <2>5 DEF ClusterStep
  <2> QED BY <1>b, <2>6
<1>3. CASE RemoveFinalizer
  <2> DEFINE v == Absent(cr[cur].rv + 1, cr[cur].uid)
  <2>1. /\ cr[cur].exists /\ StoreCluster(cur, v) /\ pc' = "idle"
    BY <1>3 DEF RemoveFinalizer, crVars, Finish, UpdateAccepted
  <2>2. cr[cur].rv + 1 \in Nat /\ cr[cur].uid \in Nat
    BY <1>a, <1>b DEF ClusterVersion
  <2>3. v \in ClusterVersion /\ v.rv = cr[cur].rv + 1 /\ v.uid = cr[cur].uid /\ ~ v.exists
    BY <2>2, AbsentType DEF Absent
  <2> HIDE DEF v
  <2>4. cr'[cur] = v /\ \A m \in Clusters \ {cur} : cr'[m] = cr[m]
    BY <1>b, <2>1, <2>3, StoredVersion
  <2>5. Disappearance(cur)
    BY <1>c, <2>1, <2>3, <2>4 DEF Disappearance
  <2>6. ClusterStep(cur)
    BY <1>c, <2>1, <2>3, <2>4, <2>5 DEF ClusterStep
  <2> QED BY <1>b, <2>6
<1> QED BY <1>1, <1>2, <1>3

LEMMA ClusterSteps ==
  ASSUME TypeOK, FinalizerInv, [Next]_vars
  PROVE  \/ cr' = cr /\ wanted' = wanted
         \/ \E n \in Clusters : ClusterStep(n)
<1>1. CASE Users
  BY <1>1, UserSteps
<1>2. CASE (AddFinalizer \/ UpdateStatus \/ RemoveFinalizer) /\ cr' # cr
  BY <1>2, WorkerSteps
<1>3. CASE (AddFinalizer \/ UpdateStatus \/ RemoveFinalizer) /\ cr' = cr
  BY <1>3 DEF AddFinalizer, UpdateStatus, RemoveFinalizer, userVars
<1>4. CASE \/ \E n \in Clusters : StartReconcile(n)
           \/ EnsureNamespace \/ SkipComponent \/ WriteComponent \/ RefuseComponent
           \/ Fault \/ Restart
  BY <1>4 DEF StartReconcile, EnsureNamespace, SkipComponent, WriteComponent,
              RefuseComponent, Fault, Restart, crVars, userVars
<1>5. CASE Informers \/ Relists
  <2>1. Shown
    BY <1>5, TypeParts, ShownSteps
  <2> QED BY <2>1 DEF Shown, SeeCluster, SeeOwned, SyncNamespace, crVars, userVars
<1>6. CASE \/ \E c \in Objects : CollectOrphan(c) \/ DeleteOwned(c)
           \/ \E c \in HelmManaged : HelmApply(c)
           \/ UNCHANGED vars
  BY <1>6 DEF CollectOrphan, DeleteOwned, HelmApply, vars, crVars, userVars
<1> QED BY <1>1, <1>2, <1>3, <1>4, <1>5, <1>6, DeletableAssumption DEF Next, Worker

-----------------------------------------------------------------------------
(***************************************************************************)
(* The finalizer is never added to an object that differs from the stored  *)
(* one, so what a user wrote in between is never sent back to what it was  *)
(* (Reconcile, lines 73-78).                                               *)
(***************************************************************************)
THEOREM NoLostEditAlways == Spec => []NoLostEdit
<1>1. Init => NoLostEdit
  BY DEF Init, NoLostEdit, Absent
<1>2. TypeOK /\ FinalizerInv /\ NoLostEdit /\ [Next]_vars => NoLostEdit'
  <2> SUFFICES ASSUME TypeOK, FinalizerInv, NoLostEdit, [Next]_vars PROVE NoLostEdit'
    OBVIOUS
  <2>1. CASE cr' = cr /\ wanted' = wanted
    BY <2>1 DEF NoLostEdit
  <2>2. ASSUME NEW n \in Clusters, ClusterStep(n)
        PROVE  NoLostEdit'
    <3>1. \A m \in Clusters \ {n} : cr'[m] = cr[m] /\ wanted'[m] = wanted[m]
      BY <2>2 DEF ClusterStep
    <3>2. cr'[n].exists => cr'[n].spec.rev = wanted'[n].rev
      BY <2>2 DEF ClusterStep, Creation, Edition, DeletionMark, Disappearance,
                  Protection, StatusReport, SameLife, NoLostEdit
    <3> QED BY <3>1, <3>2 DEF NoLostEdit
  <2> QED BY <2>1, <2>2, ClusterSteps
<1> QED BY <1>1, <1>2, TypeCorrect, FinalizerInvariant, PTL DEF Spec

-----------------------------------------------------------------------------
(* The managed objects: the cache is behind, as for clusters. *)
OwnedBehind ==
  \A c \in Objects : \A v \in {ownedCache[c]} \cup ownedWatch[c] :
    v.rv <= owned[c].rv /\ (v.rv = owned[c].rv => v = owned[c])

LEMMA StoreOwnedEffect ==
  ASSUME TypeOK, NEW c \in Objects, NEW v \in ObjectVersion, v.rv = owned[c].rv,
         StoreOwned(c, v)
  PROVE  /\ ownedCache' = ownedCache
         /\ \A d \in Objects : d # c => owned'[d] = owned[d] /\ ownedWatch'[d] = ownedWatch[d]
         /\ owned'[c].exists = v.exists
         /\ owned'[c].owner = v.owner
         /\ owned'[c].tmpl = v.tmpl
         /\ \/ owned'[c] = owned[c] /\ ownedWatch'[c] = ownedWatch[c]
            \/ /\ owned'[c].rv = owned[c].rv + 1
               /\ ownedWatch'[c] = ownedWatch[c] \cup {owned'[c]}
<1>1. CASE v = owned[c]
  BY <1>1 DEF StoreOwned, ownedVars
<1>2. CASE v # owned[c]
  <2> DEFINE w == [v EXCEPT !.rv = @ + 1]
  <2>1. /\ owned' = [owned EXCEPT ![c] = w]
        /\ ownedWatch' = [ownedWatch EXCEPT ![c] = @ \cup {w}]
        /\ ownedCache' = ownedCache
    BY <1>2 DEF StoreOwned
  <2>2. w.exists = v.exists /\ w.owner = v.owner /\ w.tmpl = v.tmpl /\ w.rv = v.rv + 1
    BY DEF ObjectVersion
  <2> HIDE DEF w
  <2> QED BY <2>1, <2>2 DEF TypeOK
<1> QED BY <1>1, <1>2

(***************************************************************************)
(* The ways in which one step changes the managed object c.                *)
(***************************************************************************)
Written(c) ==
  /\ pc = "component" /\ c = Pipeline[idx] /\ Enabled(c, local.spec)
  /\ NextComponent
  /\ owned'[c].exists
  /\ owned'[c].owner = [name |-> cur, uid |-> local.uid]
  /\ owned'[c].tmpl = TemplateFor(c, local.spec)
  /\ owned[c].exists => MayControl(owned[c], cur)

Collected(c) ==
  /\ owned[c].exists /\ ~ owned'[c].exists
  /\ ~ Live(owned[c].owner)
  /\ owned'[c].owner = owned[c].owner
  /\ UNCHANGED workVars

FromHelm(c) ==
  /\ c \in HelmManaged
  /\ owned'[c].exists
  /\ owned'[c].owner = IF owned[c].exists THEN owned[c].owner ELSE NoOwner
  /\ UNCHANGED workVars

DeletedByHand(c) ==
  /\ c \in Deletable
  /\ owned[c].exists /\ ~ owned'[c].exists
  /\ owned'[c].owner = owned[c].owner
  /\ UNCHANGED workVars

ObjectStep(c) ==
  /\ UNCHANGED crVars
  /\ ownedCache' = ownedCache
  /\ \A d \in Objects : d # c => owned'[d] = owned[d] /\ ownedWatch'[d] = ownedWatch[d]
  /\ \/ owned'[c] = owned[c] /\ ownedWatch'[c] = ownedWatch[c]
     \/ /\ owned'[c].rv = owned[c].rv + 1
        /\ ownedWatch'[c] = ownedWatch[c] \cup {owned'[c]}
  /\ Written(c) \/ Collected(c) \/ FromHelm(c) \/ DeletedByHand(c)

LEMMA WriteStep ==
  ASSUME TypeOK, OwnedBehind, WriteComponent
  PROVE  \E c \in Objects : ObjectStep(c)
<1> DEFINE c == Pipeline[idx]
<1>1. cur \in Clusters /\ local \in ClusterVersion /\ c \in Objects
  BY DEF TypeOK, WriteComponent, Objects
<1>2. /\ StoreOwned(c, Desired(owned[c], c, cur, local))
      /\ WriteAccepted(owned[c], ownedCache[c], cur)
      /\ Enabled(c, local.spec)
      /\ pc = "component" /\ NextComponent /\ UNCHANGED crVars
  BY DEF WriteComponent
<1>3. owned[c] \in ObjectVersion
  BY <1>1 DEF TypeOK
<1>4. Desired(owned[c], c, cur, local) \in ObjectVersion
  BY <1>1, <1>3, DesiredType
<1>5. /\ Desired(owned[c], c, cur, local).rv = owned[c].rv
      /\ Desired(owned[c], c, cur, local).exists
      /\ Desired(owned[c], c, cur, local).owner = [name |-> cur, uid |-> local.uid]
      /\ Desired(owned[c], c, cur, local).tmpl = TemplateFor(c, local.spec)
  BY DEF Desired
(* An accepted Update was decided on the stored version. *)
<1>6. owned[c].exists => MayControl(owned[c], cur)
  BY <1>1, <1>2 DEF WriteAccepted, UpdateAccepted, OwnedBehind
<1>7. c = Pipeline[idx]
  OBVIOUS
<1> HIDE DEF c
<1>8. /\ ownedCache' = ownedCache
      /\ \A d \in Objects : d # c => owned'[d] = owned[d] /\ ownedWatch'[d] = ownedWatch[d]
      /\ owned'[c].exists
      /\ owned'[c].owner = [name |-> cur, uid |-> local.uid]
      /\ owned'[c].tmpl = TemplateFor(c, local.spec)
      /\ \/ owned'[c] = owned[c] /\ ownedWatch'[c] = ownedWatch[c]
         \/ /\ owned'[c].rv = owned[c].rv + 1
            /\ ownedWatch'[c] = ownedWatch[c] \cup {owned'[c]}
  BY <1>1, <1>2, <1>4, <1>5, StoreOwnedEffect
<1>9. Written(c)
  BY <1>2, <1>6, <1>7, <1>8 DEF Written
<1>10. ObjectStep(c)
  BY <1>2, <1>8, <1>9 DEF ObjectStep
<1> QED BY <1>1, <1>10

LEMMA OutsideStep ==
  ASSUME TypeOK,
         \/ \E c \in Objects : CollectOrphan(c)
         \/ \E c \in HelmManaged : HelmApply(c)
         \/ \E c \in Deletable : DeleteOwned(c)
  PROVE  \E c \in Objects : ObjectStep(c)
<1>a. \A c \in Objects : owned[c] \in ObjectVersion
  BY DEF TypeOK
<1>1. ASSUME NEW c \in Objects, CollectOrphan(c) \/ (c \in Deletable /\ DeleteOwned(c))
      PROVE  ObjectStep(c)
  <2> DEFINE v == [owned[c] EXCEPT !.exists = FALSE]
  <2>1. /\ v \in ObjectVersion /\ v.rv = owned[c].rv /\ ~ v.exists
        /\ v.owner = owned[c].owner
    BY <1>a DEF ObjectVersion
  <2>2. StoreOwned(c, v) /\ owned[c].exists /\ UNCHANGED <<crVars, workVars>>
    BY <1>1 DEF CollectOrphan, DeleteOwned
  <2> HIDE DEF v
  <2>3. /\ ownedCache' = ownedCache
        /\ \A d \in Objects : d # c => owned'[d] = owned[d] /\ ownedWatch'[d] = ownedWatch[d]
        /\ ~ owned'[c].exists
        /\ owned'[c].owner = owned[c].owner
        /\ \/ owned'[c] = owned[c] /\ ownedWatch'[c] = ownedWatch[c]
           \/ /\ owned'[c].rv = owned[c].rv + 1
              /\ ownedWatch'[c] = ownedWatch[c] \cup {owned'[c]}
    BY <2>1, <2>2, StoreOwnedEffect
  <2>4. Collected(c) \/ DeletedByHand(c)
    BY <1>1, <2>2, <2>3 DEF Collected, DeletedByHand, CollectOrphan
  <2> QED BY <2>2, <2>3, <2>4 DEF ObjectStep
<1>2. ASSUME NEW c \in HelmManaged, HelmApply(c)
      PROVE  ObjectStep(c)
  <2> DEFINE v == [exists |-> TRUE, rv |-> owned[c].rv,
                   owner |-> IF owned[c].exists THEN owned[c].owner ELSE NoOwner,
                   tmpl |-> ChartTemplate]
  <2>1. c \in Objects
    BY HelmAssumption
  <2>2. v \in ObjectVersion
    BY <1>a, <2>1 DEF ObjectVersion, NoOwner, Owner, ChartTemplate, Template
  <2>3. /\ v.rv = owned[c].rv /\ v.exists
        /\ v.owner = IF owned[c].exists THEN owned[c].owner ELSE NoOwner
    OBVIOUS
  <2>4. StoreOwned(c, v) /\ UNCHANGED <<crVars, workVars>>
    BY <1>2 DEF HelmApply
  <2> HIDE DEF v
  <2>5. /\ ownedCache' = ownedCache
        /\ \A d \in Objects : d # c => owned'[d] = owned[d] /\ ownedWatch'[d] = ownedWatch[d]
        /\ owned'[c].exists
        /\ owned'[c].owner = v.owner
        /\ \/ owned'[c] = owned[c] /\ ownedWatch'[c] = ownedWatch[c]
           \/ /\ owned'[c].rv = owned[c].rv + 1
              /\ ownedWatch'[c] = ownedWatch[c] \cup {owned'[c]}
    BY <2>1, <2>2, <2>3, <2>4, StoreOwnedEffect
  <2>6. FromHelm(c)
    BY <2>3, <2>4, <2>5 DEF FromHelm
  <2> QED BY <2>4, <2>5, <2>6 DEF ObjectStep
<1> QED BY <1>1, <1>2, DeletableAssumption, HelmAssumption

(* Every other step leaves the stored objects alone. *)
LEMMA ObjectSteps ==
  ASSUME TypeOK, OwnedBehind, [Next]_vars
  PROVE  \/ UNCHANGED ownedVars
         \/ \E c \in Objects : ObjectStep(c) \/ DeliverOwned(c) \/ RelistOwned(c)
         \/ Restart
<1>1. CASE WriteComponent
  BY <1>1, WriteStep
<1>2. CASE \/ \E c \in Objects : CollectOrphan(c)
           \/ \E c \in HelmManaged : HelmApply(c)
           \/ \E c \in Deletable : DeleteOwned(c)
  BY <1>2, OutsideStep
<1>3. CASE Users \/ (Worker /\ ~ WriteComponent) \/ Fault
           \/ \E n \in Clusters : StartReconcile(n)
  BY <1>3 DEF Users, CreateCluster, EditSpec, DeleteCluster, Worker, AddFinalizer,
              EnsureNamespace, SkipComponent, RefuseComponent, UpdateStatus,
              RemoveFinalizer, Fault, StartReconcile, ownedVars
<1>4. CASE Informers \/ Relists
  BY <1>4 DEF Informers, Relists, DeliverCluster, RelistCluster, SeeCluster,
              SyncNamespace, ownedVars
<1>5. CASE UNCHANGED vars
  BY <1>5 DEF vars, ownedVars
<1> QED BY <1>1, <1>2, <1>3, <1>4, <1>5 DEF Next

LEMMA ObjectsUnchanged ==
  ASSUME \/ UNCHANGED ownedVars
         \/ Restart
         \/ \E c \in Objects : DeliverOwned(c) \/ RelistOwned(c)
  PROVE  owned' = owned
BY DEF ownedVars, Restart, DeliverOwned, RelistOwned, SeeOwned

LEMMA NextOwnedBehind == TypeOK /\ OwnedBehind /\ [Next]_vars => OwnedBehind'
<1> SUFFICES ASSUME TypeOK, OwnedBehind, [Next]_vars PROVE OwnedBehind'
  OBVIOUS
<1>a. \A c \in Objects : /\ owned[c].rv \in Nat
                         /\ ownedCache[c].rv \in Nat
                         /\ \A v \in ownedWatch[c] : v.rv \in Nat
  BY DEF TypeOK, ObjectVersion
<1>1. CASE UNCHANGED ownedVars
  BY <1>1 DEF ownedVars, OwnedBehind
<1>2. ASSUME NEW c \in Objects, ObjectStep(c)
      PROVE  OwnedBehind'
  <2> SUFFICES ASSUME NEW d \in Objects, NEW v \in {ownedCache'[d]} \cup ownedWatch'[d]
               PROVE  v.rv <= owned'[d].rv /\ (v.rv = owned'[d].rv => v = owned'[d])
    BY DEF OwnedBehind
  <2>1. CASE d # c
    BY <1>2, <2>1 DEF ObjectStep, OwnedBehind
  <2>2. CASE d = c /\ owned'[c] = owned[c] /\ ownedWatch'[c] = ownedWatch[c]
    BY <1>2, <2>2 DEF ObjectStep, OwnedBehind
  <2>3. CASE /\ d = c /\ owned'[c].rv = owned[c].rv + 1
             /\ ownedWatch'[c] = ownedWatch[c] \cup {owned'[c]}
    <3>1. v = owned'[c] \/ (v \in {ownedCache[c]} \cup ownedWatch[c])
      BY <1>2, <2>3 DEF ObjectStep
    <3>2. CASE v = owned'[c]
      BY <1>a, <2>3, <3>2
    <3>3. CASE v \in {ownedCache[c]} \cup ownedWatch[c]
      <4>1. v.rv <= owned[c].rv /\ v.rv \in Nat /\ owned[c].rv \in Nat
        BY <1>a, <3>3 DEF OwnedBehind
      <4> QED BY <2>3, <4>1
    <3> QED BY <3>1, <3>2, <3>3
  <2> QED BY <1>2, <2>1, <2>2, <2>3 DEF ObjectStep
<1>3. ASSUME NEW c \in Objects, DeliverOwned(c) \/ RelistOwned(c)
      PROVE  OwnedBehind'
  <2>1. PICK v \in ownedWatch[c] : SeeOwned(c, v)
    BY <1>3 DEF DeliverOwned, RelistOwned
  <2> QED BY <2>1 DEF SeeOwned, OwnedBehind, Newer, TypeOK
<1>4. CASE Restart
  <2>1. /\ owned' = owned /\ ownedCache' = owned
        /\ ownedWatch' = [c \in Objects |-> {}]
    BY <1>4 DEF Restart
  <2> QED BY <1>a, <2>1 DEF OwnedBehind
<1> QED BY <1>1, <1>2, <1>3, <1>4, ObjectSteps

(* No version of a managed object the operator may act on is newer than    *)
(* the stored one, and the same resourceVersion means the same object, so  *)
(* an accepted Update was decided on what is stored (CreateOrUpdate).      *)
THEOREM OwnedInvariant == Spec => []OwnedBehind
<1>1. Init => OwnedBehind
  BY DEF Init, OwnedBehind, NoObject
<1> QED BY <1>1, NextOwnedBehind, TypeCorrect, PTL DEF Spec

(***************************************************************************)
(* Control of an object never passes from one cluster to another, although *)
(* SetControllerReference looks at the cached object only: the request is  *)
(* refused when another version is stored (CreateOrUpdate, lines 127-436). *)
(***************************************************************************)
THEOREM NoStealingAlways == Spec => NoStealing
<1> DEFINE Stays ==
      \A c \in Objects :
        owned[c].exists /\ owned'[c].exists =>
          owned[c].owner.name \in {NoCluster, owned'[c].owner.name}
<1>1. TypeOK /\ OwnedBehind /\ [Next]_vars => Stays
  <2> SUFFICES ASSUME TypeOK, OwnedBehind, [Next]_vars PROVE Stays
    OBVIOUS
  <2>1. CASE owned' = owned
    BY <2>1
  <2>2. ASSUME NEW c \in Objects, ObjectStep(c)
        PROVE  Stays
    <3>1. \A d \in Objects \ {c} : owned'[d] = owned[d]
      BY <2>2 DEF ObjectStep
    <3>2. owned[c].exists /\ owned'[c].exists =>
            owned[c].owner.name \in {NoCluster, owned'[c].owner.name}
      BY <2>2 DEF ObjectStep, Written, Collected, FromHelm, DeletedByHand, MayControl
    <3> QED BY <3>1, <3>2
  <2> QED BY <2>1, <2>2, ObjectSteps, ObjectsUnchanged
<1>2. TypeOK /\ OwnedBehind /\ [Next]_vars => [Stays]_vars
  BY <1>1
<1> QED BY <1>2, TypeCorrect, OwnedInvariant, PTL DEF Spec, NoStealing

-----------------------------------------------------------------------------
(***************************************************************************)
(* The object Reconcile visits first stands for the control of all: it is  *)
(* never disabled, and here nobody deletes it by hand.                     *)
(***************************************************************************)
First == Pipeline[1]

FirstIsKept ==
  /\ \A s \in ClusterSpec : Enabled(First, s)
  /\ First \notin Deletable

(* An owner reference names an incarnation that has existed. *)
OwnerHasBeen ==
  \A c \in Objects :
    owned[c].owner.name \in Clusters =>
      owned[c].owner.uid <= cr[owned[c].owner.name].uid

(* Whoever controls anything controls the first object. *)
FirstLeads ==
  \A c \in Objects :
    owned[c].exists /\ Live(owned[c].owner) =>
      owned[First].exists /\ owned[First].owner = owned[c].owner

PastFirst == pc = "status" \/ (pc = "component" /\ idx > 1)

(* A reconcile that has got past the first object controls it. *)
FirstHeld ==
  PastFirst =>
    /\ owned[First].exists
    /\ owned[First].owner = [name |-> cur, uid |-> local.uid]

(* What every step preserves. *)
LeaseInv == OwnerHasBeen /\ FirstLeads /\ FirstHeld

LEMMA FirstType == First \in Objects /\ 1 \in 1 .. Len(Pipeline)
<1>1. Len(Pipeline) \in Nat \ {0}
  BY PipelineLength
<1> QED BY <1>1 DEF First, Objects

(* The operator gets past the first object by writing it only. *)
LEMMA PastFirstStep ==
  ASSUME TypeOK, FirstIsKept, [Next]_vars, PastFirst'
  PROVE  /\ cur' = cur /\ local' = local
         /\ PastFirst \/ (WriteComponent /\ idx = 1)
<1>1. CASE SkipComponent
  <2>1. pc = "component" /\ idx \in 1 .. Len(Pipeline) /\ local \in ClusterVersion
    BY <1>1 DEF SkipComponent, TypeOK
  <2>2. local.spec \in ClusterSpec
    BY <2>1 DEF ClusterVersion
  <2>3. idx # 1
    BY <1>1, <2>2 DEF SkipComponent, FirstIsKept, First
  <2> QED BY <1>1, <2>1, <2>3, PipelineLength DEF SkipComponent, NextComponent, PastFirst
<1>2. CASE WriteComponent
  <2>1. pc = "component" /\ idx \in 1 .. Len(Pipeline)
    BY <1>2 DEF WriteComponent, TypeOK
  <2> QED BY <1>2, <2>1, PipelineLength DEF WriteComponent, NextComponent, PastFirst
<1>3. CASE UNCHANGED workVars
  BY <1>3 DEF workVars, PastFirst
<1>4. ~ AddFinalizer /\ ~ EnsureNamespace
  BY PipelineLength DEF AddFinalizer, EnsureNamespace, PastFirst, Retry, Finish
<1>5. ~ RefuseComponent /\ ~ UpdateStatus /\ ~ RemoveFinalizer /\ ~ Fault /\ ~ Restart
  BY DEF RefuseComponent, UpdateStatus, RemoveFinalizer, Fault, Restart, PastFirst,
         Retry, Finish
<1>6. ASSUME NEW n \in Clusters, StartReconcile(n)
      PROVE  FALSE
  <2>1. crCache[n] \in ClusterVersion
    BY DEF TypeOK
  <2> QED BY <1>6, <2>1, PhaseType DEF StartReconcile, PastFirst
<1>7. CASE Users \/ Informers \/ Relists
  <2>1. Users \/ Shown
    BY <1>7, TypeParts, ShownSteps
  <2> QED BY <1>3, <2>1 DEF Users, CreateCluster, EditSpec, DeleteCluster, Shown,
                            SeeCluster, SeeOwned, SyncNamespace
<1>8. CASE \/ \E c \in Objects : CollectOrphan(c)
           \/ \E c \in HelmManaged : HelmApply(c)
           \/ \E c \in Deletable : DeleteOwned(c)
           \/ UNCHANGED vars
  BY <1>3, <1>8 DEF CollectOrphan, HelmApply, DeleteOwned, vars
<1> QED BY <1>1, <1>2, <1>4, <1>5, <1>6, <1>7, <1>8 DEF Next, Worker

(* No step brings an owner back to life. *)
LEMMA LiveBefore ==
  ASSUME TypeOK, FinalizerInv, OwnerHasBeen, [Next]_vars, NEW c \in Objects,
         Live(owned[c].owner)'
  PROVE  owned'[c].owner = owned[c].owner => Live(owned[c].owner)
<1> SUFFICES ASSUME owned'[c].owner = owned[c].owner
             PROVE  Live(owned[c].owner)
  OBVIOUS
<1> DEFINE o == owned[c].owner
<1>1. o.name \in Clusters /\ cr'[o.name].exists /\ cr'[o.name].uid = o.uid
  BY DEF Live
<1>2. o.uid <= cr[o.name].uid /\ o.uid \in Nat /\ cr[o.name].uid \in Nat
  BY <1>1 DEF OwnerHasBeen, TypeOK, ObjectVersion, Owner, ClusterVersion
<1> HIDE DEF o
<1>3. cr[o.name].exists /\ cr[o.name].uid = o.uid
  <2>1. CASE cr' = cr
    BY <1>1, <2>1
  <2>2. ASSUME NEW n \in Clusters, ClusterStep(n)
        PROVE  cr[o.name].exists /\ cr[o.name].uid = o.uid
    <3>1. CASE o.name # n
      BY <1>1, <2>2, <3>1 DEF ClusterStep
    <3>2. CASE o.name = n
      BY <1>1, <1>2, <2>2, <3>2
         DEF ClusterStep, Creation, Edition, DeletionMark, Disappearance, Protection,
             StatusReport, SameLife
    <3> QED BY <3>1, <3>2
  <2> QED BY <2>1, <2>2, ClusterSteps
<1> QED BY <1>1, <1>3 DEF Live, o

(* What a write leaves. *)
LEMMA WriteEffect ==
  ASSUME TypeOK, WriteComponent
  PROVE  /\ owned'[Pipeline[idx]].exists
         /\ owned'[Pipeline[idx]].owner = [name |-> cur, uid |-> local.uid]
         /\ owned'[Pipeline[idx]].tmpl = TemplateFor(Pipeline[idx], local.spec)
<1> DEFINE c == Pipeline[idx]
<1>1. cur \in Clusters /\ local \in ClusterVersion /\ c \in Objects
  BY DEF TypeOK, WriteComponent, Objects
<1>2. StoreOwned(c, Desired(owned[c], c, cur, local))
  BY DEF WriteComponent
<1>3. Desired(owned[c], c, cur, local) \in ObjectVersion
  BY <1>1, DesiredType DEF TypeOK
<1>4. /\ Desired(owned[c], c, cur, local).rv = owned[c].rv
      /\ Desired(owned[c], c, cur, local).exists
      /\ Desired(owned[c], c, cur, local).owner = [name |-> cur, uid |-> local.uid]
      /\ Desired(owned[c], c, cur, local).tmpl = TemplateFor(c, local.spec)
  BY DEF Desired
<1> HIDE DEF c
<1>5. /\ owned'[c].exists
      /\ owned'[c].owner = [name |-> cur, uid |-> local.uid]
      /\ owned'[c].tmpl = TemplateFor(c, local.spec)
  BY <1>1, <1>2, <1>3, <1>4, StoreOwnedEffect
<1> QED BY <1>5 DEF c

(* Nothing takes the first object from an owner that exists. *)
LEMMA FirstStays ==
  ASSUME TypeOK, InFlightOwnerAlive, FirstIsKept, NEW c \in Objects, ObjectStep(c),
         owned[First].exists, Live(owned[First].owner)
  PROVE  owned'[First].exists /\ owned'[First].owner = owned[First].owner
<1> DEFINE o == owned[First].owner
<1>a. o \in Owner
  BY FirstType DEF TypeOK, ObjectVersion
<1>1. CASE c # First
  BY <1>1, FirstType DEF ObjectStep
<1>2. CASE c = First
  <2>1. ~ Collected(First) /\ ~ DeletedByHand(First)
    BY DEF Collected, DeletedByHand, FirstIsKept
  <2>2. CASE Written(First)
    <3>1. /\ o.name \in Clusters /\ o.name \in {NoCluster, cur} /\ o.uid = cr[o.name].uid
      BY <2>2 DEF Written, MayControl, Live
    <3>2. cr[cur].uid = local.uid
      BY <2>2 DEF Written, InFlightOwnerAlive
    <3>3. o.name = cur /\ o.uid = local.uid
      BY <3>1, <3>2, NoClusterAssumption
    <3>4. o = [name |-> cur, uid |-> local.uid]
      BY <1>a, <3>3 DEF Owner
    <3> QED BY <2>2, <3>4 DEF Written
  <2>3. CASE FromHelm(First)
    BY <2>3 DEF FromHelm
  <2> QED BY <1>2, <2>1, <2>2, <2>3 DEF ObjectStep
<1> QED BY <1>1, <1>2

LEMMA NextOwnerHasBeen ==
  ASSUME TypeOK, FinalizerInv, InFlightOwnerAlive, OwnedBehind, OwnerHasBeen,
         [Next]_vars
  PROVE  OwnerHasBeen'
<1> SUFFICES ASSUME NEW d \in Objects, owned'[d].owner.name \in Clusters
             PROVE  owned'[d].owner.uid <= cr'[owned'[d].owner.name].uid
  BY DEF OwnerHasBeen
<1>a. \A n \in Clusters : cr[n].uid \in Nat
  BY DEF TypeOK, ClusterVersion
<1>b. \A c \in Objects : owned[c].owner.uid \in Nat
  BY DEF TypeOK, ObjectVersion, Owner
<1>1. CASE owned' = owned /\ cr' = cr
  BY <1>1 DEF OwnerHasBeen
<1>2. ASSUME NEW n \in Clusters, ClusterStep(n)
      PROVE  owned'[d].owner.uid <= cr'[owned'[d].owner.name].uid
  <2>1. owned' = owned /\ \A m \in Clusters \ {n} : cr'[m] = cr[m]
    BY <1>2 DEF ClusterStep, ownedVars
  <2>2. cr'[n].uid = cr[n].uid \/ cr'[n].uid = cr[n].uid + 1
    BY <1>2 DEF ClusterStep, Creation, Edition, DeletionMark, Disappearance,
                Protection, StatusReport, SameLife
  <2>3. owned[d].owner.uid <= cr[owned[d].owner.name].uid
    BY <2>1 DEF OwnerHasBeen
  <2> QED BY <1>a, <1>b, <2>1, <2>2, <2>3
<1>3. ASSUME NEW c \in Objects, ObjectStep(c)
      PROVE  owned'[d].owner.uid <= cr'[owned'[d].owner.name].uid
  <2>0. cr' = cr
    BY <1>3 DEF ObjectStep, crVars
  <2>1. CASE owned'[d].owner = owned[d].owner
    BY <2>0, <2>1 DEF OwnerHasBeen
  <2>2. CASE owned'[d].owner # owned[d].owner
    <3>1. d = c /\ (Written(c) \/ FromHelm(c))
      BY <1>3, <2>2 DEF ObjectStep, Collected, DeletedByHand
    <3>2. CASE Written(c)
      <4>1. owned'[d].owner = [name |-> cur, uid |-> local.uid] /\ cr[cur].uid = local.uid
        BY <3>1, <3>2 DEF Written, InFlightOwnerAlive
      <4>2. cur \in Clusters
        BY <4>1
      <4> QED BY <1>a, <2>0, <4>1, <4>2
    <3>3. CASE FromHelm(c)
      BY <2>2, <3>1, <3>3, NoClusterAssumption DEF FromHelm, NoOwner
    <3> QED BY <3>1, <3>2, <3>3
  <2> QED BY <2>1, <2>2
<1>4. \/ owned' = owned /\ cr' = cr
      \/ \E n \in Clusters : ClusterStep(n)
      \/ \E c \in Objects : ObjectStep(c)
  BY ObjectSteps, ObjectsUnchanged, ClusterSteps
<1> QED BY <1>1, <1>2, <1>3, <1>4

LEMMA NextFirstLeads ==
  ASSUME TypeOK, FinalizerInv, InFlightOwnerAlive, OwnedBehind, FirstIsKept, LeaseInv,
         [Next]_vars
  PROVE  FirstLeads'
<1> SUFFICES ASSUME NEW d \in Objects, owned'[d].exists, Live(owned[d].owner)'
             PROVE  owned'[First].exists /\ owned'[First].owner = owned'[d].owner
  BY DEF FirstLeads
<1>a. OwnerHasBeen /\ FirstLeads /\ FirstHeld
  BY DEF LeaseInv
<1>1. CASE owned' = owned
  <2>1. Live(owned[d].owner)
    BY <1>a, <1>1, LiveBefore
  <2> QED BY <1>a, <1>1, <2>1 DEF FirstLeads
<1>2. ASSUME NEW c \in Objects, ObjectStep(c)
      PROVE  owned'[First].exists /\ owned'[First].owner = owned'[d].owner
  <2>0. cr' = cr
    BY <1>2 DEF ObjectStep, crVars
  <2>1. CASE owned[d].exists /\ owned'[d].owner = owned[d].owner
    <3>1. Live(owned[d].owner)
      BY <2>0, <2>1 DEF Live
    <3>2. owned[First].exists /\ owned[First].owner = owned[d].owner
      BY <1>a, <2>1, <3>1 DEF FirstLeads
    <3> QED BY <1>2, <2>1, <3>1, <3>2, FirstStays
  <2>2. CASE d = First
    BY <2>2
  <2>3. CASE d # First /\ ~ (owned[d].exists /\ owned'[d].owner = owned[d].owner)
    <3>1. d = c
      BY <1>2, <2>3 DEF ObjectStep
    <3>2. ~ Collected(c) /\ ~ DeletedByHand(c)
      BY <3>1 DEF Collected, DeletedByHand
    <3>3. ~ FromHelm(c)
      BY <2>3, <3>1, NoClusterAssumption DEF FromHelm, NoOwner, Live
    <3>4. Written(c)
      BY <1>2, <3>2, <3>3 DEF ObjectStep
    <3>5. PastFirst
      <4>1. idx \in 1 .. Len(Pipeline) /\ idx # 1
        BY <2>3, <3>1, <3>4 DEF Written, TypeOK, First
      <4> QED BY <3>4, <4>1 DEF Written, PastFirst
    <3>6. /\ owned[First].exists
          /\ owned[First].owner = [name |-> cur, uid |-> local.uid]
      BY <1>a, <3>5 DEF FirstHeld
    <3>7. owned'[First] = owned[First]
      BY <1>2, <2>3, <3>1, FirstType DEF ObjectStep
    <3>8. owned'[d].owner = [name |-> cur, uid |-> local.uid]
      BY <3>1, <3>4 DEF Written
    <3> QED BY <3>6, <3>7, <3>8
  <2> QED BY <2>1, <2>2, <2>3
<1> QED BY <1>1, <1>2, ObjectSteps, ObjectsUnchanged

LEMMA NextFirstHeld ==
  ASSUME TypeOK, FinalizerInv, InFlightOwnerAlive, OwnedBehind, FirstIsKept, FirstHeld,
         [Next]_vars
  PROVE  FirstHeld'
<1> SUFFICES ASSUME PastFirst'
             PROVE  /\ owned'[First].exists
                    /\ owned'[First].owner = [name |-> cur', uid |-> local'.uid]
  BY DEF FirstHeld
<1>a. cur' = cur /\ local' = local /\ (PastFirst \/ (WriteComponent /\ idx = 1))
  BY PastFirstStep
<1>1. CASE WriteComponent /\ idx = 1
  BY <1>a, <1>1, WriteEffect DEF First
<1>2. CASE PastFirst
  <2>1. /\ owned[First].exists
        /\ owned[First].owner = [name |-> cur, uid |-> local.uid]
    BY <1>2 DEF FirstHeld
  <2>2. Live(owned[First].owner)
    BY <1>2, <2>1 DEF Live, PastFirst, InFlightOwnerAlive, TypeOK
  <2>3. owned'[First].exists /\ owned'[First].owner = owned[First].owner
    BY <2>1, <2>2, FirstStays, ObjectSteps, ObjectsUnchanged
  <2> QED BY <1>a, <2>1, <2>3
<1> QED BY <1>a, <1>1, <1>2

(***************************************************************************)
(* Whoever controls any of the objects controls the first one, and a       *)
(* reconcile that is past the first object controls it for its cluster     *)
(* (Reconcile, lines 86-103, stops at the first refusal).                  *)
(***************************************************************************)
THEOREM LeaseInvariant ==
  ASSUME FirstIsKept
  PROVE  Spec => []LeaseInv
<1>1. Init => LeaseInv
  BY FirstType, NoClusterAssumption
     DEF Init, LeaseInv, OwnerHasBeen, FirstLeads, FirstHeld, PastFirst, NoObject, NoOwner
<1>2. TypeOK /\ FinalizerInv /\ InFlightOwnerAlive /\ OwnedBehind /\ LeaseInv /\ [Next]_vars
        => LeaseInv'
  BY NextOwnerHasBeen, NextFirstLeads, NextFirstHeld DEF LeaseInv
<1> QED BY <1>1, <1>2, TypeCorrect, FinalizerInvariant, InFlightSafe, OwnedInvariant,
           PTL DEF Spec

(***************************************************************************)
(* Two live clusters never each control some of the objects.               *)
(***************************************************************************)
THEOREM OneControllerAlways ==
  ASSUME FirstIsKept
  PROVE  Spec => []OneController
<1>1. LeaseInv => OneController
  BY DEF LeaseInv, FirstLeads, OneController
<1> QED BY <1>1, LeaseInvariant, PTL

-----------------------------------------------------------------------------
(* The lease of ControlLease, read off the first object. *)

FirstOwner ==
  IF owned[First].exists /\ Live(owned[First].owner)
    THEN owned[First].owner.name
    ELSE NoCluster

HolderLeads == LeaseHolder = FirstOwner

LEMMA HolderIsFirstOwner == FirstLeads => HolderLeads
<1> SUFFICES ASSUME FirstLeads PROVE LeaseHolder = FirstOwner
  BY DEF HolderLeads
<1>1. CASE owned[First].exists /\ Live(owned[First].owner)
  <2>1. owned[First].owner.name \in Clusters
    BY <1>1 DEF Live
  <2>2. \A n \in Clusters :
          (\E c \in Objects : Controls(n, c)) <=> n = owned[First].owner.name
    BY <1>1, FirstType DEF Controls, FirstLeads
  <2> QED BY <1>1, <2>1, <2>2 DEF LeaseHolder, FirstOwner
<1>2. CASE ~ (owned[First].exists /\ Live(owned[First].owner))
  <2>1. \A n \in Clusters, c \in Objects : ~ Controls(n, c)
    BY <1>2 DEF Controls, FirstLeads
  <2> QED BY <1>2, <2>1 DEF LeaseHolder, FirstOwner
<1> QED BY <1>1, <1>2

(* What one step does to the lease. *)
LEMMA LeaseStep ==
  ASSUME TypeOK, FinalizerInv, InFlightOwnerAlive, OwnedBehind, FirstIsKept, LeaseInv,
         HolderLeads, HolderLeads', [Next]_vars
  PROVE  [Lease!Next]_<<{n \in Clusters : cr[n].exists}, LeaseHolder>>
<1> DEFINE alive == {n \in Clusters : cr[n].exists}
           o == owned[First].owner
           Holds == owned[First].exists /\ Live(o)
<1>a. OwnerHasBeen /\ First \in Objects
  BY FirstType DEF LeaseInv
<1>b. LeaseHolder = FirstOwner /\ LeaseHolder' = FirstOwner'
  BY DEF HolderLeads
<1>1. CASE owned' = owned /\ cr' = cr
  BY <1>b, <1>1 DEF FirstOwner, Live
<1>2. ASSUME NEW n \in Clusters, ClusterStep(n)
      PROVE  [Lease!Next]_<<alive, LeaseHolder>>
  <2>1. owned' = owned /\ \A m \in Clusters \ {n} : cr'[m] = cr[m]
    BY <1>2 DEF ClusterStep, ownedVars
  <2>2. Holds' => Holds
    BY <1>a, <2>1, LiveBefore
  <2>3. CASE Creation(n)
    <3>1. alive' = alive \cup {n} /\ n \notin alive
      BY <2>1, <2>3 DEF Creation
    <3>2. Holds => Holds'
      BY <2>1, <2>3 DEF Creation, Live
    <3>3. LeaseHolder' = LeaseHolder
      BY <1>b, <2>1, <2>2, <3>2 DEF FirstOwner
    <3> QED BY <3>1, <3>3 DEF Lease!Next, Lease!Create
  <2>4. CASE SameLife(n)
    <3>1. alive' = alive
      BY <2>1, <2>4 DEF SameLife
    <3>2. Holds => Holds'
      BY <2>1, <2>4 DEF SameLife, Live
    <3>3. LeaseHolder' = LeaseHolder
      BY <1>b, <2>1, <2>2, <3>2 DEF FirstOwner
    <3> QED BY <3>1, <3>3
  <2>5. CASE Disappearance(n)
    <3>1. alive' = alive \ {n} /\ n \in alive
      BY <2>1, <2>5 DEF Disappearance
    <3>2. Holds' <=> Holds /\ o.name # n
      BY <2>1, <2>2, <2>5 DEF Disappearance, Live
    <3>3. LeaseHolder' = IF LeaseHolder = n THEN NoCluster ELSE LeaseHolder
      BY <1>b, <2>1, <3>2, NoClusterAssumption DEF FirstOwner
    <3> QED BY <3>1, <3>3 DEF Lease!Next, Lease!Remove
  <2> QED BY <1>2, <2>3, <2>4, <2>5
       DEF ClusterStep, Edition, DeletionMark, Protection, StatusReport
<1>3. ASSUME NEW c \in Objects, ObjectStep(c)
      PROVE  [Lease!Next]_<<alive, LeaseHolder>>
  <2>1. cr' = cr /\ alive' = alive
    BY <1>3 DEF ObjectStep, crVars
  <2>2. CASE Holds
    <3>1. owned'[First].exists /\ owned'[First].owner = o
      BY <1>3, <2>2, FirstStays
    <3>2. LeaseHolder' = LeaseHolder
      BY <1>b, <2>1, <2>2, <3>1 DEF FirstOwner, Live
    <3> QED BY <2>1, <3>2
  <2>3. CASE ~ Holds /\ ~ Holds'
    BY <1>b, <2>1, <2>3 DEF FirstOwner
  <2>4. CASE ~ Holds /\ Holds'
    <3>1. LeaseHolder = NoCluster /\ LeaseHolder' = o.name'
      BY <1>b, <2>4 DEF FirstOwner
    <3>2. o.name' \in Clusters /\ cr[o.name'].exists
      BY <2>1, <2>4 DEF Live
    <3> QED BY <2>1, <3>1, <3>2 DEF Lease!Next, Lease!Take
  <2> QED BY <2>2, <2>3, <2>4
<1>4. \/ owned' = owned /\ cr' = cr
      \/ \E n \in Clusters : ClusterStep(n)
      \/ \E c \in Objects : ObjectStep(c)
  BY ObjectSteps, ObjectsUnchanged, ClusterSteps
<1> QED BY <1>1, <1>2, <1>3, <1>4

(***************************************************************************)
(* The reconciler implements the lease: whatever the caches, the garbage   *)
(* collector, the chart and restarts do, the control of the managed        *)
(* objects is taken from nobody, kept while the cluster exists, and given  *)
(* up when it goes.                                                        *)
(***************************************************************************)
THEOREM LeaseKeptAlways ==
  ASSUME FirstIsKept
  PROVE  Spec => LeaseKept
<1>1. Init => Lease!Init
  BY FirstType, NoClusterAssumption
     DEF Init, Lease!Init, LeaseHolder, Controls, Absent, NoObject
<1>2. LeaseInv => HolderLeads
  BY HolderIsFirstOwner DEF LeaseInv
<1>3. TypeOK /\ FinalizerInv /\ InFlightOwnerAlive /\ OwnedBehind /\ LeaseInv
        /\ HolderLeads /\ HolderLeads' /\ [Next]_vars
      => [Lease!Next]_<<{n \in Clusters : cr[n].exists}, LeaseHolder>>
  BY LeaseStep
<1> QED BY <1>1, <1>2, <1>3, LeaseInvariant, TypeCorrect, FinalizerInvariant, InFlightSafe,
           OwnedInvariant, PTL DEF Spec, LeaseKept, Lease!Spec, Lease!leaseVars
=============================================================================
