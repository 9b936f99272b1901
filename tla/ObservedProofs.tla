---------------------------- MODULE ObservedProofs ----------------------------
(***************************************************************************)
(* status.observedGeneration: theorems about ClusterReconciler for any set *)
(* of clusters, any pipeline, any specs and any number of outside events.  *)
(***************************************************************************)
EXTENDS LeaseProofs

(* A version Reconcile would go on with to the managed objects. *)
Current(v) == v.exists /\ v.fin /\ ~ v.deleting

Cached(n) == {crCache[n]} \cup crWatch[n]

Flight == pc \in {"namespace", "component", "status"}

ObsBehindGen == \A n \in Clusters : cr[n].exists => cr[n].obs <= cr[n].gen

(* What the caches may still deliver lies between what is reported and     *)
(* what is stored.                                                         *)
GenBetween ==
  \A n \in Clusters : \A v \in Cached(n) :
    Current(v) => v.gen <= cr[n].gen /\ cr[n].obs <= v.gen

GenGrows ==
  \A n \in Clusters : \A v, w \in Cached(n) :
    Current(v) /\ Current(w) /\ v.rv <= w.rv => v.gen <= w.gen

(* So does what Reconcile holds, and nothing older can come after it. *)
HeldBetween ==
  Flight =>
    /\ cr[cur].obs <= local.gen
    /\ local.gen <= cr[cur].gen
    /\ \A v \in Cached(cur) : Current(v) => local.gen <= v.gen

ObsInv == ObsBehindGen /\ GenBetween /\ GenGrows /\ HeldBetween

-----------------------------------------------------------------------------
(* The steps that leave the stored clusters alone. *)

Forgets == \A m \in Clusters : Cached(m)' \subseteq Cached(m)

ListsAll == \A m \in Clusters : Cached(m)' = {cr[m]}

QuietStep ==
  /\ cr' = cr
  /\ Forgets \/ ListsAll
  /\ \/ ~ Flight'
     \/ Forgets /\ Flight /\ cur' = cur /\ local' = local
     \/ UNCHANGED crVars /\ \E n \in Clusters : StartReconcile(n)

LEMMA CachedUnchanged ==
  ASSUME UNCHANGED crVars
  PROVE  cr' = cr /\ Forgets
BY DEF crVars, Forgets, Cached

(* A write that is carried out shows in the stored version. *)
LEMMA AcceptedShows ==
  ASSUME TypeOK, FinalizerInv, AddFinalizer \/ UpdateStatus \/ RemoveFinalizer,
         cr' = cr
  PROVE  UNCHANGED crVars /\ pc' = "idle"
<1>a. cur \in Clusters /\ local \in ClusterVersion /\ cr[cur] \in ClusterVersion
  BY DEF TypeOK, AddFinalizer, UpdateStatus, RemoveFinalizer
<1>b. /\ cr[cur].rv \in Nat /\ cr[cur].rv + 1 \in Nat /\ cr[cur].uid \in Nat
      /\ local.gen \in Nat
  BY <1>a DEF ClusterVersion
<1>c. ASSUME NEW v \in ClusterVersion, v.rv = cr[cur].rv + 1
      PROVE  ~ StoreCluster(cur, v)
  BY <1>a, <1>b, <1>c, StoredVersion
<1>1. CASE AddFinalizer
  <2>1. ASSUME UpdateAccepted(cr[cur], local) PROVE FALSE
    <3>1. /\ WithFinalizer(local) \in ClusterVersion
          /\ WithFinalizer(local).rv = cr[cur].rv + 1
      BY <1>a, <2>1, WithFinalizerType, FinalizerFields DEF UpdateAccepted
    <3> QED BY <1>1, <1>c, <2>1, <3>1 DEF AddFinalizer
  <2> QED BY <1>1, <2>1 DEF AddFinalizer, Retry, Finish
<1>2. CASE UpdateStatus
  <2> DEFINE v == [cr[cur] EXCEPT !.obs = local.gen, !.rv = @ + 1]
  <2>1. v \in ClusterVersion /\ v.rv = cr[cur].rv + 1
    BY <1>a, <1>b DEF ClusterVersion
  <2>2. UNCHANGED crVars \/ StoreCluster(cur, v)
    BY <1>2 DEF UpdateStatus
  <2> HIDE DEF v
  <2> QED BY <1>2, <1>c, <2>1, <2>2 DEF UpdateStatus, Retry, Finish
<1>3. CASE RemoveFinalizer
  <2>1. ASSUME UpdateAccepted(cr[cur], local) PROVE FALSE
    <3>1. /\ Absent(cr[cur].rv + 1, cr[cur].uid) \in ClusterVersion
          /\ Absent(cr[cur].rv + 1, cr[cur].uid).rv = cr[cur].rv + 1
      BY <1>b, AbsentType DEF Absent
    <3> QED BY <1>3, <1>c, <2>1, <3>1 DEF RemoveFinalizer
  <2> QED BY <1>3, <2>1 DEF RemoveFinalizer, Retry, Finish
<1> QED BY <1>1, <1>2, <1>3

LEMMA ViewSteps ==
  ASSUME TypeOK, FinalizerInv, [Next]_vars
  PROVE  QuietStep \/ \E n \in Clusters : ClusterStep(n)
<1>1. CASE Users
  BY <1>1, UserSteps
<1>2. CASE (AddFinalizer \/ UpdateStatus \/ RemoveFinalizer) /\ cr' # cr
  BY <1>2, WorkerSteps
<1>3. CASE (AddFinalizer \/ UpdateStatus \/ RemoveFinalizer) /\ cr' = cr
  BY <1>3, AcceptedShows, CachedUnchanged DEF QuietStep, Flight
<1>4. CASE \E n \in Clusters : StartReconcile(n)
  BY <1>4, CachedUnchanged DEF QuietStep, StartReconcile
<1>5. CASE EnsureNamespace \/ SkipComponent \/ WriteComponent \/ RefuseComponent \/ Fault
  <2>1. UNCHANGED crVars
    BY <1>5 DEF EnsureNamespace, SkipComponent, WriteComponent, RefuseComponent, Fault
  <2>2. pc' = "idle" \/ (Flight /\ cur' = cur /\ local' = local)
    BY <1>5 DEF EnsureNamespace, SkipComponent, WriteComponent, RefuseComponent, Fault,
                NextComponent, Retry, Finish, Flight
  <2> QED BY <2>1, <2>2, CachedUnchanged DEF QuietStep, Flight
<1>6. CASE Restart
  BY <1>6 DEF Restart, QuietStep, ListsAll, Cached, Finish, Flight
<1>7. CASE Informers \/ Relists
  <2>a. Shown
    BY <1>7, TypeParts, ShownSteps
  <2>1. cr' = cr /\ UNCHANGED workVars
    BY <2>a DEF Shown, SeeCluster, SeeOwned, SyncNamespace, crVars
  <2>2. Forgets
    <3>1. ASSUME NEW n \in Clusters, NEW v \in crWatch[n], SeeCluster(n, v)
          PROVE  Forgets
      BY <3>1 DEF SeeCluster, Newer, Forgets, Cached, TypeOK
    <3>2. CASE SyncNamespace \/ \E c \in Objects : \E v \in ownedWatch[c] : SeeOwned(c, v)
      BY <3>2, CachedUnchanged DEF SyncNamespace, SeeOwned
    <3> QED BY <2>a, <3>1, <3>2 DEF Shown
  <2> QED BY <2>1, <2>2 DEF QuietStep, workVars, Flight
<1>8. CASE \/ \E c \in Objects : CollectOrphan(c) \/ DeleteOwned(c)
           \/ \E c \in HelmManaged : HelmApply(c)
           \/ UNCHANGED vars
  <2>1. UNCHANGED crVars /\ UNCHANGED workVars
    BY <1>8 DEF CollectOrphan, DeleteOwned, HelmApply, vars
  <2> QED BY <2>1, CachedUnchanged DEF QuietStep, workVars, Flight
<1> QED BY <1>1, <1>2, <1>3, <1>4, <1>5, <1>6, <1>7, <1>8, DeletableAssumption
       DEF Next, Worker

-----------------------------------------------------------------------------
(* What a step that changes cluster n can find in the caches. *)
LEMMA CachedStep ==
  ASSUME TypeOK, NEW n \in Clusters, ClusterStep(n), NEW m \in Clusters,
         NEW v \in Cached(m)'
  PROVE  v \in Cached(m) \/ (m = n /\ v = cr'[n])
BY DEF ClusterStep, StoreCluster, Cached, TypeOK

LEMMA CachedForCur ==
  ASSUME TypeOK, NEW n \in Clusters, ClusterStep(n), cur \in Clusters, cur' = cur,
         NEW v \in Cached(cur)'
  PROVE  v \in Cached(cur) \/ (cur = n /\ v = cr'[n])
BY DEF ClusterStep, StoreCluster, Cached, TypeOK

LEMMA GenTypes ==
  ASSUME TypeOK, NEW n \in Clusters
  PROVE  /\ cr[n].gen \in Nat /\ cr[n].obs \in Nat /\ cr[n].rv \in Nat
         /\ local.gen \in Nat
         /\ \A v \in Cached(n) : v.gen \in Nat /\ v.rv \in Nat
<1>1. Cached(n) \subseteq ClusterVersion
  BY DEF TypeOK, Cached
<1> QED BY <1>1 DEF TypeOK, ClusterVersion

LEMMA CachedSeen ==
  ASSUME FinalizerInv, NEW n \in Clusters, NEW v \in Cached(n)
  PROVE  /\ v.rv <= cr[n].rv
         /\ Current(v) => cr[n].exists /\ cr[n].fin /\ cr[n].uid = v.uid
BY DEF FinalizerInv, SeenBehind, Protected, Seen, Cached, Current

(* A version that is cached and current survives only some changes. *)
LEMMA CurrentStep ==
  ASSUME FinalizerInv, FinalizerInv', NEW n \in Clusters, ClusterStep(n),
         NEW v \in Cached(n), v \in Cached(n)', Current(v)
  PROVE  Edition(n) \/ DeletionMark(n) \/ StatusReport(n)
<1>1. cr[n].exists /\ cr[n].fin
  BY CachedSeen
<1>2. cr'[n].exists
  BY DEF FinalizerInv, Protected, Seen, Cached, Current
<1> QED BY <1>1, <1>2 DEF ClusterStep, Creation, Disappearance, Protection

LEMMA InFlightSteps ==
  ASSUME InFlightOwnerAlive, InFlightOwnerAlive', NEW n \in Clusters, ClusterStep(n),
         Flight'
  PROVE  \/ Protection(n)
         \/ /\ Flight /\ cur' = cur /\ local' = local
            /\ n = cur => Edition(n) \/ DeletionMark(n)
<1>1. CASE UNCHANGED workVars
  <2>1. cr[cur].exists /\ cr'[cur].exists
    BY <1>1 DEF InFlightOwnerAlive, Flight, workVars
  <2>2. n = cur => ~ Creation(n) /\ ~ Disappearance(n) /\ ~ Protection(n) /\ ~ StatusReport(n)
    BY <1>1, <2>1 DEF Creation, Disappearance, Protection, StatusReport, workVars
  <2> QED BY <1>1, <2>2 DEF ClusterStep, workVars, Flight
<1>2. CASE ~ UNCHANGED workVars
  BY <1>2 DEF ClusterStep, Creation, Edition, DeletionMark, Disappearance,
              StatusReport, Flight
<1> QED BY <1>1, <1>2

LEMMA ClusterStepObs ==
  ASSUME TypeOK, TypeOK', FinalizerInv, FinalizerInv', InFlightOwnerAlive,
         InFlightOwnerAlive', ObsInv, NEW n \in Clusters, ClusterStep(n)
  PROVE  ObsInv'
<1>a. ObsBehindGen /\ GenBetween /\ GenGrows /\ HeldBetween
  BY DEF ObsInv
<1>b. \A m \in Clusters \ {n} : cr'[m] = cr[m]
  BY DEF ClusterStep
<1>c. /\ cr[n].gen \in Nat /\ cr[n].obs \in Nat /\ cr[n].rv \in Nat
      /\ cr'[n].gen \in Nat /\ cr'[n].obs \in Nat /\ local.gen \in Nat
      /\ cr'[n].rv = cr[n].rv + 1
  BY GenTypes DEF TypeOK, ClusterVersion, ClusterStep
<1>1. ObsBehindGen'
  <2>1. cr'[n].exists => cr'[n].obs <= cr'[n].gen
    BY <1>a, <1>c DEF ClusterStep, Creation, Edition, DeletionMark, Disappearance,
                      Protection, StatusReport, SameLife, ObsBehindGen, HeldBetween,
                      Flight
  <2> QED BY <1>a, <1>b, <2>1 DEF ObsBehindGen
<1>2. GenBetween'
  <2> SUFFICES ASSUME NEW m \in Clusters, NEW v \in Cached(m)', Current(v)
               PROVE  v.gen <= cr'[m].gen /\ cr'[m].obs <= v.gen
    BY DEF GenBetween
  <2>1. CASE m = n /\ v = cr'[n]
    BY <1>1, <1>c, <2>1 DEF ObsBehindGen, Current
  <2>2. CASE v \in Cached(m) /\ m # n
    BY <1>a, <1>b, <2>2 DEF GenBetween
  <2>3. CASE v \in Cached(m) /\ m = n
    <3>1. Edition(n) \/ DeletionMark(n) \/ StatusReport(n)
      BY <2>3, CurrentStep
    <3>2. v.gen <= cr[n].gen /\ cr[n].obs <= v.gen /\ v.gen \in Nat
      BY <1>a, <2>3, GenTypes DEF GenBetween
    <3>3. CASE Edition(n) \/ DeletionMark(n)
      BY <1>c, <2>3, <3>2, <3>3 DEF Edition, DeletionMark
    <3>4. CASE StatusReport(n)
      BY <1>a, <2>3, <3>2, <3>4 DEF StatusReport, HeldBetween, Flight
    <3> QED BY <3>1, <3>3, <3>4
  <2> QED BY <2>1, <2>2, <2>3, CachedStep
<1>3. GenGrows'
  <2> SUFFICES ASSUME NEW m \in Clusters, NEW v \in Cached(m)', NEW w \in Cached(m)',
                      Current(v), Current(w), v.rv <= w.rv
               PROVE  v.gen <= w.gen
    BY DEF GenGrows
  <2>1. CASE v \in Cached(m) /\ w \in Cached(m)
    BY <1>a, <2>1 DEF GenGrows
  <2>2. CASE m = n /\ w = cr'[n]
    BY <1>2, <2>2 DEF GenBetween
  <2>3. CASE m = n /\ v = cr'[n] /\ w \in Cached(m)
    <3>1. w.rv <= cr[n].rv /\ w.rv \in Nat
      BY <2>3, CachedSeen, GenTypes
    <3> QED BY <1>c, <2>3, <3>1
  <2> QED BY <2>1, <2>2, <2>3, CachedStep
<1>4. HeldBetween'
  <2> SUFFICES ASSUME Flight'
               PROVE  /\ cr'[cur'].obs <= local'.gen
                      /\ local'.gen <= cr'[cur'].gen
                      /\ \A v \in Cached(cur)' : Current(v) => local'.gen <= v.gen
    BY DEF HeldBetween
  <2>1. cur' \in Clusters
    BY DEF TypeOK, Flight
  <2>2. CASE Protection(n)
    <3>1. local' = cr'[n] /\ cur' = n /\ cur = n /\ cr'[n].exists
      BY <2>2 DEF Protection, SameLife
    <3>2. ASSUME NEW v \in Cached(n)', Current(v)
          PROVE  v = cr'[n]
      <4>1. CASE v \in Cached(n)
        <5>1. cr[n].fin /\ ~ cr[n].fin
          BY <2>2, <3>2, <4>1, CachedSeen DEF Protection
        <5> QED BY <5>1
      <4> QED BY <3>2, <4>1, CachedStep
    <3>3. \A v \in Cached(cur)' : Current(v) => v = cr'[n]
      BY <3>1, <3>2 DEF Cached
    <3> QED BY <1>1, <1>c, <3>1, <3>3 DEF ObsBehindGen
  <2>3. CASE Flight /\ cur' = cur /\ local' = local /\ (n = cur => Edition(n) \/ DeletionMark(n))
    <3>1. /\ cr[cur].obs <= local.gen /\ local.gen <= cr[cur].gen
          /\ \A v \in Cached(cur) : Current(v) => local.gen <= v.gen
      BY <1>a, <2>3 DEF HeldBetween
    <3>3. CASE n # cur
      <4>1. cr'[cur] = cr[cur]
        BY <1>b, <2>1, <2>3, <3>3
      <4>2. \A v \in Cached(cur)' : v \in Cached(cur)
        BY <2>1, <2>3, <3>3, CachedForCur
      <4> QED BY <2>3, <3>1, <4>1, <4>2
    <3>4. CASE n = cur
      <4>1. cr'[n].obs = cr[n].obs /\ cr'[n].gen = cr[n].gen + 1
        BY <2>3, <3>4 DEF Edition, DeletionMark
      <4>2. \A v \in Cached(cur)' : v \in Cached(cur) \/ v = cr'[n]
        BY <2>1, <2>3, <3>4, CachedForCur
      <4> QED BY <1>c, <2>3, <3>1, <3>4, <4>1, <4>2
    <3> QED BY <3>3, <3>4
  <2> QED BY <2>2, <2>3, InFlightSteps
<1> QED BY <1>1, <1>2, <1>3, <1>4 DEF ObsInv

LEMMA QuietStepObs ==
  ASSUME TypeOK, TypeOK', FinalizerInv, ObsInv, QuietStep
  PROVE  ObsInv'
<1>a. ObsBehindGen /\ GenBetween /\ GenGrows /\ HeldBetween /\ cr' = cr
  BY DEF ObsInv, QuietStep
<1>1. ObsBehindGen'
  BY <1>a DEF ObsBehindGen
<1>2. GenBetween' /\ GenGrows'
  <2>1. CASE Forgets
    BY <1>a, <2>1 DEF Forgets, GenBetween, GenGrows
  <2>2. CASE ListsAll
    <3>1. \A m \in Clusters : cr[m].gen \in Nat
      BY GenTypes
    <3>2. GenBetween'
      BY <1>a, <2>2, <3>1 DEF ListsAll, GenBetween, ObsBehindGen, Current
    <3>3. GenGrows'
      BY <2>2, <3>1 DEF ListsAll, GenGrows
    <3> QED BY <3>2, <3>3
  <2> QED BY <2>1, <2>2 DEF QuietStep
<1>3. HeldBetween'
  <2>1. CASE ~ Flight'
    BY <2>1 DEF HeldBetween
  <2>2. CASE Forgets /\ Flight /\ cur' = cur /\ local' = local
    <3>1. cur \in Clusters
      BY <2>2 DEF TypeOK, Flight
    <3>2. Cached(cur)' \subseteq Cached(cur)
      BY <2>2, <3>1 DEF Forgets, Cached
    <3> QED BY <1>a, <2>2, <3>2 DEF HeldBetween
  <2>3. ASSUME NEW n \in Clusters, StartReconcile(n), UNCHANGED crVars, Flight'
        PROVE  HeldBetween'
    <3>0. crCache[n] \in ClusterVersion
      BY DEF TypeOK
    <3>1. cur' = n /\ local' = crCache[n] /\ Current(crCache[n])
      BY <2>3, <3>0 DEF StartReconcile, Flight, PhaseFor, Current, ClusterVersion
    <3>2. Cached(cur)' = Cached(n) /\ crCache[n] \in Cached(n)
      BY <2>3, <3>1 DEF Cached, crVars
    <3>3. \A v \in Cached(n) : crCache[n].rv <= v.rv
      BY <3>0, GenTypes DEF FinalizerInv, WatchAhead, Cached, ClusterVersion
    <3> QED BY <1>a, <3>1, <3>2, <3>3 DEF HeldBetween, GenBetween, GenGrows
  <2> QED BY <2>1, <2>2, <2>3 DEF QuietStep
<1> QED BY <1>1, <1>2, <1>3 DEF ObsInv

(***************************************************************************)
(* Reported, held, cached and stored generations never get out of order,   *)
(* although updateStatus patches without a resourceVersion (lines 461-493).*)
(***************************************************************************)
THEOREM ObservedInvariant == Spec => []ObsInv
<1>1. Init => ObsInv
  BY DEF Init, ObsInv, ObsBehindGen, GenBetween, GenGrows, HeldBetween, Absent, Cached,
         Current, Flight
<1>2. TypeOK /\ TypeOK' /\ FinalizerInv /\ FinalizerInv' /\ InFlightOwnerAlive
        /\ InFlightOwnerAlive' /\ ObsInv /\ [Next]_vars => ObsInv'
  BY ViewSteps, ClusterStepObs, QuietStepObs
<1> QED BY <1>1, <1>2, TypeCorrect, FinalizerInvariant, InFlightSafe, PTL DEF Spec

(***************************************************************************)
(* observedGeneration never goes back during the life of a cluster.        *)
(***************************************************************************)
THEOREM ObservedNeverGoesBackAlways == Spec => ObservedNeverGoesBack
<1> DEFINE Grows == \A n \in Clusters :
              cr[n].exists /\ cr'[n].exists /\ cr'[n].uid = cr[n].uid =>
                cr'[n].obs >= cr[n].obs
<1>1. TypeOK /\ FinalizerInv /\ ObsInv /\ [Next]_vars => Grows
  <2> SUFFICES ASSUME TypeOK, FinalizerInv, ObsInv, [Next]_vars PROVE Grows
    OBVIOUS
  <2>a. \A n \in Clusters : cr[n].obs \in Nat /\ cr[n].uid \in Nat
    BY DEF TypeOK, ClusterVersion
  <2>1. CASE cr' = cr
    BY <2>a, <2>1
  <2>2. ASSUME NEW n \in Clusters, ClusterStep(n)
        PROVE  Grows
    <3>1. \A m \in Clusters \ {n} : cr'[m] = cr[m]
      BY <2>2 DEF ClusterStep
    <3>2. cr[n].exists /\ cr'[n].exists /\ cr'[n].uid = cr[n].uid => cr'[n].obs >= cr[n].obs
      BY <2>a, <2>2 DEF ClusterStep, Creation, Edition, DeletionMark, Disappearance,
                        Protection, StatusReport, SameLife, ObsInv, HeldBetween, Flight
    <3> QED BY <2>a, <3>1, <3>2
  <2> QED BY <2>1, <2>2, ClusterSteps
<1>2. TypeOK /\ FinalizerInv /\ ObsInv /\ [Next]_vars => [Grows]_vars
  BY <1>1
<1> QED BY <1>2, TypeCorrect, FinalizerInvariant, ObservedInvariant,
           PTL DEF Spec, ObservedNeverGoesBack
-----------------------------------------------------------------------------
(***************************************************************************)
(* What a generation that is reported says about the objects, when nobody  *)
(* but the operator and the garbage collector touches them.                *)
(***************************************************************************)
OnlyOperator == HelmManaged = {} /\ Deletable = {}

CachedSpec ==
  \A n \in Clusters : \A v \in Cached(n) :
    Current(v) /\ v.gen = cr[n].gen => v.spec = cr[n].spec

HeldSpec == Flight /\ local.gen = cr[cur].gen => local.spec = cr[cur].spec

AppliedFor(c, n, uid, s) ==
  /\ owned[c].exists
  /\ owned[c].owner = [name |-> n, uid |-> uid]
  /\ owned[c].tmpl = TemplateFor(c, s)

Visited(i) == pc = "status" \/ (pc = "component" /\ i < idx)

(* What a reconcile has visited stays as it left it. *)
Done ==
  \A i \in 1 .. Len(Pipeline) :
    Visited(i) /\ Enabled(Pipeline[i], local.spec) =>
      AppliedFor(Pipeline[i], cur, local.uid, local.spec)

AppliedInv == CachedSpec /\ HeldSpec /\ Done /\ ObservedMeansApplied

(* The position moves past an object by writing or skipping it. *)
LEMMA VisitedStep ==
  ASSUME TypeOK, [Next]_vars, NEW i \in 1 .. Len(Pipeline), Visited(i)'
  PROVE  /\ cur' = cur /\ local' = local
         /\ Visited(i) \/ ((WriteComponent \/ SkipComponent) /\ i = idx)
<1>a. Len(Pipeline) \in Nat \ {0} /\ i \in Nat /\ i >= 1
  BY PipelineLength
<1>1. CASE SkipComponent \/ WriteComponent
  <2>1. pc = "component" /\ idx \in 1 .. Len(Pipeline) /\ NextComponent
    BY <1>1 DEF SkipComponent, WriteComponent, TypeOK
  <2> QED BY <1>1, <1>a, <2>1 DEF NextComponent, Visited
<1>2. CASE UNCHANGED workVars
  BY <1>2 DEF workVars, Visited
<1>3. ~ AddFinalizer /\ ~ EnsureNamespace
  BY <1>a DEF AddFinalizer, EnsureNamespace, Visited, Retry, Finish
<1>4. ~ RefuseComponent /\ ~ UpdateStatus /\ ~ RemoveFinalizer /\ ~ Fault /\ ~ Restart
  BY DEF RefuseComponent, UpdateStatus, RemoveFinalizer, Fault, Restart, Visited,
         Retry, Finish
<1>5. ASSUME NEW n \in Clusters, StartReconcile(n)
      PROVE  FALSE
  <2>1. crCache[n] \in ClusterVersion
    BY DEF TypeOK
  <2> QED BY <1>5, <2>1, PhaseType DEF StartReconcile, Visited
<1>6. CASE Users \/ Informers \/ Relists
  <2>1. Users \/ Shown
    BY <1>6, TypeParts, ShownSteps
  <2> QED BY <1>2, <2>1 DEF Users, CreateCluster, EditSpec, DeleteCluster, Shown,
                            SeeCluster, SeeOwned, SyncNamespace
<1>7. CASE \/ \E c \in Objects : CollectOrphan(c)
           \/ \E c \in HelmManaged : HelmApply(c)
           \/ \E c \in Deletable : DeleteOwned(c)
           \/ UNCHANGED vars
  BY <1>2, <1>7 DEF CollectOrphan, HelmApply, DeleteOwned, vars
<1> QED BY <1>1, <1>3, <1>4, <1>5, <1>6, <1>7 DEF Next, Worker

LEMMA NextDone ==
  ASSUME TypeOK, FinalizerInv, InFlightOwnerAlive, OwnedBehind, OnlyOperator, Done,
         [Next]_vars
  PROVE  Done'
<1> SUFFICES ASSUME NEW i \in 1 .. Len(Pipeline), Visited(i)',
                    Enabled(Pipeline[i], local'.spec)
             PROVE  AppliedFor(Pipeline[i], cur, local.uid, local.spec)'
  BY DEF Done
<1> DEFINE c == Pipeline[i]
<1>a. /\ cur' = cur /\ local' = local
      /\ Visited(i) \/ ((WriteComponent \/ SkipComponent) /\ i = idx)
  BY VisitedStep
<1>1. CASE (WriteComponent \/ SkipComponent) /\ i = idx
  BY <1>a, <1>1, WriteEffect DEF AppliedFor, SkipComponent
<1>2. CASE Visited(i)
  <2>1. AppliedFor(c, cur, local.uid, local.spec)
    BY <1>a, <1>2 DEF Done
  <2>2. CASE owned' = owned
    BY <1>a, <2>1, <2>2 DEF AppliedFor
  <2>3. ASSUME NEW d \in Objects, ObjectStep(d)
        PROVE  AppliedFor(c, cur, local.uid, local.spec)'
    <3>1. cur \in Clusters /\ cr[cur].exists /\ cr[cur].uid = local.uid /\ c \in Objects
      BY <1>2 DEF TypeOK, Visited, InFlightOwnerAlive, Objects
    <3>2. cr' = cr
      BY <2>3 DEF ObjectStep, crVars
    <3>3. CASE Written(c)
      BY <1>a, <3>3 DEF Written, AppliedFor
    <3>4. CASE ~ Written(c)
      <4>1. CASE d # c
        BY <1>a, <2>1, <2>3, <3>1, <4>1 DEF ObjectStep, AppliedFor
      <4>2. CASE d = c
        <5>1. Live(owned[c].owner)
          BY <2>1, <3>1 DEF AppliedFor, Live
        <5> QED BY <2>3, <3>4, <4>2, <5>1
             DEF ObjectStep, Collected, FromHelm, DeletedByHand, OnlyOperator
      <4> QED BY <4>1, <4>2
    <3> QED BY <3>3, <3>4
  <2> QED BY <2>2, <2>3, ObjectSteps, ObjectsUnchanged
<1> QED BY <1>a, <1>1, <1>2

LEMMA NextSpecs ==
  ASSUME TypeOK, TypeOK', FinalizerInv, FinalizerInv', InFlightOwnerAlive,
         InFlightOwnerAlive', ObsInv, CachedSpec, HeldSpec, [Next]_vars
  PROVE  CachedSpec' /\ HeldSpec'
<1>a. GenBetween /\ HeldBetween
  BY DEF ObsInv
<1>1. ASSUME NEW n \in Clusters, ClusterStep(n)
      PROVE  CachedSpec' /\ HeldSpec'
  <2>b. \A m \in Clusters \ {n} : cr'[m] = cr[m]
    BY <1>1 DEF ClusterStep
  <2>c. cr[n].gen \in Nat /\ local.gen \in Nat
    BY GenTypes
  <2>1. CachedSpec'
    <3> SUFFICES ASSUME NEW m \in Clusters, NEW v \in Cached(m)', Current(v),
                        v.gen = cr'[m].gen
                 PROVE  v.spec = cr'[m].spec
      BY DEF CachedSpec
    <3>1. CASE v \in Cached(m) /\ m # n
      BY <2>b, <3>1 DEF CachedSpec
    <3>2. CASE v \in Cached(m) /\ m = n
      <4>1. Edition(n) \/ DeletionMark(n) \/ StatusReport(n)
        BY <1>1, <3>2, CurrentStep
      <4>2. v.gen <= cr[n].gen /\ v.gen \in Nat
        BY <1>a, <3>2, GenTypes DEF GenBetween
      <4>3. ~ Edition(n) /\ ~ DeletionMark(n)
        BY <2>c, <3>2, <4>2 DEF Edition, DeletionMark
      <4> QED BY <3>2, <4>1, <4>3 DEF StatusReport, CachedSpec
    <3> QED BY <1>1, <3>1, <3>2, CachedStep
  <2>2. HeldSpec'
    <3> SUFFICES ASSUME Flight', local'.gen = cr'[cur'].gen
                 PROVE  local'.spec = cr'[cur'].spec
      BY DEF HeldSpec
    <3>1. cur' \in Clusters
      BY DEF TypeOK, Flight
    <3>2. CASE Protection(n)
      BY <3>2 DEF Protection
    <3>3. CASE /\ Flight /\ cur' = cur /\ local' = local
               /\ n = cur => Edition(n) \/ DeletionMark(n)
      <4>1. local.gen <= cr[cur].gen
        BY <1>a, <3>3 DEF HeldBetween
      <4>2. n # cur
        BY <2>c, <3>3, <4>1 DEF Edition, DeletionMark
      <4> QED BY <2>b, <3>1, <3>3, <4>2 DEF HeldSpec
    <3> QED BY <1>1, <3>2, <3>3, InFlightSteps
  <2> QED BY <2>1, <2>2
<1>2. CASE QuietStep
  <2>a. cr' = cr
    BY <1>2 DEF QuietStep
  <2>1. CachedSpec'
    BY <1>2, <2>a DEF QuietStep, Forgets, ListsAll, CachedSpec
  <2>2. HeldSpec'
    <3>1. CASE ~ Flight'
      BY <3>1 DEF HeldSpec
    <3>2. CASE Flight /\ cur' = cur /\ local' = local
      BY <2>a, <3>2 DEF HeldSpec
    <3>3. ASSUME NEW n \in Clusters, StartReconcile(n), Flight'
          PROVE  HeldSpec'
      <4>0. crCache[n] \in ClusterVersion
        BY DEF TypeOK
      <4>1. cur' = n /\ local' = crCache[n] /\ Current(crCache[n])
        BY <3>3, <4>0 DEF StartReconcile, Flight, PhaseFor, Current, ClusterVersion
      <4> QED BY <2>a, <4>1 DEF HeldSpec, CachedSpec, Cached
    <3> QED BY <1>2, <3>1, <3>2, <3>3 DEF QuietStep
  <2> QED BY <2>1, <2>2
<1> QED BY <1>1, <1>2, ViewSteps

LEMMA NextApplied ==
  ASSUME TypeOK, FinalizerInv, InFlightOwnerAlive, OwnedBehind, OnlyOperator, ObsInv,
         AppliedInv, [Next]_vars
  PROVE  ObservedMeansApplied'
<1> SUFFICES ASSUME NEW n \in Clusters, NEW c \in Objects,
                    cr'[n].exists, ~ cr'[n].deleting, cr'[n].obs = cr'[n].gen,
                    Enabled(c, cr'[n].spec)
             PROVE  Applied(c, n)'
  BY DEF ObservedMeansApplied
<1>a. /\ ObsBehindGen /\ HeldBetween /\ HeldSpec /\ Done
      /\ cr[n].gen \in Nat /\ cr[n].obs \in Nat /\ local.gen \in Nat
  BY GenTypes DEF ObsInv, AppliedInv
<1>1. ASSUME NEW m \in Clusters, ClusterStep(m)
      PROVE  Applied(c, n)'
  <2>1. owned' = owned
    BY <1>1 DEF ClusterStep, ownedVars
  <2>2. CASE /\ cr[n].exists /\ ~ cr[n].deleting /\ cr[n].obs = cr[n].gen
             /\ cr'[n].uid = cr[n].uid /\ cr'[n].spec = cr[n].spec
    BY <2>1, <2>2 DEF AppliedInv, ObservedMeansApplied, Applied
  <2>3. CASE m # n
    <3>1. cr'[n] = cr[n]
      BY <1>1, <2>3 DEF ClusterStep
    <3> QED BY <2>2, <3>1
  <2>4. CASE m = n /\ ~ StatusReport(n)
    BY <1>1, <1>a, <2>2, <2>4
       DEF ClusterStep, Creation, Edition, DeletionMark, Disappearance, Protection,
           SameLife, ObsBehindGen
  <2>5. CASE m = n /\ StatusReport(n)
    <3>1. /\ pc = "status" /\ cur = n /\ cr'[n].uid = cr[n].uid
          /\ cr'[n].spec = cr[n].spec /\ local.gen = cr[n].gen
      BY <2>5 DEF StatusReport, SameLife
    <3>2. local.spec = cr[n].spec /\ local.uid = cr[n].uid
      BY <1>a, <3>1 DEF HeldSpec, Flight, InFlightOwnerAlive
    <3>3. PICK i \in 1 .. Len(Pipeline) : c = Pipeline[i]
      BY DEF Objects
    <3>4. AppliedFor(c, n, cr[n].uid, cr[n].spec)
      BY <1>a, <3>1, <3>2, <3>3 DEF Done, Visited
    <3> QED BY <2>1, <3>1, <3>4 DEF AppliedFor, Applied
  <2> QED BY <2>3, <2>4, <2>5
<1>2. CASE cr' = cr
  <2>1. AppliedFor(c, n, cr[n].uid, cr[n].spec)
    BY <1>2 DEF AppliedInv, ObservedMeansApplied, Applied, AppliedFor
  <2>2. CASE owned' = owned
    BY <1>2, <2>1, <2>2 DEF Applied, AppliedFor
  <2>3. ASSUME NEW d \in Objects, ObjectStep(d)
        PROVE  Applied(c, n)'
    <3>1. CASE d # c
      BY <1>2, <2>1, <2>3, <3>1 DEF ObjectStep, AppliedFor, Applied
    <3>2. CASE d = c
      <4>1. Live(owned[c].owner) /\ owned[c].owner.name = n
        BY <1>2, <2>1 DEF AppliedFor, Live
      <4>2. Written(c)
        BY <2>3, <3>2, <4>1
           DEF ObjectStep, Collected, FromHelm, DeletedByHand, OnlyOperator
      <4>3. cur = n /\ Flight
        BY <2>1, <4>1, <4>2, NoClusterAssumption DEF Written, MayControl, AppliedFor, Flight
      <4>4. local.gen = cr[n].gen
        BY <1>2, <1>a, <4>3 DEF HeldBetween
      <4>5. local.spec = cr[n].spec /\ local.uid = cr[n].uid
        BY <1>a, <4>3, <4>4 DEF HeldSpec, Flight, InFlightOwnerAlive
      <4> QED BY <1>2, <4>2, <4>3, <4>5 DEF Written, Applied
    <3> QED BY <3>1, <3>2
  <2> QED BY <2>2, <2>3, ObjectSteps, ObjectsUnchanged
<1> QED BY <1>1, <1>2, ClusterSteps

(***************************************************************************)
(* When observedGeneration equals the generation of a cluster that is not  *)
(* being deleted, every component its spec enables is what the spec says   *)
(* and belongs to it.                                                      *)
(***************************************************************************)
THEOREM ObservedMeansAppliedAlways ==
  ASSUME OnlyOperator
  PROVE  Spec => []ObservedMeansApplied
<1>1. Init => AppliedInv
  BY DEF Init, AppliedInv, CachedSpec, HeldSpec, Done, ObservedMeansApplied, Absent,
         Cached, Current, Flight, Visited
<1>2. TypeOK /\ TypeOK' /\ FinalizerInv /\ FinalizerInv' /\ InFlightOwnerAlive
        /\ InFlightOwnerAlive' /\ OwnedBehind /\ ObsInv /\ AppliedInv /\ [Next]_vars
      => AppliedInv'
  BY NextSpecs, NextDone, NextApplied DEF AppliedInv
<1>3. AppliedInv => ObservedMeansApplied
  BY DEF AppliedInv
<1> QED BY <1>1, <1>2, <1>3, TypeCorrect, FinalizerInvariant, InFlightSafe, OwnedInvariant,
           ObservedInvariant, PTL DEF Spec

-----------------------------------------------------------------------------
(* A cluster whose generation was reported has its finalizer. *)
ReportedIsProtected ==
  \A n \in Clusters :
    cr[n].exists => cr[n].gen >= 1 /\ (cr[n].fin \/ cr[n].obs = 0)

THEOREM SpecsInvariant ==
  Spec => [](CachedSpec /\ HeldSpec /\ ReportedIsProtected)
<1>1. Init => CachedSpec /\ HeldSpec /\ ReportedIsProtected
  BY DEF Init, CachedSpec, HeldSpec, ReportedIsProtected, Absent, Cached, Current, Flight
<1>2. ASSUME TypeOK, FinalizerInv, ReportedIsProtected, [Next]_vars
      PROVE  ReportedIsProtected'
  <2>a. \A n \in Clusters : cr[n].gen \in Nat
    BY <1>2, GenTypes
  <2>1. CASE cr' = cr
    BY <1>2, <2>1 DEF ReportedIsProtected
  <2>2. ASSUME NEW n \in Clusters, ClusterStep(n)
        PROVE  ReportedIsProtected'
    <3>1. \A m \in Clusters \ {n} : cr'[m] = cr[m]
      BY <2>2 DEF ClusterStep
    <3>2. CASE StatusReport(n)
      <4>1. cr[n].fin
        BY <3>2, <1>2 DEF StatusReport, SameLife, FinalizerInv, HeldMatchesPhase,
                  Protected, Seen
      <4> QED BY <1>2, <3>1, <3>2, <4>1 DEF StatusReport, SameLife, ReportedIsProtected
    <3>3. CASE ~ StatusReport(n)
      BY <1>2, <2>2, <2>a, <3>1, <3>3
         DEF ClusterStep, Creation, Edition, DeletionMark, Disappearance, Protection,
             SameLife, ReportedIsProtected
    <3> QED BY <3>2, <3>3
  <2> QED BY <1>2, <2>1, <2>2, ClusterSteps
<1>3. TypeOK /\ TypeOK' /\ FinalizerInv /\ FinalizerInv' /\ InFlightOwnerAlive
        /\ InFlightOwnerAlive' /\ ObsInv /\ CachedSpec /\ HeldSpec
        /\ ReportedIsProtected /\ [Next]_vars
      => CachedSpec' /\ HeldSpec' /\ ReportedIsProtected'
  BY <1>2, NextSpecs
<1> QED BY <1>1, <1>3, TypeCorrect, FinalizerInvariant, InFlightSafe, ObservedInvariant,
           PTL DEF Spec

(***************************************************************************)
(* Reconciling a cluster that is as its user asked writes nothing, for any *)
(* number of clusters and however late the caches are: what the worker     *)
(* holds has the stored generation, so it sends what is stored, and the    *)
(* finalizer's Updates are refused (lines 59-112, 461-502).                *)
(***************************************************************************)
THEOREM NoIdleWritesAlways == Spec => NoIdleWrites
<1> DEFINE Idle(n) ==
      Worker /\ cur = n /\ cr[n].exists /\ ~ cr[n].deleting /\ Converged(n)
        => UNCHANGED <<cr, owned>>
<1>1. ASSUME TypeOK, FinalizerInv, InFlightOwnerAlive, ObsInv, HeldSpec,
             ReportedIsProtected, NEW n \in Clusters
      PROVE  Idle(n)
  <2> SUFFICES ASSUME Worker, cur = n, cr[n].exists, ~ cr[n].deleting, Converged(n)
               PROVE  UNCHANGED <<cr, owned>>
    OBVIOUS
  <2>a. /\ cr[n] \in ClusterVersion /\ local \in ClusterVersion
        /\ cr[n].gen \in Nat /\ cr[n].obs = cr[n].gen /\ local.gen \in Nat
    BY <1>1 DEF TypeOK, ClusterVersion, Converged
  <2>b. cr[n].fin
    BY <1>1, <2>a DEF ReportedIsProtected
  <2>c. UpdateAccepted(cr[n], local) => local = cr[n]
    BY <1>1 DEF UpdateAccepted, FinalizerInv, SeenBehind, Seen
  <2>d. Flight => local.gen = cr[n].gen /\ local.spec = cr[n].spec /\ local.uid = cr[n].uid
    BY <1>1, <2>a DEF ObsInv, HeldBetween, HeldSpec, Flight, InFlightOwnerAlive
  <2>1. CASE AddFinalizer
    <3>1. ~ UpdateAccepted(cr[n], local)
      BY <1>1, <2>1, <2>b, <2>c DEF AddFinalizer, FinalizerInv, HeldMatchesPhase
    <3> QED BY <2>1, <3>1 DEF AddFinalizer, crVars, ownedVars
  <2>2. CASE EnsureNamespace \/ SkipComponent \/ RefuseComponent
    BY <2>2 DEF EnsureNamespace, SkipComponent, RefuseComponent, crVars, ownedVars
  <2>3. CASE WriteComponent
    <3> DEFINE c == Pipeline[idx]
    <3>1. /\ pc = "component" /\ Enabled(c, local.spec) /\ c \in Objects
          /\ StoreOwned(c, Desired(owned[c], c, n, local)) /\ cr' = cr
      BY <1>1, <2>3 DEF WriteComponent, TypeOK, Objects, crVars
    <3> HIDE DEF c
    <3>2. Applied(c, n) /\ owned[c] \in ObjectVersion
      BY <1>1, <2>d, <3>1 DEF Converged, Flight, TypeOK
    <3>3. Desired(owned[c], c, n, local) = owned[c]
      BY <2>d, <3>1, <3>2 DEF Desired, Applied, ObjectVersion, Flight
    <3> QED BY <3>1, <3>3 DEF StoreOwned, ownedVars
  <2>4. CASE UpdateStatus
    BY <2>4, <2>a, <2>d DEF UpdateStatus, Flight, crVars, ownedVars
  <2>5. CASE RemoveFinalizer
    <3>1. ~ UpdateAccepted(cr[n], local)
      BY <1>1, <2>5, <2>c DEF RemoveFinalizer, FinalizerInv, HeldMatchesPhase
    <3> QED BY <2>5, <3>1 DEF RemoveFinalizer, crVars, ownedVars
  <2> QED BY <2>1, <2>2, <2>3, <2>4, <2>5 DEF Worker
<1>2. TypeOK /\ FinalizerInv /\ InFlightOwnerAlive /\ ObsInv
        /\ (CachedSpec /\ HeldSpec /\ ReportedIsProtected)
      => [\A n \in Clusters : Idle(n)]_vars
  BY <1>1
<1> QED BY <1>2, TypeCorrect, FinalizerInvariant, InFlightSafe, ObservedInvariant,
           SpecsInvariant, PTL DEF NoIdleWrites

-----------------------------------------------------------------------------
(***************************************************************************)
(* No lost wakeup.  A cache that lags is sure to be told: the stored       *)
(* version is on its watch.                                                *)
(***************************************************************************)
ClustersSynced ==
  \A n \in Clusters : crCache[n] # cr[n] => cr[n] \in crWatch[n]

OwnedSynced ==
  \A c \in Objects :
    /\ ownedCache[c] # owned[c] => owned[c] \in ownedWatch[c]
    /\ \A v \in ownedWatch[c] : v.rv > ownedCache[c].rv
    /\ \A v, w \in ownedWatch[c] : v.rv = w.rv => v = w

(* Another pass is due, whatever becomes of the one in progress. *)
Alerted(n) ==
  n \in queue \/ crWatch[n] # {} \/ \E c \in Objects : WillWake(c, n)

StaleNoted ==
  pc # "idle" /\ local.rv # cr[cur].rv => cur \in queue \/ crWatch[cur] # {}

(* What a reconcile has visited stays as it left it, or brings it back. *)
DoneOrAlerted ==
  \A i \in 1 .. Len(Pipeline) :
    Visited(i) /\ Enabled(Pipeline[i], local.spec) =>
      AppliedFor(Pipeline[i], cur, local.uid, local.spec) \/ Alerted(cur)

WakeInv ==
  ClustersSynced /\ OwnedSynced /\ StaleNoted /\ DoneOrAlerted /\ NoLostWakeup

(* The informers follow the managed objects without a gap. *)
NoGap == \A c \in Objects : ~ RelistOwned(c)

(* What happens to the cached clusters. *)
LEMMA ClusterViews ==
  ASSUME TypeOK, FinalizerInv, [Next]_vars
  PROVE  \/ UNCHANGED crVars
         \/ Restart
         \/ \E n \in Clusters : \E v \in crWatch[n] : SeeCluster(n, v)
         \/ \E n \in Clusters : ClusterStep(n)
<1>1. CASE Users
  BY <1>1, UserSteps
<1>2. CASE AddFinalizer \/ UpdateStatus \/ RemoveFinalizer
  BY <1>2, WorkerSteps, AcceptedShows
<1>3. CASE \/ \E n \in Clusters : StartReconcile(n)
           \/ EnsureNamespace \/ SkipComponent \/ WriteComponent \/ RefuseComponent
           \/ Fault
  BY <1>3 DEF StartReconcile, EnsureNamespace, SkipComponent, WriteComponent,
              RefuseComponent, Fault
<1>4. CASE Informers \/ Relists
  <2>1. Shown
    BY <1>4, TypeParts, ShownSteps
  <2> QED BY <2>1 DEF Shown, SeeOwned, SyncNamespace
<1>5. CASE \/ \E c \in Objects : CollectOrphan(c) \/ DeleteOwned(c)
           \/ \E c \in HelmManaged : HelmApply(c)
           \/ UNCHANGED vars
  BY <1>5 DEF CollectOrphan, DeleteOwned, HelmApply, vars
<1> QED BY <1>1, <1>2, <1>3, <1>4, <1>5, DeletableAssumption DEF Next, Worker

(* Names leave the queue one way only. *)
LEMMA QueueKept ==
  ASSUME TypeOK, [Next]_vars, ~ Restart, NEW n \in Clusters, n \in queue,
         ~ StartReconcile(n)
  PROVE  n \in queue'
<1>1. CASE Users
  BY <1>1 DEF Users, CreateCluster, EditSpec, DeleteCluster
<1>2. CASE Worker \/ Fault
  BY <1>2 DEF Worker, AddFinalizer, EnsureNamespace, SkipComponent, WriteComponent,
              RefuseComponent, UpdateStatus, RemoveFinalizer, Fault, Retry
<1>3. CASE \E m \in Clusters : StartReconcile(m)
  BY <1>3 DEF StartReconcile
<1>4. CASE Informers \/ Relists
  <2>1. Shown
    BY <1>4, TypeParts, ShownSteps
  <2> QED BY <2>1 DEF Shown, SeeCluster, SeeOwned, SyncNamespace
<1>5. CASE \/ \E c \in Objects : CollectOrphan(c) \/ DeleteOwned(c)
           \/ \E c \in HelmManaged : HelmApply(c)
           \/ UNCHANGED vars
  BY <1>5 DEF CollectOrphan, DeleteOwned, HelmApply, vars
<1> QED BY <1>1, <1>2, <1>3, <1>4, <1>5, DeletableAssumption DEF Next

LEMMA NextClustersSynced ==
  ASSUME TypeOK, FinalizerInv, ClustersSynced, [Next]_vars
  PROVE  ClustersSynced'
<1>a. SeenBehind /\ WatchAhead
  BY DEF FinalizerInv
<1>b. \A n \in Clusters : /\ cr[n].rv \in Nat
                          /\ \A v \in crWatch[n] : v.rv \in Nat
  BY GenTypes DEF Cached
<1>1. CASE UNCHANGED crVars
  BY <1>1 DEF crVars, ClustersSynced
<1>2. CASE Restart
  BY <1>2 DEF Restart, ClustersSynced
<1>3. ASSUME NEW n \in Clusters, NEW v \in crWatch[n], SeeCluster(n, v)
      PROVE  ClustersSynced'
  <2>1. v.rv <= cr[n].rv /\ (v.rv = cr[n].rv => v = cr[n]) /\ v.rv > crCache[n].rv
    BY <1>a DEF SeenBehind, WatchAhead, Seen
  <2>2. v # cr[n] => cr[n] \in Newer(crWatch[n], v)
    BY <1>b, <2>1 DEF ClustersSynced, Newer
  <2> QED BY <1>3, <2>2 DEF SeeCluster, ClustersSynced, TypeOK
<1>4. ASSUME NEW n \in Clusters, ClusterStep(n)
      PROVE  ClustersSynced'
  <2>1. /\ crCache' = crCache
        /\ crWatch' = [crWatch EXCEPT ![n] = @ \cup {cr'[n]}]
        /\ \A m \in Clusters \ {n} : cr'[m] = cr[m]
    BY <1>4 DEF ClusterStep, StoreCluster
  <2>2. cr'[n] \in crWatch'[n] /\ \A m \in Clusters \ {n} : crWatch'[m] = crWatch[m]
    BY <2>1 DEF TypeOK
  <2> QED BY <2>1, <2>2 DEF ClustersSynced
<1> QED BY <1>1, <1>2, <1>3, <1>4, ClusterViews

LEMMA NextOwnedSynced ==
  ASSUME TypeOK, OwnedBehind, OwnedSynced, [Next]_vars
  PROVE  OwnedSynced'
<1>b. \A c \in Objects : /\ owned[c].rv \in Nat /\ ownedCache[c].rv \in Nat
                         /\ \A v \in ownedWatch[c] : v.rv \in Nat
  BY DEF TypeOK, ObjectVersion
<1>1. CASE UNCHANGED ownedVars
  BY <1>1 DEF ownedVars, OwnedSynced
<1>2. CASE Restart
  BY <1>2 DEF Restart, OwnedSynced
<1>3. ASSUME NEW c \in Objects, DeliverOwned(c) \/ RelistOwned(c)
      PROVE  OwnedSynced'
  <2>1. PICK v \in ownedWatch[c] : SeeOwned(c, v)
    BY <1>3 DEF DeliverOwned, RelistOwned
  <2>2. v.rv <= owned[c].rv /\ (v.rv = owned[c].rv => v = owned[c]) /\ v.rv > ownedCache[c].rv
    BY DEF OwnedBehind, OwnedSynced
  <2>3. v # owned[c] => owned[c] \in Newer(ownedWatch[c], v)
    BY <1>b, <2>2 DEF OwnedSynced, Newer
  <2>4. /\ ownedCache' = [ownedCache EXCEPT ![c] = v]
        /\ ownedWatch' = [ownedWatch EXCEPT ![c] = Newer(@, v)]
        /\ owned' = owned
    BY <2>1 DEF SeeOwned
  <2>5. /\ ownedCache'[c] = v /\ ownedWatch'[c] = Newer(ownedWatch[c], v)
        /\ \A d \in Objects \ {c} : ownedCache'[d] = ownedCache[d] /\ ownedWatch'[d] = ownedWatch[d]
    BY <2>4 DEF TypeOK
  <2> QED BY <2>3, <2>4, <2>5 DEF OwnedSynced, Newer
<1>4. ASSUME NEW c \in Objects, ObjectStep(c)
      PROVE  OwnedSynced'
  <2>1. /\ ownedCache' = ownedCache
        /\ \A d \in Objects : d # c => owned'[d] = owned[d] /\ ownedWatch'[d] = ownedWatch[d]
    BY <1>4 DEF ObjectStep
  <2>2. CASE owned'[c] = owned[c] /\ ownedWatch'[c] = ownedWatch[c]
    BY <2>1, <2>2 DEF OwnedSynced
  <2>3. CASE /\ owned'[c].rv = owned[c].rv + 1
             /\ ownedWatch'[c] = ownedWatch[c] \cup {owned'[c]}
    <3>1. \A v \in {ownedCache[c]} \cup ownedWatch[c] : v.rv < owned'[c].rv
      BY <1>b, <2>3 DEF OwnedBehind
    <3> QED BY <1>b, <2>1, <2>3, <3>1 DEF OwnedSynced
  <2> QED BY <1>4, <2>2, <2>3 DEF ObjectStep
<1> QED BY <1>1, <1>2, <1>3, <1>4, ObjectSteps

(* A write leaves a trace on the watch of the cluster it changed. *)
LEMMA WatchNoted ==
  ASSUME TypeOK, NEW n \in Clusters, NEW m \in Clusters, ClusterStep(m),
         crWatch[n] # {} \/ n = m
  PROVE  crWatch'[n] # {}
BY DEF ClusterStep, StoreCluster, TypeOK

LEMMA ClusterAlert ==
  ASSUME TypeOK, FinalizerInv, [Next]_vars, ~ Restart, NEW n \in Clusters,
         n \in queue \/ crWatch[n] # {}, ~ StartReconcile(n)
  PROVE  n \in queue' \/ crWatch'[n] # {}
<1>1. CASE n \in queue
  BY <1>1, QueueKept
<1>2. CASE crWatch[n] # {}
  <2>1. CASE UNCHANGED crVars
    BY <1>2, <2>1 DEF crVars
  <2>2. ASSUME NEW m \in Clusters, NEW v \in crWatch[m], SeeCluster(m, v)
        PROVE  n \in queue' \/ crWatch'[n] # {}
    BY <1>2, <2>2 DEF SeeCluster, TypeOK
  <2>3. ASSUME NEW m \in Clusters, ClusterStep(m)
        PROVE  crWatch'[n] # {}
    BY <1>2, <2>3, WatchNoted
  <2> QED BY <2>1, <2>2, <2>3, ClusterViews
<1> QED BY <1>1, <1>2

(* The watch of an object shows every version, so nothing that concerns n  *)
(* is overtaken.                                                           *)
LEMMA ObjectAlert ==
  ASSUME TypeOK, OwnedBehind, OwnedSynced, [Next]_vars, NoGap, ~ Restart,
         NEW n \in Clusters, NEW c \in Objects, WillWake(c, n)
  PROVE  n \in queue' \/ WillWake(c, n)'
<1>1. CASE UNCHANGED ownedVars
  BY <1>1 DEF ownedVars, WillWake
<1>2. ASSUME NEW d \in Objects, ObjectStep(d)
      PROVE  WillWake(c, n)'
  BY <1>2 DEF ObjectStep, WillWake
<1>3. ASSUME NEW d \in Objects, DeliverOwned(d)
      PROVE  n \in queue' \/ WillWake(c, n)'
  <2>1. PICK v \in ownedWatch[d] : Oldest(ownedWatch[d], v) /\ SeeOwned(d, v)
    BY <1>3 DEF DeliverOwned
  <2>2. /\ ownedCache' = [ownedCache EXCEPT ![d] = v]
        /\ ownedWatch' = [ownedWatch EXCEPT ![d] = Newer(@, v)]
        /\ queue' = queue \cup OwnersOf({u \in {ownedCache[d], v} : u.exists})
    BY <2>1 DEF SeeOwned
  <2>3. CASE d # c
    BY <2>2, <2>3 DEF WillWake, TypeOK
  <2>4. CASE d = c
    <3>1. PICK w \in {ownedCache[c]} \cup ownedWatch[c] : w.exists /\ w.owner.name = n
      BY DEF WillWake
    <3>2. CASE w \in {ownedCache[c], v}
      <4>1. w.owner.name \in OwnersOf({u \in {ownedCache[c], v} : u.exists})
        BY <3>1, <3>2, NoClusterAssumption DEF OwnersOf
      <4> QED BY <2>2, <2>4, <3>1, <4>1
    <3>3. CASE w \in ownedWatch[c] /\ w # v
      <4>1. v.rv \in Nat /\ w.rv \in Nat
        BY <2>1, <2>4, <3>3 DEF TypeOK, ObjectVersion
      <4>2. w \in Newer(ownedWatch[c], v)
        BY <2>1, <2>4, <3>3, <4>1 DEF Oldest, OwnedSynced, Newer
      <4>3. ownedWatch'[c] = Newer(ownedWatch[c], v)
        BY <2>2, <2>4 DEF TypeOK
      <4> QED BY <3>1, <4>2, <4>3 DEF WillWake
    <3> QED BY <3>2, <3>3
  <2> QED BY <2>3, <2>4
<1> QED BY <1>1, <1>2, <1>3, ObjectSteps DEF NoGap

LEMMA AlertKept ==
  ASSUME TypeOK, FinalizerInv, OwnedBehind, OwnedSynced, [Next]_vars, NoGap,
         ~ Restart, NEW n \in Clusters, Alerted(n), ~ StartReconcile(n)
  PROVE  Alerted(n)'
BY ClusterAlert, ObjectAlert DEF Alerted

(* A change of an object that belongs to n is on its way to n. *)
LEMMA ChangeAlerts ==
  ASSUME TypeOK, OwnedSynced, NEW n \in Clusters, NEW c \in Objects, ObjectStep(c),
         owned'[c] # owned[c], owned[c].exists, owned[c].owner.name = n
  PROVE  WillWake(c, n)'
<1>1. ownedCache' = ownedCache /\ ownedWatch'[c] = ownedWatch[c] \cup {owned'[c]}
  BY DEF ObjectStep
<1>2. owned[c] \in {ownedCache[c]} \cup ownedWatch[c]
  BY DEF OwnedSynced
<1> QED BY <1>1, <1>2 DEF WillWake

-----------------------------------------------------------------------------
(* A pass that is not over goes on with what it holds. *)
LEMMA PassGoesOn ==
  ASSUME TypeOK, [Next]_vars, pc' # "idle"
  PROVE  \/ \E n \in Clusters :
              StartReconcile(n) /\ cur' = n /\ local' = crCache[n] /\ UNCHANGED crVars
         \/ AddFinalizer /\ pc # "idle" /\ cur' = cur /\ StoreCluster(cur, local')
         \/ pc # "idle" /\ cur' = cur /\ local' = local
<1>1. ASSUME NEW n \in Clusters, StartReconcile(n)
      PROVE  cur' = n /\ local' = crCache[n] /\ UNCHANGED crVars
  BY <1>1 DEF StartReconcile
<1>2. CASE AddFinalizer
  BY <1>2 DEF AddFinalizer, Retry, Finish
<1>3. CASE EnsureNamespace \/ SkipComponent \/ WriteComponent
  BY <1>3 DEF EnsureNamespace, SkipComponent, WriteComponent, NextComponent, Retry, Finish
<1>4. ~ RefuseComponent /\ ~ UpdateStatus /\ ~ RemoveFinalizer /\ ~ Fault /\ ~ Restart
  BY DEF RefuseComponent, UpdateStatus, RemoveFinalizer, Fault, Restart, Retry, Finish
<1>5. CASE UNCHANGED workVars
  BY <1>5 DEF workVars
<1>6. CASE Users \/ Informers \/ Relists
  <2>1. Users \/ Shown
    BY <1>6, TypeParts, ShownSteps
  <2> QED BY <1>5, <2>1 DEF Users, CreateCluster, EditSpec, DeleteCluster, Shown,
                            SeeCluster, SeeOwned, SyncNamespace
<1>7. CASE \/ \E c \in Objects : CollectOrphan(c)
           \/ \E c \in HelmManaged : HelmApply(c)
           \/ \E c \in Deletable : DeleteOwned(c)
           \/ UNCHANGED vars
  BY <1>5, <1>7 DEF CollectOrphan, HelmApply, DeleteOwned, vars
<1> QED BY <1>1, <1>2, <1>3, <1>4, <1>6, <1>7 DEF Next, Worker

LEMMA NextStaleNoted ==
  ASSUME TypeOK, TypeOK', FinalizerInv, ClustersSynced, StaleNoted, [Next]_vars
  PROVE  StaleNoted'
<1> SUFFICES ASSUME pc' # "idle", local'.rv # cr'[cur'].rv
             PROVE  cur' \in queue' \/ crWatch'[cur'] # {}
  BY DEF StaleNoted
<1>1. ASSUME NEW n \in Clusters, cur' = n, local' = crCache[n], UNCHANGED crVars
      PROVE  crWatch'[cur'] # {}
  BY <1>1 DEF ClustersSynced, crVars
<1>2. CASE AddFinalizer /\ pc # "idle" /\ cur' = cur /\ StoreCluster(cur, local')
  <2>1. cur \in Clusters /\ local' \in ClusterVersion
    BY <1>2 DEF TypeOK
  <2> QED BY <1>2, <2>1, StoredVersion
<1>3. CASE pc # "idle" /\ cur' = cur /\ local' = local
  <2>1. cur \in Clusters
    BY <1>3 DEF TypeOK
  <2>2. ~ Restart
    BY DEF Restart, Finish
  <2>3. CASE cr'[cur] = cr[cur]
    <3>1. cur \in queue \/ crWatch[cur] # {}
      BY <1>3, <2>3 DEF StaleNoted
    <3>2. ~ StartReconcile(cur)
      BY <1>3 DEF StartReconcile
    <3>3. cur \in queue' \/ crWatch'[cur] # {}
      BY <2>1, <2>2, <3>1, <3>2, ClusterAlert
    <3> QED BY <1>3, <3>3
  <2>4. CASE cr'[cur] # cr[cur]
    <3>1. PICK m \in Clusters : ClusterStep(m)
      BY <2>4, ClusterSteps
    <3>2. m = cur
      BY <2>1, <2>4, <3>1 DEF ClusterStep
    <3>3. crWatch'[cur] # {}
      BY <2>1, <3>1, <3>2, WatchNoted
    <3> QED BY <1>3, <3>3
  <2> QED BY <2>3, <2>4
<1> QED BY <1>1, <1>2, <1>3, PassGoesOn

LEMMA NextDoneOrAlerted ==
  ASSUME TypeOK, FinalizerInv, InFlightOwnerAlive, OwnedBehind, OwnedSynced,
         DoneOrAlerted, [Next]_vars, NoGap
  PROVE  DoneOrAlerted'
<1> SUFFICES ASSUME NEW i \in 1 .. Len(Pipeline), Visited(i)',
                    Enabled(Pipeline[i], local'.spec)
             PROVE  \/ AppliedFor(Pipeline[i], cur, local.uid, local.spec)'
                    \/ Alerted(cur)'
  BY DEF DoneOrAlerted
<1> DEFINE c == Pipeline[i]
<1>a. /\ cur' = cur /\ local' = local
      /\ Visited(i) \/ ((WriteComponent \/ SkipComponent) /\ i = idx)
  BY VisitedStep
<1>1. CASE (WriteComponent \/ SkipComponent) /\ i = idx
  BY <1>a, <1>1, WriteEffect DEF AppliedFor, SkipComponent
<1>2. CASE Visited(i)
  <2>1. cur \in Clusters /\ c \in Objects /\ pc # "idle"
    BY <1>2 DEF TypeOK, Visited, Objects
  <2>2. ~ Restart /\ ~ StartReconcile(cur)
    BY <2>1 DEF Restart, Finish, Visited, StartReconcile
  <2>3. CASE Alerted(cur)
    <3>1. PICK n \in Clusters : n = cur
      BY <2>1
    <3>2. Alerted(n)'
      BY <2>2, <2>3, <3>1, AlertKept
    <3> QED BY <1>a, <3>1, <3>2 DEF Alerted, WillWake
  <2>4. CASE AppliedFor(c, cur, local.uid, local.spec)
    <3>1. CASE owned'[c] = owned[c]
      BY <1>a, <2>4, <3>1 DEF AppliedFor
    <3>2. CASE owned'[c] # owned[c]
      <4>1. PICK d \in Objects : ObjectStep(d)
        BY <2>2, <3>2, ObjectSteps, ObjectsUnchanged
      <4>2. d = c
        BY <2>1, <3>2, <4>1 DEF ObjectStep
      <4>3. PICK n \in Clusters : n = cur
        BY <2>1
      <4>4. WillWake(c, n)'
        BY <2>1, <2>4, <3>2, <4>1, <4>2, <4>3, ChangeAlerts DEF AppliedFor
      <4> QED BY <1>a, <2>1, <4>3, <4>4 DEF Alerted, WillWake
    <3> QED BY <3>1, <3>2
  <2> QED BY <1>a, <1>2, <2>3, <2>4 DEF DoneOrAlerted
<1> QED BY <1>a, <1>1, <1>2

(* A pass ends with an error, with a write, or with a status that was up   *)
(* to date.                                                                *)
LEMMA PassEnds ==
  ASSUME TypeOK, [Next]_vars, ~ Restart, pc # "idle", ~ (pc' # "idle" /\ cur' = cur)
  PROVE  \/ cur \in queue'
         \/ UpdateStatus /\ cr[cur].exists /\ UNCHANGED cr /\ cr[cur].obs = local.gen
         \/ \E v \in ClusterVersion : StoreCluster(cur, v)
<1>a. cur \in Clusters /\ cr[cur] \in ClusterVersion /\ local \in ClusterVersion
  BY DEF TypeOK
<1>b. cr[cur].rv + 1 \in Nat /\ cr[cur].uid \in Nat /\ local.gen \in Nat
  BY <1>a DEF ClusterVersion
<1>1. CASE AddFinalizer
  BY <1>1 DEF AddFinalizer, Retry
<1>2. CASE EnsureNamespace \/ SkipComponent \/ WriteComponent
  <2>1. CASE Retry
    BY <2>1 DEF Retry
  <2>2. CASE ~ Retry
    BY <1>2, <2>2 DEF EnsureNamespace, SkipComponent, WriteComponent, NextComponent
  <2> QED BY <2>1, <2>2
<1>3. CASE RefuseComponent \/ Fault
  BY <1>3 DEF RefuseComponent, Fault, Retry
<1>4. CASE UpdateStatus
  <2>1. [cr[cur] EXCEPT !.obs = local.gen, !.rv = @ + 1] \in ClusterVersion
    BY <1>a, <1>b DEF ClusterVersion
  <2> QED BY <1>4, <2>1 DEF UpdateStatus, Retry, crVars
<1>5. CASE RemoveFinalizer
  BY <1>5, <1>b, AbsentType DEF RemoveFinalizer, Retry
<1>6. CASE UNCHANGED workVars
  BY <1>6 DEF workVars
<1>7. ~ \E n \in Clusters : StartReconcile(n)
  BY DEF StartReconcile
<1>8. CASE Users \/ Informers \/ Relists
  <2>1. Users \/ Shown
    BY <1>8, TypeParts, ShownSteps
  <2> QED BY <1>6, <2>1 DEF Users, CreateCluster, EditSpec, DeleteCluster, Shown,
                            SeeCluster, SeeOwned, SyncNamespace
<1>9. CASE \/ \E c \in Objects : CollectOrphan(c)
           \/ \E c \in HelmManaged : HelmApply(c)
           \/ \E c \in Deletable : DeleteOwned(c)
           \/ UNCHANGED vars
  BY <1>6, <1>9 DEF CollectOrphan, HelmApply, DeleteOwned, vars
<1> QED BY <1>1, <1>2, <1>3, <1>4, <1>5, <1>7, <1>8, <1>9 DEF Next, Worker

LEMMA StoreAlerts ==
  ASSUME TypeOK, NEW n \in Clusters, NEW v \in ClusterVersion, StoreCluster(n, v)
  PROVE  crWatch'[n] # {}
BY DEF StoreCluster, TypeOK

(* Only a pass that finds the status up to date lets go of a cluster.      *)
LEMMA WokenKept ==
  ASSUME TypeOK, FinalizerInv, OwnedBehind, ClustersSynced, OwnedSynced,
         [Next]_vars, NoGap, NEW n \in Clusters, Woken(n), cr'[n].exists
  PROVE  \/ Woken(n)'
         \/ /\ UpdateStatus /\ cur = n /\ cr[n].exists /\ UNCHANGED cr
            /\ cr[n].obs = local.gen
<1>1. CASE Restart
  BY <1>1 DEF Restart, Woken
<1>2. CASE StartReconcile(n)
  <2>1. UNCHANGED crVars /\ crCache[n] \in ClusterVersion
    BY <1>2 DEF StartReconcile, TypeOK
  <2>2. CASE crCache[n] = cr[n]
    <3>1. PhaseFor(crCache[n]) # "idle"
      BY <2>1, <2>2 DEF PhaseFor, crVars, ClusterVersion
    <3> QED BY <1>2, <3>1 DEF StartReconcile, Woken
  <2>3. CASE crCache[n] # cr[n]
    BY <2>1, <2>3 DEF ClustersSynced, crVars, Woken
  <2> QED BY <2>2, <2>3
<1>3. CASE ~ Restart /\ ~ StartReconcile(n) /\ Alerted(n)
  <2>1. Alerted(n)'
    BY <1>3, AlertKept
  <2> QED BY <2>1 DEF Alerted, Woken
<1>4. CASE ~ Restart /\ pc # "idle" /\ cur = n
  <2>1. CASE pc' # "idle" /\ cur' = cur
    BY <1>4, <2>1 DEF Woken
  <2>2. CASE n \in queue'
    BY <2>2 DEF Woken
  <2>3. ASSUME NEW v \in ClusterVersion, StoreCluster(n, v)
        PROVE  Woken(n)'
    <3>1. crWatch'[n] # {}
      BY <2>3, StoreAlerts
    <3> QED BY <3>1 DEF Woken
  <2> QED BY <1>4, <2>1, <2>2, <2>3, PassEnds
<1> QED BY <1>1, <1>2, <1>3, <1>4 DEF Woken, Alerted

LEMMA NextNoLostWakeup ==
  ASSUME TypeOK, TypeOK', FinalizerInv, InFlightOwnerAlive, OwnedBehind, WakeInv,
         [Next]_vars, NoGap
  PROVE  NoLostWakeup'
<1> SUFFICES ASSUME NEW n \in Clusters, Outstanding(n)'
             PROVE  Woken(n)'
  BY DEF NoLostWakeup
<1>a. ClustersSynced /\ OwnedSynced /\ StaleNoted /\ DoneOrAlerted
  BY DEF WakeInv
<1>b. cr'[n].exists
  BY DEF Outstanding
<1>1. CASE cr'[n] # cr[n]
  <2>1. PICK m \in Clusters : ClusterStep(m)
    BY <1>1, ClusterSteps
  <2>2. m = n
    BY <1>1, <2>1 DEF ClusterStep
  <2>3. crWatch'[n] # {}
    BY <2>1, <2>2, WatchNoted
  <2> QED BY <2>3 DEF Woken
<1>r. CASE Restart
  BY <1>b, <1>r DEF Restart, Woken
<1>2. CASE /\ UpdateStatus /\ cur = n /\ cr[n].exists /\ UNCHANGED cr
           /\ cr[n].obs = local.gen /\ ~ Restart
  <2>1. /\ owned' = owned /\ pc = "status" /\ ~ StartReconcile(n)
        /\ ~ local.deleting /\ local \in Seen(n)
    BY <1>2 DEF UpdateStatus, ownedVars, StartReconcile, FinalizerInv,
                HeldMatchesPhase, Seen
  <2>2. CASE Alerted(n)
    <3>1. Alerted(n)'
      BY <1>2, <1>a, <2>1, <2>2, AlertKept
    <3> QED BY <3>1 DEF Alerted, Woken
  <2>3. CASE ~ Alerted(n)
    <3>1. local = cr[n]
      BY <1>2, <1>a, <2>1, <2>3 DEF StaleNoted, Alerted, FinalizerInv, SeenBehind
    <3>2. \A c \in Objects : Enabled(c, cr[n].spec) => Applied(c, n)
      BY <1>2, <1>a, <2>1, <2>3, <3>1
         DEF DoneOrAlerted, Visited, AppliedFor, Applied, Objects
    <3>3. ~ Outstanding(n)
      BY <1>2, <2>1, <3>1, <3>2 DEF Outstanding, Converged
    <3>4. ~ Outstanding(n)'
      BY <1>2, <2>1, <3>3 DEF Outstanding, Converged, Applied
    <3> QED BY <3>4
  <2> QED BY <2>2, <2>3
<1>3. CASE Outstanding(n)
  <2>1. Woken(n)
    BY <1>3 DEF WakeInv, NoLostWakeup
  <2> QED BY <1>2, <1>a, <1>b, <1>r, <2>1, WokenKept
<1>4. CASE ~ Outstanding(n) /\ cr'[n] = cr[n]
  <2>1. PICK c \in Objects : Applied(c, n) /\ ~ Applied(c, n)'
    BY <1>4, <1>b DEF Outstanding, Converged
  <2>2. owned'[c] # owned[c] /\ owned[c].exists /\ owned[c].owner.name = n
    BY <1>4, <2>1 DEF Applied
  <2>3. PICK d \in Objects : ObjectStep(d)
    BY <2>2, ObjectSteps, ObjectsUnchanged
  <2>4. d = c
    BY <2>2, <2>3 DEF ObjectStep
  <2>5. WillWake(c, n)'
    BY <1>a, <2>2, <2>3, <2>4, ChangeAlerts
  <2> QED BY <2>5 DEF Woken
<1> QED BY <1>1, <1>3, <1>4

(***************************************************************************)
(* While no list of the managed objects skips a version, the reconciler is *)
(* never asleep over work: whatever users, faults, restarts, other writers *)
(* and stale caches do, for any number of clusters (lines 59-123,          *)
(* 504-511).                                                               *)
(***************************************************************************)
THEOREM NoLostWakeupAlways == Spec /\ [][NoGap]_vars => []NoLostWakeup
<1>1. Init => WakeInv
  BY DEF Init, WakeInv, ClustersSynced, OwnedSynced, StaleNoted, DoneOrAlerted, Visited,
         NoLostWakeup, Outstanding, Absent
<1>2. ASSUME TypeOK, TypeOK', FinalizerInv, InFlightOwnerAlive, OwnedBehind, WakeInv,
             [Next]_vars, [NoGap]_vars
      PROVE  WakeInv'
  <2>1. CASE NoGap
    BY <1>2, <2>1, NextClustersSynced, NextOwnedSynced, NextStaleNoted,
       NextDoneOrAlerted, NextNoLostWakeup DEF WakeInv
  <2>2. CASE UNCHANGED vars
    BY <1>2, <2>2
       DEF vars, crVars, ownedVars, workVars, WakeInv, ClustersSynced, OwnedSynced,
           StaleNoted, DoneOrAlerted, Visited, AppliedFor, Alerted, WillWake,
           NoLostWakeup, Outstanding, Converged, Applied, Woken
  <2> QED BY <1>2, <2>1, <2>2
<1>3. WakeInv => NoLostWakeup
  BY DEF WakeInv
<1> QED BY <1>1, <1>2, <1>3, TypeCorrect, FinalizerInvariant, InFlightSafe, OwnedInvariant,
           PTL DEF Spec
=============================================================================
