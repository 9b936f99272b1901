-------------------------- MODULE ClusterReconciler --------------------------
(***************************************************************************)
(* The controller of pkg/controller/cluster_controller.go at work: users   *)
(* who write AppleGPUCluster objects, the API server that stores them, the *)
(* informer caches the operator reads from, and the one worker goroutine   *)
(* that runs Reconcile.                                                    *)
(*                                                                         *)
(* Every read of the code goes to a cache and every write to the API       *)
(* server.  A cache learns of a write later, in its own time for each      *)
(* object, and always moves to a newer version: to the next one while its  *)
(* watch lasts, past some of them when it has to list again.               *)
(*                                                                         *)
(* One reconcile is a sequence of API calls; each call is one action, so   *)
(* users, caches, garbage collector and operator restarts interleave       *)
(* between any two of them.  A read and the write that follows it in       *)
(* CreateOrUpdate are one action: had the cache moved in between, the      *)
(* write would be refused, as it is when the cache lags.                   *)
(***************************************************************************)
EXTENDS ApiObjects, Sequences, FiniteSets

CONSTANTS
  Pipeline,      \* the managed objects in the order Reconcile visits them
  HelmManaged,   \* those the Helm chart installs as well
  Deletable,     \* those that somebody may delete by hand
  UserSpecs,     \* the specs users write
  Budgets        \* how often each kind of outside event may happen: choices

BudgetKinds == {"create", "edit", "fault", "restart", "relist", "foreign"}

Objects == {Pipeline[i] : i \in 1 .. Len(Pipeline)}

AllObjects ==
  {"metal-proxy", "metal-device-plugin", "metal-exporter",
   "metal-scheduler-extender"}

ASSUME PipelineAssumption ==
  /\ Pipeline \in Seq(AllObjects)
  /\ Pipeline # << >>
  /\ \A i, j \in 1 .. Len(Pipeline) : i # j => Pipeline[i] # Pipeline[j]

ASSUME HelmAssumption == HelmManaged \subseteq Objects

ASSUME DeletableAssumption == Deletable \subseteq Objects

ASSUME SpecsAssumption == UserSpecs \subseteq ClusterSpec

ASSUME BudgetAssumption == Budgets \subseteq [BudgetKinds -> Nat]

VARIABLES
  cr,          \* stored AppleGPUCluster objects
  crCache,     \* the same as the operator's informer last saw them
  crWatch,     \* versions the informer has not seen yet
  owned,       \* stored managed objects
  ownedCache,
  ownedWatch,
  ns,          \* whether the operator namespace exists
  nsCache,
  queue,       \* names in the workqueue (it holds a name once)
  pc,          \* the API call Reconcile is about to make
  idx,         \* position in Pipeline
  cur,         \* the name being reconciled
  local,       \* the version of it that Reconcile holds
  wanted,      \* history: the spec its user last wrote
  budget       \* outside events left

crVars    == <<cr, crCache, crWatch>>
ownedVars == <<owned, ownedCache, ownedWatch>>
nsVars    == <<ns, nsCache>>
workVars  == <<pc, idx, cur, local>>
userVars  == <<wanted, budget>>
vars      == <<crVars, ownedVars, nsVars, queue, workVars, userVars>>

-----------------------------------------------------------------------------
NoSpec == [rev |-> 1, cores |-> DefaultCores, exporter |-> TRUE, extender |-> TRUE]

(* A name with no object: rv and uid remember where the counters stand. *)
Absent(rv, uid) ==
  [exists |-> FALSE, rv |-> rv, uid |-> uid, gen |-> 0, deleting |-> FALSE,
   fin |-> FALSE, spec |-> NoSpec, obs |-> 0]

NoObject == [exists |-> FALSE, rv |-> 0, owner |-> NoOwner, tmpl |-> ChartTemplate]

Phases ==
  {"idle", "finalizer", "namespace", "component", "status", "deletion"}

TypeOK ==
  /\ cr \in [Clusters -> ClusterVersion]
  /\ crCache \in [Clusters -> ClusterVersion]
  /\ crWatch \in [Clusters -> SUBSET ClusterVersion]
  /\ owned \in [Objects -> ObjectVersion]
  /\ ownedCache \in [Objects -> ObjectVersion]
  /\ ownedWatch \in [Objects -> SUBSET ObjectVersion]
  /\ ns \in BOOLEAN
  /\ nsCache \in BOOLEAN
  /\ queue \in SUBSET Clusters
  /\ pc \in Phases
  /\ idx \in 0 .. Len(Pipeline)
  /\ cur \in Clusters \cup {NoCluster}
  /\ local \in ClusterVersion
  /\ wanted \in [Clusters -> ClusterSpec]
  /\ budget \in [BudgetKinds -> Nat]
  /\ pc # "idle" => cur \in Clusters
  /\ pc = "component" => idx \in 1 .. Len(Pipeline)

Init ==
  /\ cr = [n \in Clusters |-> Absent(0, 0)]
  /\ crCache = cr
  /\ crWatch = [n \in Clusters |-> {}]
  /\ owned = [c \in Objects |-> NoObject]
  /\ ownedCache = owned
  /\ ownedWatch = [c \in Objects |-> {}]
  /\ ns = FALSE
  /\ nsCache = FALSE
  /\ queue = {}
  /\ pc = "idle"
  /\ idx = 0
  /\ cur = NoCluster
  /\ local = Absent(0, 0)
  /\ wanted = [n \in Clusters |-> NoSpec]
  /\ budget \in Budgets

-----------------------------------------------------------------------------
(***************************************************************************)
(* The API server (external).  Storing a version puts it on the watch of   *)
(* the operator; a request that changes nothing stores nothing, so it      *)
(* moves no resourceVersion and wakes no one.                              *)
(***************************************************************************)
StoreCluster(n, v) ==
  /\ cr' = [cr EXCEPT ![n] = v]
  /\ crWatch' = [crWatch EXCEPT ![n] = @ \cup {v}]
  /\ UNCHANGED crCache

StoreOwned(c, v) ==
  IF v = owned[c]
    THEN UNCHANGED ownedVars
    ELSE LET w == [v EXCEPT !.rv = @ + 1] IN
         /\ owned' = [owned EXCEPT ![c] = w]
         /\ ownedWatch' = [ownedWatch EXCEPT ![c] = @ \cup {w}]
         /\ UNCHANGED ownedCache

Spend(kind) ==
  /\ budget[kind] > 0
  /\ budget' = [budget EXCEPT ![kind] = @ - 1]

(* A spec change starts a new generation; so does a deletion request. *)
NextGen(v) == [v EXCEPT !.rv = @ + 1, !.gen = @ + 1]

-----------------------------------------------------------------------------
(* Users: kubectl apply and kubectl delete. *)

CreateCluster(n, s) ==
  /\ ~ cr[n].exists
  /\ Spend("create")
  /\ StoreCluster(n, [exists |-> TRUE, rv |-> cr[n].rv + 1,
                      uid |-> cr[n].uid + 1, gen |-> 1, deleting |-> FALSE,
                      fin |-> FALSE, spec |-> s, obs |-> 0])
  /\ wanted' = [wanted EXCEPT ![n] = s]
  /\ UNCHANGED <<ownedVars, nsVars, queue, workVars>>

EditSpec(n, s) ==
  /\ cr[n].exists
  /\ s # cr[n].spec
  /\ Spend("edit")
  /\ StoreCluster(n, [NextGen(cr[n]) EXCEPT !.spec = s])
  /\ wanted' = [wanted EXCEPT ![n] = s]
  /\ UNCHANGED <<ownedVars, nsVars, queue, workVars>>

(* A finalizer turns the deletion into a deletion timestamp. *)
DeleteCluster(n) ==
  /\ cr[n].exists
  /\ ~ cr[n].deleting
  /\ StoreCluster(n, IF cr[n].fin
                       THEN [NextGen(cr[n]) EXCEPT !.deleting = TRUE]
                       ELSE Absent(cr[n].rv + 1, cr[n].uid))
  /\ UNCHANGED <<ownedVars, nsVars, queue, workVars, wanted, budget>>

-----------------------------------------------------------------------------
(* The worker. *)

Finish ==
  /\ pc' = "idle"
  /\ idx' = 0
  /\ cur' = NoCluster
  /\ local' = Absent(0, 0)

RetryMutant ==                             \* the error is logged, not returned
  /\ Finish
  /\ UNCHANGED queue

(* Reconcile returned an error: the workqueue takes the name back. *)
Retry ==
  /\ Finish
  /\ queue' = queue \cup {cur}

(* Take a name and read it from the cache; NotFound ends the reconcile. *)
StartReconcile(n) ==
  /\ pc = "idle"
  /\ n \in queue
  /\ queue' = queue \ {n}
  /\ pc' = PhaseFor(crCache[n])
  /\ IF PhaseFor(crCache[n]) = "idle"
       THEN UNCHANGED <<idx, cur, local>>
       ELSE /\ idx' = 0
            /\ cur' = n
            /\ local' = crCache[n]
  /\ UNCHANGED <<crVars, ownedVars, nsVars, userVars>>

(* AddFinalizer, then Update with the whole object; Reconcile goes on with *)
(* the object the API server answers.                                      *)
WithFinalizer(v) ==
  LET sent == [v EXCEPT !.spec = RoundTrip(@), !.fin = TRUE]
  IN  IF sent.spec = v.spec THEN [sent EXCEPT !.rv = @ + 1] ELSE NextGen(sent)

AddFinalizer ==
  /\ pc = "finalizer"
  /\ IF UpdateAccepted(cr[cur], local)
       THEN /\ StoreCluster(cur, WithFinalizer(local))
            /\ local' = WithFinalizer(local)
            /\ pc' = "namespace"
            /\ UNCHANGED <<idx, cur, queue>>
       ELSE /\ Retry
            /\ UNCHANGED crVars
  /\ UNCHANGED <<ownedVars, nsVars, userVars>>

(* The cached Get says whether to Create; Create fails if it was wrong. *)
EnsureNamespaceMutant ==                   \* Create without looking first
  /\ pc = "namespace"
  /\ IF ns
       THEN Retry /\ UNCHANGED ns
       ELSE /\ ns' = TRUE
            /\ pc' = "component"
            /\ idx' = 1
            /\ UNCHANGED <<cur, local, queue>>
  /\ UNCHANGED <<crVars, ownedVars, nsCache, userVars>>

EnsureNamespace ==
  /\ pc = "namespace"
  /\ IF ns /\ ~ nsCache
       THEN Retry /\ UNCHANGED ns
       ELSE /\ ns' = TRUE
            /\ pc' = "component"
            /\ idx' = 1
            /\ UNCHANGED <<cur, local, queue>>
  /\ UNCHANGED <<crVars, ownedVars, nsCache, userVars>>

NextComponentMutant ==                     \* one component too many
  /\ IF idx > Len(Pipeline)
       THEN pc' = "status" /\ idx' = 0
       ELSE pc' = pc /\ idx' = idx + 1
  /\ UNCHANGED <<cur, local>>

NextComponent ==
  /\ IF idx = Len(Pipeline)
       THEN pc' = "status" /\ idx' = 0
       ELSE pc' = pc /\ idx' = idx + 1
  /\ UNCHANGED <<cur, local>>

(* Reconcile leaves a disabled component alone, deployed or not. *)
SkipComponent ==
  /\ pc = "component"
  /\ ~ Enabled(Pipeline[idx], local.spec)
  /\ NextComponent
  /\ UNCHANGED <<crVars, ownedVars, nsVars, queue, userVars>>

WriteComponent ==
  LET c == Pipeline[idx] IN
  /\ pc = "component"
  /\ Enabled(c, local.spec)
  /\ WriteAccepted(owned[c], ownedCache[c], cur)
  /\ StoreOwned(c, Desired(owned[c], c, cur, local))
  /\ NextComponent
  /\ UNCHANGED <<crVars, nsVars, queue, userVars>>

(* Refused by SetControllerReference or by the API server. *)
RefuseComponentMutant ==                   \* log the error and go on
  LET c == Pipeline[idx] IN
  /\ pc = "component"
  /\ Enabled(c, local.spec)
  /\ ~ WriteAccepted(owned[c], ownedCache[c], cur)
  /\ NextComponent
  /\ UNCHANGED <<crVars, ownedVars, nsVars, queue, userVars>>

RefuseComponent ==
  LET c == Pipeline[idx] IN
  /\ pc = "component"
  /\ Enabled(c, local.spec)
  /\ ~ WriteAccepted(owned[c], ownedCache[c], cur)
  /\ Retry
  /\ UNCHANGED <<crVars, ownedVars, nsVars, userVars>>

(* A merge patch names the object and nothing else: no resourceVersion, no *)
(* uid.                                                                    *)
UpdateStatusMutant ==                      \* the generation found, not the one held
  /\ pc = "status"
  /\ IF cr[cur].exists
       THEN /\ StoreCluster(cur, [cr[cur] EXCEPT !.obs = cr[cur].gen, !.rv = @ + 1])
            /\ Finish
            /\ UNCHANGED queue
       ELSE /\ Retry
            /\ UNCHANGED crVars
  /\ UNCHANGED <<ownedVars, nsVars, userVars>>

UpdateStatus ==
  /\ pc = "status"
  /\ IF cr[cur].exists
       THEN /\ IF cr[cur].obs = local.gen
                 THEN UNCHANGED crVars
                 ELSE StoreCluster(cur, [cr[cur] EXCEPT !.obs = local.gen,
                                                        !.rv = @ + 1])
            /\ Finish
            /\ UNCHANGED queue
       ELSE /\ Retry
            /\ UNCHANGED crVars
  /\ UNCHANGED <<ownedVars, nsVars, userVars>>

(* handleDeletion: without its finalizer a deleting object disappears. *)
RemoveFinalizer ==
  /\ pc = "deletion"
  /\ IF UpdateAccepted(cr[cur], local)
       THEN /\ StoreCluster(cur, Absent(cr[cur].rv + 1, cr[cur].uid))
            /\ Finish
            /\ UNCHANGED queue
       ELSE /\ Retry
            /\ UNCHANGED crVars
  /\ UNCHANGED <<ownedVars, nsVars, userVars>>

Worker ==
  \/ AddFinalizer
  \/ EnsureNamespace
  \/ SkipComponent
  \/ WriteComponent
  \/ RefuseComponent
  \/ UpdateStatus
  \/ RemoveFinalizer

-----------------------------------------------------------------------------
(* What happens to the worker from outside. *)

(* A call fails, before or after it took effect. *)
Fault ==
  /\ pc # "idle"
  /\ Spend("fault")
  /\ Retry
  /\ UNCHANGED <<crVars, ownedVars, nsVars, wanted>>

OwnersOf(vs) == {v.owner.name : v \in vs} \ {NoCluster}

(* The process dies and starts again (or another replica becomes leader):  *)
(* the informers list everything and every object found is an event.       *)
Restart ==
  /\ Spend("restart")
  /\ Finish
  /\ crCache' = cr
  /\ crWatch' = [n \in Clusters |-> {}]
  /\ ownedCache' = owned
  /\ ownedWatch' = [c \in Objects |-> {}]
  /\ nsCache' = ns
  /\ queue' = {n \in Clusters : cr[n].exists}
                \cup OwnersOf({v \in {owned[c] : c \in Objects} : v.exists})
  /\ UNCHANGED <<cr, owned, ns, wanted>>

(***************************************************************************)
(* The informers (client-go, external; SetupWithManager says which events  *)
(* wake which reconcile).  A watch delivers the versions of an object in   *)
(* order.  When it is lost the informer lists again: any undelivered       *)
(* version may come next, and those it overtakes are never seen.           *)
(***************************************************************************)
Newer(pending, v) == {w \in pending : w.rv > v.rv}

Oldest(pending, v) == \A w \in pending : v.rv <= w.rv

SeeCluster(n, v) ==
  /\ crCache' = [crCache EXCEPT ![n] = v]
  /\ crWatch' = [crWatch EXCEPT ![n] = Newer(@, v)]
  /\ queue' = queue \cup {n}
  /\ UNCHANGED <<cr, ownedVars, nsVars, workVars, wanted>>

DeliverCluster(n) ==
  \E v \in crWatch[n] :
    Oldest(crWatch[n], v) /\ SeeCluster(n, v) /\ UNCHANGED budget

RelistCluster(n) ==
  \E v \in crWatch[n] : Spend("relist") /\ SeeCluster(n, v)

SeeOwnedMutant(c, v) ==                    \* without Owns
  /\ ownedCache' = [ownedCache EXCEPT ![c] = v]
  /\ ownedWatch' = [ownedWatch EXCEPT ![c] = Newer(@, v)]
  /\ UNCHANGED <<owned, queue, crVars, nsVars, workVars, wanted>>

(* The owners before and after are woken.  An object that comes and goes   *)
(* between two lists leaves no event.                                      *)
SeeOwned(c, v) ==
  /\ ownedCache' = [ownedCache EXCEPT ![c] = v]
  /\ ownedWatch' = [ownedWatch EXCEPT ![c] = Newer(@, v)]
  /\ queue' = queue \cup OwnersOf({u \in {ownedCache[c], v} : u.exists})
  /\ UNCHANGED <<owned, crVars, nsVars, workVars, wanted>>

DeliverOwned(c) ==
  \E v \in ownedWatch[c] :
    Oldest(ownedWatch[c], v) /\ SeeOwned(c, v) /\ UNCHANGED budget

RelistOwned(c) ==
  \E v \in ownedWatch[c] : Spend("relist") /\ SeeOwned(c, v)

SyncNamespace ==
  /\ nsCache # ns
  /\ nsCache' = ns
  /\ UNCHANGED <<ns, crVars, ownedVars, queue, workVars, userVars>>

-----------------------------------------------------------------------------
(* The rest of the cluster (external). *)

Live(o) ==
  o.name \in Clusters /\ cr[o.name].exists /\ cr[o.name].uid = o.uid

(* Garbage collection of an object whose owner is gone. *)
CollectOrphan(c) ==
  /\ owned[c].exists
  /\ owned[c].owner.name # NoCluster
  /\ ~ Live(owned[c].owner)
  /\ StoreOwned(c, [owned[c] EXCEPT !.exists = FALSE])
  /\ UNCHANGED <<crVars, nsVars, queue, workVars, userVars>>

(* helm install and helm upgrade of a Deployment the operator manages too. *)
HelmApply(c) ==
  /\ Spend("foreign")
  /\ StoreOwned(c, [exists |-> TRUE,
                    rv     |-> owned[c].rv,
                    owner  |-> IF owned[c].exists THEN owned[c].owner ELSE NoOwner,
                    tmpl   |-> ChartTemplate])
  /\ UNCHANGED <<crVars, nsVars, queue, workVars, wanted>>

(* Somebody deletes a managed object. *)
DeleteOwned(c) ==
  /\ owned[c].exists
  /\ Spend("foreign")
  /\ StoreOwned(c, [owned[c] EXCEPT !.exists = FALSE])
  /\ UNCHANGED <<crVars, nsVars, queue, workVars, wanted>>

-----------------------------------------------------------------------------
Users ==
  \E n \in Clusters :
    \/ \E s \in UserSpecs : CreateCluster(n, s) \/ EditSpec(n, s)
    \/ DeleteCluster(n)

Informers ==
  \/ \E n \in Clusters : DeliverCluster(n)
  \/ \E c \in Objects : DeliverOwned(c)
  \/ SyncNamespace

Relists ==
  \/ \E n \in Clusters : RelistCluster(n)
  \/ \E c \in Objects : RelistOwned(c)

Next ==
  \/ Users
  \/ \E n \in Clusters : StartReconcile(n)
  \/ Worker
  \/ Fault
  \/ Restart
  \/ Informers
  \/ Relists
  \/ \E c \in Objects : CollectOrphan(c)
  \/ \E c \in HelmManaged : HelmApply(c)
  \/ \E c \in Deletable : DeleteOwned(c)

Spec == Init /\ [][Next]_vars

(***************************************************************************)
(* The worker never blocks for good, watches deliver, and the workqueue is *)
(* a FIFO: a name that keeps coming back gets its turn.  Nothing is        *)
(* assumed of users, faults or restarts.                                   *)
(***************************************************************************)
Fairness ==
  /\ WF_vars(Worker)
  /\ \A n \in Clusters : SF_vars(StartReconcile(n)) /\ WF_vars(DeliverCluster(n))
  /\ \A c \in Objects : WF_vars(DeliverOwned(c)) /\ WF_vars(CollectOrphan(c))
  /\ WF_vars(SyncNamespace)

FairSpec == Spec /\ Fairness
=============================================================================
