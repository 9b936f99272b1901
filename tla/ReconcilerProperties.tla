------------------------ MODULE ReconcilerProperties ------------------------
(***************************************************************************)
(* What the reconciler promises, stated over the state of                  *)
(* ClusterReconciler.                                                      *)
(***************************************************************************)
EXTENDS ClusterReconciler

(* The object is what the stored spec of n asks for, and n controls it. *)
Applied(c, n) ==
  /\ owned[c].exists
  /\ owned[c].owner = [name |-> n, uid |-> cr[n].uid]
  /\ owned[c].tmpl = TemplateFor(c, cr[n].spec)

(***************************************************************************)
(* While Reconcile writes managed objects or status for a cluster, that    *)
(* very incarnation of the cluster exists and is protected by the          *)
(* finalizer, although the code read it from a cache that may lag behind   *)
(* a deletion and a re-creation (cluster_controller.go:59-92).             *)
(***************************************************************************)
InFlightOwnerAlive ==
  pc \in {"namespace", "component", "status"} =>
    /\ cr[cur].exists
    /\ cr[cur].uid = local.uid
    /\ cr[cur].fin

(* The versions of cluster n the operator may still act on. *)
Seen(n) == {crCache[n]} \cup crWatch[n] \cup {v \in {local} : cur = n}

(* What is seen is older than what is stored, or the same. *)
SeenBehind ==
  \A n \in Clusters : \A v \in Seen(n) :
    v.rv <= cr[n].rv /\ (v.rv = cr[n].rv => v = cr[n])

WatchAhead ==
  \A n \in Clusters : \A v \in crWatch[n] : v.rv > crCache[n].rv

(* A version with the finalizer and no deletion timestamp, however old,    *)
(* belongs to the incarnation that is stored.                              *)
Protected ==
  \A n \in Clusters : \A v \in Seen(n) :
    v.exists /\ v.fin /\ ~ v.deleting =>
      cr[n].exists /\ cr[n].fin /\ cr[n].uid = v.uid

HeldMatchesPhase ==
  /\ pc = "finalizer" => local.exists /\ ~ local.fin /\ ~ local.deleting
  /\ pc = "deletion"  => local.exists /\ local.deleting
  /\ pc \in {"namespace", "component", "status"} =>
       local.exists /\ local.fin /\ ~ local.deleting

(* A deletion being handled is in the cache, so no later reconcile starts  *)
(* from an older version.                                                  *)
DeletionSeen == pc = "deletion" => local.rv <= crCache[cur].rv

(***************************************************************************)
(* InFlightOwnerAlive made inductive: the finalizer is only removed by the *)
(* worker, from a version the cache has reached, and caches do not go back *)
(* (cluster_controller.go:59-78, 496-502).                                 *)
(***************************************************************************)
FinalizerInv ==
  SeenBehind /\ WatchAhead /\ Protected /\ HeldMatchesPhase /\ DeletionSeen

(***************************************************************************)
(* status.observedGeneration is believable: when it equals the generation  *)
(* of a cluster that is not being deleted, every component its spec        *)
(* enables runs exactly that spec.  updateStatus patches without a         *)
(* resourceVersion (lines 461-493), so only the order of the calls and the *)
(* caches moving forward make this true.                                   *)
(***************************************************************************)
ObservedMeansApplied ==
  \A n \in Clusters :
    cr[n].exists /\ ~ cr[n].deleting /\ cr[n].obs = cr[n].gen =>
      \A c \in Objects : Enabled(c, cr[n].spec) => Applied(c, n)

(***************************************************************************)
(* AddFinalizer sends back the whole object it read (lines 73-78); no user *)
(* edit is overwritten by it.  (What it does to fields that are false or   *)
(* zero is another matter: UserCoresKept.)                                 *)
(***************************************************************************)
NoLostEdit ==
  \A n \in Clusters : cr[n].exists => cr[n].spec.rev = wanted[n].rev

(***************************************************************************)
(* All clusters write the same four objects.  Two live clusters never each *)
(* control some of them, which would block both for ever: Reconcile visits *)
(* the objects in one order and stops at the first refusal (lines 86-103). *)
(***************************************************************************)
OneController ==
  \A c, d \in Objects :
    owned[c].exists /\ owned[d].exists
      /\ Live(owned[c].owner) /\ Live(owned[d].owner)
    => owned[c].owner.name = owned[d].owner.name

(***************************************************************************)
(* An object controlled by one cluster never passes to another: it has to  *)
(* be deleted first (SetControllerReference).                              *)
(***************************************************************************)
NoStealing ==
  [][\A c \in Objects :
       owned[c].exists /\ owned'[c].exists =>
         owned[c].owner.name \in {NoCluster, owned'[c].owner.name}]_vars

(***************************************************************************)
(* A cluster that carries the finalizer and was not deleted by its user    *)
(* stays.  A late deletion pass for an earlier object of the same name     *)
(* (handleDeletion, lines 496-502) must not take a new one with it.        *)
(***************************************************************************)
FinalizerHonoured ==
  [][\A n \in Clusters :
       cr[n].exists /\ ~ cr[n].deleting /\ cr[n].fin =>
         cr'[n].exists /\ cr'[n].fin /\ cr'[n].uid = cr[n].uid]_vars

(***************************************************************************)
(* observedGeneration never goes back during the life of a cluster, though *)
(* nothing in the patch compares it with what is stored.                   *)
(***************************************************************************)
ObservedNeverGoesBack ==
  [][\A n \in Clusters :
       cr[n].exists /\ cr'[n].exists /\ cr'[n].uid = cr[n].uid =>
         cr'[n].obs >= cr[n].obs]_vars

(***************************************************************************)
(* Control of the managed objects is a lease in the sense of ControlLease: *)
(* it belongs to the cluster that owns any of them and still exists.       *)
(***************************************************************************)
Controls(n, c) == owned[c].exists /\ owned[c].owner.name = n /\ Live(owned[c].owner)

LeaseHolder ==
  IF \E n \in Clusters, c \in Objects : Controls(n, c)
    THEN CHOOSE n \in Clusters : \E c \in Objects : Controls(n, c)
    ELSE NoCluster

Lease ==
  INSTANCE ControlLease
    WITH Nobody <- NoCluster,
         alive  <- {n \in Clusters : cr[n].exists},
         holder <- LeaseHolder

(***************************************************************************)
(* The reconciler implements the lease: whatever caches lag behind, a      *)
(* cluster comes to control objects only while it exists and no other      *)
(* cluster controls any, keeps the control as long as it exists, and loses *)
(* it at once when it goes (lines 72-103, 495-502).                        *)
(***************************************************************************)
LeaseKept == Lease!Spec

-----------------------------------------------------------------------------
(* A cluster that is not being deleted ends up applied and reported. *)
Converged(n) ==
  cr[n].exists /\ ~ cr[n].deleting =>
    /\ cr[n].obs = cr[n].gen
    /\ \A c \in Objects : Enabled(c, cr[n].spec) => Applied(c, n)

(* Work is left for n: it differs from what its user wrote, or it has to go. *)
Outstanding(n) == cr[n].exists /\ (cr[n].deleting \/ ~ Converged(n))

(* The next version of c to be seen concerns n, before or after. *)
WillWake(c, n) ==
  /\ ownedWatch[c] # {}
  /\ \E v \in {ownedCache[c]} \cup ownedWatch[c] : v.exists /\ v.owner.name = n

Woken(n) ==
  \/ n \in queue
  \/ pc # "idle" /\ cur = n
  \/ crWatch[n] # {}
  \/ \E c \in Objects : WillWake(c, n)

(***************************************************************************)
(* The reconciler is never asleep over work: as long as anything is left   *)
(* to do for a cluster, its name is queued, being reconciled, or will be   *)
(* queued by a version on its way (SetupWithManager, lines 504-511; every  *)
(* error returned by Reconcile is a retry).                                *)
(***************************************************************************)
NoLostWakeup == \A n \in Clusters : Outstanding(n) => Woken(n)

(***************************************************************************)
(* A pass over a cluster that is as its user asked writes nothing, however *)
(* old the version it holds.  Every write wakes Reconcile again, it sends  *)
(* all objects each time and its status patch names no resourceVersion:    *)
(* otherwise each pass would cause the next (lines 86-112, 461-493).       *)
(***************************************************************************)
NoIdleWrites ==
  [][\A n \in Clusters :
       Worker /\ cur = n /\ cr[n].exists /\ ~ cr[n].deleting /\ Converged(n)
         => UNCHANGED <<cr, owned>>]_vars

(***************************************************************************)
(* With one cluster, whatever users, faults, restarts and deletions of     *)
(* managed objects do, Reconcile repairs it for good once they stop: every *)
(* change leads to an event, and every failure to a retry.                 *)
(***************************************************************************)
Converges == <>[](\A n \in Clusters : Converged(n))

(***************************************************************************)
(* The reconciler comes to rest.  Its own writes wake it up again (Owns in *)
(* SetupWithManager, lines 505-511) and CreateOrUpdate never finds its     *)
(* object equal, so rest depends on the writes changing nothing.           *)
(***************************************************************************)
Quiesces == <>[](pc = "idle" /\ queue = {})

(***************************************************************************)
(* A deleted cluster goes away and takes its objects with it, by garbage   *)
(* collection: handleDeletion deletes nothing itself.                      *)
(***************************************************************************)
DeletionCompletes ==
  \A n \in Clusters :
    /\ cr[n].deleting ~> ~ cr[n].deleting
    /\ []<>(\A c \in Objects :
              owned[c].exists => owned[c].owner = NoOwner \/ Live(owned[c].owner))

-----------------------------------------------------------------------------
(* Claims of the documentation that the code does not keep. *)

(***************************************************************************)
(* The CRD offers "0 = one slot for the entire GPU" for coresPerSlot: what *)
(* the user wrote is what is stored.                                       *)
(***************************************************************************)
UserCoresKept ==
  \A n \in Clusters : cr[n].exists => cr[n].spec.cores = wanted[n].cores
=============================================================================
