----------------------------- MODULE ApiObjects -----------------------------
(***************************************************************************)
(* The Kubernetes objects the operator reads and writes, and the decisions *)
(* of pkg/controller/cluster_controller.go that depend on nothing but      *)
(* their contents.  ClusterReconciler.tla adds the state and the steps.    *)
(*                                                                         *)
(* An object is represented by its successive versions.  A version carries *)
(* the resourceVersion rv the API server compares on Update; rv is counted *)
(* per object and keeps growing when the object is deleted and re-created, *)
(* as an etcd revision does.                                               *)
(*                                                                         *)
(* Operators whose name ends in Mutant are wrong on purpose: each is a     *)
(* plausible slip in the operator it precedes, kept so that the properties *)
(* can be seen to fail.  No specification uses them.                       *)
(***************************************************************************)
EXTENDS Naturals

CONSTANTS
  Clusters,      \* names of AppleGPUCluster objects (cluster-scoped)
  NoCluster      \* the owner name of an object nobody controls

ASSUME NoClusterAssumption == NoCluster \notin Clusters

(***************************************************************************)
(* AppleGPUClusterSpec.  rev stands for the fields that are copied into    *)
(* the templates as text (images, pull policy, node selector); two edits   *)
(* of those fields are told apart by their rev.                            *)
(***************************************************************************)
ClusterSpec ==
  [rev: Nat \ {0}, cores: Nat, exporter: BOOLEAN, extender: BOOLEAN]

(***************************************************************************)
(* A version of an AppleGPUCluster.  exists = FALSE is the tombstone of a  *)
(* deleted object: informers deliver its last state with the deletion.     *)
(* obs is status.observedGeneration.                                       *)
(***************************************************************************)
ClusterVersion ==
  [exists: BOOLEAN, rv: Nat, uid: Nat, gen: Nat, deleting: BOOLEAN,
   fin: BOOLEAN, spec: ClusterSpec, obs: Nat]

(* The controller owner reference of a managed object. *)
Owner == [name: Clusters \cup {NoCluster}, uid: Nat]

NoOwner == [name |-> NoCluster, uid |-> 0]

(* What the pod template of a managed object takes from the spec. *)
Template == [rev: Nat, cores: Nat]

(* The template of the Helm chart, which no ClusterSpec produces. *)
ChartTemplate == [rev |-> 0, cores |-> 0]

ObjectVersion ==
  [exists: BOOLEAN, rv: Nat, owner: Owner, tmpl: Template]

-----------------------------------------------------------------------------
(***************************************************************************)
(* Serialisation.  The typed client encodes the spec with omitempty, so a  *)
(* false or zero field is left out of the request; the API server then     *)
(* fills every absent field with the default of the CRD.  A spec the       *)
(* operator sends back is therefore not the spec it read.                  *)
(***************************************************************************)
DefaultCores == 10

RoundTrip(s) ==
  [s EXCEPT !.cores    = IF @ = 0 THEN DefaultCores ELSE @,
            !.exporter = TRUE,
            !.extender = TRUE]

-----------------------------------------------------------------------------
(***************************************************************************)
(* The pod templates of the four managed objects.  Only the device plugin  *)
(* is told coresPerSlot (environment variable CORES_PER_SLOT).             *)
(***************************************************************************)
MetalProxyTemplate(s) == [rev |-> s.rev, cores |-> 0]

DevicePluginTemplate(s) == [rev |-> s.rev, cores |-> s.cores]

ExporterTemplate(s) == [rev |-> s.rev, cores |-> 0]

ExtenderTemplate(s) == [rev |-> s.rev, cores |-> 0]

TemplateFor(c, s) ==
  CASE c = "metal-proxy"              -> MetalProxyTemplate(s)
    [] c = "metal-device-plugin"      -> DevicePluginTemplate(s)
    [] c = "metal-exporter"           -> ExporterTemplate(s)
    [] c = "metal-scheduler-extender" -> ExtenderTemplate(s)

(* Which managed objects Reconcile visits for a spec. *)
Enabled(c, s) ==
  /\ c = "metal-exporter" => s.exporter
  /\ c = "metal-scheduler-extender" => s.extender

-----------------------------------------------------------------------------
(***************************************************************************)
(* Update carries the whole object and its resourceVersion: the API server *)
(* refuses it when the stored object is gone or is another version.        *)
(***************************************************************************)
UpdateAcceptedMutant(stored, held) == stored.exists

UpdateAccepted(stored, held) == stored.exists /\ stored.rv = held.rv

(***************************************************************************)
(* SetControllerReference refuses an object controlled by something else.  *)
(* It compares group, kind and name, not the uid: an object left by an     *)
(* earlier cluster of the same name is adopted.                            *)
(***************************************************************************)
MayControlMutant(v, n) == TRUE

MayControl(v, n) == v.owner.name \in {NoCluster, n}

(***************************************************************************)
(* CreateOrUpdate for cluster n: the cached version v decides between      *)
(* Create and Update, the stored one whether the request is accepted.  The *)
(* mutate function replaces the spec by one without the API server's       *)
(* defaults, so the object never equals the cached one and an Update is    *)
(* always sent.                                                            *)
(***************************************************************************)
WriteAccepted(stored, v, n) ==
  IF v.exists
    THEN MayControl(v, n) /\ UpdateAccepted(stored, v)
    ELSE ~ stored.exists

(* The object CreateOrUpdate sends: new template, new controller. *)
Desired(stored, c, n, held) ==
  [exists |-> TRUE,
   rv     |-> stored.rv,
   owner  |-> [name |-> n, uid |-> held.uid],
   tmpl   |-> TemplateFor(c, held.spec)]

(***************************************************************************)
(* The first part of Reconcile: what a cached cluster version leads to.    *)
(***************************************************************************)
PhaseForMutant(v) ==                       \* the finalizer is never added
  CASE ~ v.exists               -> "idle"
    [] v.exists /\ v.deleting   -> "deletion"
    [] v.exists /\ ~ v.deleting -> "namespace"

PhaseForDeletionMutant(v) ==               \* the deletion timestamp is ignored
  CASE ~ v.exists          -> "idle"
    [] v.exists /\ ~ v.fin -> "finalizer"
    [] v.exists /\ v.fin   -> "namespace"

PhaseFor(v) ==
  CASE ~ v.exists                           -> "idle"
    [] v.exists /\ v.deleting               -> "deletion"
    [] v.exists /\ ~ v.deleting /\ ~ v.fin  -> "finalizer"
    [] v.exists /\ ~ v.deleting /\ v.fin    -> "namespace"
=============================================================================
