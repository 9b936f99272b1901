# A verification project for the Apple GPU operator

This directory holds TLA+ models of the Apple GPU operator
(`mac-darwin-kubernetes-operator`), the TLC runs that check them on small
instances, and TLAPS proofs of their safety properties for every value of the
constants. `PROJECT.json` indexes it: components, runs, the source lines behind
every definition, hazards, findings, theorems.

## 1. The system

| Part | Source | State it keeps | Operations |
|---|---|---|---|
| Operator | `pkg/controller/cluster_controller.go`, `cmd/operator/main.go` | none of its own: informer caches, a workqueue, the object held by the reconcile under way | `Reconcile`: read the cluster, add or remove the finalizer, ensure the namespace, create or update four managed objects, count nodes, patch the status |
| API types | `pkg/api/v1alpha1/types.go`, the CRD | stored `AppleGPUCluster` objects | serialisation (`omitempty`), CRD defaults |
| Device plugin | `pkg/plugin/device_plugin.go`, `cmd/device-plugin/main.go` | the GPU it found, slots per setting, the plugin socket, one stream to the kubelet | `DiscoverGPU`, `Start` (listen, label, register), `ListAndWatch`, `GetPreferredAllocation`, `Allocate`, `Stop` |
| Exporter | `pkg/exporter/exporter.go` | the last sample, Prometheus gauges | `scrape` every interval, `annotateNode` |
| Scheduler extender | `pkg/scheduler/extender.go` | none | `filter`, `prioritize` |
| metal-proxy | `metal-proxy/Sources/MetalProxy` | the socket file, command queues, round-robin index | start, `submitJob`, health loop, thermal loop |
| OCI hook | `cmd/hook/main.go` | none | look at the socket, bind-mount it |
| Client library | `pkg/proxy/client.go` | a gRPC connection | `NewClientFromEnv`, `Health`, `Close`, constructors of requests |

How they meet. Users write `AppleGPUCluster` objects; the operator turns them
into three DaemonSets (metal-proxy, metal-device-plugin, metal-exporter) and one
Deployment (metal-scheduler-extender). The DaemonSets select nodes by
`apple.com/chip-family=m-series`, a label that administrators put on a node and
that the device plugin, once it runs there, writes again. On a node the device
plugin probes the proxy's socket and tells the kubelet how many slots there are
and whether they are healthy; what it answers to `Allocate` puts the socket into
containers (the OCI hook is meant to do so too, section 5), where the client
library dials it. The
exporter copies the condition of the Mac into annotations of the Node; the
extender reads these annotations and the plugin's pods when the scheduler asks.
`coresPerSlot` travels the whole way: cluster spec, DaemonSet environment, slots,
node label, score.

### What is hard

* *Stale reads.* The operator reads caches and writes to the API server, so a
  reconcile may act on a cluster that has since been edited, deleted, or
  deleted and re-created. Nodes are cached but wake nobody. The scheduler decides
  on a snapshot of annotations that were written from a sample taken earlier.
* *Writes without comparison.* The status patch carries neither resourceVersion
  nor uid. `AddFinalizer` sends back the whole object.
* *Shared names.* Clusters are cluster-scoped and all of them own the same four
  object names; Helm writes one of the four too. The chip-family label has two
  writers, one of which runs because of the label.
* *Restarts.* Operator, device plugin, kubelet and proxy restart
  independently; nothing but the API server and the kubelet's checkpoint
  remembers anything. A bind mount pins the inode of a socket whose server is gone.
* *Check, then use.* The hook looks at the socket and mounts it later; the
  runtime leaves a directory where it found none.
* *Blocking in an actor.* `makeCommandBuffer` blocks the thread of the Swift
  actor when a queue is full, and some buffers need the actor to be committed.

`PROJECT.json` lists each hazard at its line with the properties that cover it.

### What makes each part correct

* Operator: no write on behalf of a cluster that is gone; the finalizer is
  honoured; `observedGeneration` is believable; two clusters never divide the
  managed objects; everything is repaired in the end and then left alone;
  deletions complete; node counts catch up.
* Device plugin: slots cut with one setting fit the GPU they were cut from; a
  dead or returned proxy is reported; it runs where the label is and leaves where
  the label was taken away.
* Exporter and extender: unfit nodes drop out, fit ones come back, cooler nodes
  score higher.
* metal-proxy: the actor is never stuck, no room in a queue is lost, every job is
  answered, health checks go on; its socket comes back after a restart.
* Hook and client: every admitted container starts in the end, `Health` tells what
  the mounted socket is worth.

## 2. Modules

| Module | Contents |
|---|---|
| `ApiObjects` | pure operators: object versions, what serialisation does to a spec, templates, when the API server and `SetControllerReference` accept a write, which phase a cached cluster leads to |
| `ClusterReconciler` | state and actions: users, API server, informers, workqueue, the worker inside `Reconcile`, restarts, Helm, garbage collection |
| `ControlLease` | abstract specification: one cluster at a time controls the managed objects |
| `ReconcilerProperties` | what the reconciler promises, and the refinement of `ControlLease` |
| `DevicePlugin` | one node: plugin process, stream, kubelet, proxy socket, pods holding slots; the refinement of `DeviceHealth` |
| `DeviceHealth` | abstract specification: the health a kubelet is told comes from the last look at the proxy, and holds only while somebody keeps looking |
| `SocketInjection` | one node: the socket file, the listener that replaces it, runtime, hook, client library |
| `NodeRollout` | all nodes: the chip-family label, DaemonSet pods, the plugin that writes the label, the counts in the status |
| `Placement` | exporter, node annotations, scheduler snapshot, extender |
| `MetalQueues` | the metal-proxy actor and its command queues |
| `MC...` | constants for TLC |
| `ClusterReconcilerProofs`, `LeaseProofs`, `ObservedProofs` | proofs about `ClusterReconciler`, each building on the one before |
| `DevicePluginProofs`, `SocketInjectionProofs`, `NodeRolloutProofs`, `PlacementProofs`, `MetalQueuesProofs` | proofs about the module of that name |

Operators whose names end in `Mutant` are slips made on purpose, next to the
definition they would replace: a run whose definition is replaced by its mutant
must violate the property it is paired with in `PROJECT.json`. No specification
uses them.

### ClusterReconciler and the code

* `cr`, `owned`: what the API server stores. An object is a version record with
  a per-object `rv` that goes on counting after a deletion, like an etcd
  revision. `gen`, `uid`, `fin`, `deleting`, `obs` are metadata.generation, uid,
  the finalizer, the deletion timestamp and status.observedGeneration.
* `crCache`/`crWatch`, `ownedCache`/`ownedWatch`, `nsCache`: what the informers
  have seen and what is still under way. A watch delivers the versions of an
  object in order (`DeliverCluster`, `DeliverOwned`); an informer that loses its
  watch lists again and may skip versions (`RelistCluster`, `RelistOwned`,
  budgeted). Neither goes back. Seeing a version of a managed object wakes the
  clusters that the version before and the new one name as owner, as `Owns`
  does.
* `queue`, `pc`, `idx`, `cur`, `local`: the workqueue and the one worker
  (MaxConcurrentReconciles is 1 and leader election is on). `local` is the Go
  variable `cluster`.
* One API call of `Reconcile` is one action: `StartReconcile` (59-70),
  `AddFinalizer` (73-78), `EnsureNamespace` (448-457), `WriteComponent` /
  `SkipComponent` / `RefuseComponent` for the component at `idx` (118-433),
  `UpdateStatus` (461-493), `RemoveFinalizer` (496-502). Each error return is a
  `Retry`.
* `CreateOrUpdate` reads a cache and writes in one action. A cache that moves in
  between only makes the write refused, and that is also reached by writing
  from a cache that lags.
* `Fault` is a call that fails, after or before it took effect: taken after a
  write action it is the lost answer, taken instead of it the lost request.
* `RoundTrip` is what `omitempty` and the CRD defaults do to a spec.
* `rev` in a spec stands for all the fields copied into templates verbatim.
* `Deletable` are the managed objects somebody deletes by hand, `HelmManaged`
  those the chart writes too, `Budgets` the mixes of outside events considered.

### ControlLease and ClusterReconciler

The lease has no objects, caches or retries: clusters come and go, and one that
exists may take the lease when nobody has it. In `ReconcilerProperties`, `alive`
is the set of stored clusters and `holder` is `LeaseHolder`, the cluster that owns
some managed object with the uid it has now. A write of the first object is
`Take`, the removal of the finalizer is `Remove`, the deletion of objects under an
owner that is gone, and everything else the operator does, is a stutter. That
control is not lost while the holder exists, and is lost at once with it, is what
the mapping has to show.

### DevicePlugin, DeviceHealth and the code

`pc` walks through `main` and `Start` (383-410); `stream` through the loop of
`ListAndWatch` (264-293): probe, send, wait. `StartProcess` and `StartWithMock`
are the outcomes of `DiscoverGPU`: the chip of the node, or the mock of 14 cores
when `system_profiler` fails. A device is a pair of chip variant and number, as
`buildDevices` names it. `proxy` is the socket file: absent, left behind by a
dead server ("stale": it exists and refuses the dial), or listening. `held` is
the kubelet's checkpoint, which survives both processes, with the chip and the
setting each allocation was cut with; `Allocate` may pick any healthy devices that
are free, as `GetPreferredAllocation` orders nothing. `Exit` is a process that
dies or gets SIGTERM; the model takes it that the kubelet sees the stream break
before a new process registers, which takes a new container.

`DeviceHealth` has a proxy that comes and goes, a watch, and an offer; no
process, kubelet or device. In `DevicePlugin`, `Watch` maps the place of the loop
to it: closed is no watch, between probe and send is what the probe found,
everything else is idle. A probe is `Look`, a send is `Tell`, a registration that
reaches the socket is `Open`; crash, rollout and a kubelet that stops are `Break`
or, when there was no stream, nothing at all. The last point is what the mapping
has to show: an offer never outlives the loop that could withdraw it.

The Swift server of this repository does not serve gRPC yet
(`MetalProxyServer.swift:94-104`); what listens is
`build/Dockerfile.dummy-proxy`. The model takes the proxy to be any server of
that path.

### SocketInjection and the code

* `path` is what is at `/var/run/metal-proxy/metal.sock`: nothing, a directory,
  or a socket with an inode number. `server` is the inode somebody listens on.
* Who listens is a constant. `Dummy` is the image of `build/Dockerfile.dummy-proxy`:
  `rm -f` does not remove a directory, and its failure ends the shell before
  `socat` (`Removable`). Otherwise it is the Swift daemon, whose `removeItem`
  removes anything and whose `try?` swallows a failure (`RemovalFails`, budgeted;
  `MetalProxyApp.swift:41-42`). `MetalProxyServer.run` binds nothing so far, so
  `BindSocket` and `BindFails` are external: what `socat` does, and what the server
  will have to do, a bind that fails when something is at the path. What the passing
  run says of the daemon is about the start it has, completed in that way.
  `ProxyDies` leaves the file or not.
* `Report` and `Admit` are the device plugin and the kubelet in short: the
  health as last reported admits a container, however old it is. Containers in
  `SelfSet` bring `METAL_PROXY_SOCKET` themselves and request no device, so no
  answer of `Allocate` mounts anything for them; the hook still runs.
* `CreateContainer` is the runtime: it makes the mounts of `Allocate`, and a
  directory where their source is missing (external).
* `HookStat` (80-84) and `HookMount` (86-139) are the two moments at which
  the hook looks at the path. It acts in the state `creating` only (55-57), in which
  the runtime has made the container's mount namespace and has not yet changed its
  root. `nsenter` enters that namespace, and there both paths of the mount, and those
  of `mkdir` and `touch`, are still paths of the host's tree: the mount succeeds
  when the source is a socket, fails when it is gone or is a directory (the target
  is the file that `touch` made), and is not in the root the container gets. So
  `HookMount` decides whether the container starts and leaves `mount` alone.
  `HookFails` is `fatalf`: the runtime discards the container and the kubelet tries
  again.
* `mount` is what the container has at `/dev/metal/proxy.sock`. It keeps its inode.
* `NewClientFromEnv`, `Close`, `HealthState`, `HealthDial` are the client
  (`client.go:144-164`): `Health` asks the connection for its state and then
  dials the socket itself. No method of the client sends an RPC, so the connection
  stays idle until it is closed. The containers of the model have
  `METAL_PROXY_SOCKET` set, so the branch of `Health` for an unset variable
  (`client.go:155`) is never taken.

### NodeRollout and the code

`family` and `facts` are the labels of `LabelNode` (356-378): the one the
DaemonSets select by and those only the plugin writes. `pod` and `process` are a
DaemonSet pod and the plugin in it; a pod that is ending still has a process that
may write labels. `seen` is the operator's node cache, `ListNodes` and
`PatchStatus` are the two calls of `updateStatus` (461-493), `counts` what is
computed in between. `DeliverEvent` is `Owns` in `SetupWithManager`: changes of a
DaemonSet wake the operator, changes of a node do not. `Resync` is the
informers' relist every ten hours (`SyncPeriod` is left at its default). The
chart's `nodeSelector` is the default one. The rest of `Reconcile` is in
`ClusterReconciler`.

### Placement and the code

`sample` is what `scrape` has captured and `annotateNode` has not yet patched;
`note`, `seen`, `snap` are the annotations as stored, as the scheduler's
informer has them, and as a scheduling cycle sees them. `FilterNode` is one turn
of the loop in `handleFilter` (70-78): frozen annotations, live pods. Scores are
computed in hundredths of a point as integers; `Scores` gives both results that
truncating a binary sum may have when the exact one is whole. `ExporterStops` and
`ExporterStarts` are exporters switched off, crashed and replaced; annotations
carry no time and stay. `ExtenderIgnored` is `ignorable: true` of
`scheduler-config.yaml`. `OfferDevices` stands for the module DevicePlugin: the
scheduler learns some time after the proxy that devices come and go.

### MetalQueues and the code

A task runs on the actor up to its next `await`; that is one action. `SubmitJob`
is `submitJob` to the commit of a plain buffer or to the `await` of a pipeline;
`Continue` is everything after. `holder` is the task whose `makeCommandBuffer`
has blocked the actor's thread. Nothing calls `submitJob` yet (the gRPC server is
to come); clients that submit jobs at any time are taken from
`proto/metal.proto`. The priority, the timeout and `activeJobs` are not looked
at by the code, so they are not in the model.

Metal's rule that handlers are added before a commit is broken by
`waitUntilCompletedAsync` (321-329). Outcomes considered: it works, the handler
of a completed buffer is never called (`AddHandlerTooLate`), the process aborts
(`Crash`).

A job fails by itself or takes the process with it. `MakeBuffer` includes
`NoBuffer`: `makeCommandBuffer`, or the encoder after it, answers nil and the job
throws (198-200, 223-225, 256-260), or the health check is over (119-121).
`RejectPayload` is a payload that is too short or holds no library (236-258);
`TrapPayload` one whose name is said to be longer than the payload, so that the
slice traps (241-242). A pipeline that does not compile throws past an encoder
nobody ended (261): Metal asserts that encoders are ended before they are
released, so the model has both the clean failure (`CompileFails`) and the end of the
process (`CompileAborts`). `Die` is what an end of the process does, for these and
for `Crash`.

## 3. Runs

| Run | Shows | Bounds |
|---|---|---|
| `reconciler_single` | safety of one cluster, created twice, edited, deleted, across a restart and a lost watch | two pipeline components (the one told `coresPerSlot` and the one a spec can disable); two specs that differ in every field the controller looks at |
| `reconciler_contention` | two clusters on the same objects; the lease | two objects; either three creations, so that one name is re-created, or two creations and the device plugin deleted by hand; one lost watch |
| `reconciler_live` | no lost wakeup, convergence, rest, completed deletions | one object that Helm writes as well; one each of creation, edit, fault, restart, foreign write or deletion |
| `device_plugin` | one node | a chip of 10 cores and a mock of 14; settings 0, 4, 7, 20: one slot asked for, several and a rest, one and a rest, none that fits; pods that want one and two slots; one each of proxy death, plugin crash, kubelet restart, failed label, changed setting, failed discovery |
| `socket_injection` | from the socket file to `Health` | two containers, one of which requests no device; the proxy dies twice and once cannot remove what is at the path, one container restarts, one connection is closed |
| `node_rollout` | label, plugin, counts | two nodes, labelled or not at first; three outside events of any kind |
| `placement` | annotations to decisions | two nodes, the four thermal levels, 12 and 11 slots, so that the score is capped; two outside events in all, so a node can heat up and cool down, or heat up while a call fails or its exporter is gone |
| `metal_queues` | the actor | two queues with room for two, one metal-compute, two plain and one unsupported job, one crash, one lost completion, one buffer that Metal does not give; traps and aborts as often as there are jobs |
| `claim_*` | statements of the documentation the code does not keep, section 5 | |

Metal gives a queue room for 64 buffers; 2 is enough to fill one. Budgets bound
how often outside events happen; within them every interleaving is explored.
Two deaths of the proxy are what it takes for a directory to be left at the path
while it is down and, later, for a running container to keep a dead socket. `rv`
counters need no bound of their own because each write is caused by a budgeted
event or by a reconcile that changes something; inode numbers grow with the
proxy's budget. `reconciler_contention` treats clusters as symmetric: they differ
by name only, and what it checks are safety properties.
`CHECK_DEADLOCK FALSE` is set where the modelled part may rest (an operator with
nothing to do, a proxy whose health loop is lost).

What the properties say:

* `InFlightOwnerAlive`: while a reconcile writes for a cluster, that very
  incarnation exists and carries the finalizer, although it was read from a
  cache. Its inductive form is `FinalizerInv`, proved in `ClusterReconcilerProofs`.
* `ObservedMeansApplied`, `ObservedNeverGoesBack`: the status patch is
  unconditional, and still `observedGeneration` may be trusted.
* `NoLostEdit`, `FinalizerHonoured`: neither `Update` of the whole object
  overwrites an edit or takes a new cluster's finalizer.
* `OneController`, `LeaseKept`: with several clusters there is one
  winner, until it goes. The fixed order of the pipeline and stopping at the first
  refusal make this true, also when somebody deletes an object other than the
  first of the order. Deleting the first one (metal-proxy) by hand lets another
  cluster take it while the winner keeps the rest; then both block each other
  for good. That deletion is left out of the run and listed as a hazard.
* `NoLostWakeup`: when a cluster is not as its spec asks, or is to be deleted, and
  nothing is under way for it, its name is queued or a version is still to be seen
  that will queue it. `NoIdleWrites`: a pass over a cluster that is as asked
  writes nothing, however stale the version it works from, although
  `CreateOrUpdate` finds its objects unequal every time. Together they are the
  safety behind `Converges` and `Quiesces`: never asleep over work, never busy
  without.
* `Converges`, `Quiesces`, `DeletionCompletes`: after the last disturbance.
* `CommittedCoresFit`: per chip and setting a pod's slots were cut with, the
  slots held fit. `DownReported`, `UpReported`: the latter names the one way to
  stay without devices, a kubelet that restarted and forgot the plugin, which
  registers only once. `HealthTold`: the refinement of `DeviceHealth`, so no answer
  mixes two looks, and none of an earlier stream, process or kubelet is told.
* `DeadStaysDead`: what no longer answers in a running container never does
  again; the bind mount pins the inode and the proxy never binds an old one.
  `PathRecovers`, `AdmittedRuns`: the directory the runtime leaves behind
  and a vanishing socket delay the proxy and the container, they do not stop them.
  `HealthTells`: a program in a container whose socket died learns it, and the
  state of the lazy connection does not mislead it.
* `CountsCatchUp` holds by the resync alone. `LabelledServes` and
  `UnlabelledLeaves`: two writers of one label, and the label still decides; a
  removal lasts when the plugin has finished starting, and may be undone by one
  that has not. `LeftForGood`: once label and pod are gone, only an administrator
  brings the node back.
* `ScoresOrdered`, `UnfitNodeAvoided`, `FitNodeServes`: end to end, from the
  machine to the set of eligible nodes. A node whose exporter is gone is judged by
  its last annotation: the premises say so.
* `NothingStranded`: whoever waits has a committed buffer, and whoever takes up
  room will commit or release it. `NeverStuck`, `SpreadEvenly`,
  `Answered`, `HealthGoesOn`. `NeverStuck` and the last two hold while the metal-compute jobs at a time are fewer than the room in a
  queue; `claim_jobs_return` shows the deadlock when they are not.

### Fairness

* ClusterReconciler: a goroutine that is inside `Reconcile` goes on. Workqueue:
  strong fairness per name, because a FIFO gives each name its turn even when
  another keeps being added. Informers: each pending delivery happens. Garbage
  collector: orphans are collected. Users, faults and restarts owe nothing.
* DevicePlugin: `Start` and the stream loop go on (the kubelet restarts a
  failing container), the DaemonSet controller rolls out, the kubelet comes
  back. Nothing is assumed of the proxy.
* SocketInjection: the kubelet starts the proxy again and retries containers,
  the plugin reports again and again (it does so every tick), and programs keep
  asking `Health`. `BindSocket` is strongly fair: it follows the removal of the old
  file within milliseconds, while the kubelet backs off for seconds before it
  makes a container (and a directory) again. Without this PathRecovers does not
  hold: a container made between the two, every time, would keep the proxy down.
* NodeRollout: the DaemonSet controller, the kubelet, informers and the operator
  go on, and ten hours pass. Administrators and readiness owe nothing.
* Placement: the ticker of a running exporter fires and powermetrics answers,
  informers deliver, and there is always another pod. An exporter that is gone
  need not come back.
* MetalQueues: tasks that can go on do, the GPU finishes committed buffers,
  compilations answer. Weak fairness is enough.

## 4. Proofs

Every invariant and every action property of the passing runs is proved, and so
are both refinements, for arbitrary constants that satisfy the named assumptions of
the modules. Liveness is model-checked only.

### ClusterReconciler

`ClusterReconcilerProofs`, for any clusters, any pipeline of distinct objects,
any specs and any budgets:

* `TypeCorrect`: one lemma per helper (storing, finishing, serialising), one
  step per action.
* `FinalizerInvariant`: `InFlightOwnerAlive` alone is not inductive: a reconcile
  could have started from a version that is not protected. The strengthening
  says that everything the operator may still act on (cache, watch, the object
  held) is older than what is stored or equal to it (`SeenBehind`), that a pending
  version is newer than the cache (`WatchAhead`), that a version with the finalizer
  and without a deletion timestamp belongs to the stored incarnation however old
  it is (`Protected`), that the held object fits the phase (`HeldMatchesPhase`),
  and that a deletion being handled has reached the cache (`DeletionSeen`). The
  last one is what rules out that a reconcile begun after a cluster was released
  still sees it alive. `StoreKeepsViews` carries all of them through any write.
* `InFlightSafe` and `FinalizerHonouredAlways` follow.

`LeaseProofs` first classifies steps: `ClusterSteps` and `ObjectSteps` list the
few ways in which one step changes a stored cluster or a managed object. Then:

* `NoLostEditAlways`: among those ways, only a user's edit changes `rev`.
* `OwnedInvariant`: cached managed objects are behind the stored ones, so an
  update that is accepted was decided on the stored version;
  `NoStealingAlways` follows.
* `LeaseInvariant`, `OneControllerAlways` assume `FirstIsKept`: the first object
  of the pipeline is one no spec disables and nobody deletes by hand (in the code
  it is metal-proxy). `LeaseInv` says that owner references name incarnations that
  have existed (`OwnerHasBeen`), that whoever controls anything controls the first
  object (`FirstLeads`), and that a reconcile past the first object controls it
  (`FirstHeld`).
* `LeaseKeptAlways`, the refinement under the same assumption: `FirstLeads` makes
  `LeaseHolder` the owner of the first object (`HolderIsFirstOwner`), and
  `LeaseStep` maps every step to `Create`, `Take`, `Remove` or a stutter.

`ObservedProofs`:

* `ObservedInvariant`: within one incarnation, generations never get out of order
  between what is reported, held, cached and stored (`ObsBehindGen`, `HeldBetween`,
  `GenBetween`, `GenGrows`). `ObservedNeverGoesBackAlways` follows.
* `ObservedMeansAppliedAlways` assumes `OnlyOperator`: neither Helm nor anybody else
  writes managed objects (with them the property is false until the next
  reconcile, and `Converges` takes its place). `AppliedInv` adds that a generation determines the spec
  in the cache and in the object held (`CachedSpec`, `HeldSpec`) and that what a
  reconcile has visited is still as it left it (`Done`).

* `NoIdleWritesAlways` needs no assumption on Helm: the fields a pass would write
  are those of the spec it works from, and `SpecsInvariant` says that a version
  with the stored generation has the stored spec.
* `NoLostWakeupAlways` takes an inductive invariant of five parts (`WakeInv`,
  checked by TLC before it was proved). A cache that differs from the API server
  has the stored version on its watch (`ClustersSynced`, `OwnedSynced`). A pass that
  works from an outdated version has its cluster queued or a newer version on
  the watch (`StaleNoted`). What a pass has visited is still as it left it, or
  another pass is due (`DoneOrAlerted`); at the end of the pass this becomes
  `NoLostWakeup`. Another pass is due when a name is queued, a version of the
  cluster is pending, or some pending version of a managed object follows on one
  owned by it or is owned by it (`WillWake`). Each delivery either queues the name
  or leaves that true of the versions behind it, because they come in order.

The theorem assumes `NoGap`: no list of the managed objects skips a version. The
proof fails without it for a good reason. When a watch breaks, the list that
replaces it shows what exists by then and not what happened meanwhile. Say the
extender Deployment of Helm, which names no owner, was the last version seen;
behind the broken watch a reconcile takes it over, and it is deleted and installed
again by Helm. The list then shows a Deployment without an owner where the cache
has one without an owner: nobody is woken, although the Deployment is not as the
cluster asks, until something else happens to the cluster or the informer resyncs
(after ten hours). The theorem says that such a gap is the only way to lose a
wakeup. Lists of clusters may skip versions freely.

### The other modules

* `DevicePluginProofs`, for any chip, settings, pods and events: `PluginInvariant`
  says that a stream belongs to a registered process and the kubelet of today,
  that healthy devices are those of that process, and that a pod holds devices as
  they were offered. `HealthyIsWatchedAlways` follows: healthy devices have a live
  loop of a registered process behind them. `HealthToldAlways` maps
  initial states to initial states of `DeviceHealth` and every step to one of its
  steps or a stutter (`HealthStep`); the invariant is needed where a stream is
  opened (there is none yet, `RegisterOpens`) and where everything ends without
  one (nothing is offered, `BreakOrNothing`). `CoresFitAlways` counts the
  devices of one cut (`DevicesCount`) and uses that slots fit (`SlotsFit`), except
  for the single slot that is always offered.
* `SocketInjectionProofs`, for any containers, restarts and either listener:
  `TypeOK` says that a listener's socket is the one at the path, and that a
  container past its creation has a mount exactly when its pod asked for a device,
  whatever the hook does. `DeadStaysDeadAlways` adds that a running container
  keeps its mount (`RunningKeepsMount`) and that a proxy never listens at an
  earlier inode (`ServerIsOrNew`).
* `NodeRolloutProofs`, for any finite set of nodes: `TypeCorrect` contains
  `status.ready <= status.total`; the counts under way are ordered as well
  (`CountsOrdered`). `LeftForGoodAlways` needs that a plugin lives in its pod
  (`ProcessInPod`).
* `PlacementProofs`, for any nodes, readings and sizes: `PlacementInv` says that a
  score was computed from the snapshot the same cycle filtered by; `TypeCorrect`
  that scores stay in 0..100; `ScoresOrderedAlways` that the order survives
  rounding and cap. `ScoredAreCoolAlways`: a node is never scored with annotations that
  call it Critical, since filter and score work from one snapshot and nothing is
  eligible between two cycles (`NoneBetween`).
* `MetalQueuesProofs`, for any number of queues, any room and any finite set of
  jobs: `QueueInv` (the round-robin index counts the jobs placed; what holds an
  uncommitted buffer is compiling), `SpreadAlways`,
  `NothingStrandedAlways`, and, assuming fewer metal-compute jobs than a queue has
  room for, `NeverStuckAlways`. Under the same assumption these give `NoDeadlock`:
  while anything is unfinished, some task or the GPU has a step to take. That is
  as far as a proof of `Answered` gets without fairness.

The prover cannot reason about fairness or ENABLED, so liveness stays with TLC
(`Converges`, `Quiesces`, `DeletionCompletes`, `DownReported`, `UpReported`,
`PathRecovers`, `AdmittedRuns`, `HealthTells`, `CountsCatchUp`, `LabelledServes`,
`UnlabelledLeaves`, `UnfitNodeAvoided`, `FitNodeServes`, `Answered`,
`HealthGoesOn`). It cannot do induction over data either, nor use modules with
RECURSIVE operators; the models need neither.

## 5. Findings

With a run that shows a counterexample:

| Run | Statement | What the code does |
|---|---|---|
| `claim_user_cores` | CRD: "0 = one slot for the entire GPU." | the first reconcile turns `coresPerSlot: 0` into 10 (and `false` into `true`) |
| `claim_physical_slots` | `README.md:117`: slots are the physical cores divided by `coresPerSlot` | a failing `system_profiler` makes any node a mock of 14 cores, and its slots are offered |
| `claim_dummy_listens` | `Dockerfile.dummy-proxy:3`: listens indefinitely | a directory at the path stops it for good |
| `claim_jobs_return` | comment of `submitJob`: dispatched to an available queue, result returned asynchronously | compiling jobs can fill a queue and block the actor for good |

Read off the code:

* `types.go:29` says `exporterEnabled` controls whether the exporter is
  deployed; a deployed exporter stays (`cluster_controller.go:314`).
* The comment of `handleDeletion` has the finalizer removed once owned resources
  are cleaned up; it is removed first (`:500`).
* The heading of the filter removes nodes where metal-proxy is unhealthy; it
  looks at device plugin pods (`extender.go:102`).
* `types.go:59` has `readyNodes` count nodes with all DaemonSet pods running; it
  counts nodes that are Ready (`cluster_controller.go:473`).
* `values.yaml:71`: the device plugin adds the chip-family label automatically. It
  only runs where the label is (`cluster_controller.go:440`), so a node nobody
  labels never gets either; in `NodeRollout`, `CreatePod` needs the label and
  `LabelNode` the pod.
* The comment in `Start` has the labels ready by the time the scheduler sees the
  resource (403-404); a labelling that fails does not stop registration
  (`device_plugin.go:405`).
* `README.md:121`: N slots are N×coresPerSlot of the compute. Slots are numbered
  anew when `coresPerSlot` changes (`device_plugin.go:229`): of a chip of 10 cores
  one pod may keep the one slot of 7 while another is given a slot of 4.
* The comment of `filterNode` looks for a Ready device plugin pod (`:101`); every
  listed pod has to be Running, so one that failed and is still listed beside its
  successor keeps a fit node out (`extender.go:112`).
* The head of `cmd/hook/main.go` (5-6) has the hook bind-mount the socket into any
  container with `METAL_PROXY_SOCKET`. The mount is made in the host's tree before
  the container gets its root (`:128`), so only the runtime's own mount reaches a
  container: one of `SelfSet` starts without a socket.

## 6. Not modelled

* Generated code (gRPC, deepcopy), the `MetalWorkload` type (no code reads it),
  request constructors and client methods that return `ErrNotImplemented`.
* Prometheus gauges and `UpdateSlotMetrics` (written, never read by the system),
  logging, HTTP servers, flags, build and test scripts, most of the chart.
* Text handling: parsing `system_profiler` and `powermetrics`. A core count that
  does not parse is 0, which the chip's assumption allows.
* `timeoutSeconds` and re-submission by `job_id`: the server looks at neither, and
  nothing submits jobs yet.
* A node selector set by the user in place of the default one.
* Deleting the first managed object by hand while two clusters compete, see
  section 3.

Taken for granted: the API server apart from a call that fails; a restarted
operator lists current objects; hooks that see the state `creating` run before the
container's root is changed, as the OCI runtime specification has it; the runtime
makes a directory for a missing mount source, as containerd does.

## 7. Plan

1. Done: the operator with its lease refinement, the device plugin, socket
   injection, node rollout, placement, the proxy's queues; proofs of all their
   safety properties.
2. Left, when the code gets there: jobs submitted by a client and submitted again
   (needs the server's socket handler and the client's RPCs); `MetalWorkload`
   (needs a controller).
3. Left, of use now: composing `DevicePlugin` with `Placement` so that
   `OfferDevices` is the plugin's own reports; larger contention instances.
