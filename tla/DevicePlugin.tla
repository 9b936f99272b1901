---------------------------- MODULE DevicePlugin ----------------------------
(***************************************************************************)
(* One node: the device plugin process (pkg/plugin/device_plugin.go and    *)
(* cmd/device-plugin/main.go), the metal-proxy socket whose health it      *)
(* reports, and the kubelet it registers with.                             *)
(*                                                                         *)
(* The process runs Start once (listen, label the node, register) and then *)
(* only answers: the kubelet opens one ListAndWatch stream, whose loop     *)
(* probes the proxy, sends the device list and waits for the next tick.    *)
(* Anything may happen between two of these steps.                         *)
(*                                                                         *)
(* A device is a pair: buildDevices names it <chip variant>-slot-<number>. *)
(* The chip of a node does not change, but what a process takes it for     *)
(* does: DiscoverGPU answers with a mock when system_profiler fails.       *)
(***************************************************************************)
EXTENDS Integers, FiniteSets

CONSTANTS
  Chip,            \* what system_profiler tells of the node
  CoresSettings,   \* values the operator writes to CORES_PER_SLOT
  Pods,
  Wants,           \* how many slots each pod requests
  Budget           \* how often each kind of outside event happens

BudgetKinds == {"proxy", "crash", "kubelet", "label", "setting", "profiler"}

(* AppleGPUInfo.  A core count that does not parse is 0. *)
GPU == [variant: STRING, cores: Nat]

MockGPU == [variant |-> "m3-max", cores |-> 14]

GPUs == {Chip, MockGPU}

ASSUME ChipAssumption == Chip \in GPU

ASSUME CoresAssumption == CoresSettings \subseteq Int

ASSUME WantsAssumption == Wants \in [Pods -> Nat \ {0}]

ASSUME PluginBudgetAssumption == Budget \in [BudgetKinds -> Nat]

VARIABLES
  proxy,       \* the proxy's socket file: none, nobody behind it, or served
  setting,     \* CORES_PER_SLOT in the DaemonSet
  gpu,         \* what the running process found
  cores,       \* coresPerSlot of the running process
  pc,          \* where the process is in Start
  endpoint,    \* whether the plugin's socket is in the kubelet's directory
  label,       \* apple.com/gpu-slots of the node, 0 when there is none
  stream,      \* where the ListAndWatch loop is
  probed,      \* what its last probe found
  kubelet,     \* "up" or "down"
  registered,  \* the kubelet is connected to the plugin
  view,        \* the devices the kubelet knows: names, number and health
  held,        \* the devices of each pod, and what they were cut from
  budget       \* outside events left

processVars == <<gpu, cores, pc, endpoint>>
streamVars  == <<stream, probed>>
kubeletVars == <<kubelet, registered, view>>
vars == <<proxy, setting, processVars, label, streamVars, kubeletVars, held, budget>>

-----------------------------------------------------------------------------
TotalSlotsMutant(g, c) ==                   \* rounds up
  IF c <= 0 THEN 1 ELSE (g.cores + c - 1) \div c

TotalSlotsZeroMutant(g, c) ==               \* zero slots when none fits
  IF c <= 0 THEN 1 ELSE g.cores \div c

TotalSlots(g, c) ==
  IF c <= 0 \/ g.cores < c THEN 1 ELSE g.cores \div c

(* buildDevices: the names of the slots of one chip, cut one way. *)
Devices(g, c) == {g.variant} \X (0 .. TotalSlots(g, c) - 1)

(* isProxyHealthy: a file that nobody serves refuses the dial. *)
ProxyHealthyMutant == proxy # "absent"      \* Stat without the dial

ProxyHealthy == proxy = "listening"

Spend(kind) ==
  /\ budget[kind] > 0
  /\ budget' = [budget EXCEPT ![kind] = @ - 1]

NoView == [devices |-> {}, healthy |-> FALSE]

DeviceName == {g.variant : g \in GPUs} \X Nat

Allocation == [devices: SUBSET DeviceName, gpu: GPUs, cores: CoresSettings]

Nothing == [devices |-> {}, gpu |-> Chip, cores |-> CHOOSE c \in CoresSettings : TRUE]

TypeOK ==
  /\ proxy \in {"absent", "stale", "listening"}
  /\ setting \in CoresSettings
  /\ gpu \in GPUs
  /\ cores \in CoresSettings
  /\ pc \in {"down", "listen", "label", "register", "running"}
  /\ endpoint \in BOOLEAN
  /\ label \in Nat
  /\ stream \in {"closed", "probe", "send", "wait"}
  /\ probed \in BOOLEAN
  /\ kubelet \in {"up", "down"}
  /\ registered \in BOOLEAN
  /\ view \in [devices: SUBSET DeviceName, healthy: BOOLEAN]
  /\ view.healthy => view.devices # {}
  /\ held \in [Pods -> Allocation]
  /\ budget \in [BudgetKinds -> Nat]

Init ==
  /\ proxy = "absent"
  /\ setting \in CoresSettings
  /\ gpu = Chip
  /\ cores = setting
  /\ pc = "down"
  /\ endpoint = FALSE
  /\ label = 0
  /\ stream = "closed"
  /\ probed = FALSE
  /\ kubelet = "up"
  /\ registered = FALSE
  /\ view = NoView
  /\ held = [p \in Pods |-> Nothing]
  /\ budget = Budget

-----------------------------------------------------------------------------
(* The process. *)

(* main reads CORES_PER_SLOT and looks for the GPU, once.  (Output of      *)
(* system_profiler that names no Apple GPU ends it: it stays down.)        *)
StartWith(g) ==
  /\ pc = "down"
  /\ pc' = "listen"
  /\ cores' = setting
  /\ gpu' = g
  /\ UNCHANGED <<proxy, setting, endpoint, label, streamVars, kubeletVars, held>>

StartProcess == StartWith(Chip) /\ UNCHANGED budget

(* system_profiler is missing, fails, or takes longer than 15 seconds. *)
StartWithMock == StartWith(MockGPU) /\ Spend("profiler")

(* Remove a stale socket of the plugin and listen on a new one. *)
Listen ==
  /\ pc = "listen"
  /\ pc' = "label"
  /\ endpoint' = TRUE
  /\ UNCHANGED <<proxy, setting, gpu, cores, label, streamVars, kubeletVars, held, budget>>

LabelNode ==
  /\ pc = "label"
  /\ pc' = "register"
  /\ label' = TotalSlots(gpu, cores)
  /\ UNCHANGED <<proxy, setting, gpu, cores, endpoint, streamVars, kubeletVars, held, budget>>

(* The patch of the node fails; Start logs it and goes on. *)
LabelNodeFails ==
  /\ pc = "label"
  /\ Spend("label")
  /\ pc' = "register"
  /\ UNCHANGED <<proxy, setting, gpu, cores, endpoint, label, streamVars, kubeletVars, held>>

(* The kubelet answers Register at once and dials the plugin's socket      *)
(* afterwards; a socket removed meanwhile leaves the plugin unregistered.  *)
Register ==
  /\ pc = "register"
  /\ kubelet = "up"
  /\ pc' = "running"
  /\ registered' = endpoint
  /\ stream' = IF endpoint THEN "probe" ELSE "closed"
  /\ UNCHANGED <<proxy, setting, gpu, cores, endpoint, label, probed, kubelet, view, held, budget>>

(* No kubelet to register with: Start fails and main exits. *)
RegisterFails ==
  /\ pc = "register"
  /\ kubelet = "down"
  /\ pc' = "down"
  /\ UNCHANGED <<proxy, setting, gpu, cores, endpoint, label, streamVars, kubeletVars, held, budget>>

(* The process is gone.  The kubelet sees its stream break and marks the   *)
(* devices unhealthy.                                                      *)
Exit ==
  /\ pc' = "down"
  /\ stream' = "closed"
  /\ registered' = FALSE
  /\ view' = [view EXCEPT !.healthy = FALSE]
  /\ UNCHANGED <<proxy, setting, gpu, cores, endpoint, label, probed, kubelet, held>>

Crash == pc # "down" /\ Spend("crash") /\ Exit

(* The DaemonSet controller replaces a pod of an old template; SIGTERM     *)
(* leads to Stop.                                                          *)
RollOut == pc # "down" /\ cores # setting /\ Exit /\ UNCHANGED budget

-----------------------------------------------------------------------------
(* The ListAndWatch loop. *)

Probe ==
  /\ stream = "probe"
  /\ stream' = "send"
  /\ probed' = ProxyHealthy
  /\ UNCHANGED <<proxy, setting, processVars, label, kubeletVars, held, budget>>

SendMutant ==                               \* devs is built before the loop
  /\ stream = "send"
  /\ stream' = "wait"
  /\ view' = [devices |-> Devices(gpu, cores),
               healthy |-> probed /\ (view.devices = {} \/ view.healthy)]
  /\ UNCHANGED <<proxy, setting, processVars, label, probed, kubelet, registered, held, budget>>

Send ==
  /\ stream = "send"
  /\ stream' = "wait"
  /\ view' = [devices |-> Devices(gpu, cores), healthy |-> probed]
  /\ UNCHANGED <<proxy, setting, processVars, label, probed, kubelet, registered, held, budget>>

TickMutant ==                               \* the loop runs once
  /\ stream = "wait"
  /\ UNCHANGED vars

Tick ==
  /\ stream = "wait"
  /\ stream' = "probe"
  /\ UNCHANGED <<proxy, setting, processVars, label, probed, kubeletVars, held, budget>>

-----------------------------------------------------------------------------
(***************************************************************************)
(* The kubelet gives a pod as many devices as it wants, of those that are  *)
(* healthy and not held; it asks GetPreferredAllocation, which returns the *)
(* first of what it is offered, in no particular order.  The scheduler has *)
(* seen to it that the node offers as many as all its pods want.  The      *)
(* handler of Allocate looks neither at the devices nor at the proxy.      *)
(***************************************************************************)
Held == UNION {held[p].devices : p \in Pods}

Allocate(p, D) ==
  /\ held[p].devices = {}
  /\ kubelet = "up"
  /\ registered
  /\ view.healthy
  /\ Cardinality(D) = Wants[p]
  /\ D \cap Held = {}
  /\ Cardinality(D) + Cardinality(Held) <= Cardinality(view.devices)
  /\ held' = [held EXCEPT ![p] = [devices |-> D, gpu |-> gpu, cores |-> cores]]
  /\ UNCHANGED <<proxy, setting, processVars, label, streamVars, kubeletVars, budget>>

PodEnds(p) ==
  /\ held[p].devices # {}
  /\ held' = [held EXCEPT ![p] = Nothing]
  /\ UNCHANGED <<proxy, setting, processVars, label, streamVars, kubeletVars, budget>>

-----------------------------------------------------------------------------
(* What surrounds the plugin (external). *)

(* The server binds its socket, after removing what is left of an old one. *)
ProxyStarts ==
  /\ proxy # "listening"
  /\ proxy' = "listening"
  /\ UNCHANGED <<setting, processVars, label, streamVars, kubeletVars, held, budget>>

(* It dies, or its socket file is removed. *)
ProxyStops ==
  /\ proxy = "listening"
  /\ Spend("proxy")
  /\ proxy' \in {"stale", "absent"}
  /\ UNCHANGED <<setting, processVars, label, streamVars, kubeletVars, held>>

(* The stream breaks with the kubelet; what pods hold is checkpointed. *)
KubeletStops ==
  /\ kubelet = "up"
  /\ Spend("kubelet")
  /\ kubelet' = "down"
  /\ registered' = FALSE
  /\ view' = NoView
  /\ stream' = "closed"
  /\ UNCHANGED <<proxy, setting, processVars, label, probed, held>>

(* A starting kubelet removes every socket of the plugin directory. *)
KubeletStarts ==
  /\ kubelet = "down"
  /\ kubelet' = "up"
  /\ endpoint' = FALSE
  /\ UNCHANGED <<proxy, setting, gpu, cores, pc, label, streamVars, registered, view, held, budget>>

(* The operator writes another coresPerSlot to the DaemonSet. *)
ChangeSetting(c) ==
  /\ c # setting
  /\ Spend("setting")
  /\ setting' = c
  /\ UNCHANGED <<proxy, processVars, label, streamVars, kubeletVars, held>>

-----------------------------------------------------------------------------
Start ==
  \/ StartProcess \/ StartWithMock \/ Listen \/ LabelNode \/ LabelNodeFails
  \/ Register \/ RegisterFails

ListAndWatch == Probe \/ Send \/ Tick

Next ==
  \/ Start
  \/ Crash
  \/ RollOut
  \/ ListAndWatch
  \/ \E p \in Pods : PodEnds(p) \/ \E D \in SUBSET view.devices : Allocate(p, D)
  \/ ProxyStarts
  \/ ProxyStops
  \/ KubeletStops
  \/ KubeletStarts
  \/ \E c \in CoresSettings : ChangeSetting(c)

Spec == Init /\ [][Next]_vars

(* The process and its loop keep going, the kubelet comes back and the     *)
(* DaemonSet controller rolls out.  Nothing is assumed of the proxy.       *)
Fairness ==
  /\ WF_vars(Start)
  /\ WF_vars(ListAndWatch)
  /\ WF_vars(RollOut)
  /\ WF_vars(KubeletStarts)

FairSpec == Spec /\ Fairness

-----------------------------------------------------------------------------
(***************************************************************************)
(* The slots cut from one chip with one coresPerSlot never claim more      *)
(* cores than the chip has, through restarts of either process, changes of *)
(* the setting and wrong discoveries in between (TotalSlots and            *)
(* buildDevices, lines 212-234).  A single slot may: TotalSlots advertises *)
(* one even when it does not fit.                                          *)
(***************************************************************************)
CutFrom(g, c) ==
  UNION {held[p].devices : p \in {q \in Pods : held[q].gpu = g /\ held[q].cores = c}}

CommittedCoresFit ==
  \A g \in GPUs, c \in CoresSettings :
    \/ Cardinality(CutFrom(g, c)) * c <= g.cores
    \/ Cardinality(CutFrom(g, c)) <= 1

(***************************************************************************)
(* Devices are healthy only while a loop is there to take that back: that  *)
(* of a process that got through Start, on a stream the kubelet of today   *)
(* opened (ListAndWatch, lines 255-295; Start, lines 383-410), whatever    *)
(* restarts and rollouts end it at, between a probe and its answer too.    *)
(***************************************************************************)
HealthyIsWatched ==
  view.healthy =>
    stream # "closed" /\ pc = "running" /\ kubelet = "up" /\ registered

(***************************************************************************)
(* The health the kubelet is told is the one DeviceHealth describes: each  *)
(* answer is that of the look before it, none outlives its stream, and no  *)
(* look of an earlier stream or process is told on a new one.              *)
(***************************************************************************)
Watch ==
  CASE stream = "closed" -> "none"
    [] stream = "send"   -> IF probed THEN "up" ELSE "down"
    [] OTHER             -> "idle"

Health ==
  INSTANCE DeviceHealth
    WITH serving <- proxy = "listening", watch <- Watch, offered <- view.healthy

HealthTold == Health!Spec

(***************************************************************************)
(* A proxy that stays down is noticed: no device remains healthy, also     *)
(* when plugin or kubelet restart meanwhile (ListAndWatch, lines 264-293). *)
(***************************************************************************)
DownReported ==
  <>[](proxy # "listening") => <>[](~ view.healthy)

(***************************************************************************)
(* The plugin registered with a kubelet that has since forgotten it.       *)
(* Start registers once (lines 383-410) and nothing notices the loss.      *)
(***************************************************************************)
Forgotten == pc = "running" /\ ~ registered /\ cores = setting

(***************************************************************************)
(* A proxy that stays up is noticed too: in the end the kubelet offers the *)
(* devices of the operator's current setting, of the chip the process took *)
(* the node for.  Being forgotten by a restarted kubelet is the only way   *)
(* to stay without them.                                                   *)
(***************************************************************************)
UpReported ==
  <>[](proxy = "listening") =>
    <>[](\/ view = [devices |-> Devices(gpu, setting), healthy |-> TRUE]
         \/ Forgotten)

(***************************************************************************)
(* README.md: "Physical GPU Cores / coresPerSlot = apple.com/gpu slots".   *)
(* The healthy slots of a node do not need more cores than its chip has.   *)
(***************************************************************************)
SlotsArePhysical ==
  view.healthy =>
    \/ Cardinality(view.devices) * cores <= Chip.cores
    \/ Cardinality(view.devices) = 1

=============================================================================
