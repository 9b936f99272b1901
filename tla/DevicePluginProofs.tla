-------------------------- MODULE DevicePluginProofs --------------------------
(***************************************************************************)
(* Theorems about DevicePlugin for any chip, any settings, any pods and    *)
(* any number of outside events.                                           *)
(***************************************************************************)
EXTENDS DevicePlugin, FiniteSetTheorems, TLAPS

(* The loop belongs to a process that has finished Start, and answers the  *)
(* kubelet that opened it.                                                 *)
StreamOfRunning ==
  stream # "closed" => pc = "running" /\ kubelet = "up" /\ registered

(* Only such a loop offers healthy devices, and they are of its process. *)
ViewOfRunning ==
  view.healthy => stream # "closed" /\ view.devices = Devices(gpu, cores)

(* What a pod holds was cut the way its record says. *)
HeldAsCut ==
  \A p \in Pods : held[p].devices \subseteq Devices(held[p].gpu, held[p].cores)

(* What every step preserves. *)
PluginInv ==
  /\ TypeOK
  /\ StreamOfRunning
  /\ ViewOfRunning
  /\ HeldAsCut

-----------------------------------------------------------------------------
(* Either chip has a number of cores. *)
LEMMA GPUsTyped == /\ \A g \in GPUs : g.cores \in Nat
                   /\ Chip \in GPUs
                   /\ MockGPU \in GPUs
<1>1. MockGPU.cores = 14
  BY DEF MockGPU
<1>2. Chip.cores \in Nat
  BY ChipAssumption DEF GPU
<1> QED BY <1>1, <1>2 DEF GPUs

(* Division rounds down. *)
LEMMA DivisionFits ==
  ASSUME NEW n \in Nat, NEW c \in Int, c > 0, n >= c
  PROVE  n \div c \in Nat \ {0} /\ (n \div c) * c <= n
<1>1. n \div c \in Int /\ n = c * (n \div c) + (n % c) /\ n % c \in 0 .. c - 1
  BY SMT
<1>2. (n \div c) * c <= n
  BY <1>1, SMT
<1>3. n \div c >= 1
  <2>1. SUFFICES ASSUME n \div c <= 0 PROVE FALSE
    BY <1>1
  <2>2. c * (n \div c) <= 0
    BY <1>1, <2>1, SMT
  <2> QED BY <1>1, <2>2
<1> QED BY <1>1, <1>2, <1>3

(* totalSlots: at least one, and no more than fit unless it is one. *)
LEMMA SlotsFit ==
  ASSUME NEW g \in GPUs, NEW c \in CoresSettings
  PROVE  /\ TotalSlots(g, c) \in Nat \ {0}
         /\ TotalSlots(g, c) * c <= g.cores \/ TotalSlots(g, c) = 1
<1>1. g.cores \in Nat /\ c \in Int
  BY GPUsTyped, CoresAssumption
<1>2. CASE c <= 0 \/ g.cores < c
  BY <1>2, <1>1 DEF TotalSlots
<1>3. CASE c > 0 /\ g.cores >= c
  <2>1. TotalSlots(g, c) = g.cores \div c
    BY <1>1, <1>3 DEF TotalSlots
  <2> QED BY <1>1, <1>3, <2>1, DivisionFits
<1> QED BY <1>1, <1>2, <1>3

(* buildDevices: as many devices as slots, all of them well named. *)
LEMMA DevicesCount ==
  ASSUME NEW g \in GPUs, NEW c \in CoresSettings
  PROVE  /\ Devices(g, c) \subseteq DeviceName
         /\ Devices(g, c) # {}
         /\ IsFiniteSet(Devices(g, c))
         /\ Cardinality(Devices(g, c)) = TotalSlots(g, c)
<1> DEFINE T == TotalSlots(g, c)
           I == 0 .. T - 1
<1>1. T \in Nat \ {0}
  BY SlotsFit
<1>2. IsFiniteSet(I) /\ Cardinality(I) = T
  <2>1. 0 \in Int /\ T - 1 \in Int
    BY <1>1
  <2>2. IsFiniteSet(I) /\ Cardinality(I) = IF 0 > T - 1 THEN 0 ELSE (T - 1) - 0 + 1
    BY <2>1, FS_Interval
  <2> QED BY <1>1, <2>2
<1>3. IsFiniteSet({g.variant}) /\ Cardinality({g.variant}) = 1
  BY FS_Singleton
<1>4. /\ IsFiniteSet({g.variant} \X I)
      /\ Cardinality({g.variant} \X I) = 1 * T
  BY <1>2, <1>3, FS_Product
<1>5. Devices(g, c) = {g.variant} \X I
  BY DEF Devices
<1>6. 0 \in I /\ I \subseteq Nat
  BY <1>1
<1>7. <<g.variant, 0>> \in Devices(g, c)
  BY <1>5, <1>6
<1>8. Devices(g, c) \subseteq DeviceName
  <2> SUFFICES ASSUME NEW v \in {g.variant}, NEW i \in I PROVE <<v, i>> \in DeviceName
    BY <1>5
  <2> QED BY <1>6 DEF DeviceName
<1> QED BY <1>1, <1>4, <1>5, <1>7, <1>8

LEMMA NothingTyped ==
  ASSUME cores \in CoresSettings
  PROVE  Nothing \in Allocation
<1>1. (CHOOSE c \in CoresSettings : TRUE) \in CoresSettings
  BY Zenon
<1> QED BY <1>1, GPUsTyped DEF Nothing, Allocation

LEMMA SpendTyped ==
  ASSUME budget \in [BudgetKinds -> Nat], NEW k \in BudgetKinds, Spend(k)
  PROVE  budget' \in [BudgetKinds -> Nat]
BY DEF Spend

-----------------------------------------------------------------------------
LEMMA InitInv == Init => PluginInv
<1> SUFFICES ASSUME Init PROVE PluginInv
  OBVIOUS
<1>1. Nothing \in Allocation
  BY NothingTyped DEF Init
<1>2. TypeOK
  BY <1>1, GPUsTyped, PluginBudgetAssumption DEF Init, TypeOK, NoView
<1>3. StreamOfRunning /\ ViewOfRunning
  BY DEF Init, StreamOfRunning, ViewOfRunning, NoView
<1>4. HeldAsCut
  BY DEF Init, HeldAsCut, Nothing
<1> QED BY <1>2, <1>3, <1>4 DEF PluginInv

(* Start, up to the registration. *)
LEMMA StartKeeps ==
  ASSUME PluginInv, Start
  PROVE  PluginInv'
<1> USE DEF PluginInv
<1>1. CASE StartProcess \/ StartWithMock
  <2>1. PICK g \in GPUs : StartWith(g)
    BY <1>1, GPUsTyped DEF StartProcess, StartWithMock
  <2>2. budget' \in [BudgetKinds -> Nat]
    BY <1>1, SpendTyped DEF StartProcess, StartWithMock, TypeOK, BudgetKinds
  <2>3. TypeOK'
    BY <2>1, <2>2 DEF StartWith, TypeOK, kubeletVars, streamVars
  <2>4. StreamOfRunning' /\ ViewOfRunning'
    BY <2>1 DEF StartWith, StreamOfRunning, ViewOfRunning, TypeOK, kubeletVars, streamVars
  <2>5. HeldAsCut'
    BY <2>1 DEF StartWith, HeldAsCut
  <2> QED BY <2>3, <2>4, <2>5
<1>2. CASE Listen
  <2>1. TypeOK'
    BY <1>2 DEF Listen, TypeOK, kubeletVars, streamVars
  <2> QED BY <1>2, <2>1 DEF Listen, StreamOfRunning, ViewOfRunning, HeldAsCut, kubeletVars, streamVars
<1>3. CASE LabelNode
  <2>1. TotalSlots(gpu, cores) \in Nat
    BY SlotsFit DEF TypeOK
  <2>2. TypeOK'
    BY <1>3, <2>1 DEF LabelNode, TypeOK, kubeletVars, streamVars
  <2> QED BY <1>3, <2>2 DEF LabelNode, StreamOfRunning, ViewOfRunning, HeldAsCut, kubeletVars, streamVars
<1>4. CASE LabelNodeFails
  <2>1. budget' \in [BudgetKinds -> Nat]
    BY <1>4, SpendTyped DEF LabelNodeFails, TypeOK, BudgetKinds
  <2>2. TypeOK'
    BY <1>4, <2>1 DEF LabelNodeFails, TypeOK, kubeletVars, streamVars
  <2> QED BY <1>4, <2>2 DEF LabelNodeFails, StreamOfRunning, ViewOfRunning, HeldAsCut, kubeletVars, streamVars
<1>5. CASE Register
  <2>1. TypeOK'
    BY <1>5 DEF Register, TypeOK
  <2> QED BY <1>5, <2>1 DEF Register, StreamOfRunning, ViewOfRunning, HeldAsCut
<1>6. CASE RegisterFails
  <2>1. TypeOK'
    BY <1>6 DEF RegisterFails, TypeOK, kubeletVars, streamVars
  <2> QED BY <1>6, <2>1 DEF RegisterFails, StreamOfRunning, ViewOfRunning, HeldAsCut, kubeletVars, streamVars
<1> QED BY <1>1, <1>2, <1>3, <1>4, <1>5, <1>6 DEF Start

(* The process ends, one way or the other. *)
LEMMA ExitKeeps ==
  ASSUME PluginInv, Crash \/ RollOut
  PROVE  PluginInv'
<1> USE DEF PluginInv
<1>1. budget' \in [BudgetKinds -> Nat]
  BY SpendTyped DEF Crash, RollOut, TypeOK, BudgetKinds
<1>2. Exit
  BY DEF Crash, RollOut
<1>3. TypeOK'
  BY <1>1, <1>2 DEF Exit, TypeOK
<1> QED BY <1>2, <1>3 DEF Exit, StreamOfRunning, ViewOfRunning, HeldAsCut, TypeOK

LEMMA ListAndWatchKeeps ==
  ASSUME PluginInv, ListAndWatch
  PROVE  PluginInv'
<1> USE DEF PluginInv, processVars, kubeletVars, streamVars
<1>1. CASE Probe
  <2>1. TypeOK'
    BY <1>1 DEF Probe, TypeOK, ProxyHealthy
  <2> QED BY <1>1, <2>1 DEF Probe, StreamOfRunning, ViewOfRunning, HeldAsCut
<1>2. CASE Send
  <2>1. /\ Devices(gpu, cores) \subseteq DeviceName
        /\ Devices(gpu, cores) # {}
    BY DevicesCount DEF TypeOK
  <2>2. TypeOK'
    BY <1>2, <2>1 DEF Send, TypeOK
  <2>3. StreamOfRunning' /\ HeldAsCut'
    BY <1>2 DEF Send, StreamOfRunning, HeldAsCut
  <2>4. ViewOfRunning'
    BY <1>2 DEF Send, StreamOfRunning, ViewOfRunning, Devices, TotalSlots
  <2> QED BY <2>2, <2>3, <2>4
<1>3. CASE Tick
  <2>1. TypeOK'
    BY <1>3 DEF Tick, TypeOK
  <2> QED BY <1>3, <2>1 DEF Tick, StreamOfRunning, ViewOfRunning, HeldAsCut
<1> QED BY <1>1, <1>2, <1>3 DEF ListAndWatch

(* A pod is given devices of the healthy view, which are cut as the        *)
(* process cuts them.                                                      *)
LEMMA AllocateKeeps ==
  ASSUME PluginInv, NEW p \in Pods, NEW D \in SUBSET view.devices, Allocate(p, D)
  PROVE  PluginInv'
<1> USE DEF PluginInv, processVars, kubeletVars, streamVars
<1>1. D \subseteq DeviceName /\ D \subseteq Devices(gpu, cores)
  BY DEF Allocate, TypeOK, ViewOfRunning
<1>2. [devices |-> D, gpu |-> gpu, cores |-> cores] \in Allocation
  BY <1>1 DEF TypeOK, Allocation
<1>3. TypeOK'
  BY <1>2 DEF Allocate, TypeOK
<1>4. StreamOfRunning' /\ ViewOfRunning'
  BY DEF Allocate, StreamOfRunning, ViewOfRunning
<1>5. HeldAsCut'
  <2> SUFFICES ASSUME NEW q \in Pods
               PROVE  held'[q].devices \subseteq Devices(held'[q].gpu, held'[q].cores)
    BY DEF HeldAsCut
  <2>1. CASE q = p
    <3>1. held'[q] = [devices |-> D, gpu |-> gpu, cores |-> cores]
      BY <2>1 DEF Allocate, TypeOK
    <3> QED BY <3>1, <1>1
  <2>2. CASE q # p
    <3>1. held'[q] = held[q]
      BY <2>2 DEF Allocate, TypeOK
    <3> QED BY <3>1 DEF HeldAsCut
  <2> QED BY <2>1, <2>2
<1> QED BY <1>3, <1>4, <1>5

LEMMA PodEndsKeeps ==
  ASSUME PluginInv, NEW p \in Pods, PodEnds(p)
  PROVE  PluginInv'
<1> USE DEF PluginInv, processVars, kubeletVars, streamVars
<1>1. Nothing \in Allocation
  BY NothingTyped DEF TypeOK
<1>2. TypeOK'
  BY <1>1 DEF PodEnds, TypeOK
<1>3. StreamOfRunning' /\ ViewOfRunning'
  BY DEF PodEnds, StreamOfRunning, ViewOfRunning
<1>4. HeldAsCut'
  <2> SUFFICES ASSUME NEW q \in Pods
               PROVE  held'[q].devices \subseteq Devices(held'[q].gpu, held'[q].cores)
    BY DEF HeldAsCut
  <2>1. CASE q = p
    BY <2>1 DEF PodEnds, TypeOK, Nothing
  <2>2. CASE q # p
    <3>1. held'[q] = held[q]
      BY <2>2 DEF PodEnds, TypeOK
    <3> QED BY <3>1 DEF HeldAsCut
  <2> QED BY <2>1, <2>2
<1> QED BY <1>2, <1>3, <1>4

(* The proxy, the kubelet and the operator. *)
LEMMA SurroundingsKeep ==
  ASSUME PluginInv,
         \/ ProxyStarts \/ ProxyStops \/ KubeletStops \/ KubeletStarts
         \/ \E c \in CoresSettings : ChangeSetting(c)
  PROVE  PluginInv'
<1> USE DEF PluginInv, processVars, kubeletVars, streamVars
<1>1. CASE ProxyStarts
  <2>1. TypeOK'
    BY <1>1 DEF ProxyStarts, TypeOK
  <2> QED BY <1>1, <2>1 DEF ProxyStarts, StreamOfRunning, ViewOfRunning, HeldAsCut
<1>2. CASE ProxyStops
  <2>1. budget' \in [BudgetKinds -> Nat]
    BY <1>2, SpendTyped DEF ProxyStops, TypeOK, BudgetKinds
  <2>2. TypeOK'
    BY <1>2, <2>1 DEF ProxyStops, TypeOK
  <2> QED BY <1>2, <2>2 DEF ProxyStops, StreamOfRunning, ViewOfRunning, HeldAsCut
<1>3. CASE KubeletStops
  <2>1. budget' \in [BudgetKinds -> Nat]
    BY <1>3, SpendTyped DEF KubeletStops, TypeOK, BudgetKinds
  <2>2. TypeOK'
    BY <1>3, <2>1 DEF KubeletStops, TypeOK, NoView
  <2> QED BY <1>3, <2>2 DEF KubeletStops, StreamOfRunning, ViewOfRunning, HeldAsCut, NoView
<1>4. CASE KubeletStarts
  <2>1. TypeOK'
    BY <1>4 DEF KubeletStarts, TypeOK
  <2> QED BY <1>4, <2>1 DEF KubeletStarts, StreamOfRunning, ViewOfRunning, HeldAsCut
<1>5. CASE \E c \in CoresSettings : ChangeSetting(c)
  <2>1. PICK c \in CoresSettings : ChangeSetting(c)
    BY <1>5
  <2>2. budget' \in [BudgetKinds -> Nat]
    BY <2>1, SpendTyped DEF ChangeSetting, TypeOK, BudgetKinds
  <2>3. TypeOK'
    BY <2>1, <2>2 DEF ChangeSetting, TypeOK
  <2> QED BY <2>1, <2>3 DEF ChangeSetting, StreamOfRunning, ViewOfRunning, HeldAsCut
<1> QED BY <1>1, <1>2, <1>3, <1>4, <1>5

LEMMA NextKeeps == PluginInv /\ [Next]_vars => PluginInv'
<1> SUFFICES ASSUME PluginInv, [Next]_vars PROVE PluginInv'
  OBVIOUS
<1>1. CASE Next
  BY <1>1, StartKeeps, ExitKeeps, ListAndWatchKeeps, AllocateKeeps, PodEndsKeeps,
     SurroundingsKeep DEF Next
<1>2. CASE UNCHANGED vars
  <2>1. TypeOK'
    BY <1>2 DEF PluginInv, TypeOK, vars, processVars, kubeletVars, streamVars
  <2> QED
    BY <1>2, <2>1 DEF PluginInv, StreamOfRunning, ViewOfRunning, HeldAsCut,
                      vars, processVars, kubeletVars, streamVars
<1> QED BY <1>1, <1>2

-----------------------------------------------------------------------------
(* Whatever restarts, in whatever order, healthy devices are those of the  *)
(* running process, and a pod holds devices cut as they were offered       *)
(* (device_plugin.go, ListAndWatch and Allocate).                          *)
THEOREM PluginInvariant == Spec => []PluginInv
<1> QED BY InitInv, NextKeeps, PTL DEF Spec

(* The state of the plugin, of its loop and of the kubelet stays what the  *)
(* code declares, and healthy devices are never an empty list.             *)
THEOREM TypeCorrect == Spec => []TypeOK
<1>1. PluginInv => TypeOK
  BY DEF PluginInv
<1> QED BY <1>1, PluginInvariant, PTL

(* The devices pods hold of one chip, cut one way, lie within its devices. *)
LEMMA CutFits == PluginInv => CommittedCoresFit
<1> SUFFICES ASSUME PluginInv, NEW g \in GPUs, NEW c \in CoresSettings
             PROVE  \/ Cardinality(CutFrom(g, c)) * c <= g.cores
                    \/ Cardinality(CutFrom(g, c)) <= 1
  BY DEF CommittedCoresFit
<1> DEFINE S == TotalSlots(g, c)
           K == Cardinality(CutFrom(g, c))
<1>1. CutFrom(g, c) \subseteq Devices(g, c)
  BY DEF CutFrom, PluginInv, HeldAsCut
<1>2. K \in Nat /\ K <= S
  BY <1>1, DevicesCount, FS_Subset, FS_CardinalityType
<1>3. /\ S \in Nat \ {0}
      /\ S * c <= g.cores \/ S = 1
  BY SlotsFit
<1>4. CASE S = 1
  BY <1>2, <1>4
<1>5. CASE S * c <= g.cores
  <2>1. g.cores \in Nat /\ c \in Int
    BY GPUsTyped, CoresAssumption
  <2>2. CASE c <= 0
    <3>1. K * c <= 0
      BY <1>2, <2>1, <2>2, SMT
    <3> QED BY <3>1, <2>1, <1>2
  <2>3. CASE c > 0
    <3> HIDE DEF K, S
    <3>1. K * c <= S * c
      BY <1>2, <1>3, <2>1, <2>3, SMT
    <3>2. K * c \in Int /\ S * c \in Int
      BY <1>2, <1>3, <2>1
    <3>3. K * c <= g.cores
      BY <3>1, <3>2, <1>5, <2>1
    <3> QED BY <3>3 DEF K
  <2> QED BY <2>1, <2>2, <2>3
<1> QED BY <1>3, <1>4, <1>5

(* The slots pods hold never claim more cores than the chip they were cut  *)
(* from has, whatever restarts, is reconfigured or wrongly discovered in   *)
(* between (device_plugin.go, TotalSlots and buildDevices).                *)
THEOREM CoresFitAlways == Spec => []CommittedCoresFit
<1> QED BY CutFits, PluginInvariant, PTL

-----------------------------------------------------------------------------
(***************************************************************************)
(* Devices are never healthy without a loop that can take it back: between *)
(* the end of a process, a rollout or the end of a kubelet and the next    *)
(* registration there is nothing a pod could be given.                     *)
(***************************************************************************)
THEOREM HealthyIsWatchedAlways == Spec => []HealthyIsWatched
<1>1. PluginInv => HealthyIsWatched
  BY DEF PluginInv, StreamOfRunning, ViewOfRunning, HealthyIsWatched
<1> QED BY <1>1, PluginInvariant, PTL

-----------------------------------------------------------------------------
(* The steps of the plugin and its surroundings as DeviceHealth sees them. *)
healthState == <<proxy = "listening", Watch, view.healthy>>

(* A step that touches neither the proxy nor the stream nor the view.      *)
LEMMA Unseen ==
  ASSUME proxy' = proxy, stream' = stream, probed' = probed,
         view'.healthy = view.healthy
  PROVE  UNCHANGED healthState
BY DEF healthState, Watch

(* The loop and its kubelet lose each other, if they had found each other. *)
LEMMA BreakOrNothing ==
  ASSUME ViewOfRunning, TypeOK, proxy' = proxy, stream' = "closed", view'.healthy = FALSE
  PROVE  [Health!Next]_healthState
<1>1. Watch' = "none"
  BY DEF Watch
<1>2. CASE stream = "closed"
  BY <1>1, <1>2 DEF Watch, ViewOfRunning, TypeOK, healthState
<1>3. CASE stream # "closed"
  <2>1. Watch # "none"
    BY <1>3 DEF Watch
  <2> QED BY <1>1, <2>1 DEF Health!Next, Health!Break
<1> QED BY <1>2, <1>3

(* Only a process without a stream opens one. *)
LEMMA RegisterOpens ==
  ASSUME PluginInv, Register
  PROVE  [Health!Next]_healthState
<1>1. stream = "closed" /\ Watch = "none"
  BY DEF PluginInv, StreamOfRunning, Register, Watch
<1>2. CASE endpoint
  <2>1. Watch' = "idle"
    BY <1>2 DEF Register, Watch
  <2> QED BY <1>1, <2>1 DEF Register, Health!Next, Health!Open
<1>3. CASE ~ endpoint
  BY <1>1, <1>3, Unseen DEF Register
<1> QED BY <1>2, <1>3

(* The loop looks, tells what it saw, and waits. *)
LEMMA LoopLooksAndTells ==
  ASSUME PluginInv, ListAndWatch
  PROVE  [Health!Next]_healthState
<1> USE DEF kubeletVars, PluginInv, TypeOK
<1>1. CASE Probe
  <2>1. Watch = "idle" /\ Watch' = IF proxy = "listening" THEN "up" ELSE "down"
    BY <1>1 DEF Probe, ProxyHealthy, Watch
  <2> QED BY <1>1, <2>1 DEF Probe, Health!Next, Health!Look
<1>2. CASE Send
  <2>1. Watch = (IF probed THEN "up" ELSE "down") /\ Watch' = "idle"
    BY <1>2 DEF Send, Watch
  <2>2. view'.healthy = probed
    BY <1>2 DEF Send
  <2>3. view'.healthy = (Watch = "up")
    BY <2>1, <2>2
  <2>4. Watch \in {"up", "down"} /\ proxy' = proxy
    BY <1>2, <2>1 DEF Send
  <2> QED BY <2>1, <2>3, <2>4 DEF Health!Next, Health!Tell
<1>3. CASE Tick
  <2>1. Watch = "idle" /\ Watch' = "idle"
    BY <1>3 DEF Tick, Watch
  <2> QED BY <1>3, <2>1 DEF Tick, healthState
<1> QED BY <1>1, <1>2, <1>3 DEF ListAndWatch

LEMMA HealthStep ==
  ASSUME PluginInv, [Next]_vars
  PROVE  [Health!Next]_healthState
<1> USE DEF processVars, streamVars, kubeletVars
<1>1. CASE StartProcess \/ StartWithMock \/ Listen \/ LabelNode \/ LabelNodeFails \/ RegisterFails
  BY <1>1, Unseen
     DEF StartProcess, StartWithMock, StartWith, Listen, LabelNode, LabelNodeFails, RegisterFails
<1>2. CASE Crash \/ RollOut
  <2>1. Exit /\ ViewOfRunning /\ TypeOK
    BY <1>2 DEF Crash, RollOut, PluginInv
  <2>2. view'.healthy = FALSE
    BY <2>1 DEF Exit, TypeOK
  <2> QED BY <2>1, <2>2, BreakOrNothing DEF Exit
<1>3. CASE \E p \in Pods : PodEnds(p) \/ \E D \in SUBSET view.devices : Allocate(p, D)
  BY <1>3, Unseen DEF PodEnds, Allocate
<1>4. CASE ProxyStarts \/ ProxyStops
  <2>1. (proxy = "listening")' = ~ (proxy = "listening")
    BY <1>4 DEF ProxyStarts, ProxyStops
  <2>2. Watch' = Watch /\ view' = view
    BY <1>4 DEF ProxyStarts, ProxyStops, Watch
  <2> QED BY <2>1, <2>2 DEF Health!Next, Health!Change
<1>5. CASE KubeletStops
  BY <1>5, BreakOrNothing DEF KubeletStops, NoView, PluginInv
<1>6. CASE KubeletStarts \/ \E c \in CoresSettings : ChangeSetting(c)
  BY <1>6, Unseen DEF KubeletStarts, ChangeSetting
<1>7. CASE UNCHANGED vars
  BY <1>7, Unseen DEF vars
<1> QED
  BY <1>1, <1>2, <1>3, <1>4, <1>5, <1>6, <1>7, RegisterOpens, LoopLooksAndTells
     DEF Next, Start

(***************************************************************************)
(* The plugin implements DeviceHealth: initial states map to initial       *)
(* states, and every step of the process, its loop, the proxy, the kubelet *)
(* or the operator to a step of it or a stutter.                           *)
(***************************************************************************)
THEOREM HealthToldAlways == Spec => HealthTold
<1>1. Init => Health!Init
  BY DEF Init, Health!Init, Watch, NoView
<1>2. PluginInv /\ [Next]_vars => [Health!Next]_<<proxy = "listening", Watch, view.healthy>>
  BY HealthStep DEF healthState
<1> QED BY <1>1, <1>2, PluginInvariant, PTL DEF Spec, HealthTold, Health!Spec, Health!healthVars
=============================================================================
