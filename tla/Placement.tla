------------------------------ MODULE Placement ------------------------------
(***************************************************************************)
(* How the condition of a Mac decides where a pod goes: the exporter of    *)
(* each node (pkg/exporter/exporter.go) copies a powermetrics sample into  *)
(* annotations of its Node object, the kube-scheduler sees the object      *)
(* later, and asks the scheduler extender (pkg/scheduler/extender.go) to   *)
(* filter and to score the nodes it holds in the snapshot of one           *)
(* scheduling cycle.                                                       *)
(*                                                                         *)
(* The extender reads the pods of the device plugin live, one list call    *)
(* per node, and everything else from the snapshot.  It does not look at   *)
(* the metal-proxy: a proxy that is down reaches the scheduler only as     *)
(* devices the node no longer offers (DevicePlugin.tla).                   *)
(***************************************************************************)
EXTENDS Integers, FiniteSets

CONSTANTS
  Nodes,
  Readings,     \* what powermetrics may find
  Slots,        \* the label apple.com/gpu-slots of each node
  PluginPods,   \* sets of phases the device plugin pods of a node may be in
  Budget        \* how many outside events happen

Thermals == {"Nominal", "Fair", "Serious", "Critical"}

ASSUME ReadingsAssumption ==
  Readings \subseteq [thermal: Thermals, util: 0 .. 100]

ASSUME SlotsAssumption == Slots \in [Nodes -> Nat \ {0}]

ASSUME PluginPodsAssumption == {"Running"} \in PluginPods

ASSUME PlacementBudgetAssumption == Budget \in Nat

VARIABLES
  machine,    \* the condition each Mac is in
  exporter,   \* the nodes where the exporter runs
  sample,     \* what its exporter has read and not yet written
  note,       \* the annotations of the Node object
  seen,       \* the same as the scheduler's informer last saw them
  pods,       \* phases of the device plugin pods on the node
  proxy,      \* whether its metal-proxy serves
  offered,    \* whether the scheduler sees healthy devices on the node
  step,       \* where the scheduling cycle is
  snap,       \* its snapshot of the annotations
  asked,      \* nodes the filter was asked about
  todo,       \* those it has yet to look at
  eligible,   \* nodes that passed
  score,
  budget      \* outside events left

exporterVars == <<exporter, sample, note>>
healthVars   == <<pods, proxy, offered>>
cycleVars    == <<step, snap, asked, todo, eligible, score>>
vars == <<machine, exporterVars, seen, healthVars, cycleVars, budget>>

-----------------------------------------------------------------------------
(* What the extender assumes of a node without annotations. *)
NoReading == [thermal |-> "none", util |-> 0]

Notes == Readings \cup {NoReading}

NoScore == [n \in Nodes |-> 0]

TypeOK ==
  /\ machine \in [Nodes -> Readings]
  /\ exporter \subseteq Nodes
  /\ sample \in [Nodes -> Notes]
  /\ note \in [Nodes -> Notes]
  /\ seen \in [Nodes -> Notes]
  /\ pods \in [Nodes -> PluginPods]
  /\ proxy \in [Nodes -> BOOLEAN]
  /\ offered \in [Nodes -> BOOLEAN]
  /\ step \in {"idle", "filter", "prioritize", "bind"}
  /\ snap \in [Nodes -> Notes]
  /\ asked \in SUBSET Nodes
  /\ todo \in SUBSET Nodes
  /\ eligible \in SUBSET Nodes
  /\ score \in [Nodes -> 0 .. 100]
  /\ budget \in Nat

Init ==
  /\ machine \in [Nodes -> {r \in Readings : r.thermal = "Nominal"}]
  /\ exporter = Nodes
  /\ sample = [n \in Nodes |-> NoReading]
  /\ note = sample
  /\ seen = note
  /\ pods = [n \in Nodes |-> {"Running"}]
  /\ proxy = [n \in Nodes |-> TRUE]
  /\ offered = proxy
  /\ step = "idle"
  /\ snap = note
  /\ asked = {}
  /\ todo = {}
  /\ eligible = {}
  /\ score = NoScore
  /\ budget = Budget

Spend ==
  /\ budget > 0
  /\ budget' = budget - 1

-----------------------------------------------------------------------------
(* The exporter of node n. *)

(* scrape takes the sample; a failed powermetrics run changes nothing. *)
Scrape(n) ==
  /\ n \in exporter
  /\ sample[n] = NoReading
  /\ sample' = [sample EXCEPT ![n] = machine[n]]
  /\ UNCHANGED <<machine, exporter, note, seen, healthVars, cycleVars, budget>>

AnnotateNodeMutant(n) ==                    \* the first sample only
  /\ sample[n] # NoReading
  /\ note' = [note EXCEPT ![n] = IF @ = NoReading THEN sample[n] ELSE @]
  /\ sample' = [sample EXCEPT ![n] = NoReading]
  /\ UNCHANGED <<machine, exporter, seen, healthVars, cycleVars, budget>>

(* annotateNode patches what scrape captured, however long ago. *)
AnnotateNode(n) ==
  /\ sample[n] # NoReading
  /\ note' = [note EXCEPT ![n] = sample[n]]
  /\ sample' = [sample EXCEPT ![n] = NoReading]
  /\ UNCHANGED <<machine, exporter, seen, healthVars, cycleVars, budget>>

(* The patch fails: the error is logged and the sample forgotten; the old  *)
(* annotations stay.                                                       *)
AnnotateFails(n) ==
  /\ sample[n] # NoReading
  /\ Spend
  /\ sample' = [sample EXCEPT ![n] = NoReading]
  /\ UNCHANGED <<machine, exporter, note, seen, healthVars, cycleVars>>

(* The exporter is switched off or dies; nobody removes the annotations. *)
ExporterStops(n) ==
  /\ n \in exporter
  /\ Spend
  /\ exporter' = exporter \ {n}
  /\ sample' = [sample EXCEPT ![n] = NoReading]
  /\ UNCHANGED <<machine, note, seen, healthVars, cycleVars>>

ExporterStarts(n) ==
  /\ n \notin exporter
  /\ exporter' = exporter \cup {n}
  /\ UNCHANGED <<machine, sample, note, seen, healthVars, cycleVars, budget>>

-----------------------------------------------------------------------------
(* filterNode. *)

(* There is a device plugin pod, and every one is Running. *)
PluginReady(n) == pods[n] = {"Running"}

PassesMutant(n) ==                          \* only Nominal nodes pass
  snap[n].thermal \in {"none", "Nominal"} /\ PluginReady(n)

Passes(n) == snap[n].thermal # "Critical" /\ PluginReady(n)

(* scoreNode.  All amounts are hundredths of a point. *)

ThermalPenalty(thermal) ==
  CASE thermal = "Fair"     -> 33
    [] thermal = "Serious"  -> 66
    [] thermal = "Critical" -> 100
    [] OTHER                -> 0

WeightedSwapMutant(r, s) ==                 \* heat counts in favour
  40 * (100 - r.util) + 40 * ThermalPenalty(r.thermal) + 200 * s

Weighted(r, s) ==
  40 * (100 - r.util) + 40 * (100 - ThermalPenalty(r.thermal)) + 200 * s

ScoresMutant(r, s) ==                       \* the cap is missing
  {Weighted(r, s) \div 100}

(* Cap and int64(weighted): the binary sum of a whole number of points may *)
(* come out just below it.                                                 *)
Scores(r, s) ==
  LET w == Weighted(r, s) IN
  IF w > 10000
    THEN {100}
    ELSE {w \div 100} \cup {k \in {w \div 100 - 1} : w % 100 = 0 /\ k >= 0}

-----------------------------------------------------------------------------
(* One scheduling cycle. *)

(* A cycle is over: its request and its answers are gone. *)
EndCycle ==
  /\ step' = "idle"
  /\ snap' = [n \in Nodes |-> NoReading]
  /\ asked' = {}
  /\ eligible' = {}
  /\ score' = NoScore

(* The scheduler (external) asks about the nodes that offer devices. *)
StartCycle ==
  /\ step = "idle"
  /\ step' = "filter"
  /\ snap' = seen
  /\ asked' = {n \in Nodes : offered[n]}
  /\ todo' = asked'
  /\ UNCHANGED <<eligible, score>>
  /\ UNCHANGED <<machine, exporterVars, seen, healthVars, budget>>

FilterNode(n) ==
  /\ step = "filter"
  /\ n \in todo
  /\ todo' = todo \ {n}
  /\ eligible' = eligible \cup {m \in {n} : Passes(m)}
  /\ UNCHANGED <<step, snap, asked, score>>
  /\ UNCHANGED <<machine, exporterVars, seen, healthVars, budget>>

(* The pods cannot be listed, or the five seconds of the request are over. *)
FilterNodeFails(n) ==
  /\ step = "filter"
  /\ n \in todo
  /\ Spend
  /\ todo' = todo \ {n}
  /\ UNCHANGED <<step, snap, asked, eligible, score>>
  /\ UNCHANGED <<machine, exporterVars, seen, healthVars>>

(* With no node left the pod stays pending. *)
FilterAnswers ==
  /\ step = "filter"
  /\ todo = {}
  /\ IF eligible = {}
       THEN EndCycle
       ELSE step' = "prioritize" /\ asked' = {} /\ UNCHANGED <<snap, eligible, score>>
  /\ UNCHANGED todo
  /\ UNCHANGED <<machine, exporterVars, seen, healthVars, budget>>

Prioritize ==
  /\ step = "prioritize"
  /\ step' = "bind"
  /\ LET may == [n \in Nodes |-> IF n \in eligible THEN Scores(snap[n], Slots[n])
                                                    ELSE {0}]
     IN  score' \in {f \in [Nodes -> UNION {may[n] : n \in Nodes}] :
                        \A n \in Nodes : f[n] \in may[n]}
  /\ UNCHANGED <<snap, asked, todo, eligible>>
  /\ UNCHANGED <<machine, exporterVars, seen, healthVars, budget>>

(* The extender does not answer.  The scheduler is told to ignore that, so *)
(* it goes on with every node it asked about (external).                   *)
ExtenderIgnored ==
  /\ step \in {"filter", "prioritize"}
  /\ Spend
  /\ step' = "bind"
  /\ asked' = {}
  /\ todo' = {}
  /\ eligible' = IF step = "filter" THEN asked ELSE eligible
  /\ UNCHANGED <<snap, score>>
  /\ UNCHANGED <<machine, exporterVars, seen, healthVars>>

(* The scheduler adds scores of its own and binds the pod to one of the    *)
(* eligible nodes, if there is any (external).                             *)
Bind ==
  /\ step = "bind"
  /\ EndCycle
  /\ UNCHANGED todo
  /\ UNCHANGED <<machine, exporterVars, seen, healthVars, budget>>

-----------------------------------------------------------------------------
(* The nodes (external). *)

MachineChanges(n, r) ==
  /\ machine[n] # r
  /\ Spend
  /\ machine' = [machine EXCEPT ![n] = r]
  /\ UNCHANGED <<exporterVars, seen, healthVars, cycleVars>>

PodsChange(n, p) ==
  /\ pods[n] # p
  /\ Spend
  /\ pods' = [pods EXCEPT ![n] = p]
  /\ UNCHANGED <<machine, exporterVars, seen, proxy, offered, cycleVars>>

ProxyChanges(n) ==
  /\ Spend
  /\ proxy' = [proxy EXCEPT ![n] = ~ @]
  /\ UNCHANGED <<machine, exporterVars, seen, pods, offered, cycleVars>>

(* Device plugin, kubelet, node status, scheduler cache. *)
OfferDevices(n) ==
  /\ offered[n] # proxy[n]
  /\ offered' = [offered EXCEPT ![n] = proxy[n]]
  /\ UNCHANGED <<machine, exporterVars, seen, pods, proxy, cycleVars, budget>>

SyncNode(n) ==
  /\ seen[n] # note[n]
  /\ seen' = [seen EXCEPT ![n] = note[n]]
  /\ UNCHANGED <<machine, exporterVars, healthVars, cycleVars, budget>>

-----------------------------------------------------------------------------
Exporter(n) == Scrape(n) \/ AnnotateNode(n)

Cycle ==
  \/ StartCycle
  \/ \E n \in Nodes : FilterNode(n)
  \/ FilterAnswers
  \/ Prioritize
  \/ Bind

Next ==
  \/ Cycle
  \/ ExtenderIgnored
  \/ \E n \in Nodes :
       \/ Exporter(n)
       \/ AnnotateFails(n)
       \/ ExporterStops(n)
       \/ ExporterStarts(n)
       \/ FilterNodeFails(n)
       \/ \E r \in Readings : MachineChanges(n, r)
       \/ \E p \in PluginPods : PodsChange(n, p)
       \/ ProxyChanges(n)
       \/ OfferDevices(n)
       \/ SyncNode(n)

Spec == Init /\ [][Next]_vars

(* The scrape loop ticks, informers deliver, and there is always another   *)
(* pod to place.                                                           *)
Fairness ==
  /\ WF_vars(Cycle)
  /\ \A n \in Nodes :
       WF_vars(Exporter(n)) /\ WF_vars(SyncNode(n)) /\ WF_vars(OfferDevices(n))

FairSpec == Spec /\ Fairness

-----------------------------------------------------------------------------
Level(thermal) ==
  CASE thermal \in {"none", "Nominal"} -> 0
    [] thermal = "Fair"                -> 1
    [] thermal = "Serious"             -> 2
    [] thermal = "Critical"            -> 3

(***************************************************************************)
(* Of two nodes the extender has scored, the cooler one wins when it is    *)
(* neither busier nor smaller, whatever the rounding, unless the cap has   *)
(* swallowed the difference (scoreNode, lines 158-206).                    *)
(***************************************************************************)
ScoresOrdered ==
  \A m, n \in eligible :
    step = "bind" /\ score # NoScore
      /\ Level(snap[m].thermal) < Level(snap[n].thermal)
      /\ snap[m].util <= snap[n].util
      /\ Slots[m] >= Slots[n]
    => score[m] > score[n] \/ score[m] = 100

(***************************************************************************)
(* No node is scored, or on its way to be, that is Critical by the very    *)
(* annotations it is scored by, whatever has been written, delivered or    *)
(* failed since the cycle began.  Only an extender that does not answer    *)
(* leaves such a node eligible (Filter and filterNode, lines 54-98).       *)
(***************************************************************************)
ScoredAreCool ==
  step \in {"filter", "prioritize"} \/ score # NoScore =>
    \A n \in eligible : snap[n].thermal # "Critical"

(***************************************************************************)
(* A node that stays critically hot while its exporter runs, or is without *)
(* a running device plugin, or without its proxy, is in the end no longer  *)
(* considered: the stale values on the way (sample, annotation, snapshot,  *)
(* offered devices) all catch up (exporter.go:184-260, extender.go:91-119). *)
(***************************************************************************)
UnfitNodeAvoided ==
  \A n \in Nodes :
    \/ <>[](machine[n].thermal = "Critical" /\ n \in exporter)
    \/ <>[](~ PluginReady(n))
    \/ <>[](~ proxy[n])
    => <>[](n \notin eligible)

(***************************************************************************)
(* A node that stays fit is considered again and again: no annotation of a *)
(* past heat and no failed call keeps it out for good (same lines), unless *)
(* its exporter is gone.  Annotations carry no time: the last one holds,   *)
(* and only a node that was not Critical then goes on serving.             *)
(***************************************************************************)
FitNodeServes ==
  \A n \in Nodes :
    <>[](/\ machine[n].thermal # "Critical" /\ PluginReady(n) /\ proxy[n]
         /\ n \in exporter \/ note[n].thermal # "Critical")
      => []<>(n \in eligible)

=============================================================================
