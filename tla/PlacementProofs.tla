--------------------------- MODULE PlacementProofs ---------------------------
(***************************************************************************)
(* Theorems about Placement for any nodes, any readings and any sizes.     *)
(***************************************************************************)
EXTENDS Placement, TLAPS

(* Scores exist between prioritizing and binding only. *)
UnscoredBefore == step # "bind" => score = NoScore

(* When the extender answered, a score is one it may compute from the      *)
(* snapshot of this very cycle.                                            *)
ScoredFromSnapshot ==
  score # NoScore => \A n \in eligible : score[n] \in Scores(snap[n], Slots[n])

(* What every step preserves. *)
PlacementInv ==
  /\ TypeOK
  /\ UnscoredBefore
  /\ ScoredFromSnapshot

-----------------------------------------------------------------------------
LEMMA NotesTyped ==
  ASSUME NEW r \in Notes
  PROVE  r.util \in 0 .. 100 /\ r.thermal \in Thermals \cup {"none"}
<1>1. CASE r = NoReading
  BY <1>1 DEF NoReading
<1>2. CASE r \in Readings
  BY <1>2, ReadingsAssumption
<1> QED BY <1>1, <1>2 DEF Notes

LEMMA NoReadingTyped == NoReading \in Notes
BY DEF Notes

LEMMA NoScoreTyped == NoScore \in [Nodes -> 0 .. 100]
BY DEF NoScore

LEMMA SpendTyped ==
  ASSUME budget \in Nat, Spend
  PROVE  budget' \in Nat
BY DEF Spend

(* The penalty grows with the heat. *)
LEMMA PenaltyOrdered ==
  ASSUME NEW h \in Thermals \cup {"none"}, NEW k \in Thermals \cup {"none"}
  PROVE  /\ ThermalPenalty(h) \in 0 .. 100
         /\ Level(h) < Level(k) => ThermalPenalty(h) + 33 <= ThermalPenalty(k)
BY DEF Thermals, ThermalPenalty, Level

(* The weighted sum is a natural number. *)
LEMMA WeightedTyped ==
  ASSUME NEW r \in Notes, NEW s \in Nat
  PROVE  Weighted(r, s) \in Nat
<1>1. r.util \in 0 .. 100 /\ ThermalPenalty(r.thermal) \in 0 .. 100
  BY NotesTyped, PenaltyOrdered
<1> QED BY <1>1 DEF Weighted

(* A score lies between 0 and 100. *)
LEMMA ScoresTyped ==
  ASSUME NEW r \in Notes, NEW s \in Nat
  PROVE  Scores(r, s) \subseteq 0 .. 100
<1> DEFINE w == Weighted(r, s)
<1>1. w \in Nat
  BY WeightedTyped
<1> HIDE DEF w
<1>2. w <= 10000 => w \div 100 \in 0 .. 100
  BY <1>1
<1>3. Scores(r, s) = IF w > 10000 THEN {100}
                     ELSE {w \div 100} \cup
                          {k \in {w \div 100 - 1} : w % 100 = 0 /\ k >= 0}
  BY DEF Scores, w
<1> QED BY <1>1, <1>2, <1>3

(* A cooler node that is neither busier nor smaller scores more, whatever  *)
(* the rounding, or has reached the cap.                                   *)
LEMMA CoolerScoresMore ==
  ASSUME NEW r \in Notes, NEW q \in Notes, NEW s \in Nat, NEW t \in Nat,
         Level(r.thermal) < Level(q.thermal), r.util <= q.util, s >= t,
         NEW a \in Scores(r, s), NEW b \in Scores(q, t)
  PROVE  a > b \/ a = 100
<1> DEFINE w == Weighted(r, s)
           v == Weighted(q, t)
<1>1. w \in Nat /\ v \in Nat
  BY WeightedTyped
<1>2. w >= v + 1320
  <2>1. /\ r.util \in 0 .. 100 /\ q.util \in 0 .. 100
        /\ r.thermal \in Thermals \cup {"none"}
        /\ q.thermal \in Thermals \cup {"none"}
    BY NotesTyped
  <2>2. /\ ThermalPenalty(r.thermal) \in 0 .. 100
        /\ ThermalPenalty(q.thermal) \in 0 .. 100
        /\ ThermalPenalty(r.thermal) + 33 <= ThermalPenalty(q.thermal)
    BY <2>1, PenaltyOrdered
  <2> DEFINE x == ThermalPenalty(r.thermal)
             y == ThermalPenalty(q.thermal)
             u == r.util
             z == q.util
  <2>3. /\ w = 40 * (100 - u) + 40 * (100 - x) + 200 * s
        /\ v = 40 * (100 - z) + 40 * (100 - y) + 200 * t
    BY DEF Weighted
  <2>4. /\ x \in 0 .. 100 /\ y \in 0 .. 100 /\ x + 33 <= y
        /\ u \in 0 .. 100 /\ z \in 0 .. 100 /\ u <= z
    BY <2>1, <2>2
  <2> HIDE DEF w, v, x, y, u, z
  <2> QED BY <2>3, <2>4
<1> HIDE DEF w, v
<1>3. a = 100 \/ (w <= 10000 /\ a \in Int /\ a >= w \div 100 - 1)
  BY <1>1 DEF Scores, w
<1>4. v <= 10000 => b \in Int /\ b <= v \div 100
  BY <1>1 DEF Scores, v
<1>5. w \div 100 >= v \div 100 + 13
  BY <1>1, <1>2
<1>6. v \div 100 \in Int /\ w \div 100 \in Int
  BY <1>1
<1> QED BY <1>1, <1>2, <1>3, <1>4, <1>5, <1>6

-----------------------------------------------------------------------------
LEMMA InitInv == Init => PlacementInv
<1> SUFFICES ASSUME Init PROVE PlacementInv
  OBVIOUS
<1>1. TypeOK
  BY NoReadingTyped, NoScoreTyped, PluginPodsAssumption, PlacementBudgetAssumption
     DEF Init, TypeOK
<1>2. UnscoredBefore /\ ScoredFromSnapshot
  BY DEF Init, UnscoredBefore, ScoredFromSnapshot
<1> QED BY <1>1, <1>2 DEF PlacementInv

(* Steps outside the cycle leave the rest of the invariant alone. *)
LEMMA OutsideKeeps ==
  ASSUME PlacementInv, TypeOK', UNCHANGED cycleVars
  PROVE  PlacementInv'
BY DEF PlacementInv, UnscoredBefore, ScoredFromSnapshot, cycleVars

(* The end of a cycle forgets what it worked with. *)
LEMMA EndCycleKeeps ==
  ASSUME PlacementInv, EndCycle, todo' = todo,
         UNCHANGED <<machine, exporterVars, seen, healthVars, budget>>
  PROVE  PlacementInv'
<1>1. TypeOK'
  BY NoReadingTyped, NoScoreTyped
     DEF EndCycle, PlacementInv, TypeOK, exporterVars, healthVars
<1>2. UnscoredBefore' /\ ScoredFromSnapshot'
  BY DEF EndCycle, UnscoredBefore, ScoredFromSnapshot, NoScore
<1> QED BY <1>1, <1>2 DEF PlacementInv

LEMMA PrioritizeKeeps ==
  ASSUME PlacementInv, Prioritize
  PROVE  PlacementInv'
<1> DEFINE may == [n \in Nodes |-> IF n \in eligible
                                     THEN Scores(snap[n], Slots[n]) ELSE {0}]
<1>1. /\ step' = "bind"
      /\ DOMAIN score' = Nodes
      /\ score' = [n \in Nodes |-> score'[n]]
      /\ \A n \in Nodes : score'[n] \in may[n]
  BY DEF Prioritize
<1>2. \A n \in Nodes : may[n] \subseteq 0 .. 100
  BY ScoresTyped, SlotsAssumption DEF PlacementInv, TypeOK
<1>3. score' \in [Nodes -> 0 .. 100]
  BY <1>1, <1>2
<1>4. TypeOK'
  BY <1>1, <1>3 DEF Prioritize, PlacementInv, TypeOK, exporterVars, healthVars
<1>5. ScoredFromSnapshot'
  BY <1>1 DEF Prioritize, PlacementInv, TypeOK, ScoredFromSnapshot
<1> QED BY <1>1, <1>4, <1>5 DEF PlacementInv, UnscoredBefore

LEMMA CycleKeeps ==
  ASSUME PlacementInv, Cycle \/ ExtenderIgnored
  PROVE  PlacementInv'
<1> USE DEF PlacementInv, exporterVars, healthVars
<1>1. CASE StartCycle
  <2>1. TypeOK'
    BY <1>1 DEF StartCycle, TypeOK
  <2> QED BY <1>1, <2>1 DEF StartCycle, UnscoredBefore, ScoredFromSnapshot, NoScore
<1>2. CASE \E n \in Nodes : FilterNode(n)
  <2>1. PICK n \in Nodes : FilterNode(n)
    BY <1>2
  <2>2. TypeOK'
    BY <2>1 DEF FilterNode, TypeOK
  <2> QED BY <2>1, <2>2 DEF FilterNode, UnscoredBefore, ScoredFromSnapshot, NoScore
<1>3. CASE FilterAnswers
  <2>1. CASE eligible = {}
    BY <1>3, <2>1, EndCycleKeeps DEF FilterAnswers
  <2>2. CASE eligible # {}
    <3>1. TypeOK'
      BY <1>3, <2>2 DEF FilterAnswers, TypeOK
    <3> QED
      BY <1>3, <2>2, <3>1 DEF FilterAnswers, UnscoredBefore, ScoredFromSnapshot, NoScore
  <2> QED BY <2>1, <2>2
<1>4. CASE Prioritize
  BY <1>4, PrioritizeKeeps
<1>5. CASE Bind
  BY <1>5, EndCycleKeeps DEF Bind
<1>6. CASE ExtenderIgnored
  <2>1. budget' \in Nat
    BY <1>6, SpendTyped DEF ExtenderIgnored, TypeOK
  <2>2. TypeOK'
    BY <1>6, <2>1 DEF ExtenderIgnored, TypeOK
  <2> QED
    BY <1>6, <2>2 DEF ExtenderIgnored, UnscoredBefore, ScoredFromSnapshot, NoScore
<1> QED BY <1>1, <1>2, <1>3, <1>4, <1>5, <1>6 DEF Cycle

(* The exporter of a node, its annotations and their way to the scheduler. *)
LEMMA NoteKeeps ==
  ASSUME PlacementInv, NEW n \in Nodes,
         \/ Exporter(n) \/ AnnotateFails(n) \/ ExporterStops(n)
         \/ ExporterStarts(n) \/ SyncNode(n)
  PROVE  PlacementInv'
<1> USE DEF PlacementInv, exporterVars, healthVars, cycleVars
<1>0. NoReading \in Notes /\ Readings \subseteq Notes
  BY DEF Notes
<1>1. CASE Scrape(n)
  <2>1. TypeOK'
    BY <1>1, <1>0 DEF Scrape, TypeOK
  <2> QED BY <1>1, <2>1, OutsideKeeps DEF Scrape
<1>2. CASE AnnotateNode(n)
  <2>1. TypeOK'
    BY <1>2, <1>0 DEF AnnotateNode, TypeOK
  <2> QED BY <1>2, <2>1, OutsideKeeps DEF AnnotateNode
<1>3. CASE AnnotateFails(n)
  <2>1. budget' \in Nat
    BY <1>3, SpendTyped DEF AnnotateFails, TypeOK
  <2>2. TypeOK'
    BY <1>3, <1>0, <2>1 DEF AnnotateFails, TypeOK
  <2> QED BY <1>3, <2>2, OutsideKeeps DEF AnnotateFails
<1>4. CASE ExporterStops(n)
  <2>1. budget' \in Nat
    BY <1>4, SpendTyped DEF ExporterStops, TypeOK
  <2>2. TypeOK'
    BY <1>4, <1>0, <2>1 DEF ExporterStops, TypeOK
  <2> QED BY <1>4, <2>2, OutsideKeeps DEF ExporterStops
<1>5. CASE ExporterStarts(n)
  <2>1. TypeOK'
    BY <1>5 DEF ExporterStarts, TypeOK
  <2> QED BY <1>5, <2>1, OutsideKeeps DEF ExporterStarts
<1>6. CASE SyncNode(n)
  <2>1. TypeOK'
    BY <1>6 DEF SyncNode, TypeOK
  <2> QED BY <1>6, <2>1, OutsideKeeps DEF SyncNode
<1> QED BY <1>1, <1>2, <1>3, <1>4, <1>5, <1>6 DEF Exporter

(* The machine, the pods, the proxy and the devices of a node, and a list  *)
(* call for it that fails.                                                 *)
LEMMA NodeKeeps ==
  ASSUME PlacementInv, NEW n \in Nodes,
         \/ FilterNodeFails(n)
         \/ \E r \in Readings : MachineChanges(n, r)
         \/ \E p \in PluginPods : PodsChange(n, p)
         \/ ProxyChanges(n)
         \/ OfferDevices(n)
  PROVE  PlacementInv'
<1> USE DEF PlacementInv, exporterVars, healthVars, cycleVars
<1>1. CASE FilterNodeFails(n)
  <2>1. TypeOK'
    BY <1>1, SpendTyped DEF FilterNodeFails, TypeOK
  <2> QED BY <1>1, <2>1 DEF FilterNodeFails, UnscoredBefore, ScoredFromSnapshot
<1>2. CASE \E r \in Readings : MachineChanges(n, r)
  <2>1. PICK r \in Readings : MachineChanges(n, r)
    BY <1>2
  <2>2. budget' \in Nat
    BY <2>1, SpendTyped DEF MachineChanges, TypeOK
  <2>3. TypeOK'
    BY <2>1, <2>2 DEF MachineChanges, TypeOK
  <2> QED BY <2>1, <2>3, OutsideKeeps DEF MachineChanges
<1>3. CASE \E p \in PluginPods : PodsChange(n, p)
  <2>1. PICK p \in PluginPods : PodsChange(n, p)
    BY <1>3
  <2>2. budget' \in Nat
    BY <2>1, SpendTyped DEF PodsChange, TypeOK
  <2>3. TypeOK'
    BY <2>1, <2>2 DEF PodsChange, TypeOK
  <2> QED BY <2>1, <2>3, OutsideKeeps DEF PodsChange
<1>4. CASE ProxyChanges(n)
  <2>1. budget' \in Nat
    BY <1>4, SpendTyped DEF ProxyChanges, TypeOK
  <2>2. TypeOK'
    BY <1>4, <2>1 DEF ProxyChanges, TypeOK
  <2> QED BY <1>4, <2>2, OutsideKeeps DEF ProxyChanges
<1>5. CASE OfferDevices(n)
  <2>1. TypeOK'
    BY <1>5 DEF OfferDevices, TypeOK
  <2> QED BY <1>5, <2>1, OutsideKeeps DEF OfferDevices
<1> QED BY <1>1, <1>2, <1>3, <1>4, <1>5

LEMMA NextKeeps == PlacementInv /\ [Next]_vars => PlacementInv'
<1> SUFFICES ASSUME PlacementInv, [Next]_vars PROVE PlacementInv'
  OBVIOUS
<1>1. CASE Next
  BY <1>1, CycleKeeps, NoteKeeps, NodeKeeps DEF Next
<1>2. CASE UNCHANGED vars
  <2>1. TypeOK'
    BY <1>2 DEF PlacementInv, TypeOK, vars, exporterVars, healthVars, cycleVars
  <2> QED BY <1>2, <2>1, OutsideKeeps DEF vars, cycleVars
<1> QED BY <1>1, <1>2

-----------------------------------------------------------------------------
(* A score a cycle holds was computed from the annotations the same cycle  *)
(* filtered by, never from those of an earlier one (extender.go, Filter    *)
(* and Prioritize of one request).                                         *)
THEOREM PlacementInvariant == Spec => []PlacementInv
<1> QED BY InitInv, NextKeeps, PTL DEF Spec

(* Annotations, snapshots and scores stay in their ranges: no sum of       *)
(* scoreNode leaves 0 to 100, whatever the load, the heat and the size.    *)
THEOREM TypeCorrect == Spec => []TypeOK
<1>1. PlacementInv => TypeOK
  BY DEF PlacementInv
<1> QED BY <1>1, PlacementInvariant, PTL

(* Of two scored nodes the cooler one that is neither busier nor smaller   *)
(* wins, for every load and every number of slots, unless it has reached   *)
(* the cap (extender.go, scoreNode).                                       *)
THEOREM ScoresOrderedAlways == Spec => []ScoresOrdered
<1>1. PlacementInv => ScoresOrdered
  <2> SUFFICES ASSUME PlacementInv, NEW m \in eligible, NEW n \in eligible,
                      step = "bind", score # NoScore,
                      Level(snap[m].thermal) < Level(snap[n].thermal),
                      snap[m].util <= snap[n].util, Slots[m] >= Slots[n]
               PROVE  score[m] > score[n] \/ score[m] = 100
    BY DEF ScoresOrdered
  <2>1. /\ m \in Nodes /\ n \in Nodes
        /\ snap[m] \in Notes /\ snap[n] \in Notes
    BY DEF PlacementInv, TypeOK
  <2>2. Slots[m] \in Nat /\ Slots[n] \in Nat
    BY <2>1, SlotsAssumption
  <2>3. /\ score[m] \in Scores(snap[m], Slots[m])
        /\ score[n] \in Scores(snap[n], Slots[n])
    BY DEF PlacementInv, ScoredFromSnapshot
  <2> QED BY <2>1, <2>2, <2>3, CoolerScoresMore
<1> QED BY <1>1, PlacementInvariant, PTL

-----------------------------------------------------------------------------
(* Nothing is eligible between two cycles. *)
NoneBetween == step = "idle" => eligible = {}

(***************************************************************************)
(* No node is scored that is Critical by the annotations it is scored by:  *)
(* the filter looked at the same snapshot, whatever has changed since.     *)
(***************************************************************************)
THEOREM ScoredAreCoolAlways == Spec => []ScoredAreCool
<1> DEFINE Cool == NoneBetween /\ ScoredAreCool
<1>1. Init => Cool
  BY DEF Init, NoneBetween, ScoredAreCool
<1>2. PlacementInv /\ Cool /\ [Next]_vars => Cool'
  <2> SUFFICES ASSUME PlacementInv, Cool, [Next]_vars PROVE Cool'
    OBVIOUS
  <2> USE DEF NoneBetween, ScoredAreCool
  <2>0. UnscoredBefore /\ NoScore \in [Nodes -> 0 .. 100]
    BY NoScoreTyped DEF PlacementInv
  <2>1. ASSUME EndCycle
        PROVE  Cool'
    BY <2>1 DEF EndCycle, NoScore
  <2>2. ASSUME UNCHANGED cycleVars
        PROVE  Cool'
    BY <2>2 DEF cycleVars
  <2>3. CASE StartCycle
    BY <2>0, <2>3 DEF StartCycle, UnscoredBefore, NoScore
  <2>4. ASSUME NEW n \in Nodes, FilterNode(n) \/ FilterNodeFails(n)
        PROVE  Cool'
    BY <2>4 DEF FilterNode, FilterNodeFails, Passes
  <2>5. CASE FilterAnswers
    BY <2>1, <2>5 DEF FilterAnswers
  <2>6. CASE Prioritize
    BY <2>6 DEF Prioritize
  <2>7. CASE ExtenderIgnored
    <3>1. score' = NoScore /\ NoScore' = NoScore /\ step' = "bind"
      BY <2>0, <2>7 DEF ExtenderIgnored, UnscoredBefore, NoScore
    <3> QED BY <3>1
  <2>8. CASE Bind
    BY <2>1, <2>8 DEF Bind
  <2>9. ASSUME NEW n \in Nodes,
               \/ Exporter(n) \/ AnnotateFails(n) \/ ExporterStops(n)
               \/ ExporterStarts(n) \/ SyncNode(n)
               \/ \E r \in Readings : MachineChanges(n, r)
               \/ \E p \in PluginPods : PodsChange(n, p)
               \/ ProxyChanges(n) \/ OfferDevices(n)
        PROVE  UNCHANGED cycleVars
    BY <2>9 DEF Exporter, Scrape, AnnotateNode, AnnotateFails, ExporterStops,
                ExporterStarts, SyncNode, MachineChanges, PodsChange, ProxyChanges,
                OfferDevices
  <2>10. CASE UNCHANGED vars
    BY <2>2, <2>10 DEF vars
  <2> QED BY <2>2, <2>3, <2>4, <2>5, <2>6, <2>7, <2>8, <2>9, <2>10 DEF Next, Cycle
<1>3. Cool => ScoredAreCool
  OBVIOUS
<1> QED BY <1>1, <1>2, <1>3, PlacementInvariant, PTL DEF Spec
=============================================================================
