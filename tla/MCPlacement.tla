----------------------------- MODULE MCPlacement -----------------------------
(* Constants of Placement for TLC. *)
EXTENDS Placement, TLC

CONSTANTS n1, n2

TwoNodes == {n1, n2}

Reading(thermal, util) == [thermal |-> thermal, util |-> util]

FourReadings ==
  {Reading("Nominal", 0), Reading("Fair", 50), Reading("Serious", 50),
   Reading("Critical", 0)}

(* Enough slots for the cap to matter when a node is cool and idle. *)
TwelveAndEleven == n1 :> 12 @@ n2 :> 11

(* Fine, replaced by a newer pod but still listed as failed, and evicted. *)
PodPhases == {{"Running"}, {"Running", "Failed"}, {}}
=============================================================================
