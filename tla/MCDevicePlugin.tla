---------------------------- MODULE MCDevicePlugin ----------------------------
(* Constants of DevicePlugin for TLC. *)
EXTENDS DevicePlugin

CONSTANTS p1, p2

Base == [variant |-> "m3", cores |-> 10]

(* Of 10 cores: two slots and a rest, one and a rest, none that fits; and  *)
(* 0.  Of the 14 of the mock: three and a rest, two, none.                 *)
Settings == {0, 4, 7, 20}

TwoPods == {p1, p2}

OneAndTwo == [p \in TwoPods |-> IF p = p1 THEN 1 ELSE 2]

NodeBudget ==
  [proxy |-> 1, crash |-> 1, kubelet |-> 1, label |-> 1, setting |-> 1,
   profiler |-> 1]
=============================================================================
