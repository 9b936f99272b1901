---------------------------- MODULE MCMetalQueues ----------------------------
(* Constants of MetalQueues for TLC. *)
EXTENDS MetalQueues

OneOfEach == [crash |-> 1, late |-> 1, nil |-> 1]

Undisturbed == [crash |-> 0, late |-> 0, nil |-> 0]

None == {}
=============================================================================
