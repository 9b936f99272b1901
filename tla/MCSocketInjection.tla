-------------------------- MODULE MCSocketInjection --------------------------
(* Constants of SocketInjection for TLC. *)
EXTENDS SocketInjection

CONSTANTS p1, p2

TwoPods == {p1, p2}

OneSelfSet == {p2}

InjectionBudget == [proxy |-> 2, removal |-> 1, container |-> 1, close |-> 1]
=============================================================================
