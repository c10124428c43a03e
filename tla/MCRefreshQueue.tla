--------------------------- MODULE MCRefreshQueue ---------------------------
(* Process proc1 starts up to two flights, proc2 one. *)
EXTENDS RefreshQueue, TLC

CONSTANTS proc1, proc2, a1, a2, b1

MCProcOf == [f \in Flights |-> IF f = b1 THEN proc2 ELSE proc1]

\* The two flights of proc1 are interchangeable.
MCSymmetry == Permutations({a1, a2})
=============================================================================
