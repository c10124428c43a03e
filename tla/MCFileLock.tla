----------------------------- MODULE MCFileLock -----------------------------
(* Two hosts: p1 and p2 share one, p3 is on another; p1 runs two calls. *)
EXTENDS FileLock

CONSTANTS p1, p2, p3, a1, a2, b1, c1

MCProcOf == [c \in Calls |-> IF c \in {a1, a2} THEN p1 ELSE IF c = b1 THEN p2 ELSE p3]
MCHostOf == [p \in Procs |-> IF p = p3 THEN "remote" ELSE "local"]
=============================================================================
