---------------------------- MODULE MCSemaphore ----------------------------
(* Instances of Semaphore for TLC: priorities in two bitmap groups, two    *)
(* threads of equal priority.                                              *)
EXTENDS Semaphore

CONSTANTS idle, main, a, b, s1

MCThread == {idle, main, a, b}
MCPriority == (idle :> 15) @@ (main :> 8) @@ (a :> 8) @@ (b :> 1)
=============================================================================
