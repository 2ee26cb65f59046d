------------------------------ MODULE MCMutex ------------------------------
(* Instances of Mutex for TLC: low, mid and high in three priorities, the  *)
(* cast of a priority inversion; low and high alone with two mutexes.      *)
EXTENDS Mutex

CONSTANTS idle, low, mid, high, null, m1, m2

MCPriorityOf == (idle :> 15) @@ (low :> 9) @@ (mid :> 8) @@ (high :> 1)
MCPriority == [t \in Thread |-> MCPriorityOf[t]]
=============================================================================
