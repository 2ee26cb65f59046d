---------------------------- MODULE MCLifecycle ----------------------------
(* Instances of Lifecycle for TLC.  main manages; a sleeps and is suspended *)
(* and resumed; b, c and d exit or are deleted, c and d are static threads. *)
EXTENDS Lifecycle

CONSTANTS idle, main, a, b, c, d, defunct

MCPriorityOf == (idle :> 15) @@ (main :> 8) @@ (a :> 1) @@ (b :> 8) @@ (c :> 9) @@ (d :> 10)
MCPriority == [t \in Thread |-> MCPriorityOf[t]]
=============================================================================
