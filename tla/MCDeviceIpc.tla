---------------------------- MODULE MCDeviceIpc ----------------------------
(* Instances of DeviceIpc for TLC: one of the six objects exists.          *)
EXTENDS DeviceIpc

CONSTANTS idle, main, a, worker, cmp, dpop, dpush, wsem, plock, rng, blks

MCThread == {idle, main, a, worker}
MCPriority == (idle :> 15) @@ (main :> 8) @@ (a :> 1) @@ (worker :> 9)
MCFlag == [q \in {cmp, dpop, dpush, wsem, plock} |-> IF q = plock THEN "PRIO" ELSE "FIFO"]
MCCreated == {{cmp}, {dpop, dpush}, {wsem}, {plock}, {rng}, {blks}}
=============================================================================
