---------------------------- MODULE MCIpcObjects ----------------------------
(* Instances of IpcObjects for TLC: one of the four objects exists.        *)
EXTENDS IpcObjects

CONSTANTS idle, main, a, ev, box, sender, queue, pool

MCThread == {idle, main, a}
MCPriority == (idle :> 15) @@ (main :> 8) @@ (a :> 1)
MCFlag == (ev :> "FIFO") @@ (box :> "PRIO") @@ (sender :> "PRIO") @@ (queue :> "FIFO")
          @@ (pool :> "FIFO")
MCCreated == {{ev}, {box, sender}, {queue}, {pool}}
=============================================================================
