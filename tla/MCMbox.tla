------------------------------- MODULE MCMbox -------------------------------
(* The reader 4 is more urgent than thread 2 and shares a queue with 3.    *)
EXTENDS Mbox

MCPrio == <<2, 1, 0, 0>>
============================================================================
