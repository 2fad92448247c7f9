------------------------------- MODULE MCMsg -------------------------------
(* Thread 4 serves 2 (as urgent as 4) and 3 (more urgent), and sends to    *)
(* itself; 2 has no queue and gets messages from 3.  In the second         *)
(* instance thread 2 makes a request of a PID without a thread.            *)
EXTENDS Msg

MCPrio     == <<2, 1, 0, 1>>
MCQueue    == <<0, 0, 0, 1>>
MCSends    == {<<2, 4>>, <<3, 2>>, <<4, 4>>, <<KERNEL_PID_ISR, 4>>}
MCRequests == {<<2, 4>>, <<3, 4>>}

MCSendsNobody    == {}
MCRequestsNobody == {<<2, 3>>}
============================================================================
