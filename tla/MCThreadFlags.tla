--------------------------- MODULE MCThreadFlags ---------------------------
(* The handler 3 is as urgent as the waiter 4 and more so than the waiter  *)
(* 2.  One of the masks has THREAD_FLAG_MSG_WAITING, flag 2.               *)
EXTENDS ThreadFlags

MCPrio  == <<2, 1, 0, 0>>
MCMasks == {{1}, {1, 2}}
============================================================================
