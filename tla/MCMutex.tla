------------------------------ MODULE MCMutex ------------------------------
(* The idle thread, main and two more, of equal and different priorities.  *)
EXTENDS Mutex

MCPrio == <<2, 1, 0, 1>>
============================================================================
