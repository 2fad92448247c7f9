------------------------------ MODULE MCRmutex ------------------------------
(* Threads 2 and 4 share a priority, thread 3 is more urgent.              *)
EXTENDS Rmutex

MCPrio == <<2, 1, 0, 1>>
============================================================================
