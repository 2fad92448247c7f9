------------------------------- MODULE MCSema -------------------------------
(* Threads 2 and 4 share a priority, thread 3 is more urgent.              *)
EXTENDS Sema

MCPrio == <<2, 1, 0, 1>>

(* Two threads of different priority wait with a timeout, two of the same  *)
(* priority without; the idle thread makes no call.                        *)
MCCalls ==
  <<{}, {"block", "timed", "post"}, {"try", "timed", "post"},
    {"block", "destroy"}>>
============================================================================
