--------------------------- MODULE AbstractMutex ---------------------------
(***************************************************************************)
(* What mutexes promise their users: each has one owner at a time, and a   *)
(* release hands it straight to a waiter of the highest priority (the      *)
(* smallest number) if anybody waits.                                      *)
(***************************************************************************)
EXTENDS Integers

CONSTANTS
  Threads,
  Locks,
  Priority,     \* [Threads -> Nat]
  Nobody        \* not a thread

VARIABLES owner, waiting

lockVars == <<owner, waiting>>

Init ==
  /\ owner = [m \in Locks |-> Nobody]
  /\ waiting = [m \in Locks |-> {}]

Acquire(t, m) ==
  /\ owner[m] = Nobody
  /\ owner' = [owner EXCEPT ![m] = t]
  /\ UNCHANGED waiting

Wait(t, m) ==
  /\ owner[m] \notin {Nobody, t} /\ t \notin waiting[m]
  /\ waiting' = [waiting EXCEPT ![m] = @ \cup {t}]
  /\ UNCHANGED owner

Free(t, m) ==
  /\ owner[m] = t /\ waiting[m] = {}
  /\ owner' = [owner EXCEPT ![m] = Nobody]
  /\ UNCHANGED waiting

HandOver(t, m, w) ==
  /\ owner[m] = t /\ w \in waiting[m]
  /\ \A v \in waiting[m] : Priority[w] <= Priority[v]
  /\ owner' = [owner EXCEPT ![m] = w]
  /\ waiting' = [waiting EXCEPT ![m] = @ \ {w}]

Next ==
  \E t \in Threads, m \in Locks :
    \/ Acquire(t, m) \/ Wait(t, m) \/ Free(t, m)
    \/ \E w \in Threads : HandOver(t, m, w)

Spec == Init /\ [][Next]_lockVars
============================================================================
