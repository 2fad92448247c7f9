------------------------------- MODULE Rmutex -------------------------------
(***************************************************************************)
(* core/rmutex.c: one recursive mutex on top of core/mutex.c.  Its         *)
(* functions run with interrupts enabled, so each access to the rmutex and *)
(* each call of the mutex is a step of its own; rpc[t] is the next one:    *)
(*   read      load owner after mutex_trylock() has failed                 *)
(*   lock      mutex_lock()                                                *)
(*   got       store owner                                                 *)
(*   count     increment refcount                                          *)
(*   clear     reset owner                                                 *)
(*   release   mutex_unlock()                                              *)
(* or out when t is not in rmutex.c.                                       *)
(*                                                                         *)
(* depth[t] is not in the code: how often t has locked and not unlocked.   *)
(***************************************************************************)
EXTENDS Mutex

CONSTANT MaxDepth     \* the locks a thread nests: less than 2^16

ASSUME RmutexConstants == NMutex = 1 /\ IsrMutexes = {} /\ MaxDepth \in 1..(2^16 - 1)

VARIABLES rpc, owner, refcount, depth

rVars   == <<rpc, owner, refcount, depth>>
allVars == <<vars, rVars>>

M == 1      \* rmutex->mutex

(* RMUTEX_INIT                                                             *)
RInit ==
  /\ Init
  /\ rpc = [t \in Pids |-> "out"]
  /\ owner = NULL
  /\ refcount = 0
  /\ depth = [t \in Pids |-> 0]
---------------------------------------------------------------------------
At(t, label)   == InApp(t) /\ rpc[t] = label
Then(t, label) == rpc' = [rpc EXCEPT ![t] = label]

(* _lock(): mutex_trylock()                                                *)
LockTry(t) ==
  /\ At(t, "out") /\ depth[t] < MaxDepth
  /\ \/ LockFree(t, M) /\ Then(t, "got")
     \/ locked[M] /\ Then(t, "read") /\ UNCHANGED vars
  /\ UNCHANGED <<owner, refcount, depth>>

Mut_relock_waits(t) ==
  /\ At(t, "read")
  /\ Then(t, "lock")
  /\ UNCHANGED <<vars, owner, refcount, depth>>

(* The unlocked read of owner; rmutex_trylock() gives up when it is not t. *)
ReadOwner(t) ==
  /\ At(t, "read")
  /\ \/ owner = t /\ Then(t, "got")
     \/ owner # t /\ (Then(t, "lock") \/ Then(t, "out"))
  /\ UNCHANGED <<vars, owner, refcount, depth>>

LockMutex(t) ==
  /\ At(t, "lock")
  /\ LockStep(t, M)
  /\ Then(t, "got")
  /\ UNCHANGED <<owner, refcount, depth>>

SetOwner(t) ==
  /\ At(t, "got")
  /\ owner' = t
  /\ Then(t, "count")
  /\ UNCHANGED <<vars, refcount, depth>>

Increment(t) ==
  /\ At(t, "count")
  /\ refcount' = (refcount + 1) % 2^16
  /\ depth' = [depth EXCEPT ![t] = @ + 1]
  /\ Then(t, "out")
  /\ UNCHANGED <<vars, owner>>
---------------------------------------------------------------------------
Mut_decrement_always_releases(t) ==
  /\ At(t, "out") /\ depth[t] > 0
  /\ refcount' = (refcount - 1) % 2^16
  /\ depth' = [depth EXCEPT ![t] = @ - 1]
  /\ Then(t, "clear")
  /\ UNCHANGED <<vars, owner>>

Mut_decrement_never_releases(t) ==
  /\ At(t, "out") /\ depth[t] > 0
  /\ refcount' = (refcount - 1) % 2^16
  /\ depth' = [depth EXCEPT ![t] = @ - 1]
  /\ Then(t, "out")
  /\ UNCHANGED <<vars, owner>>

(* rmutex_unlock() by a thread that has locked.                            *)
Decrement(t) ==
  /\ At(t, "out") /\ depth[t] > 0
  /\ refcount' = (refcount - 1) % 2^16
  /\ depth' = [depth EXCEPT ![t] = @ - 1]
  /\ Then(t, IF refcount' = 0 THEN "clear" ELSE "out")
  /\ UNCHANGED <<vars, owner>>

Mut_owner_not_reset(t) ==
  /\ At(t, "clear")
  /\ Then(t, "release")
  /\ UNCHANGED <<vars, owner, refcount, depth>>

ClearOwner(t) ==
  /\ At(t, "clear")
  /\ owner' = NULL
  /\ Then(t, "release")
  /\ UNCHANGED <<vars, refcount, depth>>

Release(t) ==
  /\ At(t, "release")
  /\ UnlockFree(t, M) \/ UnlockWake(t, M)
  /\ Then(t, "out")
  /\ UNCHANGED <<owner, refcount, depth>>
---------------------------------------------------------------------------
(* The rest of a call of core/mutex.c or core/thread.c                     *)
Call(t) ==
  \/ (YieldHigher(t) \/ SchedSwitch(t)) /\ UNCHANGED mutexVars
  \/ LockYield(t) \/ LockReturn(t)

(* The rest of a call of core/rmutex.c                                     *)
RStep(t) ==
  ReadOwner(t) \/ LockMutex(t) \/ SetOwner(t) \/ Increment(t) \/ ClearOwner(t) \/ Release(t)

Sleep(t)  == At(t, "out") /\ ThreadSleep(t) /\ UNCHANGED mutexVars
Wakeup(t) == IsrWakeup(t) /\ UNCHANGED mutexVars

RNext ==
  \E t \in Pids :
    \/ RStep(t) \/ LockTry(t) \/ Decrement(t)
    \/ (Call(t) \/ Sleep(t) \/ Wakeup(t)) /\ UNCHANGED rVars

RSpec == RInit /\ [][RNext]_allVars

(* As in Mutex: calls are finished whenever their thread has the CPU, and  *)
(* every thread that runs again and again ends its outermost critical      *)
(* section and, some time, sleeps.                                         *)
RFairSpec ==
  /\ RSpec
  /\ WF_allVars(\E t \in Pids : RStep(t) \/ (Call(t) /\ UNCHANGED rVars))
  /\ \A t \in Pids \ {Idle} :
       /\ SF_allVars(Sleep(t) /\ depth[t] = 0 /\ UNCHANGED rVars)
       /\ SF_allVars(Decrement(t))
       /\ SF_allVars(Decrement(t) /\ depth[t] = 1)
       /\ WF_allVars(Wakeup(t) /\ UNCHANGED rVars)
---------------------------------------------------------------------------
(* The ranges of rmutex_t, and of the underlying mutex.                    *)
RTypeOK ==
  /\ TypeOK
  /\ rpc \in [Pids -> {"out", "read", "lock", "got", "count", "clear", "release"}]
  /\ owner \in Pids \cup {NULL}
  /\ refcount \in 0..(2^16 - 1)
  /\ depth \in [Pids -> 0..MaxDepth]

(* No two threads are between an rmutex_lock() and its rmutex_unlock(), or *)
(* write to owner and refcount, at the same time: refcount++ needs no      *)
(* protection of its own.                                                  *)
MutualExclusion ==
  \A t, u \in Pids :
    LET inside(x) ==
          \/ depth[x] > 0
          \/ /\ rpc[x] \in {"got", "count", "clear", "release"}
             /\ pc[x] \notin {"mutex_yield", "mutex_woken"}
    IN  inside(t) /\ inside(u) => t = u

(* The assertions at the beginning of rmutex_unlock() hold: a thread that  *)
(* has locked finds itself the owner, and refcount is the number of its    *)
(* locks, although it shares both words with threads that read the one and *)
(* wait to write the other.                                                *)
UnlockAssertions ==
  /\ RTypeOK
  /\ \A t \in Pids :
       (depth[t] > 0 /\ rpc[t] = "out") => owner = t /\ refcount = depth[t]

(* The comment in _lock(): a thread whose unlocked read of owner finds     *)
(* another value than its own PID does not hold the mutex, so mutex_lock() *)
(* cannot wait for the caller itself.                                      *)
NoSelfDeadlock ==
  \A t \in Pids :
    /\ rpc[t] = "lock" => M \notin held[t]
    /\ rpc[t] = "read" => (owner = t <=> M \in held[t])

(* The most urgent thread comes out of an rmutex_lock() that has to wait.  *)
UrgentLockReturns ==
  \A t \in Pids :
    (\A u \in Pids \ {t} : Prio[t] < Prio[u]) => (rpc[t] = "lock" ~> depth[t] > 0)
============================================================================
