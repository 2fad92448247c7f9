---------------------------- MODULE MutexProofs ----------------------------
(***************************************************************************)
(* What Mutex.cfg checks of core/mutex.c for four threads, for any number  *)
(* of threads, priorities and mutexes.                                     *)
(***************************************************************************)
EXTENDS Mutex, CpuProofs

Unqueued == {"yield_higher", "mutex_yield"}
AtEase   == {"app", "mutex_woken"}

InLockWindows == {"mutex_yield", "mutex_woken"}

IsBlocked(t) == k.status[t] = "MUTEX_BLOCKED"

(* The scheduler's part of the invariant.                                  *)
CoreInv ==
  /\ CpuInv(MutexWindows, Unqueued, AtEase)
  /\ ~k.request
  /\ k.threads = Pids /\ k.priority = Prio

(* The lists: who is in them, in which order, and that those who are there *)
(* are blocked in mutex_lock().                                            *)
ListInv ==
  /\ locked \in [Mutexes -> BOOLEAN]
  /\ queue \in [Mutexes -> Seq(Pids)]
  /\ \A m \in Mutexes : ~locked[m] => queue[m] = <<>>
  /\ \A m \in Mutexes : IsInjective(queue[m]) /\ Sorted(Prio, queue[m])
  /\ \A t \in Pids : IsBlocked(t) <=> \E m \in Mutexes : t \in Waiters(m)
  /\ \A t \in Pids, m \in Mutexes : t \in Waiters(m) => InLock(t, m)
  /\ \A t \in Pids : pc[t] \in InLockWindows => arg[t] \in Mutexes

(* Who owns what.                                                          *)
OwnerInv ==
  /\ held \in [Pids -> SUBSET OwnedMutexes]
  /\ \A m \in OwnedMutexes : ~locked[m] => Owners(m) = {}
  /\ \A m \in OwnedMutexes : locked[m] => \E t \in Pids : Owners(m) = {t}

(* The inductive invariant.                                                *)
MutexInv == CoreInv /\ ListInv /\ OwnerInv

(* The effects of a step on the mutex m, seen by its users.                *)
Kept(m) ==
  /\ locked'[m] = locked[m] /\ Owners(m)' = Owners(m) /\ Waiters(m)' = Waiters(m)

Acquired(t, m) ==
  /\ ~locked[m] /\ locked'[m]
  /\ Owners(m)' = {t} /\ Waiters(m)' = Waiters(m)

Queued(t, m) ==
  /\ locked[m] /\ locked'[m]
  /\ t \notin Owners(m) /\ t \notin Waiters(m)
  /\ Owners(m)' = Owners(m) /\ Waiters(m)' = Waiters(m) \cup {t}

Freed(t, m) ==
  /\ locked[m] /\ ~locked'[m] /\ Waiters(m) = {}
  /\ Owners(m) = {t} /\ Owners(m)' = {} /\ Waiters(m)' = {}

Handed(t, m, w) ==
  /\ locked[m] /\ locked'[m]
  /\ Owners(m) = {t} /\ Owners(m)' = {w}
  /\ w \in Waiters(m) /\ Waiters(m)' = Waiters(m) \ {w}
  /\ \A v \in Waiters(m) : Prio[w] <= Prio[v]

(* Only m may change.                                                      *)
OthersKept(m) == \A n \in OwnedMutexes \ {m} : Kept(n)

AllKept == \A m \in OwnedMutexes : Kept(m)
---------------------------------------------------------------------------
(* The windows of this module are a sensible choice.                       *)
LEMMA MutexSets ==
  /\ WindowsOK(MutexWindows, Unqueued, AtEase)
  /\ OwnedMutexes \subseteq Mutexes /\ Mutexes \subseteq Nat
  /\ "MUTEX_BLOCKED" \in Blocked /\ "SLEEPING" \in Blocked
  /\ "PENDING" \in OnRunqueue
<1>1. WindowsOK(MutexWindows, Unqueued, AtEase)
  BY Zenon DEF WindowsOK, MutexWindows, Unqueued, AtEase
<1>2. OwnedMutexes \subseteq Mutexes /\ Mutexes \subseteq Nat
  BY MutexConstants DEF OwnedMutexes, Mutexes
<1> QED
  BY <1>1, <1>2, Zenon DEF Blocked, OnRunqueue

(* A thread in application code is at the head of a run queue, so it waits *)
(* for no mutex.                                                           *)
LEMMA ActiveIsNoWaiter ==
  ASSUME MutexInv, NEW t \in Pids, k.active = t, pc[t] \notin Unqueued
  PROVE  /\ Runnable(k, t) /\ ~IsBlocked(t)
         /\ \A m \in Mutexes : t \notin Waiters(m)
<1>1. KInv(k) /\ IsHead(k, t)
  BY CpuConstants, Zenon DEF MutexInv, CoreInv, CpuInv, CpuTypeOK, KInv, HeadOutside
<1>2. Runnable(k, t)
  BY <1>1, HeadRunnable, Zenon
<1>3. ~IsBlocked(t)
  BY <1>2, Zenon DEF Runnable, OnRunqueue, IsBlocked
<1> QED
  BY <1>2, <1>3, Zenon DEF MutexInv, ListInv

(* Where GoTo() leaves the threads with regard to mutex_lock().            *)
LEMMA GoToLocks ==
  ASSUME MutexInv, NEW t \in Pids, NEW k2, NEW label, NEW a, GoTo(t, k2, label, a)
  PROVE  /\ pc'[t] = label /\ arg'[t] = a
         /\ \A u \in Pids : u # t => pc'[u] = pc[u] /\ arg'[u] = arg[u]
         /\ \A u \in Pids, m \in Mutexes : u # t => InLock(u, m)' = InLock(u, m)
         /\ label \notin InLockWindows => \A m \in Mutexes : ~InLock(t, m)'
<1>1. pc \in [Pids -> MutexWindows] /\ arg \in [Pids -> Nat]
  BY Zenon DEF MutexInv, CoreInv, CpuInv, CpuTypeOK
<1>2. pc' = [pc EXCEPT ![t] = label] /\ arg' = [arg EXCEPT ![t] = a]
  BY Zenon DEF GoTo
<1>3. /\ pc'[t] = label /\ arg'[t] = a
      /\ \A u \in Pids : u # t => pc'[u] = pc[u] /\ arg'[u] = arg[u]
  BY <1>1, <1>2, Zenon
<1> QED
  BY <1>3, Zenon DEF InLock, InLockWindows

(* A step that touches neither the mutexes nor who is in mutex_lock().     *)
LEMMA Frame ==
  ASSUME MutexInv, CoreInv', UNCHANGED mutexVars,
         \A u \in Pids : IsBlocked(u)' <=> IsBlocked(u),
         \A u \in Pids, m \in Mutexes : InLock(u, m)' = InLock(u, m),
         \A u \in Pids : pc'[u] \in InLockWindows => arg'[u] \in Mutexes
  PROVE  MutexInv' /\ AllKept
<1>1. locked' = locked /\ queue' = queue /\ held' = held
  BY Zenon DEF mutexVars
<1>2. \A m \in Mutexes : Waiters(m)' = Waiters(m) /\ Owners(m)' = Owners(m)
  BY <1>1, Zenon DEF Waiters, Owners
<1>3. ListInv'
  <2>1. \A t \in Pids : IsBlocked(t)' <=> \E m \in Mutexes : t \in Waiters(m)'
    BY <1>2 DEF MutexInv, ListInv
  <2>2. \A t \in Pids, m \in Mutexes : t \in Waiters(m)' => InLock(t, m)'
    BY <1>2 DEF MutexInv, ListInv
  <2> QED
    BY <1>1, <2>1, <2>2, Zenon DEF MutexInv, ListInv
<1>4. OwnerInv' /\ AllKept
  BY <1>1, <1>2, MutexSets, Zenon DEF MutexInv, OwnerInv, AllKept, Kept
<1> QED
  BY <1>3, <1>4, Zenon DEF MutexInv

(* The two thirds of the invariant that are about the owners follow from   *)
(* the effect on the one mutex a step is about.                            *)
LEMMA OwnersFollow ==
  ASSUME MutexInv, held' \in [Pids -> SUBSET OwnedMutexes], NEW m \in Mutexes,
         OthersKept(m),
         m \in OwnedMutexes =>
           \/ Kept(m)
           \/ \E t \in Pids : Acquired(t, m) \/ Queued(t, m) \/ Freed(t, m)
           \/ \E t, w \in Pids : Handed(t, m, w)
  PROVE  OwnerInv'
<1> SUFFICES ASSUME NEW n \in OwnedMutexes
             PROVE  /\ ~locked'[n] => Owners(n)' = {}
                    /\ locked'[n] => \E t \in Pids : Owners(n)' = {t}
  BY Zenon DEF OwnerInv
<1>1. /\ ~locked[n] => Owners(n) = {}
      /\ locked[n] => \E t \in Pids : Owners(n) = {t}
  BY Zenon DEF MutexInv, OwnerInv
<1>2. CASE Kept(n)
  BY <1>1, <1>2, Zenon DEF Kept
<1>3. CASE n = m /\ ~Kept(m)
  BY <1>1, <1>3, Zenon DEF Acquired, Queued, Freed, Handed
<1> QED
  BY <1>2, <1>3, Zenon DEF OthersKept
---------------------------------------------------------------------------
(* A call of another function leaves everybody where it was with regard to *)
(* mutex_lock().                                                           *)
LEMMA OutsideLock ==
  ASSUME MutexInv, NEW t \in Pids, NEW k2, NEW label, NEW a, GoTo(t, k2, label, a),
         pc[t] \notin InLockWindows, label \notin InLockWindows
  PROVE  /\ \A u \in Pids, m \in Mutexes : InLock(u, m)' = InLock(u, m)
         /\ \A u \in Pids : pc'[u] \in InLockWindows => arg'[u] \in Mutexes
<1>1. /\ pc'[t] = label
      /\ \A u \in Pids : u # t => pc'[u] = pc[u] /\ arg'[u] = arg[u]
      /\ \A u \in Pids, m \in Mutexes : u # t => InLock(u, m)' = InLock(u, m)
      /\ \A m \in Mutexes : ~InLock(t, m)'
  BY GoToLocks, Zenon
<1>2. \A m \in Mutexes : ~InLock(t, m)
  BY Zenon DEF InLock, InLockWindows
<1>3. \A u \in Pids : pc[u] \in InLockWindows => arg[u] \in Mutexes
  BY Zenon DEF MutexInv, ListInv
<1>4. \A u \in Pids, m \in Mutexes : InLock(u, m) \in BOOLEAN /\ InLock(u, m)' \in BOOLEAN
  BY Zenon DEF InLock
<1> QED
  BY <1>1, <1>2, <1>3, <1>4, Zenon

(* The steps of other calls.                                               *)
LEMMA CpuStepKeeps ==
  ASSUME MutexInv, CpuStep
  PROVE  MutexInv' /\ AllKept
<1> DEFINE ws == MutexWindows
<1>1. CpuInv(ws, Unqueued, AtEase) /\ ~k.request /\ k.threads = Pids /\ k.priority = Prio
  BY Zenon DEF MutexInv, CoreInv
<1>2. UNCHANGED mutexVars
  BY Zenon DEF CpuStep
<1>3. "app" \notin InLockWindows /\ "yield_higher" \notin InLockWindows
      /\ "switch" \notin InLockWindows /\ "wakeup" \notin InLockWindows
      /\ "yield_higher" \in ws \cap Unqueued /\ "wakeup" \in ws
  BY Zenon DEF InLockWindows, MutexWindows, Unqueued
<1>4. k.status \in [Pids -> Status]
  BY <1>1, Zenon DEF CpuInv, CpuTypeOK, Kernel
<1>5. ASSUME CpuInv(ws, Unqueued, AtEase)', SameThreads, NoNewRequest
      PROVE  CoreInv'
  BY <1>1, <1>5, Zenon DEF CoreInv, SameThreads, NoNewRequest
<1>6. ASSUME SameBlocked(k.status, k'.status)
      PROVE  \A u \in Pids : IsBlocked(u)' <=> IsBlocked(u)
  BY <1>6, MutexSets, Zenon DEF SameBlocked, IsBlocked
<1>7. ASSUME NEW t \in Pids, NEW label, NEW k2, NEW a, GoTo(t, k2, label, a),
             label \notin InLockWindows, pc[t] \notin InLockWindows,
             CoreInv', \A u \in Pids : IsBlocked(u)' <=> IsBlocked(u)
      PROVE  MutexInv' /\ AllKept
  <2>1. /\ \A u \in Pids, m \in Mutexes : InLock(u, m)' = InLock(u, m)
        /\ \A u \in Pids : pc'[u] \in InLockWindows => arg'[u] \in Mutexes
    BY <1>7, OutsideLock, Zenon
  <2> QED
    BY <1>2, <1>7, <2>1, Frame, Zenon
<1> SUFFICES ASSUME NEW t \in Pids,
                    \/ YieldHigher(t) \/ SchedSwitch(t) \/ WakeupSwitch(t)
                    \/ ThreadSleep(t)
                    \/ \E p \in Pids : ThreadWakeup(t, p)
                    \/ IsrWakeup(t)
             PROVE  MutexInv' /\ AllKept
  BY Zenon DEF CpuStep
<1>8. CASE YieldHigher(t)
  <2>1. /\ CpuInv(ws, Unqueued, AtEase)' /\ SameThreads /\ NoNewRequest
        /\ SameBlocked(k.status, k'.status)
    BY <1>1, <1>8, MutexSets, YieldHigherStep, Zenon
  <2>2. GoTo(t, sched_run(k), "app", 0) /\ pc[t] \notin InLockWindows
    BY <1>3, <1>8, Zenon DEF YieldHigher
  <2> QED
    BY <1>3, <1>5, <1>6, <1>7, <2>1, <2>2, Zenon
<1>9. CASE SchedSwitch(t)
  <2>1. /\ CpuInv(ws, Unqueued, AtEase)' /\ SameThreads /\ NoNewRequest
        /\ SameBlocked(k.status, k'.status)
    BY <1>1, <1>9, MutexSets, SchedSwitchStep, Zenon
  <2>2. GoTo(t, sched_switch(k, arg[t]), "app", 0) /\ pc[t] \notin InLockWindows
    BY <1>3, <1>9, Zenon DEF SchedSwitch
  <2> QED
    BY <1>3, <1>5, <1>6, <1>7, <2>1, <2>2, Zenon
<1>10. CASE WakeupSwitch(t)
  <2>1. /\ CpuInv(ws, Unqueued, AtEase)' /\ SameThreads /\ NoNewRequest
        /\ SameBlocked(k.status, k'.status)
    BY <1>1, <1>10, MutexSets, WakeupSwitchStep, Zenon
  <2>2. GoTo(t, sched_switch(k, k.priority[arg[t]]), "app", 0) /\ pc[t] \notin InLockWindows
    BY <1>3, <1>10, Zenon DEF WakeupSwitch
  <2> QED
    BY <1>3, <1>5, <1>6, <1>7, <2>1, <2>2, Zenon
<1>11. CASE ThreadSleep(t)
  <2>1. /\ CpuInv(ws, Unqueued, AtEase)' /\ SameThreads /\ k'.request = k.request
        /\ k'.status = [k.status EXCEPT ![t] = "SLEEPING"]
    BY <1>1, <1>3, <1>11, MutexSets, SleepStep, Zenon
  <2>2. /\ GoTo(t, sched_set_status(k, t, "SLEEPING"), "yield_higher", 0)
        /\ pc[t] \notin InLockWindows /\ k.active = t /\ pc[t] = "app"
    BY <1>3, <1>11, Zenon DEF ThreadSleep, InApp
  <2>3. ~IsBlocked(t)
    BY <2>2, ActiveIsNoWaiter, Zenon DEF Unqueued
  <2>4. \A u \in Pids : IsBlocked(u)' <=> IsBlocked(u)
    BY <1>4, <2>1, <2>3, Zenon DEF IsBlocked
  <2>5. NoNewRequest
    BY <2>1, Zenon DEF NoNewRequest
  <2>6. CoreInv'
    BY <1>5, <2>1, <2>5, Zenon
  <2> QED
    BY <1>3, <1>7, <2>2, <2>4, <2>6, Zenon
<1>12. ASSUME NEW p \in Pids, ThreadWakeup(t, p) PROVE MutexInv' /\ AllKept
  <2>1. /\ CpuInv(ws, Unqueued, AtEase)' /\ SameThreads /\ k'.request = k.request
        /\ k'.status = [k.status EXCEPT ![p] = "RUNNING"] /\ k.status[p] = "SLEEPING"
    BY <1>1, <1>3, <1>12, MutexSets, WakeupStep, Zenon
  <2>2. /\ GoTo(t, sched_set_status(k, p, "RUNNING"), "wakeup", p)
        /\ pc[t] \notin InLockWindows
    BY <1>3, <1>12, Zenon DEF ThreadWakeup, InApp
  <2>3. \A u \in Pids : IsBlocked(u)' <=> IsBlocked(u)
    BY <1>4, <2>1, Zenon DEF IsBlocked
  <2>4. NoNewRequest
    BY <2>1, Zenon DEF NoNewRequest
  <2>5. CoreInv'
    BY <1>5, <2>1, <2>4, Zenon
  <2> QED
    BY <1>3, <1>7, <2>2, <2>3, <2>5, Zenon
<1>13. CASE IsrWakeup(t)
  <2>1. /\ CpuInv(ws, Unqueued, AtEase)' /\ SameThreads /\ NoNewRequest
        /\ SameBlocked([k.status EXCEPT ![t] = "RUNNING"], k'.status)
        /\ k.status[t] = "SLEEPING"
    BY <1>1, <1>13, MutexSets, IsrWakeupStep, Zenon
  <2>2. \A u \in Pids : [k.status EXCEPT ![t] = "RUNNING"][u] = "MUTEX_BLOCKED"
                          <=> k.status[u] = "MUTEX_BLOCKED"
    BY <1>4, <2>1, Zenon
  <2>3. \A u \in Pids : IsBlocked(u)' <=> IsBlocked(u)
    BY <2>1, <2>2, MutexSets, Zenon DEF SameBlocked, IsBlocked
  <2>4. CoreInv'
    BY <1>5, <2>1, Zenon
  <2>5. pc' = pc /\ arg' = arg
    BY <1>13, Zenon DEF IsrWakeup
  <2>6. /\ \A u \in Pids, m \in Mutexes : InLock(u, m)' = InLock(u, m)
        /\ \A u \in Pids : pc'[u] \in InLockWindows => arg'[u] \in Mutexes
    BY <2>5, Zenon DEF InLock, MutexInv, ListInv
  <2> QED
    BY <1>2, <2>3, <2>4, <2>6, Frame, Zenon
<1> QED
  BY <1>8, <1>9, <1>10, <1>11, <1>12, <1>13, Zenon
---------------------------------------------------------------------------
(* The yield in mutex_lock().                                              *)
LEMMA LockYieldKeeps ==
  ASSUME MutexInv, NEW t \in Pids, LockYield(t)
  PROVE  MutexInv' /\ AllKept
<1> DEFINE ws == MutexWindows
<1>1. /\ CpuInv(ws, Unqueued, AtEase) /\ ~k.request /\ k.threads = Pids /\ k.priority = Prio
      /\ pc[t] = "mutex_yield" /\ k.active = t /\ UNCHANGED mutexVars
      /\ GoTo(t, sched_run(k), "mutex_woken", arg[t])
  BY Zenon DEF MutexInv, CoreInv, LockYield
<1>2. arg[t] \in Mutexes /\ arg[t] \in Nat /\ t # Idle
      /\ "mutex_woken" \in ws \ {"switch", "wakeup"}
  <2>1. arg[t] \in Mutexes /\ pc[Idle] = "app"
    BY <1>1, Zenon DEF MutexInv, ListInv, CpuInv, InLockWindows
  <2> QED
    BY <1>1, <2>1, MutexSets, Zenon DEF MutexWindows
<1>3. /\ CpuInv(ws, Unqueued, AtEase)' /\ SameThreads /\ ~k'.request
      /\ SameBlocked(k.status, k'.status)
  BY <1>1, <1>2, MutexSets, RunStep, Zenon
<1>4. CoreInv'
  BY <1>1, <1>3, Zenon DEF CoreInv, SameThreads
<1>5. \A u \in Pids : IsBlocked(u)' <=> IsBlocked(u)
  BY <1>3, MutexSets, Zenon DEF SameBlocked, IsBlocked
<1>6. /\ pc'[t] = "mutex_woken" /\ arg'[t] = arg[t]
      /\ \A u \in Pids : u # t => pc'[u] = pc[u] /\ arg'[u] = arg[u]
      /\ \A u \in Pids, m \in Mutexes : u # t => InLock(u, m)' = InLock(u, m)
  BY <1>1, GoToLocks
<1>7. \A m \in Mutexes : InLock(t, m)' = InLock(t, m)
  BY <1>1, <1>6, Zenon DEF InLock
<1>8. \A u \in Pids, m \in Mutexes : InLock(u, m)' = InLock(u, m)
  BY <1>6, <1>7, Zenon
<1>9. \A u \in Pids : pc'[u] \in InLockWindows => arg'[u] \in Mutexes
  BY <1>2, <1>6, Zenon DEF MutexInv, ListInv
<1> QED
  BY <1>1, <1>4, <1>5, <1>8, <1>9, Frame, Zenon

(* mutex_lock() of a free mutex, mutex_trylock().                          *)
LEMMA LockFreeKeeps ==
  ASSUME MutexInv, NEW t \in Pids, NEW m \in Mutexes, LockFree(t, m)
  PROVE  /\ MutexInv' /\ OthersKept(m)
         /\ m \in OwnedMutexes => Acquired(t, m)
<1>1. /\ ~locked[m] /\ locked' = [locked EXCEPT ![m] = TRUE] /\ queue' = queue
      /\ held' = [held EXCEPT ![t] = IF m \in IsrMutexes THEN @ ELSE @ \cup {m}]
      /\ UNCHANGED cpuVars
  BY Zenon DEF LockFree, Take
<1>2. k' = k /\ pc' = pc /\ arg' = arg /\ null_store' = null_store
  BY <1>1, Zenon DEF cpuVars
<1>3. /\ locked \in [Mutexes -> BOOLEAN] /\ queue \in [Mutexes -> Seq(Pids)]
      /\ held \in [Pids -> SUBSET OwnedMutexes]
      /\ queue[m] = <<>> /\ (m \in OwnedMutexes => Owners(m) = {})
  BY <1>1, Zenon DEF MutexInv, ListInv, OwnerInv
<1>4. \A n \in Mutexes : locked'[n] = (IF n = m THEN TRUE ELSE locked[n])
  BY <1>1, <1>3, Zenon
<1>5. CoreInv'
  BY <1>2, Zenon DEF MutexInv, CoreInv, CpuInv, CpuTypeOK, HeadOutside, Settled
<1>6. \A u \in Pids, n \in Mutexes : Waiters(n)' = Waiters(n) /\ InLock(u, n)' = InLock(u, n)
  BY <1>1, <1>2, Zenon DEF Waiters, InLock
<1>7. ListInv'
  <2>1. locked' \in [Mutexes -> BOOLEAN]
    BY <1>1, <1>3, Zenon
  <2>2. \A u \in Pids : IsBlocked(u)' <=> \E n \in Mutexes : u \in Waiters(n)'
    BY <1>2, <1>6 DEF MutexInv, ListInv, IsBlocked
  <2>3. \A u \in Pids, n \in Mutexes : u \in Waiters(n)' => InLock(u, n)'
    BY <1>6 DEF MutexInv, ListInv
  <2>4. \A n \in Mutexes : ~locked'[n] => queue'[n] = <<>>
    BY <1>1, <1>4, Zenon DEF MutexInv, ListInv
  <2> QED
    BY <1>1, <1>2, <2>1, <2>2, <2>3, <2>4, Zenon DEF MutexInv, ListInv
<1>8. \A u \in Pids : \A n \in OwnedMutexes : n \in held'[u] <=> n \in held[u] \/ (n = m /\ u = t)
  <2>1. m \in OwnedMutexes => m \notin IsrMutexes
    BY Zenon DEF OwnedMutexes
  <2>2. \A n \in OwnedMutexes : n \notin IsrMutexes
    BY Zenon DEF OwnedMutexes
  <2> QED
    BY <1>1, <1>3, <2>1, <2>2, Zenon
<1>9. \A n \in OwnedMutexes : Owners(n)' = Owners(n) \cup (IF n = m THEN {t} ELSE {})
  <2> SUFFICES ASSUME NEW n \in OwnedMutexes, NEW u \in Pids
               PROVE  u \in Owners(n)' <=> u \in Owners(n) \/ (n = m /\ u = t)
    BY Zenon DEF Owners
  <2>1. Waiters(n)' = Waiters(n) /\ InLock(u, n)' = InLock(u, n)
    BY <1>6, MutexSets, Zenon
  <2> QED
    BY <1>8, <2>1, Zenon DEF Owners
<1>10. OthersKept(m)
  BY <1>4, <1>6, <1>9, MutexSets, Zenon DEF OthersKept, Kept
<1>11. m \in OwnedMutexes => Acquired(t, m)
  BY <1>1, <1>3, <1>4, <1>6, <1>9, Zenon DEF Acquired
<1>12. held' \in [Pids -> SUBSET OwnedMutexes]
  BY <1>1, <1>3, Zenon DEF OwnedMutexes
<1>13. OwnerInv'
  BY <1>10, <1>11, <1>12, OwnersFollow, Zenon
<1> QED
  BY <1>5, <1>7, <1>10, <1>11, <1>13, Zenon DEF MutexInv

(* "We have the mutex now."                                                *)
LEMMA LockReturnKeeps ==
  ASSUME MutexInv, NEW t \in Pids, LockReturn(t)
  PROVE  MutexInv' /\ AllKept
<1> DEFINE ws == MutexWindows
           m == arg[t]
<1>1. /\ CpuInv(ws, Unqueued, AtEase) /\ ~k.request /\ k.threads = Pids /\ k.priority = Prio
      /\ pc[t] = "mutex_woken" /\ k.active = t /\ locked' = locked /\ queue' = queue
      /\ GoTo(t, k, "app", 0)
      /\ held' = [held EXCEPT ![t] = IF m \in IsrMutexes THEN @ ELSE @ \cup {m}]
  BY Zenon DEF MutexInv, CoreInv, LockReturn, Take
<1>2. /\ m \in Mutexes /\ pc[t] \in AtEase /\ pc[t] \notin Unqueued
      /\ "app" \in ws \ {"switch", "wakeup"} /\ "app" \notin InLockWindows
  BY <1>1, Zenon DEF MutexInv, ListInv, InLockWindows, AtEase, Unqueued, MutexWindows
<1>3. CpuInv(ws, Unqueued, AtEase)' /\ k' = k
  BY <1>1, <1>2, MutexSets, RestStep, Zenon
<1>4. CoreInv'
  BY <1>1, <1>3, Zenon DEF CoreInv
<1>5. \A n \in Mutexes : t \notin Waiters(n)
  BY <1>1, <1>2, ActiveIsNoWaiter, Zenon
<1>6. /\ pc'[t] = "app"
      /\ \A u \in Pids : u # t => pc'[u] = pc[u] /\ arg'[u] = arg[u]
      /\ \A u \in Pids, n \in Mutexes : u # t => InLock(u, n)' = InLock(u, n)
      /\ \A n \in Mutexes : ~InLock(t, n)'
  BY <1>1, <1>2, GoToLocks
<1>7. \A n \in Mutexes : Waiters(n)' = Waiters(n)
  BY <1>1, Zenon DEF Waiters
<1>8. ListInv'
  <2>1. \A u \in Pids : IsBlocked(u)' <=> \E n \in Mutexes : u \in Waiters(n)'
    BY <1>3, <1>7, Zenon DEF MutexInv, ListInv, IsBlocked
  <2>2. \A u \in Pids, n \in Mutexes : u \in Waiters(n)' => InLock(u, n)'
    BY <1>5, <1>6, <1>7, SMTT(30) DEF MutexInv, ListInv
  <2>3. \A u \in Pids : pc'[u] \in InLockWindows => arg'[u] \in Mutexes
    BY <1>2, <1>6, Zenon DEF MutexInv, ListInv
  <2> QED
    BY <1>1, <2>1, <2>2, <2>3, Zenon DEF MutexInv, ListInv
<1>9. held \in [Pids -> SUBSET OwnedMutexes]
  BY Zenon DEF MutexInv, OwnerInv
<1>10. \A u \in Pids : \A n \in OwnedMutexes : n \in held'[u] <=> n \in held[u] \/ (n = m /\ u = t)
  <2>1. \A n \in OwnedMutexes : n \notin IsrMutexes
    BY Zenon DEF OwnedMutexes
  <2> HIDE DEF m
  <2> QED
    BY <1>1, <1>9, <2>1, Zenon
<1>11. \A n \in OwnedMutexes : Owners(n)' = Owners(n)
  <2> SUFFICES ASSUME NEW n \in OwnedMutexes, NEW u \in Pids
               PROVE  u \in Owners(n)' <=> u \in Owners(n)
    BY Zenon DEF Owners
  <2>1. Waiters(n)' = Waiters(n) /\ n \in Mutexes
    BY <1>7, MutexSets, Zenon
  <2>2. CASE u # t
    <3>1. InLock(u, n)' = InLock(u, n) /\ (n \in held'[u] <=> n \in held[u])
      BY <1>6, <1>10, <2>1, <2>2, Zenon
    <3> QED
      BY <2>1, <3>1, Zenon DEF Owners
  <2>3. CASE u = t
    <3>1. InLock(t, n) <=> n = m
      BY <1>1, Zenon DEF InLock
    <3>2. ~InLock(t, n)' /\ t \notin Waiters(n)
      BY <1>5, <1>6, <2>1, Zenon
    <3> HIDE DEF m
    <3> QED
      BY <1>10, <2>3, <3>1, <3>2, Zenon DEF Owners
  <2> QED
    BY <2>2, <2>3, Zenon
<1>12. AllKept
  BY <1>1, <1>7, <1>11, MutexSets, Zenon DEF AllKept, Kept
<1>13. held' \in [Pids -> SUBSET OwnedMutexes]
  BY <1>1, <1>2, <1>9 DEF OwnedMutexes
<1>14. OwnerInv'
  BY <1>2, <1>12, <1>13, OwnersFollow, Zenon DEF AllKept, OthersKept
<1> QED
  BY <1>4, <1>8, <1>12, <1>14, Zenon DEF MutexInv
---------------------------------------------------------------------------
(* mutex_lock() of a locked mutex: the caller joins the list.              *)
LEMMA LockBlockKeeps ==
  ASSUME MutexInv, NEW t \in Pids, NEW m \in Mutexes, LockBlock(t, m)
  PROVE  /\ MutexInv' /\ OthersKept(m)
         /\ m \in OwnedMutexes => Queued(t, m)
<1> DEFINE ws == MutexWindows
           r  == thread_add_to_list(Prio, queue[m], t)
<1>1. /\ CpuInv(ws, Unqueued, AtEase) /\ ~k.request /\ k.threads = Pids /\ k.priority = Prio
      /\ InApp(t) /\ MayLock(t, m) /\ locked[m] /\ locked' = locked /\ held' = held
      /\ GoTo(t, sched_set_status(k, t, "MUTEX_BLOCKED"), "mutex_yield", m)
      /\ queue' = [queue EXCEPT ![m] = r]
  BY Zenon DEF MutexInv, CoreInv, LockBlock
<1>2. "mutex_yield" \in ws \cap Unqueued /\ m \in Nat /\ "MUTEX_BLOCKED" \in Blocked
  BY MutexSets, Zenon DEF MutexWindows, Unqueued
<1>3. /\ CpuInv(ws, Unqueued, AtEase)' /\ SameThreads /\ k'.request = k.request
      /\ k'.status = [k.status EXCEPT ![t] = "MUTEX_BLOCKED"]
  BY <1>1, <1>2, MutexSets, BlockStep
<1>4. CoreInv'
  BY <1>1, <1>3, Zenon DEF CoreInv, SameThreads
<1>5. \A u \in Pids : IsBlocked(u)' <=> IsBlocked(u) \/ u = t
  <2>1. k.status \in [Pids -> Status]
    BY <1>1, Zenon DEF CpuInv, CpuTypeOK, Kernel
  <2> QED
    BY <1>3, <2>1, Zenon DEF IsBlocked
<1>6. k.active = t /\ pc[t] = "app" /\ \A n \in Mutexes : t \notin Waiters(n) /\ ~InLock(t, n)
  BY <1>1, ActiveIsNoWaiter, Zenon DEF InApp, Unqueued, InLock
<1>7. /\ pc'[t] = "mutex_yield" /\ arg'[t] = m
      /\ \A u \in Pids : u # t => pc'[u] = pc[u] /\ arg'[u] = arg[u]
      /\ \A u \in Pids, n \in Mutexes : u # t => InLock(u, n)' = InLock(u, n)
  BY <1>1, GoToLocks
<1>8. \A n \in Mutexes : InLock(t, n)' <=> n = m
  BY <1>7, Zenon DEF InLock
<1>9. /\ queue \in [Mutexes -> Seq(Pids)] /\ locked \in [Mutexes -> BOOLEAN]
      /\ IsInjective(queue[m]) /\ Sorted(Prio, queue[m]) /\ queue[m] \in Seq(Pids)
      /\ Prio \in [Pids -> Prios]
  BY MutexConstants, Zenon DEF MutexInv, ListInv
<1>10. /\ r \in Seq(Pids) /\ Range(r) = Range(queue[m]) \cup {t}
       /\ IsInjective(r) /\ Sorted(Prio, r)
  <2>1. PICK p \in 1..(Len(queue[m]) + 1) :
          /\ InsertedAt(queue[m], r, t, p)
          /\ \A i \in 1..Len(queue[m]) : i < p => Prio[queue[m][i]] <= Prio[t]
          /\ p <= Len(queue[m]) => Prio[queue[m][p]] > Prio[t]
    BY <1>9, AddToList, Zenon
  <2> HIDE DEF r
  <2>2. r \in Seq(Pids)
    BY <2>1, Zenon DEF InsertedAt
  <2>3. t \notin Range(queue[m])
    BY <1>6, Zenon DEF Waiters
  <2>4. Range(r) = Range(queue[m]) \cup {t} /\ IsInjective(r)
    BY <1>9, <2>1, <2>3, InsertMembers, Zenon
  <2>5. Sorted(Prio, r)
    BY <1>9, <2>1, InsertSorted, Zenon
  <2> QED
    BY <2>2, <2>4, <2>5, Zenon
<1> HIDE DEF r
<1>11. /\ queue'[m] = r /\ queue' \in [Mutexes -> Seq(Pids)]
       /\ \A n \in Mutexes : n # m => queue'[n] = queue[n]
  BY <1>1, <1>9, <1>10, Zenon
<1>12. /\ Waiters(m)' = Waiters(m) \cup {t}
       /\ \A n \in Mutexes : n # m => Waiters(n)' = Waiters(n)
  BY <1>10, <1>11, Zenon DEF Waiters
<1>13. ListInv'
  <2>1. \A u \in Pids : IsBlocked(u)' <=> \E n \in Mutexes : u \in Waiters(n)'
    BY <1>5, <1>12, Zenon DEF MutexInv, ListInv
  <2>2. \A u \in Pids, n \in Mutexes : u \in Waiters(n)' => InLock(u, n)'
    BY <1>6, <1>7, <1>8, <1>12, SMTT(30) DEF MutexInv, ListInv
  <2>3. \A u \in Pids : pc'[u] \in InLockWindows => arg'[u] \in Mutexes
    BY <1>7, Zenon DEF MutexInv, ListInv
  <2>4. \A n \in Mutexes : IsInjective(queue'[n]) /\ Sorted(Prio, queue'[n])
    BY <1>10, <1>11, Zenon DEF MutexInv, ListInv
  <2>5. \A n \in Mutexes : ~locked'[n] => queue'[n] = <<>>
    BY <1>1, <1>11, Zenon DEF MutexInv, ListInv
  <2> QED
    BY <1>1, <1>9, <1>11, <2>1, <2>2, <2>3, <2>4, <2>5 DEF ListInv
<1>14. \A n \in OwnedMutexes : Owners(n)' = Owners(n)
  <2> SUFFICES ASSUME NEW n \in OwnedMutexes, NEW u \in Pids
               PROVE  u \in Owners(n)' <=> u \in Owners(n)
    BY Zenon DEF Owners
  <2>1. n \in Mutexes /\ held'[u] = held[u]
    BY <1>1, MutexSets, Zenon
  <2>2. CASE u # t
    <3>1. InLock(u, n)' = InLock(u, n) /\ (u \in Waiters(n)' <=> u \in Waiters(n))
      BY <1>7, <1>12, <2>1, <2>2, Zenon
    <3> QED
      BY <2>1, <3>1, Zenon DEF Owners
  <2>3. CASE u = t
    <3>1. InLock(t, n)' => t \in Waiters(n)'
      BY <1>8, <1>12, <2>1, Zenon
    <3>2. ~InLock(t, n)
      BY <1>6, <2>1, Zenon
    <3> QED
      BY <2>1, <2>3, <3>1, <3>2, Zenon DEF Owners
  <2> QED
    BY <2>2, <2>3, Zenon
<1>15. OthersKept(m)
  BY <1>1, <1>12, <1>14, MutexSets, Zenon DEF OthersKept, Kept
<1>16. m \in OwnedMutexes => Queued(t, m)
  <2> SUFFICES ASSUME m \in OwnedMutexes PROVE Queued(t, m)
    BY Zenon
  <2>1. m \notin held[t]
    BY <1>1, Zenon DEF MayLock, OwnedMutexes
  <2>2. t \notin Owners(m)
    BY <1>6, <2>1, Zenon DEF Owners
  <2> QED
    BY <1>1, <1>6, <1>12, <1>14, <2>2, Zenon DEF Queued
<1>17. OwnerInv'
  <2>1. held' \in [Pids -> SUBSET OwnedMutexes]
    BY <1>1, Zenon DEF MutexInv, OwnerInv
  <2> QED
    BY <1>15, <1>16, <2>1, OwnersFollow, Zenon
<1> QED
  BY <1>4, <1>13, <1>15, <1>16, <1>17, Zenon DEF MutexInv
---------------------------------------------------------------------------
(* An unlock without waiters.                                              *)
LEMMA FreeList ==
  ASSUME MutexInv, NEW m \in Mutexes, queue[m] = <<>>, CoreInv',
         locked' = [locked EXCEPT ![m] = FALSE], queue' = queue,
         \A u \in Pids : IsBlocked(u)' <=> IsBlocked(u),
         \A u \in Pids, n \in Mutexes : InLock(u, n)' = InLock(u, n),
         \A u \in Pids : pc'[u] \in InLockWindows => arg'[u] \in Mutexes
  PROVE  /\ ListInv' /\ ~locked'[m] /\ Waiters(m) = {}
         /\ \A n \in Mutexes : Waiters(n)' = Waiters(n)
         /\ \A n \in Mutexes : n # m => locked'[n] = locked[n]
<1>1. \A n \in Mutexes : Waiters(n)' = Waiters(n)
  BY Zenon DEF Waiters
<1>2. locked \in [Mutexes -> BOOLEAN]
  BY Zenon DEF MutexInv, ListInv
<1>3. /\ locked' \in [Mutexes -> BOOLEAN] /\ ~locked'[m]
      /\ \A n \in Mutexes : n # m => locked'[n] = locked[n]
  BY <1>2, Zenon
<1>4. \A n \in Mutexes : ~locked'[n] => queue'[n] = <<>>
  BY <1>3, Zenon DEF MutexInv, ListInv
<1>5. \A u \in Pids : IsBlocked(u)' <=> \E n \in Mutexes : u \in Waiters(n)'
  BY <1>1 DEF MutexInv, ListInv
<1>6. \A u \in Pids, n \in Mutexes : u \in Waiters(n)' => InLock(u, n)'
  BY <1>1 DEF MutexInv, ListInv
<1>7. ListInv'
  BY <1>3, <1>4, <1>5, <1>6, Zenon DEF MutexInv, ListInv
<1>8. Waiters(m) = {}
  <2>1. DOMAIN <<>> = {}
    OBVIOUS
  <2> QED
    BY <2>1, Zenon DEF Waiters, Range
<1> QED
  BY <1>1, <1>3, <1>7, <1>8, Zenon

(* An unlock that takes the first waiter off the list and wakes it.        *)
LEMMA PopList ==
  ASSUME MutexInv, NEW m \in Mutexes, queue[m] # <<>>, CoreInv', PopWaiter(m),
         \A u \in Pids : IsBlocked(u)' <=> IsBlocked(u) /\ u # Head(queue[m]),
         \A u \in Pids, n \in Mutexes : InLock(u, n)' = InLock(u, n),
         \A u \in Pids : pc'[u] \in InLockWindows => arg'[u] \in Mutexes
  PROVE  LET w == Head(queue[m])
         IN  /\ ListInv' /\ locked' = locked /\ locked[m]
             /\ w \in Waiters(m) /\ Waiters(m)' = Waiters(m) \ {w}
             /\ \A n \in Mutexes : n # m => Waiters(n)' = Waiters(n)
             /\ \A v \in Waiters(m) : Prio[w] <= Prio[v]
<1> DEFINE w == Head(queue[m])
           r == Tail(queue[m])
<1>1. /\ queue' = [queue EXCEPT ![m] = r] /\ locked' = locked
      /\ queue \in [Mutexes -> Seq(Pids)] /\ locked \in [Mutexes -> BOOLEAN]
      /\ queue[m] \in Seq(Pids) /\ IsInjective(queue[m]) /\ Sorted(Prio, queue[m])
      /\ locked[m] /\ Prio \in [Pids -> Prios]
  BY MutexConstants, Zenon DEF PopWaiter, MutexInv, ListInv
<1>2. /\ r \in Seq(Pids) /\ w \in Range(queue[m])
      /\ Range(r) = Range(queue[m]) \ {w} /\ IsInjective(r)
  BY <1>1, PopMembers, Zenon DEF clist_lpop
<1>3. Sorted(Prio, r) /\ \A v \in Range(queue[m]) : Prio[w] <= Prio[v]
  BY <1>1, PopSorted, Zenon
<1>4. w \in Pids
  BY <1>1
<1>5. \A u \in Pids : IsBlocked(u)' <=> IsBlocked(u) /\ u # w
  BY Zenon
<1> HIDE DEF r, w
<1>6. /\ queue'[m] = r /\ queue' \in [Mutexes -> Seq(Pids)]
      /\ \A n \in Mutexes : n # m => queue'[n] = queue[n]
  BY <1>1, <1>2, Zenon
<1>7. /\ w \in Waiters(m) /\ Waiters(m)' = Waiters(m) \ {w}
      /\ \A n \in Mutexes : n # m => Waiters(n)' = Waiters(n)
  BY <1>2, <1>6, Zenon DEF Waiters
<1>8. \A n \in Mutexes : n # m => w \notin Waiters(n)
  BY <1>4, <1>7 DEF MutexInv, ListInv, InLock
<1>9. ListInv'
  <2>1. \A u \in Pids : IsBlocked(u)' <=> \E n \in Mutexes : u \in Waiters(n)'
    <3> SUFFICES ASSUME NEW u \in Pids
                 PROVE  IsBlocked(u)' <=> \E n \in Mutexes : u \in Waiters(n)'
      BY Zenon
    <3>1. IsBlocked(u) <=> \E n \in Mutexes : u \in Waiters(n)
      BY Zenon DEF MutexInv, ListInv
    <3>2. CASE u = w
      BY <1>5, <1>7, <1>8, <3>2, Zenon
    <3>3. CASE u # w
      <4>1. \A n \in Mutexes : u \in Waiters(n)' <=> u \in Waiters(n)
        BY <1>7, <3>3, Zenon
      <4> QED
        BY <1>5, <3>1, <3>3, <4>1, Zenon
    <3> QED
      BY <3>2, <3>3, Zenon
  <2>2. \A u \in Pids, n \in Mutexes : u \in Waiters(n)' => InLock(u, n)'
    BY <1>7, SMTT(30) DEF MutexInv, ListInv
  <2>3. \A n \in Mutexes : IsInjective(queue'[n]) /\ Sorted(Prio, queue'[n])
    BY <1>2, <1>3, <1>6, Zenon DEF MutexInv, ListInv
  <2>4. \A n \in Mutexes : ~locked'[n] => queue'[n] = <<>>
    BY <1>1, <1>6, Zenon DEF MutexInv, ListInv
  <2> QED
    BY <1>1, <1>6, <2>1, <2>2, <2>3, <2>4, Zenon DEF ListInv
<1>10. \A v \in Waiters(m) : Prio[w] <= Prio[v]
  BY <1>3, Zenon DEF Waiters
<1> QED
  BY <1>1, <1>7, <1>9, <1>10, Zenon DEF w

(* What the owner of m finds when it unlocks: it is the only one.          *)
LEMMA HolderIsOwner ==
  ASSUME MutexInv, NEW t \in Pids, NEW m \in Mutexes, InApp(t), MayUnlock(t, m)
  PROVE  /\ m \in OwnedMutexes /\ locked[m] /\ Owners(m) = {t}
         /\ \A n \in Mutexes : ~InLock(t, n) /\ t \notin Waiters(n)
         /\ ~IsBlocked(t)
<1>1. m \in OwnedMutexes /\ t \in Owners(m)
  BY Zenon DEF MutexInv, OwnerInv, MayUnlock, Owners
<1>2. locked[m] /\ Owners(m) = {t}
  BY <1>1, Zenon DEF MutexInv, OwnerInv
<1>3. ~IsBlocked(t) /\ \A n \in Mutexes : ~InLock(t, n) /\ t \notin Waiters(n)
  BY ActiveIsNoWaiter, Zenon DEF InApp, Unqueued, InLock
<1> QED
  BY <1>1, <1>2, <1>3, Zenon

(* What becomes of the owners when t drops m.                              *)
LEMMA DropOwners ==
  ASSUME MutexInv, NEW t \in Pids, NEW m \in Mutexes, InApp(t), MayUnlock(t, m),
         held' = Drop(t, m),
         \A u \in Pids, n \in Mutexes : InLock(u, n)' = InLock(u, n),
         NEW gone, Waiters(m)' = Waiters(m) \ gone, gone \subseteq Waiters(m),
         \A n \in Mutexes : n # m => Waiters(n)' = Waiters(n)
  PROVE  /\ Owners(m)' = gone
         /\ \A n \in OwnedMutexes : n # m => Owners(n)' = Owners(n)
         /\ held' \in [Pids -> SUBSET OwnedMutexes]
<1>1. /\ m \in OwnedMutexes /\ Owners(m) = {t}
      /\ \A n \in Mutexes : ~InLock(t, n) /\ t \notin Waiters(n)
  BY HolderIsOwner, Zenon
<1>2. held \in [Pids -> SUBSET OwnedMutexes] /\ held' = [held EXCEPT ![t] = @ \ {m}]
  BY Zenon DEF MutexInv, OwnerInv, Drop
<1>3. /\ held' \in [Pids -> SUBSET OwnedMutexes]
      /\ \A u \in Pids : u # t => held'[u] = held[u]
      /\ held'[t] = held[t] \ {m}
  BY <1>2, Zenon
<1>4. gone \subseteq Pids
  <2>1. queue[m] \in Seq(Pids)
    BY Zenon DEF MutexInv, ListInv
  <2>2. Waiters(m) \subseteq Pids
    BY <2>1, SMTT(30) DEF Waiters, Range
  <2> QED
    BY <2>2, Zenon
<1>5. ASSUME NEW u \in Pids PROVE u \in Owners(m)' <=> u \in gone
  <2>1. u \in Waiters(m) => InLock(u, m)
    BY Zenon DEF MutexInv, ListInv
  <2>2. CASE u = t
    BY <1>1, <1>3, <2>2, Zenon DEF Owners
  <2>3. CASE u # t
    <3>1. m \notin held[u] /\ ~(InLock(u, m) /\ u \notin Waiters(m))
      BY <1>1, <2>3, Zenon DEF Owners
    <3>2. m \notin held'[u]
      BY <1>3, <2>3, <3>1, Zenon
    <3> QED
      BY <2>1, <3>1, <3>2, Zenon DEF Owners
  <2> QED
    BY <2>2, <2>3, Zenon
<1>6. Owners(m)' = gone
  <2>1. Owners(m)' \subseteq Pids
    BY Zenon DEF Owners
  <2> QED
    BY <1>4, <1>5, <2>1, Zenon
<1>7. ASSUME NEW n \in OwnedMutexes, n # m PROVE Owners(n)' = Owners(n)
  <2>1. n \in Mutexes
    BY MutexSets, Zenon
  <2>2. \A u \in Pids : n \in held'[u] <=> n \in held[u]
    BY <1>3, <1>7, Zenon
  <2>3. Waiters(n)' = Waiters(n) /\ \A u \in Pids : InLock(u, n)' = InLock(u, n)
    BY <1>7, <2>1, Zenon
  <2> QED
    BY <2>2, <2>3, Zenon DEF Owners
<1> QED
  BY <1>3, <1>6, <1>7, Zenon
---------------------------------------------------------------------------
(* An owner that unlocks without waiters frees the mutex ...               *)
LEMMA DropFrees ==
  ASSUME MutexInv, NEW t \in Pids, NEW m \in Mutexes, InApp(t), MayUnlock(t, m),
         queue[m] = <<>>, CoreInv', held' = Drop(t, m),
         locked' = [locked EXCEPT ![m] = FALSE], queue' = queue,
         \A u \in Pids : IsBlocked(u)' <=> IsBlocked(u),
         \A u \in Pids, n \in Mutexes : InLock(u, n)' = InLock(u, n),
         \A u \in Pids : pc'[u] \in InLockWindows => arg'[u] \in Mutexes
  PROVE  MutexInv' /\ OthersKept(m) /\ Freed(t, m)
<1>1. /\ ListInv' /\ ~locked'[m] /\ Waiters(m) = {}
      /\ \A n \in Mutexes : Waiters(n)' = Waiters(n)
      /\ \A n \in Mutexes : n # m => locked'[n] = locked[n]
  BY FreeList, Zenon
<1>2. Waiters(m)' = Waiters(m) \ {} /\ {} \subseteq Waiters(m)
  BY <1>1, Zenon
<1>3. /\ Owners(m)' = {} /\ held' \in [Pids -> SUBSET OwnedMutexes]
      /\ \A n \in OwnedMutexes : n # m => Owners(n)' = Owners(n)
  BY <1>1, <1>2, DropOwners, Zenon
<1>4. locked[m] /\ Owners(m) = {t}
  BY HolderIsOwner, Zenon
<1>5. Freed(t, m) /\ OthersKept(m)
  BY <1>1, <1>3, <1>4, MutexSets, Zenon DEF Freed, OthersKept, Kept
<1>6. OwnerInv'
  BY <1>3, <1>5, OwnersFollow, Zenon
<1> QED
  BY <1>1, <1>5, <1>6, Zenon DEF MutexInv

(* ... and hands it to the first waiter if there is one.                   *)
LEMMA DropHandsOver ==
  ASSUME MutexInv, NEW t \in Pids, NEW m \in Mutexes, InApp(t), MayUnlock(t, m),
         queue[m] # <<>>, CoreInv', held' = Drop(t, m), PopWaiter(m),
         \A u \in Pids : IsBlocked(u)' <=> IsBlocked(u) /\ u # Head(queue[m]),
         \A u \in Pids, n \in Mutexes : InLock(u, n)' = InLock(u, n),
         \A u \in Pids : pc'[u] \in InLockWindows => arg'[u] \in Mutexes
  PROVE  /\ MutexInv' /\ OthersKept(m)
         /\ \E w \in Pids : Handed(t, m, w)
<1> DEFINE w == Head(queue[m])
<1>1. /\ ListInv' /\ locked' = locked /\ locked[m]
      /\ w \in Waiters(m) /\ Waiters(m)' = Waiters(m) \ {w}
      /\ \A n \in Mutexes : n # m => Waiters(n)' = Waiters(n)
      /\ \A v \in Waiters(m) : Prio[w] <= Prio[v]
  BY PopList, Zenon
<1>2. w \in Pids
  <2>1. queue[m] \in Seq(Pids)
    BY Zenon DEF MutexInv, ListInv
  <2> QED
    BY <2>1
<1> HIDE DEF w
<1>3. /\ Owners(m)' = {w} /\ held' \in [Pids -> SUBSET OwnedMutexes]
      /\ \A n \in OwnedMutexes : n # m => Owners(n)' = Owners(n)
  <2> DEFINE gone == {w}
  <2>1. gone \subseteq Waiters(m) /\ Waiters(m)' = Waiters(m) \ gone
    BY <1>1, Zenon
  <2> HIDE DEF gone
  <2>2. /\ Owners(m)' = gone /\ held' \in [Pids -> SUBSET OwnedMutexes]
        /\ \A n \in OwnedMutexes : n # m => Owners(n)' = Owners(n)
    BY <1>1, <2>1, DropOwners, Zenon
  <2> QED
    BY <2>2, Zenon DEF gone
<1>4. Owners(m) = {t}
  BY HolderIsOwner, Zenon
<1>5. Handed(t, m, w) /\ OthersKept(m)
  BY <1>1, <1>3, <1>4, MutexSets, Zenon DEF Handed, OthersKept, Kept
<1>6. OwnerInv'
  BY <1>2, <1>3, <1>5, OwnersFollow, Zenon
<1> QED
  BY <1>1, <1>2, <1>5, <1>6, Zenon DEF MutexInv

(* The first waiter can be woken.                                          *)
LEMMA WaiterSleeps ==
  ASSUME MutexInv, NEW m \in Mutexes, queue[m] # <<>>
  PROVE  LET w == Head(queue[m])
         IN  w \in Pids /\ IsBlocked(w) /\ ~Runnable(k, w) /\ Prio[w] \in Prios
<1> DEFINE w == Head(queue[m])
<1>1. queue[m] \in Seq(Pids) /\ IsInjective(queue[m]) /\ Prio \in [Pids -> Prios]
  BY MutexConstants, Zenon DEF MutexInv, ListInv
<1>2. w \in Pids /\ w \in Range(queue[m])
  BY <1>1, PopMembers
<1> HIDE DEF w
<1>3. IsBlocked(w)
  BY <1>2, Zenon DEF MutexInv, ListInv, Waiters
<1>4. ~Runnable(k, w)
  BY <1>3, Zenon DEF IsBlocked, Runnable, OnRunqueue
<1> QED
  BY <1>1, <1>2, <1>3, <1>4, Zenon DEF w

(* mutex_unlock() without waiters.                                         *)
LEMMA UnlockFreeKeeps ==
  ASSUME MutexInv, NEW t \in Pids, NEW m \in Mutexes, UnlockFree(t, m)
  PROVE  MutexInv' /\ OthersKept(m) /\ Freed(t, m)
<1>1. /\ InApp(t) /\ MayUnlock(t, m) /\ queue[m] = <<>> /\ held' = Drop(t, m)
      /\ locked' = [locked EXCEPT ![m] = FALSE] /\ queue' = queue
      /\ k' = k /\ pc' = pc /\ arg' = arg /\ null_store' = null_store
  BY Zenon DEF UnlockFree, cpuVars
<1>2. CoreInv'
  BY <1>1, Zenon DEF MutexInv, CoreInv, CpuInv, CpuTypeOK, HeadOutside, Settled
<1>3. /\ \A u \in Pids : IsBlocked(u)' <=> IsBlocked(u)
      /\ \A u \in Pids, n \in Mutexes : InLock(u, n)' = InLock(u, n)
      /\ \A u \in Pids : pc'[u] \in InLockWindows => arg'[u] \in Mutexes
  BY <1>1, Zenon DEF IsBlocked, InLock, MutexInv, ListInv
<1> QED
  BY <1>1, <1>2, <1>3, DropFrees, Zenon

(* mutex_unlock() with waiters.                                            *)
LEMMA UnlockWakeKeeps ==
  ASSUME MutexInv, NEW t \in Pids, NEW m \in Mutexes, UnlockWake(t, m)
  PROVE  /\ MutexInv' /\ OthersKept(m)
         /\ \E w \in Pids : Handed(t, m, w)
<1> DEFINE ws == MutexWindows
           w  == Head(queue[m])
<1>1. /\ CpuInv(ws, Unqueued, AtEase) /\ ~k.request /\ k.threads = Pids /\ k.priority = Prio
      /\ InApp(t) /\ MayUnlock(t, m) /\ queue[m] # <<>> /\ held' = Drop(t, m)
      /\ PopWaiter(m)
      /\ GoTo(t, sched_set_status(k, w, "PENDING"), "switch", k.priority[w])
  BY Zenon DEF MutexInv, CoreInv, UnlockWake
<1>2. w \in Pids /\ IsBlocked(w) /\ ~Runnable(k, w) /\ Prio[w] \in Prios
  BY <1>1, WaiterSleeps, Zenon
<1> HIDE DEF w
<1>3. "switch" \in ws /\ Prio[w] \in Nat /\ "switch" \notin InLockWindows
      /\ pc[t] \notin InLockWindows
  BY <1>1, <1>2, CpuConstants, Zenon DEF MutexWindows, InLockWindows, InApp
<1>4. /\ CpuInv(ws, Unqueued, AtEase)' /\ SameThreads /\ k'.request = k.request
      /\ k'.status = [k.status EXCEPT ![w] = "PENDING"]
  BY <1>1, <1>2, <1>3, MutexSets, WakeStep, SMTT(30)
<1>5. CoreInv'
  BY <1>1, <1>4, Zenon DEF CoreInv, SameThreads
<1>6. \A u \in Pids : IsBlocked(u)' <=> IsBlocked(u) /\ u # w
  <2>1. k.status \in [Pids -> Status]
    BY <1>1, Zenon DEF CpuInv, CpuTypeOK, Kernel
  <2> QED
    BY <1>4, <2>1, Zenon DEF IsBlocked
<1>7. /\ \A u \in Pids, n \in Mutexes : InLock(u, n)' = InLock(u, n)
      /\ \A u \in Pids : pc'[u] \in InLockWindows => arg'[u] \in Mutexes
  BY <1>1, <1>3, OutsideLock, Zenon
<1> QED
  BY <1>1, <1>5, <1>6, <1>7, DropHandsOver DEF w

(* mutex_unlock_and_sleep()                                                *)
LEMMA UnlockAndSleepKeeps ==
  ASSUME MutexInv, NEW t \in Pids, NEW m \in Mutexes, UnlockAndSleep(t, m)
  PROVE  /\ MutexInv' /\ OthersKept(m)
         /\ Freed(t, m) \/ \E w \in Pids : Handed(t, m, w)
<1> DEFINE ws == MutexWindows
           w  == Head(queue[m])
<1>1. /\ CpuInv(ws, Unqueued, AtEase) /\ ~k.request /\ k.threads = Pids /\ k.priority = Prio
      /\ InApp(t) /\ MayUnlock(t, m) /\ held' = Drop(t, m)
      /\ k.status \in [Pids -> Status]
  BY Zenon DEF MutexInv, CoreInv, UnlockAndSleep, CpuInv, CpuTypeOK, Kernel
<1>2. /\ "yield_higher" \in ws \cap Unqueued /\ 0 \in Nat
      /\ "yield_higher" \notin InLockWindows /\ pc[t] \notin InLockWindows
  BY <1>1, Zenon DEF MutexWindows, Unqueued, InLockWindows, InApp
<1>3. ~IsBlocked(t) /\ Runnable(k, t)
  BY <1>1, ActiveIsNoWaiter, Zenon DEF InApp, Unqueued
<1>4. CASE queue[m] = <<>>
  <2>1. /\ locked' = [locked EXCEPT ![m] = FALSE] /\ queue' = queue
        /\ GoTo(t, sched_set_status(k, t, "SLEEPING"), "yield_higher", 0)
    BY <1>4, Zenon DEF UnlockAndSleep
  <2>2. /\ CpuInv(ws, Unqueued, AtEase)' /\ SameThreads /\ k'.request = k.request
        /\ k'.status = [k.status EXCEPT ![t] = "SLEEPING"]
    BY <1>1, <1>2, <2>1, MutexSets, BlockStep, SMTT(30)
  <2>3. CoreInv'
    BY <1>1, <2>2, Zenon DEF CoreInv, SameThreads
  <2>4. \A u \in Pids : IsBlocked(u)' <=> IsBlocked(u)
    BY <1>1, <1>3, <2>2, Zenon DEF IsBlocked
  <2>5. /\ \A u \in Pids, n \in Mutexes : InLock(u, n)' = InLock(u, n)
        /\ \A u \in Pids : pc'[u] \in InLockWindows => arg'[u] \in Mutexes
    BY <1>2, <2>1, OutsideLock, Zenon
  <2> QED
    BY <1>1, <1>4, <2>1, <2>3, <2>4, <2>5, DropFrees
<1>5. CASE queue[m] # <<>>
  <2>1. /\ PopWaiter(m)
        /\ GoTo(t, sched_set_status(sched_set_status(k, w, "PENDING"), t, "SLEEPING"),
                "yield_higher", 0)
    BY <1>5, Zenon DEF UnlockAndSleep
  <2>2. w \in Pids /\ IsBlocked(w) /\ ~Runnable(k, w)
    BY <1>5, WaiterSleeps, Zenon
  <2> HIDE DEF w
  <2>3. /\ CpuInv(ws, Unqueued, AtEase)' /\ SameThreads /\ k'.request = k.request
        /\ k'.status = [[k.status EXCEPT ![w] = "PENDING"] EXCEPT ![t] = "SLEEPING"]
    BY <1>1, <1>2, <2>1, <2>2, MutexSets, WakeBlockStep, SMTT(30)
  <2>4. CoreInv'
    BY <1>1, <2>3, Zenon DEF CoreInv, SameThreads
  <2>5. \A u \in Pids : IsBlocked(u)' <=> IsBlocked(u) /\ u # w
    BY <1>1, <1>3, <2>2, <2>3, Zenon DEF IsBlocked
  <2>6. /\ \A u \in Pids, n \in Mutexes : InLock(u, n)' = InLock(u, n)
        /\ \A u \in Pids : pc'[u] \in InLockWindows => arg'[u] \in Mutexes
    BY <1>2, <2>1, OutsideLock, Zenon
  <2> QED
    BY <1>1, <1>5, <2>1, <2>4, <2>5, <2>6, DropHandsOver DEF w
<1> QED
  BY <1>4, <1>5, Zenon
---------------------------------------------------------------------------
(* mutex_unlock() in an interrupt handler, of a mutex nobody owns.         *)
LEMMA IsrUnlockKeeps ==
  ASSUME MutexInv, NEW m \in IsrMutexes, IsrUnlock(m)
  PROVE  MutexInv' /\ AllKept
<1> DEFINE ws == MutexWindows
           w  == Head(queue[m])
<1>1. /\ CpuInv(ws, Unqueued, AtEase) /\ ~k.request /\ k.threads = Pids /\ k.priority = Prio
      /\ held' = held /\ m \in Mutexes /\ m \notin OwnedMutexes
      /\ k.status \in [Pids -> Status]
  BY MutexConstants, Zenon DEF MutexInv, CoreInv, IsrUnlock, OwnedMutexes, CpuInv, CpuTypeOK, Kernel
<1>2. ASSUME ListInv', \A n \in Mutexes : n # m => locked'[n] = locked[n],
             \A n \in Mutexes : n # m => Waiters(n)' = Waiters(n),
             \A u \in Pids, n \in Mutexes : InLock(u, n)' = InLock(u, n), CoreInv'
      PROVE  MutexInv' /\ AllKept
  <2>1. ASSUME NEW n \in OwnedMutexes PROVE Kept(n)
    <3>1. n \in Mutexes /\ n # m
      BY <1>1, MutexSets, Zenon
    <3>2. Waiters(n)' = Waiters(n) /\ \A u \in Pids : InLock(u, n)' = InLock(u, n)
      BY <1>2, <3>1, Zenon
    <3>3. Owners(n)' = Owners(n)
      BY <1>1, <3>2, Zenon DEF Owners
    <3> QED
      BY <1>2, <3>1, <3>2, <3>3, Zenon DEF Kept
  <2>2. held' \in [Pids -> SUBSET OwnedMutexes]
    BY <1>1, Zenon DEF MutexInv, OwnerInv
  <2>3. OwnerInv'
    BY <1>1, <2>1, <2>2, OwnersFollow, Zenon DEF OthersKept
  <2> QED
    BY <1>2, <2>1, <2>3, Zenon DEF MutexInv, AllKept
<1>3. CASE queue[m] = <<>>
  <2>1. /\ locked' = [locked EXCEPT ![m] = FALSE] /\ queue' = queue
        /\ k' = k /\ pc' = pc /\ arg' = arg /\ null_store' = null_store
    BY <1>3, Zenon DEF IsrUnlock, cpuVars
  <2>2. CoreInv'
    BY <2>1, Zenon DEF MutexInv, CoreInv, CpuInv, CpuTypeOK, HeadOutside, Settled
  <2>3. /\ \A u \in Pids : IsBlocked(u)' <=> IsBlocked(u)
        /\ \A u \in Pids, n \in Mutexes : InLock(u, n)' = InLock(u, n)
        /\ \A u \in Pids : pc'[u] \in InLockWindows => arg'[u] \in Mutexes
    BY <2>1, Zenon DEF IsBlocked, InLock, MutexInv, ListInv
  <2>4. /\ ListInv' /\ \A n \in Mutexes : Waiters(n)' = Waiters(n)
        /\ \A n \in Mutexes : n # m => locked'[n] = locked[n]
    BY <1>1, <1>3, <2>1, <2>2, <2>3, FreeList
  <2> QED
    BY <1>2, <2>2, <2>3, <2>4, Zenon
<1>4. CASE queue[m] # <<>>
  <2>1. /\ PopWaiter(m) /\ pc' = pc /\ arg' = arg
        /\ IsrSwitch(sched_set_status(k, w, "PENDING"), k.priority[w])
    BY <1>4, Zenon DEF IsrUnlock
  <2>2. w \in Pids /\ IsBlocked(w) /\ ~Runnable(k, w)
    BY <1>1, <1>4, WaiterSleeps, Zenon
  <2> HIDE DEF w
  <2>3. /\ CpuInv(ws, Unqueued, AtEase)' /\ SameThreads /\ NoNewRequest
        /\ SameBlocked([k.status EXCEPT ![w] = "PENDING"], k'.status)
    BY <1>1, <2>1, <2>2, MutexSets, IsrWakeStep
  <2>4. CoreInv'
    BY <1>1, <2>3, Zenon DEF CoreInv, SameThreads, NoNewRequest
  <2>5. \A u \in Pids : IsBlocked(u)' <=> IsBlocked(u) /\ u # w
    <3>1. \A u \in Pids : [k.status EXCEPT ![w] = "PENDING"][u] = "MUTEX_BLOCKED"
                            <=> IsBlocked(u) /\ u # w
      BY <1>1, <2>2, Zenon DEF IsBlocked
    <3> QED
      BY <2>3, <3>1, MutexSets, Zenon DEF SameBlocked, IsBlocked
  <2>6. /\ \A u \in Pids, n \in Mutexes : InLock(u, n)' = InLock(u, n)
        /\ \A u \in Pids : pc'[u] \in InLockWindows => arg'[u] \in Mutexes
    BY <2>1, Zenon DEF InLock, MutexInv, ListInv
  <2>7. /\ ListInv' /\ locked' = locked
        /\ \A n \in Mutexes : n # m => Waiters(n)' = Waiters(n)
    BY <1>1, <1>4, <2>1, <2>4, <2>5, <2>6, PopList DEF w
  <2> QED
    BY <1>2, <2>4, <2>6, <2>7, Zenon
<1> QED
  BY <1>3, <1>4, Zenon

(* What a step may do, seen by the users of the owned mutexes.             *)
Effect ==
  \/ AllKept
  \/ \E m \in OwnedMutexes :
       /\ OthersKept(m)
       /\ \/ \E t \in Pids : Acquired(t, m) \/ Queued(t, m) \/ Freed(t, m)
          \/ \E t, w \in Pids : Handed(t, m, w)

(* Every step preserves the invariant and has one of these effects.        *)
LEMMA MutexStep ==
  ASSUME MutexInv, [Next]_vars
  PROVE  MutexInv' /\ Effect
<1>1. CASE CpuStep
  BY <1>1, CpuStepKeeps, Zenon DEF Effect
<1>2. ASSUME NEW t \in Pids, LockYield(t) PROVE MutexInv' /\ Effect
  BY <1>2, LockYieldKeeps, Zenon DEF Effect
<1>3. ASSUME NEW t \in Pids, LockReturn(t) PROVE MutexInv' /\ Effect
  BY <1>3, LockReturnKeeps, Zenon DEF Effect
<1>4. ASSUME NEW m \in Mutexes, m \notin OwnedMutexes, OthersKept(m) PROVE Effect
  BY <1>4, Zenon DEF Effect, AllKept, OthersKept
<1>5. ASSUME NEW t \in Pids, NEW m \in Mutexes, LockFree(t, m) PROVE MutexInv' /\ Effect
  <2>1. MutexInv' /\ OthersKept(m) /\ (m \in OwnedMutexes => Acquired(t, m))
    BY <1>5, LockFreeKeeps, Zenon
  <2> QED
    BY <1>4, <2>1, Zenon DEF Effect
<1>6. ASSUME NEW t \in Pids, NEW m \in Mutexes, LockBlock(t, m) PROVE MutexInv' /\ Effect
  <2>1. MutexInv' /\ OthersKept(m) /\ (m \in OwnedMutexes => Queued(t, m))
    BY <1>6, LockBlockKeeps, Zenon
  <2> QED
    BY <1>4, <2>1, Zenon DEF Effect
<1>7. ASSUME NEW t \in Pids, NEW m \in Mutexes, UnlockStep(t, m) PROVE MutexInv' /\ Effect
  <2>1. InApp(t) /\ MayUnlock(t, m)
    BY <1>7, Zenon DEF UnlockStep, UnlockFree, UnlockWake, UnlockAndSleep
  <2>2. m \in OwnedMutexes
    BY <2>1, HolderIsOwner, Zenon
  <2>3. /\ MutexInv' /\ OthersKept(m)
        /\ Freed(t, m) \/ \E w \in Pids : Handed(t, m, w)
    BY <1>7, UnlockFreeKeeps, UnlockWakeKeeps, UnlockAndSleepKeeps, Zenon DEF UnlockStep
  <2> QED
    BY <2>2, <2>3, Zenon DEF Effect
<1>8. ASSUME NEW m \in IsrMutexes, IsrUnlock(m) PROVE MutexInv' /\ Effect
  BY <1>8, IsrUnlockKeeps, Zenon DEF Effect
<1>9. CASE UNCHANGED vars
  <2>1. /\ k' = k /\ pc' = pc /\ arg' = arg /\ null_store' = null_store
        /\ UNCHANGED mutexVars
    BY <1>9, Zenon DEF vars, cpuVars
  <2>2. CoreInv'
    BY <2>1, Zenon DEF MutexInv, CoreInv, CpuInv, CpuTypeOK, HeadOutside, Settled
  <2>3. /\ \A u \in Pids : IsBlocked(u)' <=> IsBlocked(u)
        /\ \A u \in Pids, n \in Mutexes : InLock(u, n)' = InLock(u, n)
        /\ \A u \in Pids : pc'[u] \in InLockWindows => arg'[u] \in Mutexes
    BY <2>1, Zenon DEF IsBlocked, InLock, MutexInv, ListInv
  <2> QED
    BY <2>1, <2>2, <2>3, Frame, Zenon DEF Effect
<1> QED
  BY <1>1, <1>2, <1>3, <1>5, <1>6, <1>7, <1>8, <1>9 DEF Next, LockStep
---------------------------------------------------------------------------
(* The start, with the mutexes locked or not.                              *)
LEMMA MutexStart ==
  ASSUME k = AllCreated(MaxPid, Prio), Quiet, locked \in [Mutexes -> BOOLEAN],
         queue = [m \in Mutexes |-> <<>>], held = [t \in Pids |-> {}]
  PROVE  /\ CoreInv /\ ListInv /\ held \in [Pids -> SUBSET OwnedMutexes]
         /\ \A m \in Mutexes : Waiters(m) = {} /\ Owners(m) = {}
<1>1. Prio \in [Pids -> Prios]
  BY MutexConstants, Zenon
<1>2. MaxPid \in Pids /\ Pids = 1..MaxPid
  BY SchedConstants DEF Pids
<1>3. /\ CpuInv(MutexWindows, Unqueued, AtEase) /\ ~k.request
      /\ k.threads = 1..MaxPid /\ \A t \in 1..MaxPid : k.priority[t] = Prio[t]
      /\ \A t \in 1..MaxPid : Runnable(k, t)
  BY <1>1, <1>2, MutexSets, CpuInit, Zenon
<1>4. CoreInv
  <2>1. k.priority \in [Pids -> Prios]
    BY <1>3, Zenon DEF CpuInv, CpuTypeOK, Kernel
  <2>2. k.priority = Prio
    BY <1>1, <1>2, <1>3, <2>1, SMTT(30)
  <2> QED
    BY <1>2, <1>3, <2>2, Zenon DEF CoreInv
<1>5. pc = [t \in Pids |-> "app"]
  BY Zenon DEF Quiet
<1>6. /\ \A t \in Pids : pc[t] \notin InLockWindows /\ held[t] = {}
      /\ \A t \in Pids, m \in Mutexes : ~InLock(t, m)
  BY <1>5, Zenon DEF InLockWindows, InLock
<1>7. DOMAIN <<>> = {} /\ <<>> \in Seq(Pids) /\ Len(<<>>) = 0
  OBVIOUS
<1>8. \A m \in Mutexes : queue[m] = <<>> /\ Waiters(m) = {}
  BY <1>7, Zenon DEF Waiters, Range
<1>9. \A m \in Mutexes : Owners(m) = {}
  BY <1>6, Zenon DEF Owners
<1>10. IsInjective(<<>>) /\ Sorted(Prio, <<>>)
  BY <1>7 DEF IsInjective, Sorted
<1>11. ListInv
  <2>1. \A t \in Pids : ~IsBlocked(t)
    BY <1>2, <1>3, Zenon DEF IsBlocked, Runnable, OnRunqueue
  <2>2. queue \in [Mutexes -> Seq(Pids)]
    OBVIOUS
  <2> QED
    BY <1>6, <1>8, <1>10, <2>1, <2>2 DEF ListInv
<1> QED
  BY <1>4, <1>8, <1>9, <1>11

(* MUTEX_INIT                                                              *)
LEMMA MutexInit ==
  ASSUME Init
  PROVE  MutexInv /\ \A m \in Mutexes : ~locked[m] /\ Waiters(m) = {} /\ Owners(m) = {}
<1>1. /\ k = AllCreated(MaxPid, Prio) /\ Quiet
      /\ locked = [m \in Mutexes |-> FALSE] /\ queue = [m \in Mutexes |-> <<>>]
      /\ held = [t \in Pids |-> {}]
  BY Zenon DEF Init
<1>2. locked \in [Mutexes -> BOOLEAN] /\ \A m \in Mutexes : ~locked[m]
  BY <1>1, Zenon
<1>3. /\ CoreInv /\ ListInv /\ held \in [Pids -> SUBSET OwnedMutexes]
      /\ \A m \in Mutexes : Waiters(m) = {} /\ Owners(m) = {}
  BY <1>1, <1>2, MutexStart, Zenon
<1> QED
  BY <1>2, <1>3, MutexSets, Zenon DEF MutexInv, OwnerInv

(* The inductive invariant holds in every reachable state.                 *)
LEMMA MutexInvariant == Spec => []MutexInv
<1>1. Init => MutexInv
  BY MutexInit, Zenon
<1>2. MutexInv /\ [Next]_vars => MutexInv'
  BY MutexStep, Zenon
<1> QED
  BY <1>1, <1>2, PTL DEF Spec

(* The invariant implies what the run checks.                              *)
LEMMA InvIntact ==
  ASSUME MutexInv
  PROVE  MutexIntact
<1>1. TypeOK
  <2>1. held \in [Pids -> SUBSET Mutexes]
    BY MutexSets, Zenon DEF MutexInv, OwnerInv
  <2> QED
    BY <2>1, Zenon DEF MutexInv, CoreInv, ListInv, CpuInv, TypeOK
<1>2. SchedulerIntact
  BY Zenon DEF MutexInv, CoreInv, CpuInv, SchedulerIntact, RunqueueConsistent, Unqueued
<1>3. HighestPriorityRuns
  BY Zenon DEF MutexInv, CoreInv, CpuInv, Settled, HighestPriorityRuns, AtEase
<1>4. BlockedAreQueued
  BY Zenon DEF MutexInv, ListInv, BlockedAreQueued, IsBlocked
<1> QED
  BY <1>1, <1>2, <1>3, <1>4, Zenon DEF MutexIntact

(* core/mutex.c keeps the kernel's structures and the mutexes' lists in    *)
(* agreement, whatever interrupts come between: types, run queues, the     *)
(* most urgent thread on the CPU, and each blocked thread in one list.     *)
THEOREM Intact == Spec => []MutexIntact
<1>1. MutexInv => MutexIntact
  BY InvIntact, Zenon
<1> QED
  BY <1>1, MutexInvariant, PTL

(* A locked mutex has exactly one owner, an unlocked one none: between     *)
(* mutex_unlock() and the return of the waiter's mutex_lock(), too.        *)
THEOREM OneOwner == Spec => []ExactlyOneOwner
<1>1. MutexInv => ExactlyOneOwner
  BY Zenon DEF MutexInv, OwnerInv, ExactlyOneOwner
<1> QED
  BY <1>1, MutexInvariant, PTL
---------------------------------------------------------------------------
(* Who the owner is.                                                       *)
LEMMA OwnerIs ==
  ASSUME MutexInv, NEW m \in OwnedMutexes
  PROVE  /\ ~locked[m] => Owner(m) = NULL
         /\ \A t \in Pids : Owners(m) = {t} => Owner(m) = t
         /\ locked[m] => Owner(m) \in Owners(m) /\ Owner(m) \in Pids
<1>1. locked[m] => \E t \in Pids : Owners(m) = {t}
  BY Zenon DEF MutexInv, OwnerInv
<1>2. ~locked[m] => Owners(m) = {}
  BY Zenon DEF MutexInv, OwnerInv
<1>3. ASSUME NEW t \in Pids, Owners(m) = {t} PROVE Owner(m) = t
  BY <1>2, <1>3, Zenon DEF Owner
<1>4. ~locked[m] => Owner(m) = NULL
  BY Zenon DEF Owner
<1> QED
  BY <1>1, <1>3, <1>4, Zenon

(* core/mutex.c implements the abstract mutex: a release passes it to a    *)
(* waiter of the highest priority in one step.                             *)
THEOREM Implements == Spec => ImplementsLock
<1> DEFINE ow == [m \in OwnedMutexes |-> Owner(m)]
           wa == [m \in OwnedMutexes |-> Waiters(m)]
<1>1. Init => Lock!Init
  <2> SUFFICES ASSUME Init PROVE Lock!Init
    BY Zenon
  <2>1. MutexInv /\ \A m \in OwnedMutexes : ~locked[m] /\ Waiters(m) = {}
    BY MutexInit, MutexSets, Zenon
  <2>2. \A m \in OwnedMutexes : Owner(m) = NULL
    BY <2>1, OwnerIs, Zenon
  <2> QED
    BY <2>1, <2>2, Zenon DEF Lock!Init
<1>2. MutexInv /\ [Next]_vars => [Lock!Next]_(Lock!lockVars)
  <2> SUFFICES ASSUME MutexInv, [Next]_vars PROVE [Lock!Next]_(Lock!lockVars)
    BY Zenon
  <2>1. MutexInv' /\ Effect
    BY MutexStep, Zenon
  <2>2. ASSUME NEW m \in OwnedMutexes, Kept(m)
        PROVE  Owner(m)' = Owner(m) /\ Waiters(m)' = Waiters(m)
    BY <2>2 DEF Kept, Owner
  <2>3. CASE AllKept
    <3>1. ow' = ow /\ wa' = wa
      BY <2>2, <2>3, Zenon DEF AllKept
    <3> QED
      BY <3>1, Zenon DEF Lock!lockVars
  <2>4. ASSUME NEW m \in OwnedMutexes, OthersKept(m), NEW t \in Pids,
               \/ Acquired(t, m) \/ Queued(t, m) \/ Freed(t, m)
               \/ \E w \in Pids : Handed(t, m, w)
        PROVE  Lock!Next
    <3>1. \A n \in OwnedMutexes : n # m => Owner(n)' = Owner(n) /\ Waiters(n)' = Waiters(n)
      BY <2>2, <2>4, Zenon DEF OthersKept
    <3>2. /\ ow \in [OwnedMutexes -> {Owner(n) : n \in OwnedMutexes}]
          /\ wa \in [OwnedMutexes -> {Waiters(n) : n \in OwnedMutexes}]
          /\ ow[m] = Owner(m) /\ wa[m] = Waiters(m)
      BY Zenon
    <3>3. ASSUME NEW o, Owner(m)' = o PROVE ow' = [ow EXCEPT ![m] = o]
      BY <3>1, <3>3, Zenon
    <3>4. ASSUME NEW s, Waiters(m)' = s PROVE wa' = [wa EXCEPT ![m] = s]
      BY <3>1, <3>4, Zenon
    <3>5. ASSUME Owner(m)' = Owner(m) PROVE ow' = ow
      BY <3>1, <3>5, Zenon
    <3>6. ASSUME Waiters(m)' = Waiters(m) PROVE wa' = wa
      BY <3>1, <3>6, Zenon
    <3> HIDE DEF ow, wa
    <3>7. CASE Acquired(t, m)
      <4>1. Owner(m) = NULL /\ Owner(m)' = t /\ Waiters(m)' = Waiters(m)
        <5>1. Owner(m) = NULL
          BY <3>7, OwnerIs, Zenon DEF Acquired
        <5>2. locked'[m] /\ Owners(m)' = {t} /\ Waiters(m)' = Waiters(m)
          BY <3>7, Zenon DEF Acquired
        <5> QED
          BY <5>1, <5>2, Zenon DEF Owner
      <4>2. ow[m] = NULL /\ ow' = [ow EXCEPT ![m] = t] /\ wa' = wa
        BY <3>2, <3>3, <3>6, <4>1, Zenon
      <4>3. Lock!Acquire(t, m)
        BY <4>2, Zenon DEF Lock!Acquire, ow, wa
      <4> QED
        BY <4>3, Zenon DEF Lock!Next
    <3>8. CASE Queued(t, m)
      <4>1. Owner(m) \in Owners(m) /\ Owner(m) \in Pids
        BY <3>8, OwnerIs, Zenon DEF Queued
      <4>2. Owner(m) # t /\ Owner(m) # NULL
        BY <3>8, <4>1, CpuConstants, Zenon DEF Queued
      <4>3. Owner(m)' = Owner(m)
        BY <3>8 DEF Queued, Owner
      <4>4. Waiters(m)' = Waiters(m) \cup {t} /\ t \notin Waiters(m)
        BY <3>8, Zenon DEF Queued
      <4>5. /\ ow[m] \notin {NULL, t} /\ t \notin wa[m]
            /\ wa' = [wa EXCEPT ![m] = wa[m] \cup {t}] /\ ow' = ow
        BY <3>2, <3>4, <3>5, <4>2, <4>3, <4>4
      <4>6. Lock!Wait(t, m)
        BY <4>5, Zenon DEF Lock!Wait, ow, wa
      <4> QED
        BY <4>6, Zenon DEF Lock!Next
    <3>9. CASE Freed(t, m)
      <4>1. Owner(m) = t /\ Waiters(m) = {} /\ Waiters(m)' = Waiters(m)
        BY <3>9, OwnerIs, Zenon DEF Freed
      <4>2. Owner(m)' = NULL
        BY <3>9, Zenon DEF Freed, Owner
      <4>3. /\ ow[m] = t /\ wa[m] = {}
            /\ ow' = [ow EXCEPT ![m] = NULL] /\ wa' = wa
        BY <3>2, <3>3, <3>6, <4>1, <4>2
      <4>4. Lock!Free(t, m)
        BY <4>3, Zenon DEF Lock!Free, ow, wa
      <4> QED
        BY <4>4, Zenon DEF Lock!Next
    <3>10. ASSUME NEW w \in Pids, Handed(t, m, w) PROVE Lock!Next
      <4>1. Owner(m) = t
        BY <3>10, OwnerIs, Zenon DEF Handed
      <4>2. Owner(m)' = w
        BY <3>10, Zenon DEF Handed, Owner
      <4>3. /\ w \in Waiters(m) /\ Waiters(m)' = Waiters(m) \ {w}
            /\ \A v \in Waiters(m) : Prio[w] <= Prio[v]
        BY <3>10, Zenon DEF Handed
      <4>4. /\ ow[m] = t /\ w \in wa[m] /\ \A v \in wa[m] : Prio[w] <= Prio[v]
            /\ ow' = [ow EXCEPT ![m] = w]
            /\ wa' = [wa EXCEPT ![m] = wa[m] \ {w}]
        BY <3>2, <3>3, <3>4, <4>1, <4>2, <4>3
      <4>5. Lock!HandOver(t, m, w)
        BY <4>4, Zenon DEF Lock!HandOver, ow, wa
      <4> QED
        BY <4>5, Zenon DEF Lock!Next
    <3> QED
      BY <2>4, <3>7, <3>8, <3>9, <3>10
  <2> QED
    BY <2>1, <2>3, <2>4, Zenon DEF Effect
<1> QED
  BY <1>1, <1>2, MutexInvariant, PTL DEF Spec, ImplementsLock, Lock!Spec
---------------------------------------------------------------------------
(* The place of a thread in a list that holds it once.                     *)
LEMMA IndexAt ==
  ASSUME NEW q \in Seq(Pids), IsInjective(q), NEW i \in 1..Len(q)
  PROVE  Index(q, q[i]) = i
<1>1. DOMAIN q = 1..Len(q)
  OBVIOUS
<1>2. Index(q, q[i]) \in 1..Len(q) /\ q[Index(q, q[i])] = q[i]
  BY Zenon DEF Index
<1> HIDE DEF Index
<1> QED
  BY <1>1, <1>2, Zenon DEF IsInjective

(* The three things that happen to a list.                                 *)
LEMMA ListStep ==
  ASSUME MutexInv, [Next]_vars, NEW m \in Mutexes
  PROVE  \/ queue'[m] = queue[m]
         \/ queue[m] # <<>> /\ queue'[m] = Tail(queue[m])
         \/ \E t \in Pids : /\ t \notin Waiters(m)
                            /\ queue'[m] = thread_add_to_list(Prio, queue[m], t)
<1>1. queue \in [Mutexes -> Seq(Pids)] /\ k.priority = Prio
  BY Zenon DEF MutexInv, ListInv, CoreInv
<1>2. CASE queue' = queue
  BY <1>2, Zenon
<1>3. ASSUME NEW n \in Mutexes, queue[n] # <<>>, PopWaiter(n)
      PROVE  queue'[m] = queue[m] \/ (queue[m] # <<>> /\ queue'[m] = Tail(queue[m]))
  BY <1>1, <1>3, Zenon DEF PopWaiter
<1>4. ASSUME NEW t \in Pids, NEW n \in Mutexes, LockBlock(t, n)
      PROVE  \/ queue'[m] = queue[m]
             \/ /\ t \notin Waiters(m)
                /\ queue'[m] = thread_add_to_list(Prio, queue[m], t)
  <2>1. t \notin Waiters(m)
    BY <1>4, ActiveIsNoWaiter, Zenon DEF LockBlock, InApp, Unqueued
  <2>2. queue' = [queue EXCEPT ![n] = thread_add_to_list(Prio, queue[n], t)]
    BY <1>1, <1>4, Zenon DEF LockBlock
  <2> QED
    BY <1>1, <2>1, <2>2, Zenon
<1>5. CASE CpuStep \/ UNCHANGED vars \/ \E t \in Pids : LockYield(t) \/ LockReturn(t)
  BY <1>2, <1>5, Zenon DEF CpuStep, vars, mutexVars, LockYield, LockReturn
<1>6. ASSUME NEW t \in Pids, NEW n \in Mutexes, LockFree(t, n) \/ UnlockFree(t, n)
      PROVE  queue' = queue
  BY <1>6, Zenon DEF LockFree, UnlockFree
<1>7. ASSUME NEW t \in Pids, NEW n \in Mutexes,
             UnlockWake(t, n) \/ UnlockAndSleep(t, n)
      PROVE  queue' = queue \/ (queue[n] # <<>> /\ PopWaiter(n))
  BY <1>7, Zenon DEF UnlockWake, UnlockAndSleep
<1>8. ASSUME NEW n \in IsrMutexes, IsrUnlock(n)
      PROVE  n \in Mutexes /\ (queue' = queue \/ (queue[n] # <<>> /\ PopWaiter(n)))
  BY <1>8, MutexConstants, Zenon DEF IsrUnlock
<1> QED
  BY <1>2, <1>3, <1>4, <1>5, <1>6, <1>7, <1>8 DEF Next, LockStep, UnlockStep

(* The waiters of a mutex never change places, and a new one comes after   *)
(* all those of its priority and above.                                    *)
THEOREM Ordered == Spec => NoOvertaking
<1>1. MutexInv /\ [Next]_vars => [OrderKept]_vars
  <2> SUFFICES ASSUME MutexInv, [Next]_vars, NEW m \in Mutexes,
                      NEW t \in Range(queue'[m]), NEW u \in Range(queue'[m])
               PROVE  /\ {t, u} \subseteq Waiters(m) =>
                           (Before(queue'[m], t, u) <=> Before(queue[m], t, u))
                      /\ (t \in Waiters(m) /\ u \notin Waiters(m)) =>
                           (Before(queue'[m], t, u) <=> Prio[t] <= Prio[u])
    BY Zenon DEF OrderKept
  <2> DEFINE q == queue[m]
             r == queue'[m]
             n == Len(q)
  <2>1. MutexInv'
    BY MutexStep, Zenon
  <2>2. /\ q \in Seq(Pids) /\ IsInjective(q) /\ n \in Nat /\ DOMAIN q = 1..n
        /\ Prio \in [Pids -> Prios] /\ Waiters(m) = Range(q)
    BY MutexConstants DEF MutexInv, ListInv, Waiters
  <2>3. r \in Seq(Pids) /\ IsInjective(r) /\ Len(r) \in Nat /\ DOMAIN r = 1..Len(r)
    BY <2>1 DEF MutexInv, ListInv
  <2>4. \A i \in 1..n : Index(q, q[i]) = i
    BY <2>2, IndexAt, Zenon
  <2>5. \A i \in 1..Len(r) : Index(r, r[i]) = i
    BY <2>3, IndexAt, Zenon
  <2>6. CASE r = q
    BY <2>2, <2>6, Zenon
  <2>7. CASE q # <<>> /\ r = Tail(q)
    <3>1. Len(r) = n - 1 /\ \A i \in 1..(n - 1) : r[i] = q[i + 1]
      BY <2>2, <2>7, SMTT(30)
    <3> HIDE DEF q, r
    <3>2. PICK i \in 1..(n - 1), j \in 1..(n - 1) : t = r[i] /\ u = r[j]
      BY <2>3, <3>1, Zenon DEF Range, r
    <3>3. i + 1 \in 1..n /\ j + 1 \in 1..n /\ t = q[i + 1] /\ u = q[j + 1]
      BY <2>2, <3>1, <3>2
    <3>4. Index(r, t) = i /\ Index(r, u) = j /\ Index(q, t) = i + 1 /\ Index(q, u) = j + 1
      BY <2>4, <2>5, <3>1, <3>2, <3>3, Zenon
    <3>5. Before(r, t, u) <=> Before(q, t, u)
      BY <3>2, <3>4 DEF Before
    <3>6. u \in Waiters(m)
      BY <2>2, <3>3, Zenon DEF Range
    <3> QED
      BY <3>5, <3>6, Zenon DEF q, r
  <2>8. ASSUME NEW x \in Pids, x \notin Waiters(m), r = thread_add_to_list(Prio, q, x)
        PROVE  /\ {t, u} \subseteq Waiters(m) => (Before(r, t, u) <=> Before(q, t, u))
               /\ (t \in Waiters(m) /\ u \notin Waiters(m)) =>
                    (Before(r, t, u) <=> Prio[t] <= Prio[u])
    <3>1. PICK p \in 1..(n + 1) :
            /\ InsertedAt(q, r, x, p)
            /\ \A i \in 1..n : i < p => Prio[q[i]] <= Prio[x]
            /\ p <= n => Prio[q[p]] > Prio[x]
      BY <2>2, <2>8, AddToList, Zenon
    <3> HIDE DEF q, r
    <3>2. /\ Len(r) = n + 1 /\ r[p] = x
          /\ \A i \in 1..n : i < p => r[i] = q[i]
          /\ \A i \in 1..n : i >= p => r[i + 1] = q[i]
      BY <3>1, Zenon DEF InsertedAt
    <3>3. \A i \in 1..n : Index(r, q[i]) = IF i < p THEN i ELSE i + 1
      <4> SUFFICES ASSUME NEW i \in 1..n
                   PROVE  Index(r, q[i]) = IF i < p THEN i ELSE i + 1
        BY Zenon
      <4>1. i \in 1..(n + 1) /\ i + 1 \in 1..(n + 1)
        BY <2>2
      <4> QED
        BY <2>5, <3>2, <4>1
    <3>4. Index(r, x) = p
      BY <2>5, <3>2, Zenon
    <3>5. ASSUME {t, u} \subseteq Waiters(m) PROVE Before(r, t, u) <=> Before(q, t, u)
      <4>1. PICK i \in 1..n, j \in 1..n : t = q[i] /\ u = q[j]
        BY <2>2, <3>5, Zenon DEF Range
      <4>2. /\ Index(q, t) = i /\ Index(q, u) = j
            /\ Index(r, t) = (IF i < p THEN i ELSE i + 1)
            /\ Index(r, u) = (IF j < p THEN j ELSE j + 1)
        BY <2>4, <3>3, <4>1, Zenon
      <4> QED
        BY <2>2, <4>1, <4>2 DEF Before
    <3>6. ASSUME t \in Waiters(m), u \notin Waiters(m)
          PROVE  Before(r, t, u) <=> Prio[t] <= Prio[u]
      <4>1. PICK i \in 1..n : t = q[i]
        BY <2>2, <3>6, Zenon DEF Range
      <4>2. u = x
        <5>1. Range(r) = Range(q) \cup {x}
          BY <2>2, <3>1, InsertMembers, Zenon
        <5> QED
          BY <2>2, <3>6, <5>1, Zenon DEF r
      <4>3. /\ Index(r, t) = (IF i < p THEN i ELSE i + 1) /\ Index(r, u) = p
        BY <3>3, <3>4, <4>1, <4>2
      <4>4. Prio[t] \in Nat /\ Prio[x] \in Nat /\ \A j \in 1..n : Prio[q[j]] \in Nat
        <5>1. q \in [1..n -> Pids]
          BY <2>2
        <5> QED
          BY <2>2, <4>1, <5>1, CpuConstants
      <4>5. CASE i < p
        BY <2>2, <3>1, <4>1, <4>2, <4>3, <4>5, Zenon DEF Before
      <4>6. CASE i >= p
        <5>1. p \in 1..n /\ Prio[q[p]] > Prio[x]
          BY <2>2, <3>1, <4>6, SMTT(30)
        <5>2. Prio[q[p]] <= Prio[t]
          <6>1. Sorted(Prio, q)
            BY Zenon DEF MutexInv, ListInv, q
          <6>2. p = i \/ p < i
            BY <4>6
          <6> QED
            BY <4>1, <4>4, <5>1, <6>1, <6>2, SMTT(30) DEF Sorted
        <5>3. ~(Prio[t] <= Prio[x])
          BY <4>4, <5>1, <5>2
        <5>4. ~Before(r, t, u)
          BY <4>3, <4>6 DEF Before
        <5> QED
          BY <4>2, <5>3, <5>4, Zenon
      <4> QED
        BY <4>5, <4>6
    <3> QED
      BY <3>5, <3>6, Zenon
  <2>9. \/ r = q
        \/ q # <<>> /\ r = Tail(q)
        \/ \E x \in Pids : x \notin Waiters(m) /\ r = thread_add_to_list(Prio, q, x)
    BY ListStep, Zenon
  <2> QED
    BY <2>6, <2>7, <2>8, <2>9, Zenon
<1> QED
  BY <1>1, MutexInvariant, PTL DEF Spec, NoOvertaking
============================================================================
