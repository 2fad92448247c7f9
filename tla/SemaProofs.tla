----------------------------- MODULE SemaProofs -----------------------------
(***************************************************************************)
(* What Sema.cfg checks of sys/sema/sema.c and of                          *)
(* xtimer_mutex_lock_timeout() for four threads, for any number of threads *)
(* and priorities, any range of value and whatever calls the threads make. *)
(* MutexProofs knows what becomes of the mutex in the steps of mutex.c;    *)
(* here are the unlock by a thread that never locked, the timeout that     *)
(* takes a thread out of the list, and what the calls of sema.c rely on.   *)
(***************************************************************************)
EXTENDS Sema, MutexProofs

SLabels == {"out", "test", "set", "lock", "remove", "state", "cancel", "pass", "wake"}

STypes ==
  /\ value \in 0..MaxValue /\ state \in {"OK", "DESTROY"}
  /\ spc \in [Pids -> SLabels]
  /\ op \in [Pids -> {"none", "try", "block", "timed"}]
  /\ block \in [Pids -> BOOLEAN] /\ timer \in [Pids -> BOOLEAN]
  /\ early \in [Pids -> BOOLEAN]

MayBlock == {"block", "timed"}

Waits(t) == t \in Waiters(M)

(* What each label of a call says of the thread.                           *)
CallInv(t) ==
  /\ pc[t] \in InLockWindows => spc[t] \in {"remove", "state"}
  /\ spc[t] \in {"set", "remove"} => op[t] = "timed"
  /\ spc[t] \in {"lock", "state"} => op[t] \in MayBlock
  /\ block[t] => op[t] \in MayBlock
  /\ timer[t] => op[t] = "timed" /\ spc[t] \in {"lock", "remove"}
  /\ (op[t] = "timed" /\ (spc[t] = "lock" \/ Waits(t))) => timer[t] \/ early[t]

(* t has the mutex, or has yet to unlock it.                               *)
Wakes(t) == ~Waits(t) /\ spc[t] \in {"wake", "pass", "cancel", "remove", "state"}

(* t is about to look at value again.                                      *)
Retries(t) == spc[t] = "test" /\ op[t] # "try"

(* A mutex that keeps threads from a semaphore with units left, or from    *)
(* one that is destroyed, is in the hands of a call.                       *)
WakeInv ==
  locked[M] =>
    /\ state = "DESTROY" => \E t \in Pids : Wakes(t)
    /\ value > 0 => \E t \in Pids : Wakes(t) \/ Retries(t)

(* The inductive invariant.                                                *)
SemaInv ==
  /\ MutexInv /\ STypes
  /\ \A t \in Pids : CallInv(t)
  /\ WakeInv
---------------------------------------------------------------------------
(* The one mutex is a signal: nobody owns it.                              *)
LEMMA SemaSets ==
  /\ M \in Mutexes /\ Mutexes = {M} /\ M \in IsrMutexes /\ OwnedMutexes = {}
  /\ MaxValue \in Nat /\ InitValue \in 0..MaxValue
BY SemaConstants DEF M, Mutexes, OwnedMutexes

(* So the lists and the scheduler are all there is to the mutex.           *)
LEMMA NoOwners ==
  ASSUME MutexInv, held' = held, CoreInv', ListInv'
  PROVE  MutexInv'
BY SemaSets, Zenon DEF MutexInv, OwnerInv

(* What list_remove() leaves.                                              *)
LEMMA RemoveFromList ==
  ASSUME NEW q \in Seq(Pids), IsInjective(q), Sorted(Prio, q), NEW t \in Pids
  PROVE  LET r == list_remove(q, t)
         IN  /\ r \in Seq(Pids) /\ IsInjective(r) /\ Sorted(Prio, r)
             /\ Range(r) = Range(q) \ {t}
<1> DEFINE n  == Len(q)
           i  == Index(q, t)
           s1 == SubSeq(q, 1, i - 1)
           s2 == SubSeq(q, i + 1, n)
           r  == s1 \o s2
<1>1. n \in Nat /\ DOMAIN q = 1..n /\ \A a \in 1..n : q[a] \in Pids
  OBVIOUS
<1>2. CASE t \notin Range(q)
  BY <1>2, Zenon DEF list_remove
<1>3. CASE t \in Range(q)
  <2>1. i \in 1..n /\ q[i] = t
    BY <1>1, <1>3, Zenon DEF Range, Index
  <2> HIDE DEF i
  <2>2. /\ s1 \in Seq(Pids) /\ Len(s1) = i - 1 /\ \A a \in 1..(i - 1) : s1[a] = q[a]
    <3>1. \A a \in 1..(i - 1) : q[a] \in Pids
      BY <1>1, <2>1
    <3>2. /\ s1 \in Seq(Pids) /\ Len(s1) = IF 1 <= i - 1 THEN (i - 1) - 1 + 1 ELSE 0
          /\ \A a \in 1..((i - 1) - 1 + 1) : s1[a] = q[1 + a - 1]
      BY <2>1, <3>1
    <3> HIDE DEF s1
    <3> QED
      BY <1>1, <2>1, <3>2
  <2>3. /\ s2 \in Seq(Pids) /\ Len(s2) = n - i
        /\ \A a \in 1..(n - i) : s2[a] = q[i + a]
    <3>1. \A a \in (i + 1)..n : q[a] \in Pids
      BY <1>1, <2>1
    <3>2. /\ s2 \in Seq(Pids) /\ Len(s2) = IF i + 1 <= n THEN n - (i + 1) + 1 ELSE 0
          /\ \A a \in 1..(n - (i + 1) + 1) : s2[a] = q[(i + 1) + a - 1]
      BY <1>1, <2>1, <3>1
    <3> HIDE DEF s2, n
    <3>3. /\ n - (i + 1) + 1 = n - i /\ ~(i + 1 <= n) => n - i = 0
          /\ \A a \in Nat : (i + 1) + a - 1 = i + a
      BY <1>1, <2>1
    <3>4. Len(s2) = n - i
      BY <1>1, <2>1, <3>2, <3>3
    <3>5. \A a \in 1..(n - i) : s2[a] = q[i + a]
      BY <1>1, <2>1, <3>2, <3>3
    <3> QED
      BY <3>2, <3>4, <3>5, Zenon
  <2>4. /\ r \in Seq(Pids) /\ Len(r) = Len(s1) + Len(s2)
        /\ \A a \in 1..(Len(s1) + Len(s2)) :
             r[a] = IF a <= Len(s1) THEN s1[a] ELSE s2[a - Len(s1)]
    <3>1. s1 \in Seq(Pids) /\ s2 \in Seq(Pids)
      BY <2>2, <2>3, Zenon
    <3> HIDE DEF s1, s2
    <3> QED
      BY <3>1
  <2> HIDE DEF s1, s2
  <2>5. Len(r) = n - 1 /\ DOMAIN r = 1..(n - 1)
    <3>1. (i - 1) + (n - i) = n - 1
      BY <1>1, <2>1
    <3> QED
      BY <2>2, <2>3, <2>4, <3>1
  <2>6. \A a \in 1..(n - 1) : r[a] = q[IF a < i THEN a ELSE a + 1]
    <3> SUFFICES ASSUME NEW a \in 1..(n - 1)
                 PROVE  r[a] = q[IF a < i THEN a ELSE a + 1]
      BY Zenon
    <3>1. (i - 1) + (n - i) = n - 1
      BY <1>1, <2>1
    <3>2. r[a] = IF a <= i - 1 THEN s1[a] ELSE s2[a - (i - 1)]
      BY <2>2, <2>3, <2>4, <3>1, Zenon
    <3>3. CASE a < i
      <4>1. a <= i - 1 /\ a \in 1..(i - 1)
        BY <1>1, <2>1, <3>3
      <4> QED
        BY <2>2, <3>2, <3>3, <4>1, Zenon
    <3>4. CASE ~(a < i)
      <4>1. /\ ~(a <= i - 1) /\ a - (i - 1) \in 1..(n - i)
            /\ i + (a - (i - 1)) = a + 1
        BY <1>1, <2>1, <3>4
      <4> QED
        BY <2>3, <3>2, <3>4, <4>1, Zenon
    <3> QED
      BY <3>3, <3>4, Zenon
  <2> HIDE DEF r, n
  <2>7. \A a \in 1..(n - 1) : LET b == IF a < i THEN a ELSE a + 1
                              IN  b \in 1..n /\ b # i /\ r[a] = q[b]
    BY <1>1, <2>1, <2>6
  <2>8. IsInjective(r)
    <3> SUFFICES ASSUME NEW a \in 1..(n - 1), NEW b \in 1..(n - 1), r[a] = r[b]
                 PROVE  a = b
      BY <2>5, Zenon DEF IsInjective
    <3> DEFINE a1 == IF a < i THEN a ELSE a + 1
               b1 == IF b < i THEN b ELSE b + 1
    <3>1. a1 \in 1..n /\ b1 \in 1..n /\ q[a1] = q[b1]
      BY <2>7, Zenon
    <3>2. a1 = b1
      BY <1>1, <3>1, Zenon DEF IsInjective
    <3> QED
      BY <1>1, <2>1, <3>2
  <2>9. Sorted(Prio, r)
    <3> SUFFICES ASSUME NEW a \in 1..(n - 1), NEW b \in 1..(n - 1), a < b
                 PROVE  Prio[r[a]] <= Prio[r[b]]
      BY <2>5, Zenon DEF Sorted
    <3> DEFINE a1 == IF a < i THEN a ELSE a + 1
               b1 == IF b < i THEN b ELSE b + 1
    <3>1. a1 \in 1..n /\ b1 \in 1..n /\ r[a] = q[a1] /\ r[b] = q[b1]
      BY <2>7, Zenon
    <3>2. a1 < b1
      BY <1>1, <2>1
    <3> HIDE DEF a1, b1
    <3> QED
      BY <3>1, <3>2, Zenon DEF Sorted, n
  <2>10. Range(r) \subseteq Range(q) \ {t}
    <3> SUFFICES ASSUME NEW a \in 1..(n - 1) PROVE r[a] \in Range(q) /\ r[a] # t
      BY <2>5, Zenon DEF Range
    <3> DEFINE a1 == IF a < i THEN a ELSE a + 1
    <3>1. a1 \in 1..n /\ a1 # i /\ r[a] = q[a1]
      BY <2>7, Zenon
    <3> HIDE DEF a1
    <3> QED
      BY <1>1, <2>1, <3>1, Zenon DEF Range, IsInjective
  <2>11. Range(q) \ {t} \subseteq Range(r)
    <3> SUFFICES ASSUME NEW b \in 1..n, q[b] # t PROVE q[b] \in Range(r)
      BY <1>1, Zenon DEF Range
    <3> DEFINE a == IF b < i THEN b ELSE b - 1
    <3>1. a \in 1..(n - 1) /\ b = IF a < i THEN a ELSE a + 1
      BY <1>1, <2>1
    <3>2. r[a] = q[b]
      BY <2>6, <3>1, Zenon
    <3> HIDE DEF a
    <3> QED
      BY <2>5, <3>1, <3>2, Zenon DEF Range
  <2>12. list_remove(q, t) = r
    BY <1>3, Zenon DEF list_remove, r, s1, s2, i, n
  <2> QED
    BY <2>4, <2>8, <2>9, <2>10, <2>11, <2>12, Zenon
<1> QED
  BY <1>2, <1>3, Zenon
---------------------------------------------------------------------------
(* sched_set_status() of a thread that is and stays on its run queue.      *)
LEMMA SetStatusRunnable ==
  ASSUME NEW s, KInv(s), NEW t \in Pids, Runnable(s, t), NEW st \in OnRunqueue
  PROVE  LET k2 == sched_set_status(s, t, st)
         IN  /\ KInv(k2) /\ k2.bitcache = s.bitcache
             /\ k2.threads = s.threads /\ k2.priority = s.priority
             /\ k2.status = [s.status EXCEPT ![t] = st]
<1> DEFINE k2 == sched_set_status(s, t, st)
<1>1. /\ s.status \in [Pids -> Status] /\ s.rq \in [Prios -> Seq(Pids)]
      /\ s.priority \in [Pids -> Prios] /\ s.bitcache \in SUBSET Prios
  BY Zenon DEF KInv, Kernel
<1>2. st \in Status
  BY Zenon DEF Status
<1>3. k2 = [s EXCEPT !.status[t] = st, !.rq[s.priority[t]] = @, !.bitcache = @]
  BY <1>1, <1>2, Zenon DEF sched_set_status
<1>4. /\ k2.threads = s.threads /\ k2.priority = s.priority
      /\ k2.status = [s.status EXCEPT ![t] = st]
      /\ k2.rq = s.rq /\ k2.bitcache = s.bitcache
  BY <1>1, <1>3 DEF KInv, Kernel
<1> HIDE DEF k2
<1>5. k2 \in Kernel
  BY <1>1, <1>2, <1>3, <1>4, Zenon DEF KInv, Kernel
<1>6. \A u \in Pids : Runnable(k2, u) <=> Runnable(s, u)
  BY <1>1, <1>4, Zenon DEF Runnable
<1>7. Consistent(k2)
  BY <1>4, <1>6 DEF KInv, Consistent
<1> QED
  BY <1>4, <1>5, <1>7, Zenon DEF KInv, k2

(* sched_set_status(p, STATUS_PENDING) of a thread that sleeps, or of one  *)
(* that is on its run queue already.                                       *)
LEMMA PendingFacts ==
  ASSUME NEW ws, NEW unqueued, NEW settled, CpuInv(ws, unqueued, settled),
         NEW p \in Pids, p \in k.threads
  PROVE  LET k2 == sched_set_status(k, p, "PENDING")
         IN  /\ KInv(k2) /\ k2.bitcache # {}
             /\ k2.threads = k.threads /\ k2.priority = k.priority
             /\ k2.status = [k.status EXCEPT ![p] = "PENDING"]
             /\ Runnable(k2, Idle)
<1> DEFINE k2 == sched_set_status(k, p, "PENDING")
<1>1. "PENDING" \in OnRunqueue /\ Idle \in Pids
  BY CpuConstants, Zenon DEF OnRunqueue
<1>2. CASE ~Runnable(k, p)
  BY <1>1, <1>2, WakeFacts, Zenon
<1>3. CASE Runnable(k, p)
  <2>1. KInv(k) /\ Runnable(k, Idle) /\ k.status \in [Pids -> Status]
    BY Zenon DEF CpuInv, CpuTypeOK, KInv, Kernel
  <2>2. /\ KInv(k2) /\ k2.bitcache = k.bitcache
        /\ k2.threads = k.threads /\ k2.priority = k.priority
        /\ k2.status = [k.status EXCEPT ![p] = "PENDING"]
    BY <1>1, <1>3, <2>1, SetStatusRunnable
  <2>3. k.bitcache # {}
    BY <1>1, <2>1, RunnableBit, Zenon
  <2> HIDE DEF k2
  <2>4. Runnable(k2, Idle)
    BY <1>1, <2>1, <2>2, Zenon DEF Runnable
  <2> QED
    BY <2>2, <2>3, <2>4, Zenon DEF k2
<1> QED
  BY <1>2, <1>3, Zenon

(* An interrupt handler that does so and calls thread_yield_higher().      *)
LEMMA IsrPendingStep ==
  ASSUME NEW ws, NEW unqueued, NEW settled, WindowsOK(ws, unqueued, settled),
         CpuInv(ws, unqueued, settled), NEW p \in Pids, p \in k.threads,
         k' = sched_run(sched_set_status(k, p, "PENDING")),
         UNCHANGED <<pc, arg, null_store>>
  PROVE  /\ CpuInv(ws, unqueued, settled)' /\ SameThreads /\ ~k'.request
         /\ SameBlocked([k.status EXCEPT ![p] = "PENDING"], k'.status)
<1> DEFINE k1 == sched_set_status(k, p, "PENDING")
           k2 == sched_run(k1)
<1>1. /\ KInv(k1) /\ k1.bitcache # {}
      /\ k1.threads = k.threads /\ k1.priority = k.priority
      /\ k1.status = [k.status EXCEPT ![p] = "PENDING"]
      /\ Runnable(k1, Idle)
  BY PendingFacts, Zenon
<1>2. k' = k2
  BY Zenon
<1> HIDE DEF k1
<1>3. /\ KInv(k2) /\ k2.active \in Pids
      /\ IsHead(k2, k2.active) /\ Topmost(k2, k2.active)
      /\ k2.threads = k1.threads /\ k2.priority = k1.priority /\ k2.request = FALSE
      /\ \A u \in Pids : Runnable(k2, u) <=> Runnable(k1, u)
      /\ \A u \in Pids : k1.status[u] \in Blocked => k2.status[u] = k1.status[u]
  BY <1>1, SchedRun, Zenon
<1> HIDE DEF k2
<1>4. SameBlocked(k1.status, k2.status)
  BY <1>1, <1>3, BlockedStay, Zenon
<1>5. Runnable(k2, Idle) /\ k2.priority = k.priority
  BY <1>1, <1>3, CpuConstants, Zenon
<1>6. CpuInv(ws, unqueued, settled)'
  BY <1>2, <1>3, <1>5, HandlerReturns, Zenon
<1> QED
  BY <1>1, <1>2, <1>3, <1>4, <1>6, Zenon DEF SameThreads
---------------------------------------------------------------------------
(* _mutex_timeout(): t leaves the list if it is there.                     *)
LEMMA TimeoutMutex ==
  ASSUME MutexInv, NEW t \in Pids, UNCHANGED <<pc, arg, null_store, locked, held>>,
         queue' = [queue EXCEPT ![M] = list_remove(@, t)],
         k' = sched_run(sched_set_status(k, t, "PENDING"))
  PROVE  MutexInv' /\ Waiters(M)' = Waiters(M) \ {t}
<1> DEFINE ws == MutexWindows
           r  == list_remove(queue[M], t)
<1>1. /\ CpuInv(ws, Unqueued, AtEase) /\ ~k.request /\ k.threads = Pids /\ k.priority = Prio
      /\ k.status \in [Pids -> Status]
      /\ queue \in [Mutexes -> Seq(Pids)] /\ queue[M] \in Seq(Pids)
      /\ IsInjective(queue[M]) /\ Sorted(Prio, queue[M])
      /\ queue' = [queue EXCEPT ![M] = r]
  BY SemaSets, Zenon DEF MutexInv, CoreInv, ListInv, CpuInv, CpuTypeOK, Kernel
<1>2. /\ CpuInv(ws, Unqueued, AtEase)' /\ SameThreads /\ ~k'.request
      /\ SameBlocked([k.status EXCEPT ![t] = "PENDING"], k'.status)
  BY <1>1, MutexSets, IsrPendingStep, Zenon
<1>3. CoreInv'
  BY <1>1, <1>2, Zenon DEF CoreInv, SameThreads
<1>4. \A u \in Pids : IsBlocked(u)' <=> IsBlocked(u) /\ u # t
  <2>1. \A u \in Pids : [k.status EXCEPT ![t] = "PENDING"][u] = "MUTEX_BLOCKED"
                          <=> IsBlocked(u) /\ u # t
    BY <1>1, Zenon DEF IsBlocked
  <2> QED
    BY <1>2, <2>1, MutexSets, Zenon DEF SameBlocked, IsBlocked
<1>5. /\ r \in Seq(Pids) /\ IsInjective(r) /\ Sorted(Prio, r)
      /\ Range(r) = Range(queue[M]) \ {t}
  BY <1>1, RemoveFromList, Zenon
<1> HIDE DEF r
<1>6. queue'[M] = r /\ queue' \in [Mutexes -> Seq(Pids)]
  BY <1>1, <1>5, SemaSets, Zenon
<1>7. Waiters(M)' = Waiters(M) \ {t}
  BY <1>5, <1>6, Zenon DEF Waiters
<1>8. ~locked'[M] => queue'[M] = <<>>
  <2> SUFFICES ASSUME ~locked[M] PROVE r = <<>>
    BY <1>6, Zenon
  <2>1. queue[M] = <<>> /\ DOMAIN <<>> = {}
    BY SemaSets DEF MutexInv, ListInv
  <2>2. t \notin Range(queue[M])
    BY <2>1, Zenon DEF Range
  <2> QED
    BY <2>1, <2>2, Zenon DEF r, list_remove
<1>9. ListInv'
  <2>1. \A u \in Pids : IsBlocked(u)' <=> u \in Waiters(M)'
    BY <1>4, <1>7, SemaSets, Zenon DEF MutexInv, ListInv
  <2>2. \A u \in Pids : u \in Waiters(M)' => InLock(u, M)'
    BY <1>7, SemaSets, Zenon DEF MutexInv, ListInv, InLock
  <2>3. \A u \in Pids : pc'[u] \in InLockWindows => arg'[u] \in Mutexes
    BY Zenon DEF MutexInv, ListInv
  <2>4. locked' \in [Mutexes -> BOOLEAN]
    BY Zenon DEF MutexInv, ListInv
  <2> QED
    BY <1>5, <1>6, <1>8, <2>1, <2>2, <2>3, <2>4, SemaSets DEF ListInv
<1> QED
  BY <1>3, <1>7, <1>9, NoOwners, Zenon

(* The waiter that an unlock wakes.                                        *)
LEMMA PopOne ==
  ASSUME MutexInv, queue[M] # <<>>, PopWaiter(M)
  PROVE  LET w == Head(queue[M])
         IN  /\ w \in Pids /\ w \in Waiters(M) /\ InLock(w, M)
             /\ Waiters(M)' = Waiters(M) \ {w} /\ locked'[M] = locked[M]
<1>1. /\ queue \in [Mutexes -> Seq(Pids)] /\ queue[M] \in Seq(Pids)
      /\ IsInjective(queue[M])
      /\ queue' = [queue EXCEPT ![M] = Tail(queue[M])] /\ locked' = locked
  BY SemaSets, Zenon DEF MutexInv, ListInv, PopWaiter
<1>2. /\ Head(queue[M]) \in Range(queue[M])
      /\ Range(Tail(queue[M])) = Range(queue[M]) \ {Head(queue[M])}
  BY <1>1, PopMembers, Zenon DEF clist_lpop
<1>3. Head(queue[M]) \in Pids
  BY <1>1
<1>4. queue'[M] = Tail(queue[M])
  BY <1>1, SemaSets, Zenon
<1> QED
  BY <1>1, <1>2, <1>3, <1>4, SemaSets, Zenon DEF Waiters, MutexInv, ListInv

(* mutex_unlock() by a thread, which need not have locked the mutex.       *)
LEMMA UnlockMutex ==
  ASSUME MutexInv, NEW t \in Pids, InApp(t), mutex_unlock(t)
  PROVE  /\ MutexInv'
         /\ pc'[t] \notin InLockWindows /\ \A u \in Pids : u # t => pc'[u] = pc[u]
         /\ \/ ~locked'[M] /\ Waiters(M)' = Waiters(M)
            \/ \E w \in Pids : /\ w \in Waiters(M) /\ InLock(w, M)
                               /\ Waiters(M)' = Waiters(M) \ {w}
<1> DEFINE ws == MutexWindows
           w  == Head(queue[M])
<1>1. /\ CpuInv(ws, Unqueued, AtEase) /\ ~k.request /\ k.threads = Pids /\ k.priority = Prio
      /\ held' = held /\ k.status \in [Pids -> Status] /\ pc[t] = "app"
  BY Zenon DEF MutexInv, CoreInv, mutex_unlock, CpuInv, CpuTypeOK, Kernel, InApp
<1>2. CASE queue[M] = <<>>
  <2>1. /\ locked' = [locked EXCEPT ![M] = FALSE] /\ queue' = queue
        /\ k' = k /\ pc' = pc /\ arg' = arg /\ null_store' = null_store
    BY <1>2, Zenon DEF mutex_unlock, cpuVars
  <2>2. CoreInv'
    BY <2>1, Zenon DEF MutexInv, CoreInv, CpuInv, CpuTypeOK, HeadOutside, Settled
  <2>3. /\ \A u \in Pids : IsBlocked(u)' <=> IsBlocked(u)
        /\ \A u \in Pids, n \in Mutexes : InLock(u, n)' = InLock(u, n)
        /\ \A u \in Pids : pc'[u] \in InLockWindows => arg'[u] \in Mutexes
    BY <2>1, Zenon DEF IsBlocked, InLock, MutexInv, ListInv
  <2>4. ListInv' /\ ~locked'[M] /\ Waiters(M)' = Waiters(M)
    BY <1>2, <2>1, <2>2, <2>3, SemaSets, FreeList, Zenon
  <2> QED
    BY <1>1, <2>1, <2>2, <2>4, NoOwners, Zenon DEF InLockWindows
<1>3. CASE queue[M] # <<>>
  <2>1. /\ PopWaiter(M)
        /\ GoTo(t, sched_set_status(k, w, "PENDING"), "switch", k.priority[w])
    BY <1>3, Zenon DEF mutex_unlock
  <2>2. w \in Pids /\ IsBlocked(w) /\ ~Runnable(k, w) /\ Prio[w] \in Prios
    BY <1>3, SemaSets, WaiterSleeps, Zenon
  <2>3. /\ w \in Waiters(M) /\ InLock(w, M)
        /\ Waiters(M)' = Waiters(M) \ {w} /\ locked'[M] = locked[M]
    BY <1>3, <2>1, PopOne, Zenon
  <2>4. \A u \in Pids : u # w <=> u # Head(queue[M])
    BY Zenon
  <2> HIDE DEF w
  <2>5. "switch" \in ws /\ Prio[w] \in Nat /\ "switch" \notin InLockWindows
        /\ pc[t] \notin InLockWindows
    BY <1>1, <2>2, CpuConstants, Zenon DEF MutexWindows, InLockWindows
  <2>6. /\ CpuInv(ws, Unqueued, AtEase)' /\ SameThreads /\ k'.request = k.request
        /\ k'.status = [k.status EXCEPT ![w] = "PENDING"]
    BY <1>1, <2>1, <2>2, <2>5, MutexSets, WakeStep, SMTT(30)
  <2>7. CoreInv'
    BY <1>1, <2>6, Zenon DEF CoreInv, SameThreads
  <2>8. \A u \in Pids : IsBlocked(u)' <=> IsBlocked(u) /\ u # w
    BY <1>1, <2>6, Zenon DEF IsBlocked
  <2>9. /\ \A u \in Pids, n \in Mutexes : InLock(u, n)' = InLock(u, n)
        /\ \A u \in Pids : pc'[u] \in InLockWindows => arg'[u] \in Mutexes
    BY <2>1, <2>5, OutsideLock, Zenon
  <2>10. pc'[t] = "switch" /\ \A u \in Pids : u # t => pc'[u] = pc[u]
    BY <2>1, GoToLocks, Zenon
  <2>11. ListInv'
    BY <1>3, <2>1, <2>4, <2>7, <2>8, <2>9, SemaSets, PopList, Zenon
  <2> QED
    BY <1>1, <2>2, <2>3, <2>5, <2>7, <2>10, <2>11, NoOwners, Zenon
<1> QED
  BY <1>2, <1>3, Zenon
---------------------------------------------------------------------------
(* A step in which only t, if any thread, gets on with its call.           *)
LEMMA CallUpdate ==
  ASSUME SemaInv, MutexInv', STypes', NEW t \in Pids, CallInv(t)', WakeInv',
         \A u \in Pids : u # t =>
           /\ pc'[u] \in InLockWindows => pc[u] \in InLockWindows
           /\ Waits(u)' => Waits(u)
           /\ spc'[u] = spc[u] /\ op'[u] = op[u] /\ block'[u] = block[u]
           /\ timer'[u] = timer[u] /\ early'[u] = early[u]
  PROVE  SemaInv'
<1>1. ASSUME NEW u \in Pids, u # t PROVE CallInv(u)'
  <2>1. CallInv(u)
    BY Zenon DEF SemaInv
  <2> QED
    BY <1>1, <2>1, Zenon DEF CallInv
<1> QED
  BY <1>1, Zenon DEF SemaInv

(* The calls that keep the semaphore from being stuck go on.               *)
LEMMA WakersStay ==
  ASSUME SemaInv, locked'[M] => locked[M], state' = state,
         \A u \in Pids : Wakes(u) => Wakes(u)',
         value' > 0 => /\ value > 0
                       /\ \A u \in Pids : Retries(u) => Wakes(u)' \/ Retries(u)'
  PROVE  WakeInv'
BY Zenon DEF SemaInv, WakeInv

(* One that is about to unlock the mutex suffices.                         *)
LEMMA OneWakes ==
  ASSUME NEW t \in Pids, Wakes(t)'
  PROVE  WakeInv'
BY Zenon DEF WakeInv

(* The mutex is left alone.                                                *)
LEMMA MutexQuiet ==
  ASSUME SemaInv, UNCHANGED vars
  PROVE  /\ MutexInv' /\ pc' = pc /\ locked' = locked
         /\ \A u \in Pids : Waits(u)' <=> Waits(u)
<1>1. pc' = pc /\ locked' = locked /\ queue' = queue
  BY Zenon DEF vars, cpuVars, mutexVars
<1>2. MutexInv'
  BY MutexStep, Zenon DEF SemaInv
<1> QED
  BY <1>1, <1>2, Zenon DEF Waits, Waiters

(* A thread between two calls of the kernel.                               *)
LEMMA Inactive ==
  ASSUME SemaInv, NEW t \in Pids, InApp(t)
  PROVE  ~Waits(t) /\ pc[t] \notin InLockWindows
BY SemaSets, ActiveIsNoWaiter, Zenon DEF SemaInv, InApp, Unqueued, InLockWindows, Waits

(* The functions of a call, updated.                                       *)
LEMMA ThenAt ==
  ASSUME STypes, NEW t \in Pids, NEW label \in SLabels, Then(t, label)
  PROVE  /\ spc' \in [Pids -> SLabels] /\ spc'[t] = label
         /\ \A u \in Pids : u # t => spc'[u] = spc[u]
BY Zenon DEF STypes, Then

LEMMA ReturnAt ==
  ASSUME STypes, NEW t \in Pids, Return(t)
  PROVE  /\ spc' \in [Pids -> SLabels]
         /\ op' \in [Pids -> {"none", "try", "block", "timed"}]
         /\ block' \in [Pids -> BOOLEAN]
         /\ spc'[t] = "out" /\ op'[t] = "none" /\ ~block'[t]
         /\ \A u \in Pids : u # t =>
              spc'[u] = spc[u] /\ op'[u] = op[u] /\ block'[u] = block[u]
BY Zenon DEF STypes, Return, Then, SLabels

(* The beginning of a call.                                                *)
LEMMA EnterKeeps ==
  ASSUME SemaInv, NEW t \in Pids, Wait(t) \/ Post(t) \/ Destroy(t)
  PROVE  SemaInv'
<1>1. /\ STypes /\ CallInv(t) /\ InApp(t) /\ spc[t] = "out" /\ state = "OK"
      /\ UNCHANGED vars /\ timer' = timer /\ early' = early
      /\ value \in Nat /\ MaxValue \in Nat
  BY SemaSets DEF SemaInv, Wait, Post, Destroy, At, timeVars, STypes
<1>2. /\ MutexInv' /\ pc' = pc /\ locked' = locked
      /\ \A u \in Pids : Waits(u)' <=> Waits(u)
  BY <1>1, MutexQuiet, Zenon
<1>3. ~Waits(t) /\ pc[t] \notin InLockWindows
  BY <1>1, Inactive, Zenon
<1>4. ~timer[t]
  BY <1>1, Zenon DEF CallInv
<1>5. CASE Wait(t)
  <2>1. PICK o \in {"try", "block", "timed"} :
          /\ op' = [op EXCEPT ![t] = o]
          /\ block' = [block EXCEPT ![t] = o # "try"]
    BY <1>5, Zenon DEF Wait
  <2>2. Then(t, "test") /\ value' = value /\ state' = state
    BY <1>5, Zenon DEF Wait
  <2>3. /\ spc' \in [Pids -> SLabels] /\ spc'[t] = "test"
        /\ \A u \in Pids : u # t => spc'[u] = spc[u]
    BY <1>1, <2>2, ThenAt, Zenon DEF SLabels
  <2>4. /\ op' \in [Pids -> {"none", "try", "block", "timed"}] /\ op'[t] = o
        /\ \A u \in Pids : u # t => op'[u] = op[u]
    BY <1>1, <2>1, Zenon DEF STypes
  <2>5. /\ block' \in [Pids -> BOOLEAN] /\ (block'[t] <=> o # "try")
        /\ \A u \in Pids : u # t => block'[u] = block[u]
    BY <1>1, <2>1, Zenon DEF STypes
  <2>6. STypes'
    BY <1>1, <2>2, <2>3, <2>4, <2>5, Zenon DEF STypes
  <2>7. CallInv(t)'
    BY <1>1, <1>2, <1>3, <1>4, <2>3, <2>4, <2>5, Zenon DEF CallInv, MayBlock
  <2>8. WakeInv'
    <3>1. \A u \in Pids : Wakes(u) => Wakes(u)'
      BY <1>1, <1>2, <2>3, Zenon DEF Wakes
    <3>2. \A u \in Pids : Retries(u) => Retries(u)'
      BY <1>1, <2>3, <2>4, Zenon DEF Retries
    <3> QED
      BY <1>2, <2>2, <3>1, <3>2, WakersStay, Zenon
  <2> QED
    BY <1>1, <1>2, <2>3, <2>4, <2>5, <2>6, <2>7, <2>8, CallUpdate, Zenon
<1>6. CASE (Post(t) /\ value = 0) \/ Destroy(t)
  <2>1. /\ Then(t, "wake") /\ op' = op /\ block' = block
        /\ value' \in 0..MaxValue /\ state' \in {"OK", "DESTROY"}
    BY <1>1, <1>6 DEF Post, Destroy, STypes
  <2>2. /\ spc' \in [Pids -> SLabels] /\ spc'[t] = "wake"
        /\ \A u \in Pids : u # t => spc'[u] = spc[u]
    BY <1>1, <2>1, ThenAt, Zenon DEF SLabels
  <2>3. STypes'
    BY <1>1, <2>1, <2>2, Zenon DEF STypes
  <2>4. CallInv(t)'
    BY <1>1, <1>2, <1>3, <1>4, <2>1, <2>2, Zenon DEF CallInv
  <2>5. WakeInv'
    BY <1>2, <1>3, <2>2, OneWakes, Zenon DEF Wakes
  <2> QED
    BY <1>1, <1>2, <2>1, <2>2, <2>3, <2>4, <2>5, CallUpdate, Zenon
<1>7. CASE Post(t) /\ value # 0
  <2>1. /\ spc' = spc /\ op' = op /\ block' = block /\ value > 0
        /\ value' \in 0..MaxValue /\ state' = state
    BY <1>1, <1>7 DEF Post
  <2>2. STypes'
    BY <1>1, <2>1, Zenon DEF STypes
  <2>3. CallInv(t)'
    BY <1>1, <1>2, <2>1, Zenon DEF CallInv
  <2>4. WakeInv'
    <3>1. \A u \in Pids : (Wakes(u) => Wakes(u)') /\ (Retries(u) => Retries(u)')
      BY <1>2, <2>1, Zenon DEF Wakes, Retries
    <3> QED
      BY <1>2, <2>1, <3>1, WakersStay, Zenon
  <2> QED
    BY <1>1, <1>2, <2>1, <2>2, <2>3, <2>4, CallUpdate, Zenon
<1> QED
  BY <1>5, <1>6, <1>7, Zenon

(* The loop of _sema_wait() looks at value.                                *)
LEMMA TestKeeps ==
  ASSUME SemaInv, NEW t \in Pids, Test(t)
  PROVE  SemaInv'
<1>1. /\ STypes /\ CallInv(t) /\ InApp(t) /\ spc[t] = "test"
      /\ UNCHANGED vars /\ state' = state /\ timer' = timer /\ early' = early
      /\ value \in 0..MaxValue /\ MaxValue \in Nat
  BY SemaSets, Zenon DEF SemaInv, Test, At, timeVars, STypes
<1>2. /\ MutexInv' /\ pc' = pc /\ locked' = locked
      /\ \A u \in Pids : Waits(u)' <=> Waits(u)
  BY <1>1, MutexQuiet, Zenon
<1>3. ~Waits(t) /\ pc[t] \notin InLockWindows /\ ~timer[t]
  BY <1>1, Inactive, Zenon DEF CallInv
<1>4. CASE value = 0 /\ block[t] /\ op[t] # "timed"
  <2>1. Then(t, "lock") /\ value' = 0 /\ op' = op /\ block' = block
    BY <1>1, <1>4 DEF Test
  <2>2. /\ spc' \in [Pids -> SLabels] /\ spc'[t] = "lock"
        /\ \A u \in Pids : u # t => spc'[u] = spc[u]
    BY <1>1, <2>1, ThenAt, Zenon DEF SLabels
  <2>3. STypes'
    BY <1>1, <2>1, <2>2 DEF STypes
  <2>4. CallInv(t)'
    BY <1>1, <1>2, <1>3, <1>4, <2>1, <2>2, Zenon DEF CallInv
  <2>5. \A u \in Pids : Wakes(u) => Wakes(u)'
    BY <1>1, <1>2, <2>2, Zenon DEF Wakes
  <2>6. WakeInv'
    BY <1>1, <1>2, <2>1, <2>5, WakersStay
  <2> QED
    BY <1>1, <1>2, <2>1, <2>2, <2>3, <2>4, <2>6, CallUpdate, Zenon
<1>5. CASE value = 0 /\ block[t] /\ op[t] = "timed"
  <2>1. Then(t, "set") /\ value' = 0 /\ op' = op /\ block' = block
    BY <1>1, <1>5 DEF Test
  <2>2. /\ spc' \in [Pids -> SLabels] /\ spc'[t] = "set"
        /\ \A u \in Pids : u # t => spc'[u] = spc[u]
    BY <1>1, <2>1, ThenAt, Zenon DEF SLabels
  <2>3. STypes'
    BY <1>1, <2>1, <2>2 DEF STypes
  <2>4. CallInv(t)'
    BY <1>1, <1>2, <1>3, <1>5, <2>1, <2>2, Zenon DEF CallInv
  <2>5. \A u \in Pids : Wakes(u) => Wakes(u)'
    BY <1>1, <1>2, <2>2, Zenon DEF Wakes
  <2>6. WakeInv'
    BY <1>1, <1>2, <2>1, <2>5, WakersStay
  <2> QED
    BY <1>1, <1>2, <2>1, <2>2, <2>3, <2>4, <2>6, CallUpdate, Zenon
<1>6. CASE value > 0 /\ op[t] # "try" /\ value' > 0
  <2>1. Then(t, "pass") /\ value' = value - 1 /\ op' = op /\ block' = block
    BY <1>1, <1>6 DEF Test
  <2>2. /\ spc' \in [Pids -> SLabels] /\ spc'[t] = "pass"
        /\ \A u \in Pids : u # t => spc'[u] = spc[u]
    BY <1>1, <2>1, ThenAt, Zenon DEF SLabels
  <2>3. value' \in 0..MaxValue
    BY <1>1, <1>6, <2>1
  <2>4. STypes'
    BY <1>1, <2>1, <2>2, <2>3, Zenon DEF STypes
  <2>5. CallInv(t)'
    BY <1>1, <1>2, <1>3, <2>1, <2>2, Zenon DEF CallInv
  <2>6. WakeInv'
    BY <1>2, <1>3, <2>2, OneWakes, Zenon DEF Wakes
  <2> QED
    BY <1>1, <1>2, <2>1, <2>2, <2>4, <2>5, <2>6, CallUpdate, Zenon
<1>7. CASE (value = 0 /\ ~block[t]) \/ (value > 0 /\ ~(op[t] # "try" /\ value' > 0))
  <2>1. Return(t) /\ ((value' = value /\ value = 0) \/ (value' = value - 1 /\ value > 0))
    <3>1. CASE value = 0 /\ ~block[t]
      BY <1>1, <3>1, SMTT(30) DEF Test
    <3>2. CASE value > 0 /\ ~(op[t] # "try" /\ value' > 0)
      BY <1>1, <3>2, SMTT(30) DEF Test
    <3> QED
      BY <1>7, <3>1, <3>2, Zenon
  <2>2. value' \in 0..MaxValue
    BY <1>1, <2>1
  <2>3. /\ spc' \in [Pids -> SLabels]
        /\ op' \in [Pids -> {"none", "try", "block", "timed"}]
        /\ block' \in [Pids -> BOOLEAN]
        /\ spc'[t] = "out" /\ op'[t] = "none" /\ ~block'[t]
        /\ \A u \in Pids : u # t =>
             spc'[u] = spc[u] /\ op'[u] = op[u] /\ block'[u] = block[u]
    BY <1>1, <2>1, ReturnAt, Zenon
  <2>4. STypes'
    BY <1>1, <2>2, <2>3, Zenon DEF STypes
  <2>5. CallInv(t)'
    BY <1>1, <1>2, <1>3, <2>3, Zenon DEF CallInv
  <2>6. WakeInv'
    <3>1. \A u \in Pids : Wakes(u) => Wakes(u)'
      BY <1>1, <1>2, <2>3, Zenon DEF Wakes
    <3>2. ASSUME value' > 0
          PROVE  value > 0 /\ \A u \in Pids : Retries(u) => Retries(u)'
      <4>1. value > 0 /\ op[t] = "try"
        BY <1>1, <1>7, <2>1, <3>2
      <4> QED
        BY <2>3, <4>1, Zenon DEF Retries
    <3> QED
      BY <1>1, <1>2, <3>1, <3>2, WakersStay, Zenon
  <2> QED
    BY <1>1, <1>2, <2>3, <2>4, <2>5, <2>6, CallUpdate, Zenon
<1> QED
  BY <1>1, <1>4, <1>5, <1>6, <1>7

(* The other steps of a call that leave the mutex alone.                   *)
LEMMA TimerKeeps ==
  ASSUME SemaInv, NEW t \in Pids, Set(t) \/ Remove(t) \/ ReadState(t)
  PROVE  SemaInv'
<1>1. /\ STypes /\ CallInv(t) /\ InApp(t) /\ UNCHANGED vars
      /\ value' = value /\ state' = state /\ op' = op
      /\ spc \in [Pids -> SLabels] /\ block \in [Pids -> BOOLEAN]
      /\ timer \in [Pids -> BOOLEAN] /\ early \in [Pids -> BOOLEAN]
  BY Zenon DEF SemaInv, Set, Remove, ReadState, At, timeVars, STypes
<1>2. /\ MutexInv' /\ pc' = pc /\ locked' = locked
      /\ \A u \in Pids : Waits(u)' <=> Waits(u)
  BY <1>1, MutexQuiet, Zenon
<1>3. ~Waits(t) /\ pc[t] \notin InLockWindows
  BY <1>1, Inactive, Zenon
<1>4. CASE Set(t)
  <2>1. /\ Then(t, "lock") /\ spc[t] = "set"
        /\ timer' = [timer EXCEPT ![t] = TRUE] /\ block' = block /\ early' = early
    BY <1>4, Zenon DEF Set, At
  <2>2. /\ spc' \in [Pids -> SLabels] /\ spc'[t] = "lock"
        /\ \A u \in Pids : u # t => spc'[u] = spc[u]
    BY <1>1, <2>1, ThenAt, Zenon DEF SLabels
  <2>3. /\ timer' \in [Pids -> BOOLEAN] /\ timer'[t]
        /\ \A u \in Pids : u # t => timer'[u] = timer[u]
    BY <1>1, <2>1, Zenon
  <2>4. STypes'
    BY <1>1, <2>1, <2>2, <2>3, Zenon DEF STypes
  <2>5. CallInv(t)'
    BY <1>1, <1>2, <1>3, <2>1, <2>2, <2>3, Zenon DEF CallInv, MayBlock
  <2>6. WakeInv'
    <3>1. \A u \in Pids : (Wakes(u) => Wakes(u)') /\ (Retries(u) => Retries(u)')
      BY <1>1, <1>2, <2>1, <2>2, Zenon DEF Wakes, Retries
    <3> QED
      BY <1>1, <1>2, <3>1, WakersStay, Zenon
  <2> QED
    BY <1>1, <1>2, <2>1, <2>2, <2>3, <2>4, <2>5, <2>6, CallUpdate, Zenon
<1>5. CASE Remove(t)
  <2>1. /\ Then(t, "state") /\ spc[t] = "remove"
        /\ timer' = [timer EXCEPT ![t] = FALSE]
        /\ early' = [early EXCEPT ![t] = FALSE]
        /\ \E b \in BOOLEAN : block' = [block EXCEPT ![t] = b]
    BY <1>5, Zenon DEF Remove, At
  <2>2. /\ spc' \in [Pids -> SLabels] /\ spc'[t] = "state"
        /\ \A u \in Pids : u # t => spc'[u] = spc[u]
    BY <1>1, <2>1, ThenAt, Zenon DEF SLabels
  <2>3. /\ timer' \in [Pids -> BOOLEAN] /\ ~timer'[t]
        /\ \A u \in Pids : u # t => timer'[u] = timer[u]
    BY <1>1, <2>1, Zenon
  <2>4. /\ early' \in [Pids -> BOOLEAN]
        /\ \A u \in Pids : u # t => early'[u] = early[u]
    BY <1>1, <2>1, Zenon
  <2>5. /\ block' \in [Pids -> BOOLEAN]
        /\ \A u \in Pids : u # t => block'[u] = block[u]
    BY <1>1, <2>1, Zenon
  <2>6. STypes'
    BY <1>1, <2>2, <2>3, <2>4, <2>5, Zenon DEF STypes
  <2>7. CallInv(t)'
    BY <1>1, <1>2, <1>3, <2>1, <2>2, <2>3, Zenon DEF CallInv, MayBlock
  <2>8. WakeInv'
    <3>1. \A u \in Pids : (Wakes(u) => Wakes(u)') /\ (Retries(u) => Retries(u)')
      BY <1>1, <1>2, <2>1, <2>2, Zenon DEF Wakes, Retries
    <3> QED
      BY <1>1, <1>2, <3>1, WakersStay, Zenon
  <2> QED
    BY <1>1, <1>2, <2>2, <2>3, <2>4, <2>5, <2>6, <2>7, <2>8, CallUpdate, Zenon
<1>6. CASE ReadState(t)
  <2> DEFINE label == IF state = "OK" THEN "test" ELSE "cancel"
  <2>1. /\ Then(t, label) /\ spc[t] = "state"
        /\ timer' = timer /\ early' = early /\ block' = block
    BY <1>6, Zenon DEF ReadState, At, timeVars
  <2>2. label \in SLabels
    BY Zenon DEF SLabels
  <2>3. /\ spc' \in [Pids -> SLabels] /\ spc'[t] = label
        /\ \A u \in Pids : u # t => spc'[u] = spc[u]
    BY <1>1, <2>1, <2>2, ThenAt, Zenon
  <2>4. STypes'
    BY <1>1, <2>1, <2>3, Zenon DEF STypes
  <2>5. CallInv(t)'
    BY <1>1, <1>2, <1>3, <2>1, <2>3, Zenon DEF CallInv
  <2>6. WakeInv'
    <3>1. CASE state # "OK"
      BY <1>2, <1>3, <2>3, <3>1, OneWakes, Zenon DEF Wakes
    <3>2. CASE state = "OK"
      <4>1. op[t] # "try" /\ spc'[t] = "test"
        BY <1>1, <2>1, <2>3, <3>2, Zenon DEF CallInv, MayBlock
      <4>2. Retries(t)'
        BY <1>1, <4>1, Zenon DEF Retries
      <4> QED
        BY <1>1, <3>2, <4>2, Zenon DEF WakeInv
    <3> QED
      BY <3>1, <3>2, Zenon
  <2> QED
    BY <1>1, <1>2, <2>1, <2>3, <2>4, <2>5, <2>6, CallUpdate, Zenon
<1> QED
  BY <1>4, <1>5, <1>6, Zenon
---------------------------------------------------------------------------
(* mutex_lock(), with or without a timer running.                          *)
LEMMA LockMutexKeeps ==
  ASSUME SemaInv, NEW t \in Pids, LockMutex(t)
  PROVE  SemaInv'
<1> DEFINE label == IF op[t] = "timed" THEN "remove" ELSE "state"
<1>1. /\ STypes /\ CallInv(t) /\ InApp(t) /\ MutexInv /\ LockStep(t, M)
      /\ spc[t] = "lock" /\ Then(t, label)
      /\ value' = value /\ state' = state /\ op' = op /\ block' = block
      /\ timer' = timer /\ early' = early
  BY Zenon DEF SemaInv, LockMutex, At, timeVars
<1>2. label \in SLabels
  BY Zenon DEF SLabels
<1>3. /\ spc' \in [Pids -> SLabels] /\ spc'[t] = label
      /\ \A u \in Pids : u # t => spc'[u] = spc[u]
  BY <1>1, <1>2, ThenAt, Zenon
<1>4. MutexInv'
  <2>1. [Next]_vars
    BY <1>1, SemaSets, Zenon DEF Next
  <2> QED
    BY <1>1, <2>1, MutexStep, Zenon
<1>5. STypes'
  BY <1>1, <1>3, Zenon DEF STypes
<1>6. ~Waits(t) /\ pc[t] \notin InLockWindows
  BY <1>1, Inactive, Zenon
<1>7. CallInv(t)'
  BY <1>1, <1>3, Zenon DEF CallInv, MayBlock
<1>8. CASE LockFree(t, M)
  <2>1. pc' = pc /\ queue' = queue
    BY <1>8, Zenon DEF LockFree, cpuVars
  <2>2. \A u \in Pids : Waits(u)' <=> Waits(u)
    BY <2>1, Zenon DEF Waits, Waiters
  <2>3. WakeInv'
    BY <1>3, <1>6, <2>2, OneWakes, Zenon DEF Wakes
  <2> QED
    BY <1>1, <1>3, <1>4, <1>5, <1>7, <2>1, <2>2, <2>3, CallUpdate, Zenon
<1>9. CASE LockBlock(t, M)
  <2>1. /\ GoTo(t, sched_set_status(k, t, "MUTEX_BLOCKED"), "mutex_yield", M)
        /\ queue' = [queue EXCEPT ![M] = thread_add_to_list(Prio, queue[M], t)]
        /\ locked' = locked
    BY <1>1, <1>9, Zenon DEF LockBlock, MutexInv, CoreInv
  <2>2. \A u \in Pids : u # t => pc'[u] = pc[u]
    BY <1>1, <2>1, GoToLocks, Zenon
  <2>3. Waiters(M)' = Waiters(M) \cup {t}
    <3> DEFINE r == thread_add_to_list(Prio, queue[M], t)
    <3>1. Prio \in [Pids -> Prios] /\ queue[M] \in Seq(Pids) /\ queue \in [Mutexes -> Seq(Pids)]
      BY <1>1, MutexConstants, SemaSets, Zenon DEF MutexInv, ListInv
    <3>2. PICK p \in 1..(Len(queue[M]) + 1) : InsertedAt(queue[M], r, t, p)
      BY <3>1, AddToList, Zenon
    <3> HIDE DEF r
    <3>3. Range(r) = Range(queue[M]) \cup {t}
      BY <3>1, <3>2, InsertMembers, Zenon
    <3>4. queue'[M] = r
      BY <2>1, <3>1, SemaSets, Zenon DEF r
    <3> QED
      BY <3>3, <3>4, Zenon DEF Waiters
  <2>4. \A u \in Pids : u # t => (Waits(u)' <=> Waits(u))
    BY <2>3, Zenon DEF Waits
  <2>5. WakeInv'
    <3>1. \A u \in Pids : (Wakes(u) => Wakes(u)') /\ (Retries(u) => Retries(u)')
      BY <1>1, <1>3, <2>4, Zenon DEF Wakes, Retries
    <3> QED
      BY <1>1, <2>1, <3>1, WakersStay, Zenon
  <2> QED
    BY <1>1, <1>3, <1>4, <1>5, <1>7, <2>2, <2>4, <2>5, CallUpdate, Zenon
<1> QED
  BY <1>1, <1>8, <1>9, Zenon DEF LockStep

(* The mutex_unlock() at the end of a call.                                *)
LEMMA UnlockKeeps ==
  ASSUME SemaInv, NEW t \in Pids, Unlock(t)
  PROVE  SemaInv'
<1>1. /\ STypes /\ CallInv(t) /\ InApp(t) /\ MutexInv /\ mutex_unlock(t)
      /\ spc[t] \in {"cancel", "pass", "wake"} /\ Return(t)
      /\ value' = value /\ state' = state /\ timer' = timer /\ early' = early
  BY Zenon DEF SemaInv, Unlock, At, timeVars
<1>2. /\ spc' \in [Pids -> SLabels]
      /\ op' \in [Pids -> {"none", "try", "block", "timed"}]
      /\ block' \in [Pids -> BOOLEAN]
      /\ spc'[t] = "out" /\ op'[t] = "none" /\ ~block'[t]
      /\ \A u \in Pids : u # t =>
           spc'[u] = spc[u] /\ op'[u] = op[u] /\ block'[u] = block[u]
  BY <1>1, ReturnAt, Zenon
<1>3. /\ MutexInv'
      /\ pc'[t] \notin InLockWindows /\ \A u \in Pids : u # t => pc'[u] = pc[u]
      /\ \/ ~locked'[M] /\ Waiters(M)' = Waiters(M)
         \/ \E w \in Pids : /\ w \in Waiters(M) /\ InLock(w, M)
                            /\ Waiters(M)' = Waiters(M) \ {w}
  BY <1>1, UnlockMutex, Zenon
<1>4. STypes'
  BY <1>1, <1>2, Zenon DEF STypes
<1>5. CallInv(t)'
  BY <1>1, <1>2, <1>3, Zenon DEF CallInv
<1>6. ~Waits(t)
  BY <1>1, Inactive, Zenon
<1>7. \A u \in Pids : Waits(u)' => Waits(u)
  BY <1>3, Zenon DEF Waits
<1>8. WakeInv'
  <2>1. CASE ~locked'[M]
    BY <2>1, Zenon DEF WakeInv
  <2>2. ASSUME NEW w \in Pids, w \in Waiters(M), InLock(w, M),
               Waiters(M)' = Waiters(M) \ {w}
        PROVE  WakeInv'
    <3>1. w # t /\ ~Waits(w)'
      BY <1>6, <2>2, Zenon DEF Waits
    <3>2. spc[w] \in {"remove", "state"}
      BY <2>2, Zenon DEF SemaInv, CallInv, InLock, InLockWindows
    <3>3. Wakes(w)'
      BY <1>2, <3>1, <3>2, Zenon DEF Wakes
    <3> QED
      BY <3>3, OneWakes, Zenon
  <2> QED
    BY <1>3, <2>1, <2>2, Zenon
<1> QED
  BY <1>1, <1>2, <1>3, <1>4, <1>5, <1>7, <1>8, CallUpdate, Zenon
---------------------------------------------------------------------------
(* sema_post() in an interrupt handler.                                    *)
LEMMA IsrPostKeeps ==
  ASSUME SemaInv, IsrPost
  PROVE  SemaInv'
<1>1. /\ STypes /\ MutexInv /\ state = "OK" /\ state' = state
      /\ value \in Nat /\ MaxValue \in Nat /\ value < MaxValue /\ value' = value + 1
      /\ spc' = spc /\ op' = op /\ block' = block /\ timer' = timer /\ early' = early
  BY SemaSets DEF SemaInv, IsrPost, callVars, timeVars, STypes
<1>2. STypes'
  <2>1. value' \in 0..MaxValue
    BY <1>1
  <2> QED
    BY <1>1, <2>1, Zenon DEF STypes
<1>3. ASSUME MutexInv', pc' = pc, \A u \in Pids : Waits(u)' => Waits(u), WakeInv'
      PROVE  SemaInv'
  <2>1. Idle \in Pids /\ CallInv(Idle)
    BY CpuConstants, Zenon DEF SemaInv
  <2>2. CallInv(Idle)'
    BY <1>1, <1>3, <2>1, Zenon DEF CallInv
  <2> QED
    BY <1>1, <1>2, <1>3, <2>1, <2>2, CallUpdate, Zenon
<1>4. CASE ~(value = 0 /\ locked[M])
  <2>1. UNCHANGED vars
    BY <1>4, Zenon DEF IsrPost
  <2>2. /\ MutexInv' /\ pc' = pc /\ locked' = locked
        /\ \A u \in Pids : Waits(u)' <=> Waits(u)
    BY <2>1, MutexQuiet, Zenon
  <2>3. WakeInv'
    <3>1. \A u \in Pids : (Wakes(u) => Wakes(u)') /\ (Retries(u) => Retries(u)')
      BY <1>1, <2>2, Zenon DEF Wakes, Retries
    <3>2. CASE ~locked[M]
      BY <2>2, <3>2, Zenon DEF WakeInv
    <3>3. CASE value > 0
      BY <1>1, <2>2, <3>1, <3>3, WakersStay, Zenon
    <3> QED
      BY <1>1, <1>4, <3>2, <3>3
  <2> QED
    BY <1>3, <2>2, <2>3, Zenon
<1>5. CASE value = 0 /\ locked[M]
  <2>1. IsrUnlock(M)
    BY <1>5, Zenon DEF IsrPost
  <2>2. MutexInv'
    BY <1>1, <2>1, SemaSets, IsrUnlockKeeps, Zenon
  <2>3. CASE queue[M] = <<>>
    <3>1. /\ locked' = [locked EXCEPT ![M] = FALSE] /\ queue' = queue /\ pc' = pc
      BY <2>1, <2>3, Zenon DEF IsrUnlock, cpuVars
    <3>2. ~locked'[M]
      BY <1>1, <3>1, SemaSets, Zenon DEF MutexInv, ListInv
    <3>3. \A u \in Pids : Waits(u)' => Waits(u)
      BY <3>1, Zenon DEF Waits, Waiters
    <3> QED
      BY <1>3, <2>2, <3>1, <3>2, <3>3, Zenon DEF WakeInv
  <2>4. CASE queue[M] # <<>>
    <3>1. PopWaiter(M) /\ pc' = pc
      BY <2>1, <2>4, Zenon DEF IsrUnlock
    <3>2. PICK w \in Pids : InLock(w, M) /\ Waiters(M)' = Waiters(M) \ {w}
      BY <1>1, <2>4, <3>1, PopOne, Zenon
    <3>3. (\A u \in Pids : Waits(u)' => Waits(u)) /\ ~Waits(w)'
      BY <3>2, Zenon DEF Waits
    <3>4. CallInv(w) /\ pc[w] \in InLockWindows
      BY <3>2, Zenon DEF SemaInv, InLock, InLockWindows
    <3>5. spc[w] \in {"remove", "state"}
      BY <3>4, Zenon DEF CallInv
    <3>6. WakeInv'
      BY <1>1, <3>2, <3>3, <3>5, OneWakes, Zenon DEF Wakes
    <3> QED
      BY <1>3, <2>2, <3>1, <3>3, <3>6, Zenon
  <2> QED
    BY <2>3, <2>4, Zenon
<1> QED
  BY <1>4, <1>5, Zenon

(* _mutex_timeout(), whether its thread waits, runs or is yet to wait.     *)
LEMMA TimeoutKeeps ==
  ASSUME SemaInv, NEW t \in Pids, MutexTimeout(t)
  PROVE  SemaInv'
<1>1. /\ STypes /\ CallInv(t) /\ MutexInv /\ timer[t]
      /\ timer' = [timer EXCEPT ![t] = FALSE]
      /\ early' = [early EXCEPT ![t] = spc[t] = "lock"]
      /\ queue' = [queue EXCEPT ![M] = list_remove(@, t)]
      /\ UNCHANGED <<pc, arg, null_store, locked, held>>
      /\ value' = value /\ state' = state /\ spc' = spc /\ op' = op /\ block' = block
  BY Zenon DEF SemaInv, MutexTimeout, callVars
<1>2. /\ timer' \in [Pids -> BOOLEAN] /\ ~timer'[t]
      /\ \A u \in Pids : u # t => timer'[u] = timer[u]
  BY <1>1, Zenon DEF STypes
<1>3. /\ early' \in [Pids -> BOOLEAN] /\ (early'[t] <=> spc[t] = "lock")
      /\ \A u \in Pids : u # t => early'[u] = early[u]
  BY <1>1, Zenon DEF STypes
<1>4. STypes'
  BY <1>1, <1>2, <1>3, Zenon DEF STypes
<1>5. MutexInv' /\ Waiters(M)' = Waiters(M) \ {t}
  <2>1. CASE wild'
    <3>1. queue[M] = <<>> /\ k' = k
      BY <2>1, Zenon DEF MutexTimeout
    <3>2. Range(queue[M]) = {}
      <4>1. DOMAIN <<>> = {}
        OBVIOUS
      <4> QED
        BY <3>1, <4>1, Zenon DEF Range
    <3>3. queue' = queue
      <4>1. queue \in [Mutexes -> Seq(Pids)] /\ list_remove(queue[M], t) = queue[M]
        BY <1>1, <3>2, Zenon DEF MutexInv, ListInv, list_remove
      <4> QED
        BY <1>1, <4>1, Zenon
    <3>4. UNCHANGED vars
      BY <1>1, <3>1, <3>3, Zenon DEF vars, cpuVars, mutexVars
    <3>5. MutexInv'
      BY <1>1, <3>4, MutexStep, Zenon
    <3> QED
      BY <3>2, <3>3, <3>5, Zenon DEF Waiters
  <2>2. CASE ~wild'
    <3>1. k' = sched_run(sched_set_status(k, t, "PENDING"))
      BY <2>2, Zenon DEF MutexTimeout
    <3> QED
      BY <1>1, <3>1, TimeoutMutex, Zenon
  <2> QED
    BY <2>1, <2>2, Zenon
<1>6. ~Waits(t)' /\ \A u \in Pids : u # t => (Waits(u)' <=> Waits(u))
  BY <1>5, Zenon DEF Waits
<1>7. CallInv(t)'
  BY <1>1, <1>2, <1>3, <1>6, Zenon DEF CallInv
<1>8. WakeInv'
  <2>1. \A u \in Pids : (Wakes(u) => Wakes(u)') /\ (Retries(u) => Retries(u)')
    BY <1>1, <1>6, Zenon DEF Wakes, Retries
  <2> QED
    BY <1>1, <2>1, WakersStay, Zenon
<1> QED
  BY <1>1, <1>2, <1>3, <1>4, <1>5, <1>6, <1>7, <1>8, CallUpdate, Zenon

(* A step of a call of mutex.c or thread.c, or an interrupt that wakes.    *)
LEMMA CallKeeps ==
  ASSUME SemaInv, NEW t \in Pids, Call(t) \/ Sleep(t) \/ Wakeup(t), UNCHANGED semaVars
  PROVE  SemaInv'
<1>1. /\ STypes /\ CallInv(t) /\ MutexInv /\ value' = value /\ state' = state
      /\ spc' = spc /\ op' = op /\ block' = block /\ timer' = timer /\ early' = early
  BY Zenon DEF SemaInv, semaVars, callVars, timeVars
<1>2. [Next]_vars /\ queue' = queue /\ locked' = locked
  <2>1. CASE Call(t)
    BY <2>1, Zenon DEF Call, Next, CpuStep, LockYield, LockReturn, mutexVars
  <2>2. CASE Sleep(t) \/ Wakeup(t)
    BY <2>2, Zenon DEF Sleep, Wakeup, Next, CpuStep, mutexVars
  <2> QED
    BY <2>1, <2>2, Zenon
<1>3. MutexInv'
  BY <1>1, <1>2, MutexStep, Zenon
<1>4. \A u \in Pids : Waits(u)' <=> Waits(u)
  BY <1>2, Zenon DEF Waits, Waiters
<1>5. \A u \in Pids : pc'[u] \in InLockWindows => pc[u] \in InLockWindows
  <2>1. ASSUME NEW k2, NEW label, NEW a, GoTo(t, k2, label, a),
               label \in InLockWindows => pc[t] \in InLockWindows
        PROVE  \A u \in Pids : pc'[u] \in InLockWindows => pc[u] \in InLockWindows
    <3>1. pc'[t] = label /\ \A u \in Pids : u # t => pc'[u] = pc[u]
      BY <1>1, <2>1, GoToLocks, Zenon
    <3> QED
      BY <2>1, <3>1, Zenon
  <2>2. CASE YieldHigher(t)
    BY <2>1, <2>2, Zenon DEF YieldHigher, InLockWindows
  <2>3. CASE SchedSwitch(t)
    BY <2>1, <2>3, Zenon DEF SchedSwitch, InLockWindows
  <2>4. CASE LockYield(t)
    BY <2>1, <2>4, Zenon DEF LockYield, InLockWindows
  <2>5. CASE LockReturn(t)
    BY <2>1, <2>5, Zenon DEF LockReturn, InLockWindows
  <2>6. CASE Sleep(t)
    BY <2>1, <2>6, Zenon DEF Sleep, ThreadSleep, InLockWindows
  <2>7. CASE Wakeup(t)
    BY <2>7, Zenon DEF Wakeup, IsrWakeup
  <2> QED
    BY <2>2, <2>3, <2>4, <2>5, <2>6, <2>7, Zenon DEF Call
<1>6. STypes'
  BY <1>1, Zenon DEF STypes
<1>7. CallInv(t)'
  BY <1>1, <1>4, <1>5, Zenon DEF CallInv
<1>8. WakeInv'
  <2>1. \A u \in Pids : (Wakes(u) => Wakes(u)') /\ (Retries(u) => Retries(u)')
    BY <1>1, <1>4, Zenon DEF Wakes, Retries
  <2> QED
    BY <1>1, <1>2, <2>1, WakersStay, Zenon
<1> QED
  BY <1>1, <1>3, <1>4, <1>5, <1>6, <1>7, <1>8, CallUpdate, Zenon
---------------------------------------------------------------------------
(* The inductive invariant holds in every reachable state.                 *)
LEMMA SemaInvariant == SSpec => []SemaInv
<1>1. SInit => SemaInv
  <2> SUFFICES ASSUME SInit PROVE SemaInv
    BY Zenon
  <2>1. /\ k = AllCreated(MaxPid, Prio) /\ Quiet
        /\ locked = [m \in Mutexes |-> InitValue = 0]
        /\ queue = [m \in Mutexes |-> <<>>] /\ held = [t \in Pids |-> {}]
        /\ value = InitValue /\ state = "OK"
    BY Zenon DEF SInit
  <2>2. /\ spc = [t \in Pids |-> "out"] /\ op = [t \in Pids |-> "none"]
        /\ block = [t \in Pids |-> FALSE] /\ timer = [t \in Pids |-> FALSE]
        /\ early = [t \in Pids |-> FALSE] /\ pc = [t \in Pids |-> "app"]
    BY Zenon DEF SInit, Quiet
  <2>3. locked \in [Mutexes -> BOOLEAN] /\ (locked[M] <=> InitValue = 0)
    BY <2>1, SemaSets, Zenon
  <2>4. CoreInv /\ ListInv /\ held \in [Pids -> SUBSET OwnedMutexes]
    BY <2>1, <2>3, MutexStart, Zenon
  <2>5. MutexInv
    BY <2>4, SemaSets, Zenon DEF MutexInv, OwnerInv
  <2>6. STypes
    BY <2>1, <2>2, SemaSets, Zenon DEF STypes, SLabels
  <2>7. \A t \in Pids : CallInv(t)
    BY <2>2, Zenon DEF CallInv, InLockWindows
  <2>8. WakeInv
    BY <2>1, <2>3, SemaSets DEF WakeInv
  <2> QED
    BY <2>5, <2>6, <2>7, <2>8, Zenon DEF SemaInv
<1>2. SemaInv /\ [SNext]_allVars => SemaInv'
  <2> SUFFICES ASSUME SemaInv, [SNext]_allVars PROVE SemaInv'
    BY Zenon
  <2>1. CASE UNCHANGED allVars
    <3>1. /\ UNCHANGED vars /\ value' = value /\ state' = state
          /\ spc' = spc /\ op' = op /\ block' = block /\ timer' = timer /\ early' = early
      BY <2>1, Zenon DEF allVars, semaVars, callVars, timeVars
    <3>2. /\ MutexInv' /\ pc' = pc /\ locked' = locked
          /\ \A u \in Pids : Waits(u)' <=> Waits(u)
      BY <3>1, MutexQuiet, Zenon
    <3>3. STypes'
      BY <3>1, Zenon DEF SemaInv, STypes
    <3>4. \A u \in Pids : CallInv(u)'
      BY <3>1, <3>2, Zenon DEF SemaInv, CallInv
    <3>5. WakeInv'
      BY <3>1, <3>2, Zenon DEF SemaInv, WakeInv, Wakes, Retries
    <3> QED
      BY <3>2, <3>3, <3>4, <3>5, Zenon DEF SemaInv
  <2>2. CASE IsrPost
    BY <2>2, IsrPostKeeps, Zenon
  <2>3. ASSUME NEW t \in Pids, SStep(t) PROVE SemaInv'
    BY <2>3, TestKeeps, TimerKeeps, LockMutexKeeps, UnlockKeeps, Zenon DEF SStep
  <2>4. ASSUME NEW t \in Pids, Wait(t) \/ Post(t) \/ Destroy(t) PROVE SemaInv'
    BY <2>4, EnterKeeps, Zenon
  <2>5. ASSUME NEW t \in Pids, MutexTimeout(t) PROVE SemaInv'
    BY <2>5, TimeoutKeeps, Zenon
  <2>6. ASSUME NEW t \in Pids, (Call(t) \/ Sleep(t) \/ Wakeup(t)) /\ UNCHANGED semaVars
        PROVE  SemaInv'
    BY <2>6, CallKeeps, Zenon
  <2> QED
    BY <2>1, <2>2, <2>3, <2>4, <2>5, <2>6, Zenon DEF SNext
<1> QED
  BY <1>1, <1>2, PTL DEF SSpec

(* sema_t, the local variables of a wait, the lists and the scheduler stay *)
(* intact, also under the timeout that takes a thread out of the list of   *)
(* a mutex from an interrupt handler.                                      *)
THEOREM StaysIntact == SSpec => []SemaIntact
<1>1. SemaInv => SemaIntact
  <2> SUFFICES ASSUME SemaInv PROVE SemaIntact
    BY Zenon
  <2>1. TypeOK /\ SchedulerIntact /\ HighestPriorityRuns /\ BlockedAreQueued
    BY InvIntact, Zenon DEF SemaInv, MutexIntact
  <2>2. \A t \in Pids : timer[t] => op[t] = "timed" /\ spc[t] \in {"lock", "remove"}
    BY Zenon DEF SemaInv, CallInv
  <2> QED
    BY <2>1, <2>2, Zenon DEF SemaIntact, SemaInv, STypes, SLabels
<1> QED
  BY <1>1, SemaInvariant, PTL

(* No thread sleeps on a semaphore that has units left, or that has been   *)
(* destroyed, unless a call of sema.c is under way that will wake it.      *)
THEOREM NooneForgotten == SSpec => []NobodyForgotten
<1>1. SemaInv => NobodyForgotten
  <2> SUFFICES ASSUME SemaInv, Waiters(M) # {}, value > 0 \/ state = "DESTROY"
               PROVE  \E t \in Pids : Inside(t)
    BY Zenon DEF NobodyForgotten
  <2>1. locked[M]
    <3>1. DOMAIN <<>> = {}
      OBVIOUS
    <3>2. queue[M] # <<>>
      BY <3>1, Zenon DEF Waiters, Range
    <3> QED
      BY <3>2, SemaSets, Zenon DEF SemaInv, MutexInv, ListInv
  <2>2. PICK t \in Pids : Wakes(t) \/ Retries(t)
    BY <2>1, Zenon DEF SemaInv, WakeInv
  <2>3. ~Waits(t)
    <3>1. CASE Wakes(t)
      BY <3>1, Zenon DEF Wakes
    <3>2. CASE Retries(t)
      <4>1. pc[t] \notin InLockWindows
        BY <3>2, Zenon DEF Retries, SemaInv, CallInv
      <4> QED
        BY <4>1, SemaSets, Zenon DEF SemaInv, MutexInv, ListInv, InLock, InLockWindows, Waits
    <3> QED
      BY <2>2, <3>1, <3>2, Zenon
  <2>4. spc[t] # "out"
    BY <2>2, Zenon DEF Wakes, Retries
  <2> QED
    BY <2>3, <2>4, Zenon DEF Inside, Waits
<1> QED
  BY <1>1, SemaInvariant, PTL

(* A thread that sleeps in sema_wait_timed() has its timer running, or the *)
(* timer expired before the thread was in the mutex's list.                *)
THEOREM WaitIsTimed == SSpec => []TimedWaitIsTimed
<1>1. SemaInv => TimedWaitIsTimed
  <2> SUFFICES ASSUME SemaInv, NEW t \in Waiters(M), op[t] = "timed"
               PROVE  timer[t] \/ early[t]
    BY Zenon DEF TimedWaitIsTimed
  <2>1. t \in Pids
    <3>1. queue[M] \in Seq(Pids)
      BY SemaSets, Zenon DEF SemaInv, MutexInv, ListInv
    <3> QED
      BY <3>1 DEF Waiters, Range
  <2> QED
    BY <2>1, Zenon DEF SemaInv, CallInv, Waits
<1> QED
  BY <1>1, SemaInvariant, PTL
============================================================================
