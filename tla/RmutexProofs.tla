---------------------------- MODULE RmutexProofs ----------------------------
(***************************************************************************)
(* What Rmutex.cfg checks of core/rmutex.c for a few threads, for any      *)
(* number of threads and priorities and any depth of nesting that a        *)
(* uint16_t can count.  Every step of rmutex.c is a step of mutex.c or     *)
(* leaves the mutex alone, so what MutexProofs knows of the mutex holds.   *)
(***************************************************************************)
EXTENDS Rmutex, MutexProofs

Holds(t)  == M \in held[t]
Waits(t)  == pc[t] \in InLockWindows

(* Where a thread has the mutex, once mutex_lock() has returned.           *)
Writing == {"got", "count", "clear", "release"}

RLabels == {"out", "read", "lock", "got", "count", "clear", "release"}

RTypes ==
  /\ rpc \in [Pids -> RLabels]
  /\ owner \in Pids \cup {NULL}
  /\ refcount \in Nat
  /\ depth \in [Pids -> Nat]

(* Each thread's part of the invariant: when it holds the mutex, when it   *)
(* is the owner, and what refcount is then.                                *)
ThreadInv(t) ==
  /\ Holds(t) <=> depth[t] > 0 \/ (rpc[t] \in Writing /\ ~Waits(t))
  /\ Waits(t) => rpc[t] = "got" /\ depth[t] = 0
  /\ rpc[t] \in {"lock", "clear", "release"} => depth[t] = 0
  /\ rpc[t] \in {"read", "lock", "got", "count"} => depth[t] < MaxDepth
  /\ depth[t] <= MaxDepth
  /\ owner = t <=> Holds(t) /\ (depth[t] > 0 \/ rpc[t] \in {"count", "clear"})
  /\ Holds(t) => refcount = depth[t]

(* The inductive invariant.                                                *)
RInv ==
  /\ MutexInv /\ RTypes
  /\ \A t \in Pids : ThreadInv(t)
  /\ (\A t \in Pids : ~Holds(t)) => refcount = 0

(* The one mutex is an owned one.                                          *)
LEMMA RmutexSets ==
  /\ M \in Mutexes /\ M \in OwnedMutexes /\ IsrMutexes = {}
  /\ MaxDepth \in Nat /\ MaxDepth < 65536 /\ MaxDepth > 0 /\ 2^16 = 65536
<1>1. 2^16 = 65536
  OBVIOUS
<1> QED
  BY <1>1, RmutexConstants DEF M, Mutexes, OwnedMutexes

(* Counting modulo W stays below W.                                        *)
LEMMA Modulo ==
  ASSUME NEW W \in Nat, NEW x \in Nat, x < W
  PROVE  x % W = x
OBVIOUS

(* Nobody but the owner of the mutex holds it.                             *)
LEMMA OneHolder ==
  ASSUME MutexInv
  PROVE  /\ \A t, u \in Pids : Holds(t) /\ Holds(u) => t = u
         /\ ~locked[M] => \A t \in Pids : ~Holds(t)
         /\ \A t, u \in Pids : Owners(M) = {t} /\ Holds(u) => u = t
<1>1. \A t \in Pids : Holds(t) => t \in Owners(M)
  BY DEF Holds, Owners
<1>2. /\ ~locked[M] => Owners(M) = {}
      /\ locked[M] => \E t \in Pids : Owners(M) = {t}
  BY RmutexSets DEF MutexInv, OwnerInv
<1> QED
  BY <1>1, <1>2

(* A step of rmutex.c is a step of mutex.c for the mutex.                  *)
LEMMA RStepIsMutexStep ==
  ASSUME [RNext]_allVars
  PROVE  [Next]_vars
<1>1. CASE UNCHANGED allVars
  BY <1>1 DEF allVars
<1>2. ASSUME NEW t \in Pids, RStep(t) PROVE [Next]_vars
  BY <1>2, RmutexSets DEF RStep, ReadOwner, LockMutex, SetOwner, Increment, ClearOwner,
     Release, Next, UnlockStep
<1>3. ASSUME NEW t \in Pids, LockTry(t) \/ Decrement(t) PROVE [Next]_vars
  BY <1>3, RmutexSets DEF LockTry, Decrement, Next, LockStep
<1>4. ASSUME NEW t \in Pids, Call(t) \/ Sleep(t) \/ Wakeup(t) PROVE [Next]_vars
  BY <1>4 DEF Call, Sleep, Wakeup, Next, CpuStep
<1> QED
  BY <1>1, <1>2, <1>3, <1>4 DEF RNext

(* A step that changes neither the rmutex nor who holds or waits.          *)
LEMMA RFrame ==
  ASSUME RInv, MutexInv', UNCHANGED rVars,
         \A u \in Pids : Holds(u)' = Holds(u) /\ Waits(u)' = Waits(u)
  PROVE  RInv'
<1>1. rpc' = rpc /\ owner' = owner /\ refcount' = refcount /\ depth' = depth
  BY DEF rVars
<1> QED
  BY <1>1 DEF RInv, RTypes, ThreadInv

(* A step of a call of mutex.c or thread.c, or an interrupt.               *)
LEMMA CallKeeps ==
  ASSUME RInv, NEW t \in Pids, Call(t) \/ Sleep(t) \/ Wakeup(t), UNCHANGED rVars
  PROVE  RInv'
<1>1. MutexInv' /\ MutexInv
  <2>1. [Next]_vars
    BY RStepIsMutexStep DEF RNext
  <2> QED
    BY <2>1, MutexStep DEF RInv
<1>2. pc \in [Pids -> MutexWindows] /\ held \in [Pids -> SUBSET OwnedMutexes]
  BY <1>1 DEF MutexInv, CoreInv, CpuInv, CpuTypeOK, OwnerInv
<1>3. ASSUME NEW k2, NEW label, NEW a, GoTo(t, k2, label, a), held' = held,
             pc[t] \in InLockWindows <=> label \in InLockWindows
      PROVE  RInv'
  <2>1. \A u \in Pids : Holds(u)' = Holds(u)
    BY <1>3 DEF Holds
  <2>2. pc'[t] = label /\ \A u \in Pids : u # t => pc'[u] = pc[u]
    BY <1>1, <1>3, GoToLocks
  <2>3. \A u \in Pids : Waits(u)' = Waits(u)
    BY <1>3, <2>2 DEF Waits
  <2> QED
    BY <1>1, <2>1, <2>3, RFrame
<1>4. CASE YieldHigher(t) /\ UNCHANGED mutexVars
  BY <1>3, <1>4 DEF YieldHigher, mutexVars, InLockWindows
<1>5. CASE SchedSwitch(t) /\ UNCHANGED mutexVars
  BY <1>3, <1>5 DEF SchedSwitch, mutexVars, InLockWindows
<1>6. CASE LockYield(t)
  BY <1>3, <1>6 DEF LockYield, mutexVars, InLockWindows
<1>7. CASE Sleep(t)
  BY <1>3, <1>7 DEF Sleep, ThreadSleep, InApp, mutexVars, InLockWindows
<1>8. CASE Wakeup(t)
  <2>1. pc' = pc /\ held' = held
    BY <1>8 DEF Wakeup, IsrWakeup, mutexVars
  <2>2. \A u \in Pids : Holds(u)' = Holds(u) /\ Waits(u)' = Waits(u)
    BY <2>1 DEF Holds, Waits
  <2> QED
    BY <1>1, <2>2, RFrame
<1>9. CASE LockReturn(t)
  <2>1. /\ k.active = t /\ pc[t] = "mutex_woken" /\ GoTo(t, k, "app", 0)
        /\ held' = Take(t, arg[t])
    BY <1>9 DEF LockReturn
  <2>2. arg[t] = M
    <3>1. arg[t] \in 1..1
      BY <1>1, <2>1, RmutexConstants DEF MutexInv, ListInv, InLockWindows, Mutexes
    <3> QED
      BY <3>1 DEF M
  <2>3. held' = [held EXCEPT ![t] = @ \cup {M}]
    BY <2>1, <2>2, RmutexSets DEF Take
  <2>4. Holds(t)' /\ \A u \in Pids : u # t => Holds(u)' = Holds(u)
    BY <1>2, <2>3 DEF Holds
  <2>5. pc'[t] = "app" /\ \A u \in Pids : u # t => pc'[u] = pc[u]
    BY <1>1, <2>1, GoToLocks
  <2>6. Waits(t) /\ ~Waits(t)' /\ \A u \in Pids : u # t => Waits(u)' = Waits(u)
    BY <2>1, <2>5 DEF Waits, InLockWindows
  <2>7. \A u \in Pids : ~Holds(u)
    <3>1. t \notin Waiters(M)
      BY <1>1, <2>1, RmutexSets, ActiveIsNoWaiter DEF Unqueued
    <3>2. t \in Owners(M)
      BY <2>1, <2>2, <3>1 DEF Owners, InLock
    <3>3. Owners(M) = {t}
      BY <1>1, <3>2, RmutexSets DEF MutexInv, OwnerInv
    <3>4. \A u \in Pids : Holds(u) => u = t
      BY <1>1, <3>3, OneHolder
    <3>5. ~Holds(t)
      BY <2>6 DEF RInv, RTypes, ThreadInv
    <3> QED
      BY <3>4, <3>5
  <2>8. rpc' = rpc /\ owner' = owner /\ refcount' = refcount /\ depth' = depth
    BY DEF rVars
  <2>9. /\ rpc[t] = "got" /\ depth[t] = 0 /\ refcount = 0
        /\ \A u \in Pids : ThreadInv(u) /\ owner # u
    BY <2>6, <2>7 DEF RInv, ThreadInv
  <2>10. ThreadInv(t)'
    BY <2>4, <2>6, <2>8, <2>9 DEF ThreadInv, Writing
  <2>11. \A u \in Pids : u # t => ThreadInv(u)'
    BY <2>4, <2>6, <2>8, <2>9 DEF ThreadInv
  <2> QED
    BY <1>1, <2>4, <2>8, <2>10, <2>11 DEF RInv, RTypes
<1> QED
  BY <1>4, <1>5, <1>6, <1>7, <1>8, <1>9 DEF Call
---------------------------------------------------------------------------
(* A step of t that leaves the other threads alone.                        *)
LEMMA Update ==
  ASSUME RInv, MutexInv', RTypes', NEW t \in Pids, ThreadInv(t)',
         \A u \in Pids : u # t =>
           /\ Holds(u)' = Holds(u) /\ Waits(u)' = Waits(u)
           /\ rpc'[u] = rpc[u] /\ depth'[u] = depth[u]
           /\ owner' = u <=> owner = u,
         refcount' = refcount \/ \A u \in Pids : u # t => ~Holds(u),
         (\A u \in Pids : ~Holds(u)') => refcount' = 0
  PROVE  RInv'
<1>1. ASSUME NEW u \in Pids, u # t PROVE ThreadInv(u)'
  <2>1. ThreadInv(u)
    BY DEF RInv
  <2> QED
    BY <1>1, <2>1 DEF ThreadInv
<1> QED
  BY <1>1 DEF RInv

(* A step that does not touch the mutex.                                   *)
LEMMA QuietStep ==
  ASSUME RInv, NEW t \in Pids, UNCHANGED vars, InApp(t)
  PROVE  /\ MutexInv' /\ ~Waits(t) /\ ~Waits(t)'
         /\ \A u \in Pids : Holds(u)' = Holds(u) /\ Waits(u)' = Waits(u)
<1>1. pc' = pc /\ held' = held /\ pc[t] = "app"
  BY DEF vars, cpuVars, mutexVars, InApp
<1>2. MutexInv'
  BY MutexStep DEF RInv
<1> QED
  BY <1>1, <1>2 DEF Holds, Waits, InLockWindows

(* The entry: mutex_trylock() and the unlocked read of owner.              *)
LEMMA EntryKeeps ==
  ASSUME RInv, NEW t \in Pids, LockTry(t) \/ ReadOwner(t)
  PROVE  RInv'
<1>1. /\ rpc \in [Pids -> RLabels] /\ depth \in [Pids -> Nat] /\ RTypes
      /\ MutexInv /\ ThreadInv(t) /\ MaxDepth \in Nat
  BY RmutexSets DEF RInv, RTypes
<1>2. ASSUME NEW label \in RLabels, Then(t, label)
      PROVE  /\ rpc' \in [Pids -> RLabels] /\ rpc'[t] = label
             /\ \A u \in Pids : u # t => rpc'[u] = rpc[u]
  BY <1>1, <1>2 DEF Then
<1>3. "got" \in RLabels /\ "read" \in RLabels /\ "lock" \in RLabels /\ "out" \in RLabels
  BY DEF RLabels
<1>4. owner' = owner /\ refcount' = refcount /\ depth' = depth /\ InApp(t)
  BY DEF LockTry, ReadOwner, At
<1>5. CASE UNCHANGED vars
  <2>1. /\ MutexInv' /\ ~Waits(t) /\ ~Waits(t)'
        /\ \A u \in Pids : Holds(u)' = Holds(u) /\ Waits(u)' = Waits(u)
    BY <1>4, <1>5, QuietStep
  <2>2. CASE LockTry(t)
    <3>1. At(t, "out") /\ depth[t] < MaxDepth /\ (Then(t, "read") \/ LockFree(t, M))
      BY <2>2 DEF LockTry
    <3>2. ~LockFree(t, M)
      <4>1. locked' = locked /\ locked \in [Mutexes -> BOOLEAN]
        BY <1>1, <1>5 DEF vars, mutexVars, MutexInv, ListInv
      <4> QED
        BY <4>1, RmutexSets DEF LockFree
    <3>3. /\ rpc[t] = "out" /\ rpc' \in [Pids -> RLabels] /\ rpc'[t] = "read"
          /\ \A u \in Pids : u # t => rpc'[u] = rpc[u]
      BY <1>2, <1>3, <3>1, <3>2 DEF At
    <3>4. ThreadInv(t)'
      BY <1>1, <1>4, <2>1, <3>1, <3>3 DEF ThreadInv, Writing
    <3>5. RTypes'
      BY <1>1, <1>4, <3>3 DEF RTypes
    <3> QED
      BY <1>4, <2>1, <3>3, <3>4, <3>5, Update DEF RInv
  <2>3. CASE ReadOwner(t)
    <3>1. /\ At(t, "read")
          /\ \/ owner = t /\ Then(t, "got")
             \/ owner # t /\ (Then(t, "lock") \/ Then(t, "out"))
      BY <2>3 DEF ReadOwner
    <3>2. rpc[t] = "read" /\ (Holds(t) <=> depth[t] > 0) /\ (owner = t <=> depth[t] > 0)
      BY <1>1, <3>1 DEF At, ThreadInv, Writing
    <3>3. PICK label \in RLabels :
            /\ label \in {"got", "lock", "out"} /\ Then(t, label)
            /\ owner = t <=> label = "got"
      BY <1>3, <3>1
    <3>4. /\ rpc' \in [Pids -> RLabels] /\ rpc'[t] = label
          /\ \A u \in Pids : u # t => rpc'[u] = rpc[u]
      BY <1>2, <3>3
    <3>5. ThreadInv(t)'
      BY <1>1, <1>4, <2>1, <3>2, <3>3, <3>4 DEF ThreadInv, Writing
    <3>6. RTypes'
      BY <1>1, <1>4, <3>4 DEF RTypes
    <3> QED
      BY <1>4, <2>1, <3>4, <3>5, <3>6, Update DEF RInv
  <2> QED
    BY <2>2, <2>3
<1>6. CASE LockTry(t) /\ LockFree(t, M) /\ Then(t, "got")
  <2>1. MutexInv'
    <3>1. [Next]_vars
      BY <1>6, RmutexSets DEF Next, LockStep
    <3> QED
      BY <1>1, <3>1, MutexStep
  <2>2. /\ rpc[t] = "out" /\ depth[t] < MaxDepth /\ pc[t] = "app" /\ ~locked[M]
        /\ pc' = pc /\ held' = [held EXCEPT ![t] = @ \cup {M}]
    BY <1>6, RmutexSets DEF LockTry, At, InApp, LockFree, Take, cpuVars
  <2>3. \A u \in Pids : ~Holds(u)
    BY <1>1, <2>2, OneHolder
  <2>4. Holds(t)' /\ \A u \in Pids : u # t => Holds(u)' = Holds(u)
    <3>1. held \in [Pids -> SUBSET OwnedMutexes]
      BY <1>1 DEF MutexInv, OwnerInv
    <3> QED
      BY <2>2, <3>1 DEF Holds
  <2>5. ~Waits(t)' /\ \A u \in Pids : Waits(u)' = Waits(u)
    BY <2>2 DEF Waits, InLockWindows
  <2>6. /\ rpc' \in [Pids -> RLabels] /\ rpc'[t] = "got"
        /\ \A u \in Pids : u # t => rpc'[u] = rpc[u]
    BY <1>2, <1>3, <1>6
  <2>7. refcount = 0 /\ depth[t] = 0 /\ owner # t
    BY <1>1, <2>3 DEF RInv, ThreadInv
  <2>8. ThreadInv(t)'
    BY <1>1, <1>4, <2>2, <2>4, <2>5, <2>6, <2>7 DEF ThreadInv, Writing
  <2>9. RTypes'
    BY <1>1, <1>4, <2>6 DEF RTypes
  <2> QED
    BY <1>4, <2>1, <2>4, <2>5, <2>6, <2>8, <2>9, Update
<1> QED
  BY <1>5, <1>6 DEF LockTry, ReadOwner

(* mutex_lock() for a thread that found another owner.                     *)
LEMMA LockMutexKeeps ==
  ASSUME RInv, NEW t \in Pids, LockMutex(t)
  PROVE  RInv'
<1>1. /\ rpc \in [Pids -> RLabels] /\ depth \in [Pids -> Nat] /\ RTypes
      /\ MutexInv /\ ThreadInv(t) /\ MaxDepth \in Nat
      /\ held \in [Pids -> SUBSET OwnedMutexes]
  BY RmutexSets DEF RInv, RTypes, MutexInv, OwnerInv
<1>2. /\ rpc[t] = "lock" /\ pc[t] = "app" /\ LockStep(t, M)
      /\ rpc' = [rpc EXCEPT ![t] = "got"]
      /\ owner' = owner /\ refcount' = refcount /\ depth' = depth
  BY DEF LockMutex, At, InApp, Then
<1>3. /\ rpc' \in [Pids -> RLabels] /\ rpc'[t] = "got"
      /\ \A u \in Pids : u # t => rpc'[u] = rpc[u]
  BY <1>1, <1>2 DEF RLabels
<1>4. MutexInv'
  <2>1. [Next]_vars
    BY <1>2, RmutexSets DEF Next
  <2> QED
    BY <1>1, <2>1, MutexStep
<1>5. RTypes'
  BY <1>1, <1>2, <1>3 DEF RTypes
<1>6. ~Holds(t) /\ depth[t] = 0 /\ owner # t /\ depth[t] < MaxDepth /\ ~Waits(t)
  BY <1>1, <1>2 DEF ThreadInv, Writing, Waits, InLockWindows
<1>7. CASE LockFree(t, M)
  <2>1. ~locked[M] /\ pc' = pc /\ held' = [held EXCEPT ![t] = @ \cup {M}]
    BY <1>7, RmutexSets DEF LockFree, Take, cpuVars
  <2>2. \A u \in Pids : ~Holds(u)
    BY <1>1, <2>1, OneHolder
  <2>3. Holds(t)' /\ \A u \in Pids : u # t => Holds(u)' = Holds(u)
    BY <1>1, <2>1 DEF Holds
  <2>4. ~Waits(t)' /\ \A u \in Pids : Waits(u)' = Waits(u)
    BY <1>2, <2>1 DEF Waits, InLockWindows
  <2>5. refcount = 0
    BY <2>2 DEF RInv
  <2>6. ThreadInv(t)'
    BY <1>1, <1>2, <1>3, <1>6, <2>3, <2>4, <2>5 DEF ThreadInv, Writing
  <2> QED
    BY <1>2, <1>3, <1>4, <1>5, <2>3, <2>4, <2>6, Update
<1>8. CASE LockBlock(t, M)
  <2>1. GoTo(t, sched_set_status(k, t, "MUTEX_BLOCKED"), "mutex_yield", M) /\ held' = held
    BY <1>8 DEF LockBlock
  <2>2. pc'[t] = "mutex_yield" /\ \A u \in Pids : u # t => pc'[u] = pc[u]
    BY <1>1, <2>1, GoToLocks
  <2>3. /\ \A u \in Pids : Holds(u)' = Holds(u)
        /\ Waits(t)' /\ \A u \in Pids : u # t => Waits(u)' = Waits(u)
    BY <2>1, <2>2 DEF Holds, Waits, InLockWindows
  <2>4. ThreadInv(t)'
    BY <1>1, <1>2, <1>3, <1>6, <2>3 DEF ThreadInv, Writing
  <2> QED
    BY <1>2, <1>3, <1>4, <1>5, <2>3, <2>4, Update DEF RInv
<1> QED
  BY <1>2, <1>7, <1>8 DEF LockStep
---------------------------------------------------------------------------
(* A thread that has the mutex writes owner and refcount.                  *)
LEMMA WriteKeeps ==
  ASSUME RInv, NEW t \in Pids,
         SetOwner(t) \/ Increment(t) \/ Decrement(t) \/ ClearOwner(t)
  PROVE  RInv'
<1>1. /\ rpc \in [Pids -> RLabels] /\ depth \in [Pids -> Nat] /\ RTypes
      /\ MutexInv /\ ThreadInv(t) /\ MaxDepth \in Nat /\ MaxDepth < 65536
      /\ owner \in Pids \cup {NULL} /\ refcount \in Nat /\ NULL \notin Pids
  BY RmutexSets, CpuConstants DEF RInv, RTypes
<1>2. ASSUME NEW label \in RLabels, Then(t, label)
      PROVE  /\ rpc' \in [Pids -> RLabels] /\ rpc'[t] = label
             /\ \A u \in Pids : u # t => rpc'[u] = rpc[u]
  BY <1>1, <1>2 DEF Then
<1>3. "count" \in RLabels /\ "clear" \in RLabels /\ "release" \in RLabels /\ "out" \in RLabels
  BY DEF RLabels
<1>4. UNCHANGED vars /\ InApp(t)
  BY DEF SetOwner, Increment, Decrement, ClearOwner, At
<1>5. /\ MutexInv' /\ ~Waits(t) /\ ~Waits(t)'
      /\ \A u \in Pids : Holds(u)' = Holds(u) /\ Waits(u)' = Waits(u)
  BY <1>4, QuietStep
<1>6. /\ Holds(t) /\ refcount = depth[t]
      /\ \A u \in Pids : u # t => ~Holds(u) /\ owner # u
  <2>1. Holds(t)
    BY <1>1, <1>5 DEF SetOwner, Increment, Decrement, ClearOwner, At, ThreadInv, Writing
  <2>2. \A u \in Pids : u # t => ~Holds(u)
    BY <1>1, <2>1, OneHolder
  <2> QED
    BY <1>1, <2>1, <2>2 DEF RInv, ThreadInv
<1>7. CASE SetOwner(t)
  <2>1. /\ rpc[t] = "got" /\ owner' = t /\ refcount' = refcount /\ depth' = depth
        /\ Then(t, "count")
    BY <1>7 DEF SetOwner, At
  <2>2. /\ rpc' \in [Pids -> RLabels] /\ rpc'[t] = "count"
        /\ \A u \in Pids : u # t => rpc'[u] = rpc[u]
    BY <1>2, <1>3, <2>1
  <2>3. ThreadInv(t)' /\ RTypes'
    BY <1>1, <1>5, <1>6, <2>1, <2>2, SMTT(30) DEF ThreadInv, Writing, RTypes
  <2> QED
    BY <1>5, <1>6, <2>1, <2>2, <2>3, Update
<1>8. CASE Increment(t)
  <2>1. /\ rpc[t] = "count" /\ owner' = owner /\ refcount' = (refcount + 1) % 2^16
        /\ depth' = [depth EXCEPT ![t] = depth[t] + 1] /\ Then(t, "out")
    BY <1>8 DEF Increment, At
  <2>2. /\ rpc' \in [Pids -> RLabels] /\ rpc'[t] = "out"
        /\ \A u \in Pids : u # t => rpc'[u] = rpc[u]
    BY <1>2, <1>3, <2>1
  <2>3. depth[t] < MaxDepth /\ owner = t
    BY <1>1, <1>6, <2>1 DEF ThreadInv
  <2>4. refcount' = depth[t] + 1
    <3>1. depth[t] + 1 \in Nat /\ depth[t] + 1 < 65536 /\ 65536 \in Nat
      BY <1>1, <2>3
    <3> QED
      BY <1>6, <2>1, <3>1, RmutexSets, Modulo
  <2>5. /\ depth' \in [Pids -> Nat] /\ depth'[t] = depth[t] + 1
        /\ \A u \in Pids : u # t => depth'[u] = depth[u]
    BY <1>1, <2>1
  <2>6. depth'[t] > 0 /\ depth'[t] <= MaxDepth /\ refcount' \in Nat
    BY <1>1, <2>3, <2>4, <2>5
  <2>7. ThreadInv(t)' /\ RTypes'
    BY <1>1, <1>5, <1>6, <2>1, <2>2, <2>3, <2>4, <2>5, <2>6, SMTT(30) DEF ThreadInv, Writing, RTypes
  <2> QED
    BY <1>5, <1>6, <2>1, <2>2, <2>5, <2>7, Update
<1>9. CASE Decrement(t)
  <2>1. /\ rpc[t] = "out" /\ owner' = owner /\ refcount' = (refcount - 1) % 2^16
        /\ depth[t] > 0 /\ depth' = [depth EXCEPT ![t] = depth[t] - 1]
        /\ Then(t, IF refcount' = 0 THEN "clear" ELSE "out")
    BY <1>9 DEF Decrement, At
  <2>2. /\ rpc' \in [Pids -> RLabels]
        /\ rpc'[t] = (IF refcount' = 0 THEN "clear" ELSE "out")
        /\ \A u \in Pids : u # t => rpc'[u] = rpc[u]
    BY <1>2, <1>3, <2>1
  <2>3. depth[t] <= MaxDepth /\ owner = t
    BY <1>1, <1>6, <2>1 DEF ThreadInv
  <2>4. refcount' = depth[t] - 1 /\ depth[t] - 1 \in Nat
    <3>1. depth[t] - 1 \in Nat /\ depth[t] - 1 < 65536 /\ 65536 \in Nat
      BY <1>1, <2>1, <2>3
    <3> QED
      BY <1>6, <2>1, <3>1, RmutexSets, Modulo
  <2>5. /\ depth' \in [Pids -> Nat] /\ depth'[t] = depth[t] - 1
        /\ \A u \in Pids : u # t => depth'[u] = depth[u]
    BY <1>1, <2>1, <2>4
  <2>6. /\ depth'[t] <= MaxDepth /\ refcount' \in Nat
        /\ refcount' = 0 <=> ~(depth'[t] > 0)
    BY <1>1, <2>3, <2>4, <2>5
  <2>7. ThreadInv(t)' /\ RTypes'
    BY <1>1, <1>5, <1>6, <2>1, <2>2, <2>3, <2>4, <2>5, <2>6, SMTT(30) DEF ThreadInv, Writing, RTypes
  <2> QED
    BY <1>5, <1>6, <2>1, <2>2, <2>5, <2>7, Update
<1>10. CASE ClearOwner(t)
  <2>1. /\ rpc[t] = "clear" /\ owner' = NULL /\ refcount' = refcount /\ depth' = depth
        /\ Then(t, "release")
    BY <1>10 DEF ClearOwner, At
  <2>2. /\ rpc' \in [Pids -> RLabels] /\ rpc'[t] = "release"
        /\ \A u \in Pids : u # t => rpc'[u] = rpc[u]
    BY <1>2, <1>3, <2>1
  <2>3. ThreadInv(t)' /\ RTypes'
    BY <1>1, <1>5, <1>6, <2>1, <2>2, SMTT(30) DEF ThreadInv, Writing, RTypes
  <2> QED
    BY <1>1, <1>5, <1>6, <2>1, <2>2, <2>3, Update
<1> QED
  BY <1>7, <1>8, <1>9, <1>10

(* The outermost rmutex_unlock() gives the mutex back.                     *)
LEMMA ReleaseKeeps ==
  ASSUME RInv, NEW t \in Pids, Release(t)
  PROVE  RInv'
<1>1. /\ rpc \in [Pids -> RLabels] /\ depth \in [Pids -> Nat] /\ RTypes
      /\ MutexInv /\ ThreadInv(t) /\ MaxDepth \in Nat
      /\ held \in [Pids -> SUBSET OwnedMutexes]
  BY RmutexSets DEF RInv, RTypes, MutexInv, OwnerInv
<1>2. /\ rpc[t] = "release" /\ pc[t] = "app" /\ (UnlockFree(t, M) \/ UnlockWake(t, M))
      /\ rpc' = [rpc EXCEPT ![t] = "out"]
      /\ owner' = owner /\ refcount' = refcount /\ depth' = depth
  BY DEF Release, At, InApp, Then
<1>3. /\ rpc' \in [Pids -> RLabels] /\ rpc'[t] = "out"
      /\ \A u \in Pids : u # t => rpc'[u] = rpc[u]
  BY <1>1, <1>2 DEF RLabels
<1>4. MutexInv'
  <2>1. [Next]_vars
    BY <1>2, RmutexSets DEF Next, UnlockStep
  <2> QED
    BY <1>1, <2>1, MutexStep
<1>5. RTypes'
  BY <1>1, <1>2, <1>3 DEF RTypes
<1>6. held' = [held EXCEPT ![t] = @ \ {M}]
  BY <1>2 DEF UnlockFree, UnlockWake, Drop
<1>7. ~Holds(t)' /\ \A u \in Pids : u # t => Holds(u)' = Holds(u)
  BY <1>1, <1>6 DEF Holds
<1>8. ~Waits(t)' /\ \A u \in Pids : u # t => Waits(u)' = Waits(u)
  <2>1. pc'[t] \notin InLockWindows /\ \A u \in Pids : u # t => pc'[u] = pc[u]
    <3>1. CASE UnlockFree(t, M)
      BY <1>2, <3>1 DEF UnlockFree, cpuVars, InLockWindows
    <3>2. CASE UnlockWake(t, M)
      <4>1. GoTo(t, sched_set_status(k, Head(queue[M]), "PENDING"), "switch",
                 k.priority[Head(queue[M])])
        BY <3>2 DEF UnlockWake
      <4>2. pc'[t] = "switch" /\ \A u \in Pids : u # t => pc'[u] = pc[u]
        BY <1>1, <4>1, GoToLocks
      <4> QED
        BY <4>2 DEF InLockWindows
    <3> QED
      BY <1>2, <3>1, <3>2
  <2> QED
    BY <2>1 DEF Waits
<1>9. depth[t] = 0 /\ owner # t /\ refcount = 0
  <2>1. ~Waits(t) /\ depth[t] = 0
    BY <1>1, <1>2 DEF Waits, InLockWindows, ThreadInv
  <2> QED
    BY <1>1, <1>2, <2>1 DEF ThreadInv, Writing
<1>10. ThreadInv(t)'
  BY <1>1, <1>2, <1>3, <1>7, <1>8, <1>9 DEF ThreadInv, Writing
<1> QED
  BY <1>2, <1>3, <1>4, <1>5, <1>7, <1>8, <1>9, <1>10, Update
---------------------------------------------------------------------------
(* The inductive invariant holds in every reachable state.                 *)
LEMMA RInvariant == RSpec => []RInv
<1>1. RInit => RInv
  <2> SUFFICES ASSUME RInit PROVE RInv
    OBVIOUS
  <2>1. MutexInv /\ Init
    BY MutexInit DEF RInit
  <2>2. /\ rpc = [t \in Pids |-> "out"] /\ owner = NULL /\ refcount = 0
        /\ depth = [t \in Pids |-> 0]
        /\ held = [t \in Pids |-> {}] /\ pc = [t \in Pids |-> "app"]
    BY DEF RInit, Init, Quiet
  <2>3. RTypes
    BY <2>2 DEF RTypes, RLabels
  <2>4. \A t \in Pids : ~Holds(t) /\ ~Waits(t)
    BY <2>2 DEF Holds, Waits, InLockWindows
  <2>5. \A t \in Pids : ThreadInv(t)
    BY <2>2, <2>4, RmutexSets, CpuConstants DEF ThreadInv, Writing
  <2> QED
    BY <2>1, <2>2, <2>3, <2>5 DEF RInv
<1>2. RInv /\ [RNext]_allVars => RInv'
  <2> SUFFICES ASSUME RInv, [RNext]_allVars PROVE RInv'
    OBVIOUS
  <2>1. CASE UNCHANGED allVars
    <3>1. UNCHANGED vars /\ UNCHANGED rVars /\ pc' = pc /\ held' = held
      BY <2>1 DEF allVars, vars, cpuVars, mutexVars
    <3>2. MutexInv'
      BY <3>1, MutexStep DEF RInv
    <3>3. \A u \in Pids : Holds(u)' = Holds(u) /\ Waits(u)' = Waits(u)
      BY <3>1 DEF Holds, Waits
    <3> QED
      BY <3>1, <3>2, <3>3, RFrame
  <2>2. CASE RNext
    <3>1. PICK t \in Pids :
            \/ RStep(t) \/ LockTry(t) \/ Decrement(t)
            \/ (Call(t) \/ Sleep(t) \/ Wakeup(t)) /\ UNCHANGED rVars
      BY <2>2 DEF RNext
    <3>2. CASE RStep(t) \/ LockTry(t) \/ Decrement(t)
      BY <3>2, EntryKeeps, LockMutexKeeps, WriteKeeps, ReleaseKeeps DEF RStep
    <3>3. CASE (Call(t) \/ Sleep(t) \/ Wakeup(t)) /\ UNCHANGED rVars
      BY <3>3, CallKeeps
    <3> QED
      BY <3>1, <3>2, <3>3
  <2> QED
    BY <2>1, <2>2
<1> QED
  BY <1>1, <1>2, PTL DEF RSpec

(* rmutex.c uses mutex.c as Mutex describes it: the behaviours of the one  *)
(* are behaviours of the other.                                            *)
THEOREM UsesMutex == RSpec => Spec
<1>1. RInit => Init
  BY DEF RInit
<1>2. [RNext]_allVars => [Next]_vars
  BY RStepIsMutexStep
<1> QED
  BY <1>1, <1>2, PTL DEF RSpec, Spec

(* No two threads are between rmutex_lock() and rmutex_unlock() or write   *)
(* owner and refcount at the same time.                                    *)
THEOREM Exclusion == RSpec => []MutualExclusion
<1>1. RInv => MutualExclusion
  <2> SUFFICES ASSUME RInv, NEW t \in Pids, NEW u \in Pids,
                      \/ depth[t] > 0
                      \/ rpc[t] \in Writing /\ pc[t] \notin InLockWindows,
                      \/ depth[u] > 0
                      \/ rpc[u] \in Writing /\ pc[u] \notin InLockWindows
               PROVE  t = u
    BY DEF MutualExclusion, Writing, InLockWindows
  <2>1. Holds(t) /\ Holds(u)
    BY DEF RInv, ThreadInv, Waits
  <2> QED
    BY <2>1, OneHolder DEF RInv
<1> QED
  BY <1>1, RInvariant, PTL

(* A thread that has locked finds itself the owner and its own number of   *)
(* locks in refcount when it unlocks, and refcount does not overflow.      *)
THEOREM Assertions == RSpec => []UnlockAssertions
<1>1. RInv => UnlockAssertions
  <2> SUFFICES ASSUME RInv PROVE UnlockAssertions
    OBVIOUS
  <2>1. \A t \in Pids : (depth[t] > 0 /\ rpc[t] = "out") => owner = t /\ refcount = depth[t]
    BY DEF RInv, ThreadInv
  <2>2. TypeOK
    <3>1. held \in [Pids -> SUBSET Mutexes]
      BY MutexSets DEF RInv, MutexInv, OwnerInv
    <3> QED
      BY <3>1 DEF RInv, MutexInv, CoreInv, ListInv, CpuInv, TypeOK
  <2>3. depth \in [Pids -> 0..MaxDepth]
    <3>1. depth \in [Pids -> Nat] /\ \A t \in Pids : depth[t] <= MaxDepth
      BY DEF RInv, RTypes, ThreadInv
    <3> QED
      BY <3>1, RmutexSets
  <2>4. refcount \in 0..(2^16 - 1)
    <3>1. CASE \E t \in Pids : Holds(t)
      <4>1. PICK t \in Pids : refcount = depth[t] /\ depth[t] \in 0..MaxDepth
        BY <2>3, <3>1 DEF RInv, ThreadInv
      <4> QED
        BY <4>1, RmutexSets
    <3>2. CASE \A t \in Pids : ~Holds(t)
      BY <3>2, RmutexSets DEF RInv
    <3> QED
      BY <3>1, <3>2
  <2> QED
    BY <2>1, <2>2, <2>3, <2>4 DEF RInv, RTypes, RLabels, UnlockAssertions, RTypeOK
<1> QED
  BY <1>1, RInvariant, PTL

(* The unlocked read of owner in _lock() is harmless: a thread that finds  *)
(* another value than its own PID does not hold the mutex.                 *)
THEOREM ReadIsSafe == RSpec => []NoSelfDeadlock
<1>1. RInv => NoSelfDeadlock
  <2> SUFFICES ASSUME RInv, NEW t \in Pids
               PROVE  /\ rpc[t] = "lock" => ~Holds(t)
                      /\ rpc[t] = "read" => (owner = t <=> Holds(t))
    BY DEF NoSelfDeadlock, Holds
  <2>1. ThreadInv(t) /\ depth[t] \in Nat
    BY DEF RInv, RTypes
  <2> QED
    BY <2>1 DEF ThreadInv, Writing
<1> QED
  BY <1>1, RInvariant, PTL
=============================================================================
