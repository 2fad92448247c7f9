------------------------------- MODULE Mutex -------------------------------
(***************************************************************************)
(* core/mutex.c: threads of fixed priorities that lock and unlock mutexes, *)
(* sleep and wake each other, and interrupt handlers that unlock.          *)
(*                                                                         *)
(* mutex_t is one list pointer with three kinds of values; here            *)
(*   locked[m]   queue.next is not NULL                                    *)
(*   queue[m]    the waiting threads, <<>> also when queue.next is         *)
(*               MUTEX_LOCKED                                              *)
(* held[t] is not a variable of the code: the mutexes whose mutex_lock()   *)
(* has returned to t and which t has not unlocked yet.                     *)
(*                                                                         *)
(* Two windows are added to those of Cpu:                                  *)
(*   mutex_yield   blocked on mutex arg[t], about to yield                 *)
(*   mutex_woken   switched away there; when t runs again it takes it for  *)
(*                 granted that it has the mutex                           *)
(***************************************************************************)
EXTENDS Cpu

CONSTANTS
  Prio,        \* the priority of each thread
  NMutex,      \* the number of mutexes
  IsrMutexes   \* those that interrupt handlers unlock, as xtimer does

Mutexes == 1..NMutex

ASSUME MutexConstants ==
  /\ Prio \in [Pids -> Prios]
  /\ Prio[Idle] = IdlePrio
  /\ \A t \in Pids \ {Idle} : Prio[t] < IdlePrio
  /\ NMutex \in Nat
  /\ IsrMutexes \subseteq Mutexes

VARIABLES locked, queue, held

mutexVars == <<locked, queue, held>>
vars == <<cpuVars, mutexVars>>

OwnedMutexes == Mutexes \ IsrMutexes

MutexWindows ==
  {"app", "yield_higher", "switch", "wakeup", "mutex_yield", "mutex_woken"}

(* MUTEX_INIT                                                              *)
Init ==
  /\ k = AllCreated(MaxPid, Prio) /\ Quiet
  /\ locked = [m \in Mutexes |-> FALSE]
  /\ queue = [m \in Mutexes |-> <<>>]
  /\ held = [t \in Pids |-> {}]
---------------------------------------------------------------------------
(* The users' discipline: a thread unlocks what it holds, and does not     *)
(* lock again what it holds.  A mutex of IsrMutexes is a signal and nobody *)
(* owns it.                                                                *)
MayLock(t, m)   == m \in IsrMutexes \/ m \notin held[t]
MayUnlock(t, m) == m \in held[t]

Take(t, m) == [held EXCEPT ![t] = IF m \in IsrMutexes THEN @ ELSE @ \cup {m}]

(* _mutex_lock() of an unlocked mutex, for mutex_lock() and                *)
(* mutex_trylock(); a failed mutex_trylock() changes nothing.              *)
LockFree(t, m) ==
  /\ InApp(t) /\ MayLock(t, m)
  /\ ~locked[m]
  /\ locked' = [locked EXCEPT ![m] = TRUE]
  /\ held' = Take(t, m)
  /\ UNCHANGED <<cpuVars, queue>>

LockBlock(t, m) ==
  /\ InApp(t) /\ MayLock(t, m)
  /\ locked[m]
  /\ GoTo(t, sched_set_status(k, t, "MUTEX_BLOCKED"), "mutex_yield", m)
  /\ queue' = [queue EXCEPT ![m] = thread_add_to_list(k.priority, @, t)]
  /\ UNCHANGED <<locked, held>>

LockYield(t) ==
  /\ k.active = t /\ pc[t] = "mutex_yield"
  /\ GoTo(t, sched_run(k), "mutex_woken", arg[t])
  /\ UNCHANGED mutexVars

(* "We were woken up by scheduler. Waker removed us from queue. We have    *)
(* the mutex now."                                                         *)
LockReturn(t) ==
  /\ k.active = t /\ pc[t] = "mutex_woken"
  /\ GoTo(t, k, "app", 0)
  /\ held' = Take(t, arg[t])
  /\ UNCHANGED <<locked, queue>>
---------------------------------------------------------------------------
Drop(t, m) == [held EXCEPT ![t] = @ \ {m}]

Mut_last_pop_unlocks(m) ==
  /\ queue' = [queue EXCEPT ![m] = Tail(@)]
  /\ locked' = [locked EXCEPT ![m] = Len(queue[m]) > 1]

(* The last waiter leaves MUTEX_LOCKED behind.                             *)
PopWaiter(m) ==
  /\ queue' = [queue EXCEPT ![m] = Tail(@)]
  /\ UNCHANGED locked

UnlockFree(t, m) ==
  /\ InApp(t) /\ MayUnlock(t, m)
  /\ queue[m] = <<>>
  /\ locked' = [locked EXCEPT ![m] = FALSE]
  /\ held' = Drop(t, m)
  /\ UNCHANGED <<cpuVars, queue>>

UnlockWake(t, m) ==
  /\ InApp(t) /\ MayUnlock(t, m)
  /\ queue[m] # <<>>
  /\ LET process == Head(queue[m])
     IN  GoTo(t, sched_set_status(k, process, "PENDING"), "switch", k.priority[process])
  /\ PopWaiter(m)
  /\ held' = Drop(t, m)

Mut_unlock_and_sleep_wakes_nobody(t, m) ==
  /\ InApp(t) /\ MayUnlock(t, m)
  /\ GoTo(t, sched_set_status(k, t, "SLEEPING"), "yield_higher", 0)
  /\ IF queue[m] = <<>>
     THEN /\ locked' = [locked EXCEPT ![m] = FALSE]
          /\ UNCHANGED queue
     ELSE PopWaiter(m)
  /\ held' = Drop(t, m)

(* mutex_unlock_and_sleep()                                                *)
UnlockAndSleep(t, m) ==
  /\ InApp(t) /\ MayUnlock(t, m)
  /\ IF queue[m] = <<>>
     THEN /\ locked' = [locked EXCEPT ![m] = FALSE]
          /\ GoTo(t, sched_set_status(k, t, "SLEEPING"), "yield_higher", 0)
          /\ UNCHANGED queue
     ELSE /\ GoTo(t, sched_set_status(sched_set_status(k, Head(queue[m]), "PENDING"),
                                      t, "SLEEPING"),
                  "yield_higher", 0)
          /\ PopWaiter(m)
  /\ held' = Drop(t, m)

(* mutex_unlock() in an interrupt handler; of an unlocked mutex it returns *)
(* at once.                                                                *)
IsrUnlock(m) ==
  /\ locked[m]
  /\ IF queue[m] = <<>>
     THEN /\ locked' = [locked EXCEPT ![m] = FALSE]
          /\ UNCHANGED <<cpuVars, queue>>
     ELSE /\ LET process == Head(queue[m])
             IN  IsrSwitch(sched_set_status(k, process, "PENDING"), k.priority[process])
          /\ PopWaiter(m)
          /\ UNCHANGED <<pc, arg>>
  /\ UNCHANGED held
---------------------------------------------------------------------------
CpuStep ==
  /\ UNCHANGED mutexVars
  /\ \E t \in Pids :
       \/ YieldHigher(t) \/ SchedSwitch(t) \/ WakeupSwitch(t)
       \/ ThreadSleep(t)
       \/ \E p \in Pids : ThreadWakeup(t, p)
       \/ IsrWakeup(t)

LockStep(t, m)   == LockFree(t, m) \/ LockBlock(t, m)
UnlockStep(t, m) == UnlockFree(t, m) \/ UnlockWake(t, m) \/ UnlockAndSleep(t, m)

Next ==
  \/ CpuStep
  \/ \E t \in Pids : LockYield(t) \/ LockReturn(t)
  \/ \E t \in Pids, m \in Mutexes : LockStep(t, m) \/ UnlockStep(t, m)
  \/ \E m \in IsrMutexes : IsrUnlock(m)

Spec == Init /\ [][Next]_vars
---------------------------------------------------------------------------
Waiters(m) == Range(queue[m])

(* t is in mutex_lock(m), beyond the point where it found m locked: as     *)
(* soon as it runs again it believes to have the mutex.                    *)
InLock(t, m) == pc[t] \in {"mutex_yield", "mutex_woken"} /\ arg[t] = m

(* The threads that mutex_lock(m) has returned to, and those removed from  *)
(* the list by an unlock, which will return from it.                       *)
Owners(m) == {t \in Pids : m \in held[t] \/ (InLock(t, m) /\ t \notin Waiters(m))}

(* The ranges of mutex_t and of the users' records; a mutex that is not    *)
(* locked has no waiters.                                                  *)
TypeOK ==
  /\ CpuTypeOK(MutexWindows)
  /\ locked \in [Mutexes -> BOOLEAN]
  /\ queue \in [Mutexes -> Seq(Pids)]
  /\ held \in [Pids -> SUBSET Mutexes]
  /\ \A m \in Mutexes : ~locked[m] => queue[m] = <<>>

(* A locked mutex has exactly one thread that holds it or has been handed  *)
(* it, an unlocked one none: no two threads in the critical section, and   *)
(* no mutex that stays locked with nobody to unlock it, whatever comes     *)
(* between mutex_unlock() and the return of mutex_lock() in the waiter.    *)
ExactlyOneOwner ==
  \A m \in OwnedMutexes :
    IF locked[m] THEN \E t \in Pids : Owners(m) = {t} ELSE Owners(m) = {}

(* rq_entry links a thread into the list of the mutex it waits for or into *)
(* a run queue: status is MUTEX_BLOCKED exactly while the thread is in the *)
(* list of one mutex, once, with its mutex_lock() of that mutex pending.   *)
BlockedAreQueued ==
  /\ \A m \in Mutexes : IsInjective(queue[m])
  /\ \A t \in Pids :
       k.status[t] = "MUTEX_BLOCKED" <=> \E m \in Mutexes : t \in Waiters(m)
  /\ \A t \in Pids, m \in Mutexes : t \in Waiters(m) => InLock(t, m)

(* The calls of this module keep run queues, statuses and bitcache in      *)
(* agreement, and find and leave the caller at the head of its run queue,  *)
(* as sched_set_status() requires.                                         *)
SchedulerIntact ==
  /\ RunqueueConsistent
  /\ HeadOutside({"yield_higher", "mutex_yield"})

(* The kernel's and the mutexes' structures agree: types, run queues, the  *)
(* most urgent thread on the CPU, and each blocked thread in the list of   *)
(* the one mutex it waits for.                                             *)
MutexIntact == TypeOK /\ SchedulerIntact /\ HighestPriorityRuns /\ BlockedAreQueued

Index(q, t)     == CHOOSE i \in 1..Len(q) : q[i] = t
Before(q, t, u) == Index(q, t) < Index(q, u)

OrderKept ==
  \A m \in Mutexes :
    \A t, u \in Range(queue'[m]) :
      /\ {t, u} \subseteq Waiters(m) =>
           (Before(queue'[m], t, u) <=> Before(queue[m], t, u))
      /\ (t \in Waiters(m) /\ u \notin Waiters(m)) =>
           (Before(queue'[m], t, u) <=> Prio[t] <= Prio[u])

(* The waiters of a mutex never change places, and a new one comes after   *)
(* all those of its priority and above: mutex_unlock(), which takes the    *)
(* first, serves them by priority and, within a priority, in the order of  *)
(* their calls.                                                            *)
NoOvertaking == [][OrderKept]_vars

(* The owner a user of mutex m can speak of.                               *)
Owner(m) ==
  IF locked[m] THEN CHOOSE t \in Pids : t \in Owners(m) ELSE NULL

Lock == INSTANCE AbstractMutex
  WITH Threads <- Pids, Locks <- OwnedMutexes, Priority <- Prio, Nobody <- NULL,
       owner <- [m \in OwnedMutexes |-> Owner(m)],
       waiting <- [m \in OwnedMutexes |-> Waiters(m)]

(* mutex_lock() and mutex_unlock() implement the abstract mutex: a release *)
(* passes the mutex to a waiter of the highest priority in one step, and   *)
(* nobody can take it in between.                                          *)
ImplementsLock == Lock!Spec
============================================================================
