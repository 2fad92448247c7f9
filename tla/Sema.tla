-------------------------------- MODULE Sema --------------------------------
(***************************************************************************)
(* sys/sema/sema.c: one counting semaphore on top of core/mutex.c, with    *)
(* the timeouts of xtimer_mutex_lock_timeout() (sys/xtimer/xtimer.c).      *)
(*                                                                         *)
(* value and state are the fields of sema_t; its mutex is locked[M] and    *)
(* queue[M].  spc[t] is the next step of thread t in sema.c or xtimer.c:   *)
(*   test      the condition of the loop, interrupts disabled              *)
(*   set       start the timer                                             *)
(*   lock      mutex_lock()                                                *)
(*   remove    xtimer_remove()                                             *)
(*   state     read sema->state after the mutex                            *)
(*   cancel    mutex_unlock() of a canceled wait                           *)
(*   pass      mutex_unlock() of a successful wait                         *)
(*   wake      mutex_unlock() of sema_post() and sema_destroy()            *)
(* or out.  op[t] is its call (try, block or timed); block[t] is the local *)
(* variable block, timer[t] tells that its timer runs, timeout[t] is       *)
(* mt.timeout.                                                             *)
(*                                                                         *)
(* History: wild is set when list_remove() in _mutex_timeout() follows     *)
(* MUTEX_LOCKED, which is no address, and the rest is undefined; early[t]  *)
(* when the timer of t expired before t had entered the mutex's queue.     *)
(***************************************************************************)
EXTENDS Mutex

CONSTANTS
  MaxValue,     \* UINT_MAX
  InitValue,    \* of sema_create()
  Calls         \* Calls[t]: the calls that the program of thread t makes

ASSUME SemaConstants ==
  /\ NMutex = 1 /\ IsrMutexes = {1}
  /\ MaxValue \in Nat \ {0} /\ InitValue \in 0..MaxValue
  /\ Calls \in [Pids -> SUBSET {"try", "block", "timed", "post", "destroy"}]

VARIABLES value, state, spc, op, block, timer, timeout, early, wild

callVars == <<spc, op, block>>
timeVars == <<timer, timeout, early, wild>>
semaVars == <<value, state, callVars, timeVars>>
allVars  == <<vars, semaVars>>

M == 1      \* sema->mutex

Urgent == {t \in Pids : \A u \in Pids \ {t} : Prio[t] < Prio[u]}

(* sema_create()                                                           *)
SInit ==
  /\ k = AllCreated(MaxPid, Prio) /\ Quiet
  /\ locked = [m \in Mutexes |-> InitValue = 0]
  /\ queue = [m \in Mutexes |-> <<>>]
  /\ held = [t \in Pids |-> {}]
  /\ value = InitValue /\ state = "OK"
  /\ spc = [t \in Pids |-> "out"]
  /\ op = [t \in Pids |-> "none"]
  /\ block = [t \in Pids |-> FALSE]
  /\ timer = [t \in Pids |-> FALSE]
  /\ timeout = [t \in Pids |-> FALSE]
  /\ early = [t \in Pids |-> FALSE]
  /\ wild = FALSE
---------------------------------------------------------------------------
At(t, label)   == InApp(t) /\ spc[t] = label /\ ~wild
Then(t, label) == spc' = [spc EXCEPT ![t] = label]

(* The call returns.                                                       *)
Return(t) ==
  /\ Then(t, "out")
  /\ op' = [op EXCEPT ![t] = "none"]
  /\ block' = [block EXCEPT ![t] = FALSE]

(* mutex_unlock(), by whichever thread                                     *)
mutex_unlock(t) ==
  IF queue[M] = <<>>
  THEN /\ locked' = [locked EXCEPT ![M] = FALSE]
       /\ UNCHANGED <<cpuVars, queue, held>>
  ELSE /\ LET process == Head(queue[M])
          IN  GoTo(t, sched_set_status(k, process, "PENDING"), "switch", k.priority[process])
       /\ PopWaiter(M)
       /\ UNCHANGED held

(* _sema_wait() up to the loop                                             *)
Wait(t) ==
  /\ At(t, "out") /\ state = "OK"
  /\ \E o \in Calls[t] \cap {"try", "block", "timed"} :
       /\ op' = [op EXCEPT ![t] = o]
       /\ block' = [block EXCEPT ![t] = o # "try"]
  /\ Then(t, "test")
  /\ UNCHANGED <<vars, value, state, timeVars>>

Mut_test_keeps_the_mutex(t) ==
  /\ At(t, "test")
  /\ \/ /\ value = 0 /\ block[t]
        /\ Then(t, IF op[t] = "timed" THEN "set" ELSE "lock")
        /\ UNCHANGED <<value, op, block>>
     \/ /\ value = 0 /\ ~block[t]
        /\ Return(t) /\ UNCHANGED value
     \/ /\ value > 0
        /\ value' = value - 1
        /\ Return(t)
  /\ UNCHANGED <<vars, state, timeVars>>

(* The loop, and what follows it: a blocking call that leaves units over   *)
(* passes the mutex on.                                                    *)
Test(t) ==
  /\ At(t, "test")
  /\ \/ /\ value = 0 /\ block[t]
        /\ Then(t, IF op[t] = "timed" THEN "set" ELSE "lock")
        /\ UNCHANGED <<value, op, block>>
     \/ /\ value = 0 /\ ~block[t]
        /\ Return(t) /\ UNCHANGED value
     \/ /\ value > 0
        /\ value' = value - 1
        /\ IF op[t] # "try" /\ value' > 0 THEN Then(t, "pass") /\ UNCHANGED <<op, block>>
           ELSE Return(t)
  /\ UNCHANGED <<vars, state, timeVars>>

(* xtimer_mutex_lock_timeout(): _xtimer_set64()                            *)
Set(t) ==
  /\ At(t, "set")
  /\ timer' = [timer EXCEPT ![t] = TRUE]
  /\ timeout' = [timeout EXCEPT ![t] = FALSE]
  /\ Then(t, "lock")
  /\ UNCHANGED <<vars, value, state, op, block, early, wild>>

LockMutex(t) ==
  /\ At(t, "lock")
  /\ LockStep(t, M)
  /\ Then(t, IF op[t] = "timed" THEN "remove" ELSE "state")
  /\ UNCHANGED <<value, state, op, block, timeVars>>

Mut_remove_ignores_timeout(t) ==
  /\ At(t, "remove")
  /\ timer' = [timer EXCEPT ![t] = FALSE]
  /\ timeout' = [timeout EXCEPT ![t] = FALSE]
  /\ early' = [early EXCEPT ![t] = FALSE]
  /\ Then(t, "state")
  /\ UNCHANGED <<vars, value, state, op, block, wild>>

(* xtimer_remove(), and the comparison of the time elapsed with us.        *)
(* mt.timeout, read for the last time, and early are reset.                *)
Remove(t) ==
  /\ At(t, "remove")
  /\ timer' = [timer EXCEPT ![t] = FALSE]
  /\ timeout' = [timeout EXCEPT ![t] = FALSE]
  /\ early' = [early EXCEPT ![t] = FALSE]
  /\ \E over \in BOOLEAN : block' = [block EXCEPT ![t] = ~timeout[t] /\ ~over]
  /\ Then(t, "state")
  /\ UNCHANGED <<vars, value, state, op, wild>>

ReadState(t) ==
  /\ At(t, "state")
  /\ Then(t, IF state = "OK" THEN "test" ELSE "cancel")
  /\ UNCHANGED <<vars, value, state, op, block, timeVars>>

(* The mutex_unlock() at the end of a call                                 *)
Unlock(t) ==
  /\ spc[t] \in {"cancel", "pass", "wake"} /\ At(t, spc[t])
  /\ mutex_unlock(t)
  /\ Return(t)
  /\ UNCHANGED <<value, state, timeVars>>

(* sema_post(); nobody posts to a semaphore after destroying it.           *)
Post(t) ==
  /\ At(t, "out") /\ "post" \in Calls[t]
  /\ state = "OK" /\ value < MaxValue
  /\ value' = value + 1
  /\ IF value = 0 THEN Then(t, "wake") ELSE UNCHANGED spc
  /\ UNCHANGED <<vars, state, op, block, timeVars>>

Destroy(t) ==
  /\ At(t, "out") /\ "destroy" \in Calls[t] /\ state = "OK"
  /\ state' = "DESTROY"
  /\ Then(t, "wake")
  /\ UNCHANGED <<vars, value, op, block, timeVars>>
---------------------------------------------------------------------------
(* Interrupts: sema_post() in a handler, and _mutex_timeout()              *)
IsrPost ==
  /\ state = "OK" /\ value < MaxValue /\ ~wild
  /\ value' = value + 1
  /\ IF value = 0 /\ locked[M] THEN IsrUnlock(M) ELSE UNCHANGED vars
  /\ UNCHANGED <<state, callVars, timeVars>>

(* core/include/list.h                                                     *)
list_remove(list, t) ==
  IF t \in Range(list)
  THEN LET i == Index(list, t)
       IN  SubSeq(list, 1, i - 1) \o SubSeq(list, i + 1, Len(list))
  ELSE list

Mut_timeout_keeps_queue(t) ==
  /\ timer[t] /\ ~wild
  /\ timer' = [timer EXCEPT ![t] = FALSE]
  /\ timeout' = [timeout EXCEPT ![t] = TRUE]
  /\ early' = [early EXCEPT ![t] = spc[t] = "lock"]
  /\ k' = sched_run(sched_set_status(k, t, "PENDING"))
  /\ UNCHANGED <<pc, arg, null_store, mutexVars, wild, value, state, callVars>>

Mut_timeout_removes_first(t) ==
  /\ timer[t] /\ ~wild
  /\ timer' = [timer EXCEPT ![t] = FALSE]
  /\ timeout' = [timeout EXCEPT ![t] = TRUE]
  /\ early' = [early EXCEPT ![t] = spc[t] = "lock"]
  /\ wild' = (locked[M] /\ queue[M] = <<>>)
  /\ queue' = [queue EXCEPT ![M] = IF @ = <<>> THEN @ ELSE Tail(@)]
  /\ k' = IF wild' \/ queue[M] = <<>> THEN k
          ELSE sched_run(sched_set_status(k, Head(queue[M]), "PENDING"))
  /\ UNCHANGED <<pc, arg, null_store, locked, held, value, state, callVars>>

(* A timer whose thread is not, or no longer, in the queue of the mutex    *)
(* looks for it all the same.                                              *)
MutexTimeout(t) ==
  /\ timer[t] /\ ~wild
  /\ timer' = [timer EXCEPT ![t] = FALSE]
  /\ timeout' = [timeout EXCEPT ![t] = TRUE]
  /\ early' = [early EXCEPT ![t] = spc[t] = "lock"]
  /\ wild' = (locked[M] /\ queue[M] = <<>>)
  /\ queue' = [queue EXCEPT ![M] = list_remove(@, t)]
  /\ k' = IF wild' THEN k ELSE sched_run(sched_set_status(k, t, "PENDING"))
  /\ UNCHANGED <<pc, arg, null_store, locked, held, value, state, callVars>>
---------------------------------------------------------------------------
Call(t) ==
  /\ ~wild
  /\ \/ (YieldHigher(t) \/ SchedSwitch(t)) /\ UNCHANGED mutexVars
     \/ LockYield(t) \/ LockReturn(t)

SStep(t) ==
  Test(t) \/ Set(t) \/ LockMutex(t) \/ Remove(t) \/ ReadState(t) \/ Unlock(t)

(* Only the most urgent thread sleeps, to let the others run.              *)
Sleep(t)  == t \in Urgent /\ At(t, "out") /\ ThreadSleep(t) /\ UNCHANGED mutexVars
Wakeup(t) == ~wild /\ IsrWakeup(t) /\ UNCHANGED mutexVars

SNext ==
  \/ IsrPost
  \/ \E t \in Pids :
       \/ SStep(t) \/ Wait(t) \/ Post(t) \/ Destroy(t) \/ MutexTimeout(t)
       \/ (Call(t) \/ Sleep(t) \/ Wakeup(t)) /\ UNCHANGED semaVars

SSpec == SInit /\ [][SNext]_allVars

(* Calls are finished whenever their thread has the CPU.  Of the timers    *)
(* only those of the most urgent thread need to be fair: one that runs     *)
(* expires, and us, from which each round of a timed wait takes the time   *)
(* elapsed, is used up by rounds without end.                              *)
SFairSpec ==
  /\ SSpec
  /\ WF_allVars(\E t \in Pids : SStep(t) \/ (Call(t) /\ UNCHANGED semaVars))
  /\ \A t \in Urgent :
       /\ WF_allVars(MutexTimeout(t))
       /\ SF_allVars(Remove(t) /\ ~block'[t])
---------------------------------------------------------------------------
(* The ranges of sema_t, of the local variables of its functions and of    *)
(* the mutex; the scheduler's and the mutex's structures stay intact under *)
(* _mutex_timeout(), which takes a thread out of the queue of a mutex from *)
(* an interrupt.                                                           *)
SemaIntact ==
  /\ TypeOK /\ SchedulerIntact /\ HighestPriorityRuns /\ BlockedAreQueued
  /\ value \in 0..MaxValue /\ state \in {"OK", "DESTROY"}
  /\ spc \in [Pids -> {"out", "test", "set", "lock", "remove", "state",
                       "cancel", "pass", "wake"}]
  /\ \A t \in Pids : timer[t] => op[t] = "timed" /\ spc[t] \in {"lock", "remove"}

(* t is in a call and not blocked: it will go on by itself.                *)
Inside(t) == spc[t] # "out" /\ t \notin Waiters(M)

(* Nobody sleeps on a semaphore that has been posted or destroyed: while a *)
(* thread is blocked and value is not 0, or state is SEMA_DESTROY, another *)
(* call is on its way to the mutex_unlock() that wakes the thread, however *)
(* posts, waits, timeouts and the destruction interleave.                  *)
NobodyForgotten ==
  (Waiters(M) # {} /\ (value > 0 \/ state = "DESTROY")) => \E t \in Pids : Inside(t)

(* A thread blocked in a timed wait has its timer running, unless it ran   *)
(* out before the thread got into the mutex's queue: then _mutex_timeout() *)
(* finds nothing to remove, and the wait has no end of its own.            *)
TimedWaitIsTimed ==
  \A t \in Waiters(M) : op[t] = "timed" => timer[t] \/ early[t]

(* The most urgent thread returns from sema_wait_timed() in any case, that *)
(* one excepted: by a post, by the destruction or by its timeout.          *)
TimedWaitReturns ==
  \A t \in Urgent : op[t] = "timed" ~> (op[t] = "none" \/ early[t] \/ wild)
============================================================================
