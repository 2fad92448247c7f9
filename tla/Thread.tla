------------------------------- MODULE Thread -------------------------------
(***************************************************************************)
(* A thread's life: thread_create(), sched_task_exit() and everything Cpu  *)
(* has in between, from the state kernel_init() leaves.                    *)
(***************************************************************************)
EXTENDS Cpu

CONSTANTS
  MainPrio,      \* THREAD_PRIORITY_MAIN
  CreatePrios,   \* the priorities the application gives to new threads
  CreateFlags    \* the flags it creates them with

ASSUME ThreadConstants ==
  /\ MainPrio \in 0..(IdlePrio - 1)
  /\ CreatePrios \subseteq 0..(IdlePrio - 1)
  /\ CreateFlags \subseteq Flags

vars == cpuVars

Main == 2

Windows == {"app", "yield_higher", "switch", "wakeup"}

(* kernel_init() and the SVC that starts main().  No interrupt source is   *)
(* configured before main_trampoline() runs auto_init().                   *)
Init == k = sched_run(BootKernel(IdlePrio, MainPrio)) /\ Quiet
---------------------------------------------------------------------------
(* A new thread starts in its function with a stack of its own.            *)
ThreadCreate(t, prio, flag) ==
  /\ InApp(t)
  /\ FreePids(k) # {}
  /\ k' = thread_create(k, prio, flag)
  /\ pc' = [pc EXCEPT ![NewPid(k)] = "app",
                      ![t] = IF flag = "NONE" THEN "switch" ELSE "app"]
  /\ arg' = [arg EXCEPT ![t] = IF flag = "NONE" THEN prio ELSE 0]
  /\ UNCHANGED null_store

TaskExit(t) ==
  /\ InApp(t)
  /\ GoTo(t, sched_task_exit(k), "app", 0)
---------------------------------------------------------------------------
IsrCreate(prio, flag) ==
  /\ ~null_store
  /\ FreePids(k) # {}
  /\ LET k1 == thread_create(k, prio, flag)
     IN  IF flag = "NONE"
         THEN IsrSwitch(k1, prio)
         ELSE k' = k1 /\ UNCHANGED null_store
  /\ pc' = [pc EXCEPT ![NewPid(k)] = "app"]
  /\ UNCHANGED arg
---------------------------------------------------------------------------
KernelStep ==
  \/ \E t \in Pids : YieldHigher(t) \/ SchedSwitch(t) \/ WakeupSwitch(t)
  \/ Svc

AppStep ==
  \E t \in Pids :
    \/ ThreadYield(t)
    \/ ThreadSleep(t)
    \/ \E p \in Pids : ThreadWakeup(t, p)
    \/ \E prio \in CreatePrios, flag \in CreateFlags : ThreadCreate(t, prio, flag)
    \/ TaskExit(t)

IsrStep ==
  \/ \E p \in Pids : IsrWakeup(p)
  \/ \E prio \in CreatePrios, flag \in CreateFlags : IsrCreate(prio, flag)

Next == KernelStep \/ AppStep \/ IsrStep

Spec == Init /\ [][Next]_vars

(* Code outside the kernel is never paused for ever, a call once begun is  *)
(* finished (one core, interrupt handlers return), and a thread that keeps *)
(* reaching its thread_yield() keeps calling it.                           *)
Fairness ==
  /\ WF_vars(KernelStep)
  /\ \A t \in Pids : SF_vars(ThreadYield(t))

FairSpec == Spec /\ Fairness
---------------------------------------------------------------------------
(* The ranges of the variables of core/sched.c, and of the local variable  *)
(* each window of a kernel call still has to use.                          *)
TypeOK == CpuTypeOK(Windows)

(* sched_set_status() removes the head of a run queue, not the thread it   *)
(* is given.  That is right because a running thread is the head of its    *)
(* queue whenever it can call the kernel, in whatever window interrupts    *)
(* have re-queued it before.                                               *)
ActiveIsHead == HeadOutside({"yield_higher"})

(* Run queues, statuses and bitcache agree after any sequence of kernel    *)
(* calls and interrupts, and the next call will find its thread where      *)
(* sched_set_status() looks for it.                                        *)
SchedulerIntact == RunqueueConsistent /\ ActiveIsHead

(* thread_yield() is fair in a priority class: a thread that stays         *)
(* runnable with nothing of higher priority to run gets the CPU again and  *)
(* again if those who have it keep yielding.                               *)
RoundRobin ==
  []NoNullStore =>
    \A t \in Pids :
      <>[](Runnable(k, t) /\ Topmost(k, t)) => []<>(k.active = t)
============================================================================
