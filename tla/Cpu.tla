-------------------------------- MODULE Cpu --------------------------------
(***************************************************************************)
(* One core running threads and interrupt handlers on top of Sched.        *)
(*                                                                         *)
(* A kernel call is atomic while interrupts are disabled.  What is left    *)
(* between its irq_restore() and its return is a window in which an        *)
(* interrupt may strike; pc[t] says in which window thread t is:           *)
(*   app           outside the kernel                                      *)
(*   yield_higher  about to call thread_yield_higher()                     *)
(*   switch        about to call sched_switch(arg[t])                      *)
(*   wakeup        about to read the priority of TCB arg[t] and call       *)
(*                 sched_switch() with it                                  *)
(* and further ones in the modules that extend this one.  active = NULL is *)
(* the window of cpu_switch_context_exit(): interrupts are enabled again   *)
(* and the SVC instruction is next.                                        *)
(***************************************************************************)
EXTENDS Sched

VARIABLES
  k,           \* the scheduler's variables, see Sched
  pc, arg,     \* where each thread is in its kernel call
  null_store   \* isr_pendsv has stored through a NULL sched_active_thread

cpuVars == <<k, pc, arg, null_store>>

(* Nothing is inside a kernel call.                                        *)
Quiet ==
  /\ pc = [t \in Pids |-> "app"]
  /\ arg = [t \in Pids |-> 0]
  /\ null_store = FALSE
---------------------------------------------------------------------------
Mut_InApp_idle_too(t) == k.active = t /\ pc[t] = "app" /\ ~null_store

(* Thread t executes application code.  The idle thread only sleeps.       *)
InApp(t) == k.active = t /\ pc[t] = "app" /\ t # Idle /\ ~null_store

(* t leaves the interrupt-free part of its call with scheduler state k2.   *)
GoTo(t, k2, label, a) ==
  /\ k' = k2
  /\ pc' = [pc EXCEPT ![t] = label]
  /\ arg' = [arg EXCEPT ![t] = a]
  /\ UNCHANGED null_store

ThreadYield(t) ==
  /\ InApp(t)
  /\ GoTo(t, thread_yield(k), "yield_higher", 0)

ThreadSleep(t) ==
  /\ InApp(t)
  /\ GoTo(t, sched_set_status(k, t, "SLEEPING"), "yield_higher", 0)

Sleeping(p) == p \in k.threads /\ k.status[p] = "SLEEPING"

Mut_wakeup_prio_for_pid(t, p) ==
  /\ InApp(t)
  /\ Sleeping(p)
  /\ GoTo(t, sched_set_status(k, p, "RUNNING"), "wakeup", k.priority[p])

ThreadWakeup(t, p) ==
  /\ InApp(t)
  /\ Sleeping(p)
  /\ GoTo(t, sched_set_status(k, p, "RUNNING"), "wakeup", p)
---------------------------------------------------------------------------
(* The rest of a call, after the window.                                   *)
YieldHigher(t) ==
  /\ k.active = t /\ pc[t] = "yield_higher" /\ ~null_store
  /\ GoTo(t, sched_run(k), "app", 0)

SchedSwitch(t) ==
  /\ k.active = t /\ pc[t] = "switch" /\ ~null_store
  /\ GoTo(t, sched_switch(k, arg[t]), "app", 0)

WakeupSwitch(t) ==
  /\ k.active = t /\ pc[t] = "wakeup" /\ ~null_store
  /\ GoTo(t, sched_switch(k, k.priority[arg[t]]), "app", 0)

(* thread_arch_start_threading(): SVC, then isr_svc calls sched_run().     *)
Svc ==
  /\ k.active = NULL /\ ~null_store
  /\ k' = sched_run(k)
  /\ UNCHANGED <<pc, arg, null_store>>
---------------------------------------------------------------------------
(* An interrupt whose handler has brought the scheduler to k1 and calls    *)
(* sched_switch(prio) before it returns.  With no active thread that call  *)
(* reads the TCB at address 0, so it may or may not request a switch; if   *)
(* it does, isr_pendsv saves the stack pointer through the NULL pointer,   *)
(* and what follows is undefined.                                          *)
IsrSwitch(k1, prio) ==
  \/ /\ k1.active # NULL
     /\ k' = cortexm_isr_end(sched_switch_isr(k1, prio))
     /\ UNCHANGED null_store
  \/ /\ k1.active = NULL
     /\ \E request \in BOOLEAN :
          /\ k' = [k1 EXCEPT !.request = request]
          /\ null_store' = request

IsrWakeup(p) ==
  /\ ~null_store
  /\ Sleeping(p)
  /\ IsrSwitch(sched_set_status(k, p, "RUNNING"), k.priority[p])
  /\ UNCHANGED <<pc, arg>>
---------------------------------------------------------------------------
(* The ranges of the variables of core/sched.c, and of the local variable  *)
(* each window of a kernel call, one of windows, still has to use.         *)
CpuTypeOK(windows) ==
  /\ k \in Kernel
  /\ pc \in [Pids -> windows]
  /\ arg \in [Pids -> Nat]
  /\ \A t \in Pids : /\ pc[t] = "switch" => arg[t] \in Prios
                     /\ pc[t] = "wakeup" => arg[t] \in Pids
  /\ null_store \in BOOLEAN

(* sched_runqueues[], thread_t.status and runqueue_bitcache agree: a       *)
(* thread is linked into the queue of its priority, once, exactly when its *)
(* status is on-runqueue; a bit is set exactly when the queue is not       *)
(* empty; only existing threads are runnable.                              *)
RunqueueConsistent == Consistent(k)

(* The active thread is the head of its run queue outside the windows ws.  *)
HeadOutside(ws) ==
  (k.active # NULL /\ pc[k.active] \notin ws) => IsHead(k, k.active)

(* core/include/sched.h: "A higher priority means that the scheduler will  *)
(* run this thread whenever it becomes runnable instead of a thread with a *)
(* lower priority."  Holds without THREAD_CREATE_WOUT_YIELD.               *)
HighestPriorityRuns ==
  (k.active # NULL /\ pc[k.active] = "app") => Topmost(k, k.active)

(* The idle thread can always be scheduled, so that sched_run() never      *)
(* scans an empty bitcache and never follows an empty queue.               *)
AlwaysSchedulable ==
  k.bitcache # {} /\ k.rq[bitarithm_lsb(k.bitcache)] # <<>>

(* sched.h: when an interrupt handler has requested a switch, "the         *)
(* `sched_run()` function is called to determine the next active thread".  *)
NoNullStore == ~null_store
============================================================================
