--------------------------- MODULE ThreadProofs ---------------------------
(***************************************************************************)
(* The safety properties of Thread, for any number of threads and of       *)
(* priorities.                                                             *)
(***************************************************************************)
EXTENDS Thread, CpuProofs

(* The inductive invariant.  ActiveIsHead is what sched_set_status() needs *)
(* to pop the right thread; that the idle thread is always runnable and    *)
(* never inside a kernel call is what sched_run() needs to find a thread.  *)
IInv ==
  /\ TypeOK
  /\ Consistent(k)
  /\ ActiveIsHead
  /\ k.active # NULL => k.active \in k.threads
  /\ Idle \in k.threads /\ Runnable(k, Idle) /\ pc[Idle] = "app"

(* The constants of this system.                                           *)
LEMMA Constants ==
  /\ Idle \in Pids /\ Main \in Pids /\ NULL \notin Pids
  /\ IdlePrio \in Prios /\ MainPrio \in Prios /\ CreatePrios \subseteq Prios
BY SchedConstants, ThreadConstants
DEF Idle, Main, Pids, NULL, IdlePrio, Prios

(* What IInv says of the active thread.                                    *)
LEMMA ActiveFacts ==
  ASSUME IInv, NEW t \in Pids, k.active = t, pc[t] # "yield_higher"
  PROVE  KInv(k) /\ IsHead(k, t) /\ Runnable(k, t) /\ t \in k.threads
BY Constants, HeadRunnable, Zenon DEF IInv, TypeOK, CpuTypeOK, ActiveIsHead, HeadOutside, KInv

(* sched_run() leaves the head of a queue active, so that any window may   *)
(* follow it.                                                              *)
LEMMA RunKeepsIInv ==
  ASSUME IInv, k' = sched_run(k),
         pc' \in [Pids -> Windows], pc'[Idle] = "app", arg' \in [Pids -> Nat],
         \A t \in Pids : /\ pc'[t] = "switch" => arg'[t] \in Prios
                         /\ pc'[t] = "wakeup" => arg'[t] \in Pids,
         UNCHANGED null_store
  PROVE  IInv'
<1>1. KInv(k) /\ k.bitcache # {}
  BY Constants, RunnableBit, Zenon DEF IInv, TypeOK, CpuTypeOK, KInv
<1>2. /\ KInv(k') /\ k'.active \in Pids /\ IsHead(k', k'.active)
      /\ k'.threads = k.threads
      /\ \A u \in Pids : Runnable(k', u) <=> Runnable(k, u)
  BY <1>1, SchedRun, Zenon
<1>3. k'.active \in k'.threads
  BY <1>2, HeadRunnable, Zenon
<1>4. TypeOK'
  BY <1>2, Zenon DEF IInv, TypeOK, CpuTypeOK, KInv
<1> QED
  BY <1>2, <1>3, <1>4, Constants, Zenon DEF IInv, KInv, ActiveIsHead, HeadOutside

(* The end of an interrupt handler that has brought the scheduler to k1:   *)
(* either it schedules, or nothing but the wake-up has happened.           *)
LEMMA IsrKeepsIInv ==
  ASSUME IInv, NEW k1, KInv(k1), NEW prio \in Prios, IsrSwitch(k1, prio),
         k1.active = k.active, k.threads \subseteq k1.threads,
         \A u \in k.threads : Runnable(k, u) => Runnable(k1, u),
         \A u \in k.threads : IsHead(k, u) => IsHead(k1, u),
         pc' \in [Pids -> Windows], arg' = arg,
         \A u \in k.threads : pc'[u] = pc[u],
         \A u \in Pids : pc'[u] = pc[u] \/ pc'[u] = "app"
  PROVE  IInv'
<1>0. /\ k.threads \subseteq Pids /\ k1.threads \subseteq Pids
      /\ Idle \in Pids /\ Idle \in k1.threads /\ Runnable(k1, Idle)
      /\ pc'[Idle] = "app" /\ k1.active \in Pids \cup {NULL}
  BY Constants, Zenon DEF IInv, TypeOK, CpuTypeOK, KInv, Kernel
<1>1. /\ pc' \in [Pids -> Windows] /\ arg' \in [Pids -> Nat]
      /\ \A t \in Pids : /\ pc'[t] = "switch" => arg'[t] \in Prios
                         /\ pc'[t] = "wakeup" => arg'[t] \in Pids
  BY Zenon DEF IInv, TypeOK, CpuTypeOK
<1>2. CASE k1.active # NULL
  <2>1. k1.bitcache # {} /\ k1.active \in Pids
    BY <1>0, <1>2, RunnableBit, Zenon
  <2>2. k' = cortexm_isr_end(sched_switch_isr(k1, prio)) /\ UNCHANGED null_store
    BY <1>2, Zenon DEF IsrSwitch
  <2>3. /\ KInv(k') /\ k'.active \in Pids /\ k'.threads = k1.threads
        /\ \A u \in Pids : Runnable(k', u) <=> Runnable(k1, u)
        /\ IsHead(k', k'.active) \/ k' = k1
    BY <2>1, <2>2, IsrEnd
  <2>4. TypeOK'
    BY <1>1, <2>2, <2>3, Zenon DEF IInv, TypeOK, CpuTypeOK, KInv
  <2>5. k'.active \in k'.threads
    BY <1>2, <2>3, HeadRunnable, Zenon DEF IInv
  <2>6. ActiveIsHead'
    BY <1>2, <2>3, Zenon DEF IInv, ActiveIsHead, HeadOutside
  <2> QED
    BY <1>0, <2>3, <2>4, <2>5, <2>6, Zenon DEF IInv, KInv
<1>3. CASE k1.active = NULL
  <2>1. PICK request \in BOOLEAN : /\ k' = [k1 EXCEPT !.request = request]
                                   /\ null_store' = request
    BY <1>3, Zenon DEF IsrSwitch
  <2>2. /\ k' \in Kernel /\ k'.active = NULL /\ k'.threads = k1.threads
        /\ k'.status = k1.status /\ k'.priority = k1.priority
        /\ k'.rq = k1.rq /\ k'.bitcache = k1.bitcache
    BY <1>3, <2>1, Zenon DEF KInv, Kernel
  <2>3. Consistent(k') /\ Runnable(k', Idle)
    BY <1>0, <2>2 DEF KInv, Consistent, Runnable
  <2>4. TypeOK'
    BY <1>1, <2>1, <2>2, Zenon DEF TypeOK, CpuTypeOK
  <2> QED
    BY <1>0, <2>2, <2>3, <2>4, Zenon DEF IInv, ActiveIsHead, HeadOutside
<1> QED
  BY <1>2, <1>3, Zenon
---------------------------------------------------------------------------
(* kernel_init() leaves idle and main runnable, and main active.           *)
LEMMA InitIInv == Init => IInv /\ Topmost(k, k.active)
<1> SUFFICES ASSUME Init PROVE IInv /\ Topmost(k, k.active)
  BY Zenon
<1> DEFINE k0 == NoThreads
           k1 == thread_create(k0, IdlePrio, "WOUT_YIELD")
           k2 == thread_create(k1, MainPrio, "WOUT_YIELD")
<1>1. KInv(k0)
  BY NoThreadsKInv, Zenon
<1>2. k0.threads = {} /\ k0.active = NULL /\ k0.request = FALSE
  BY Zenon DEF NoThreads
<1>3. k = sched_run(k2)
  BY Zenon DEF Init, Quiet, BootKernel
<1> HIDE DEF k0
<1>4. FreePids(k0) # {} /\ NewPid(k0) = Idle
  <2>1. FreePids(k0) = Pids
    BY <1>2, Zenon DEF FreePids
  <2>2. Idle \in Pids /\ \A q \in Pids : Idle <= q
    BY Constants DEF Idle, Pids
  <2>3. \A p \in Pids : (\A q \in Pids : p <= q) => p = Idle
    BY <2>2 DEF Pids
  <2> QED
    BY <2>1, <2>2, <2>3, Zenon DEF NewPid
<1>5. "WOUT_YIELD" # "SLEEPING" /\ "WOUT_YIELD" \in Flags
  BY Zenon DEF Flags
<1>6. /\ KInv(k1) /\ k1.threads = {Idle} /\ k1.active = NULL
      /\ Runnable(k1, Idle)
  <2>1. CreateEffect(k0, k1, IdlePrio, "WOUT_YIELD")
    BY <1>1, <1>4, <1>5, Constants, Create, Zenon
  <2> QED
    BY <2>1, <1>2, <1>4, <1>5, Zenon DEF CreateEffect
<1> HIDE DEF k1
<1>7. FreePids(k1) # {}
  BY <1>6, SchedConstants DEF FreePids, Pids, Idle
<1>8. KInv(k2) /\ Idle \in k2.threads /\ Runnable(k2, Idle)
  <2>1. CreateEffect(k1, k2, MainPrio, "WOUT_YIELD")
    BY <1>5, <1>6, <1>7, Constants, Create, Zenon
  <2> QED
    BY <2>1, <1>6, Constants, Zenon DEF CreateEffect, Runnable
<1> HIDE DEF k2
<1>9. /\ KInv(k) /\ k.active \in Pids
      /\ IsHead(k, k.active) /\ Topmost(k, k.active)
      /\ Idle \in k.threads /\ Runnable(k, Idle)
  BY <1>3, <1>8, Constants, RunnableBit, SchedRun, Zenon
<1>10. k.active \in k.threads
  BY <1>9, HeadRunnable, Zenon
<1>11. TypeOK
  BY <1>9, SchedConstants, Zenon DEF Init, Quiet, TypeOK, CpuTypeOK, KInv, Windows, Pids
<1> QED
  BY <1>9, <1>10, <1>11, Constants, Zenon DEF IInv, Init, Quiet, KInv, ActiveIsHead, HeadOutside

(* Every operation of a thread, every rest of one after its window and     *)
(* every interrupt preserves the invariant.                                *)
LEMMA NextIInv == IInv /\ [Next]_vars => IInv'
<1> SUFFICES ASSUME IInv, [Next]_vars PROVE IInv'
  BY Zenon
<1> USE Constants
<1>0. /\ KInv(k) /\ k \in Kernel /\ k.threads \subseteq Pids
      /\ pc \in [Pids -> Windows] /\ arg \in [Pids -> Nat] /\ null_store \in BOOLEAN
      /\ \A u \in Pids : /\ pc[u] = "switch" => arg[u] \in Prios
                         /\ pc[u] = "wakeup" => arg[u] \in Pids
      /\ Idle \in k.threads /\ Runnable(k, Idle) /\ pc[Idle] = "app"
  BY Zenon DEF IInv, TypeOK, CpuTypeOK, KInv, Kernel
<1>1. CASE UNCHANGED vars
  BY <1>1, Zenon DEF vars, cpuVars, IInv, TypeOK, CpuTypeOK, ActiveIsHead, HeadOutside
<1>2. ASSUME NEW t \in Pids, ThreadYield(t) PROVE IInv'
  <2>1. /\ k.active = t /\ t # Idle /\ k' = thread_yield(k)
        /\ pc' = [pc EXCEPT ![t] = "yield_higher"]
        /\ arg' = [arg EXCEPT ![t] = 0] /\ UNCHANGED null_store
    BY <1>2, Zenon DEF ThreadYield, InApp, GoTo
  <2>2. /\ KInv(k') /\ k'.active = t /\ k'.threads = k.threads /\ k'.status = k.status
    BY <1>0, <2>1, Yield, Zenon
  <2>3. TypeOK'
    BY <1>0, <2>1, <2>2, Zenon DEF TypeOK, CpuTypeOK, KInv, Windows
  <2> QED
    BY <1>0, <2>1, <2>2, <2>3, Zenon DEF IInv, KInv, ActiveIsHead, HeadOutside, Runnable
<1>3. ASSUME NEW t \in Pids, ThreadSleep(t) PROVE IInv'
  <2>1. /\ k.active = t /\ pc[t] = "app" /\ t # Idle
        /\ k' = sched_set_status(k, t, "SLEEPING")
        /\ pc' = [pc EXCEPT ![t] = "yield_higher"]
        /\ arg' = [arg EXCEPT ![t] = 0] /\ UNCHANGED null_store
    BY <1>3, Zenon DEF ThreadSleep, InApp, GoTo
  <2>2. IsHead(k, t) /\ Runnable(k, t) /\ t \in k.threads /\ "SLEEPING" \in Blocked
    BY <2>1, ActiveFacts, Zenon DEF Blocked
  <2>3. /\ KInv(k') /\ k'.active = t /\ k'.threads = k.threads
        /\ k'.status = [k.status EXCEPT ![t] = "SLEEPING"]
    BY <1>0, <2>1, <2>2, SetStatusLeave
  <2>4. TypeOK'
    BY <1>0, <2>1, <2>3, Zenon DEF TypeOK, CpuTypeOK, KInv, Windows
  <2>5. Runnable(k', Idle)
    BY <1>0, <2>1, <2>3, Zenon DEF Runnable, Kernel
  <2> QED
    BY <1>0, <2>1, <2>2, <2>3, <2>4, <2>5, Zenon DEF IInv, KInv, ActiveIsHead, HeadOutside
<1>4. ASSUME NEW t \in Pids, NEW p \in Pids, ThreadWakeup(t, p) PROVE IInv'
  <2>1. /\ k.active = t /\ pc[t] = "app" /\ t # Idle
        /\ p \in k.threads /\ k.status[p] = "SLEEPING"
        /\ k' = sched_set_status(k, p, "RUNNING")
        /\ pc' = [pc EXCEPT ![t] = "wakeup"]
        /\ arg' = [arg EXCEPT ![t] = p] /\ UNCHANGED null_store
    BY <1>4, Zenon DEF ThreadWakeup, InApp, Sleeping, GoTo
  <2>2. IsHead(k, t) /\ t \in k.threads
    BY <2>1, ActiveFacts, Zenon
  <2>3. ~Runnable(k, p) /\ "RUNNING" \in OnRunqueue
    BY <2>1, Zenon DEF Runnable, OnRunqueue
  <2>4. /\ KInv(k') /\ k'.active = t /\ k'.threads = k.threads
        /\ k'.status = [k.status EXCEPT ![p] = "RUNNING"]
        /\ \A u \in Pids : IsHead(k, u) => IsHead(k', u)
    BY <1>0, <2>1, <2>3, SetStatusEnter
  <2>5. TypeOK'
    <3>1. p \in Nat
      BY SchedConstants DEF Pids
    <3>2. /\ pc' \in [Pids -> Windows] /\ arg' \in [Pids -> Nat]
          /\ \A u \in Pids : u # t => arg'[u] = arg[u] /\ pc'[u] = pc[u]
          /\ pc'[t] = "wakeup" /\ arg'[t] = p
      BY <1>0, <2>1, <3>1, Zenon DEF Windows
    <3> QED
      BY <1>0, <2>1, <2>4, <3>2 DEF TypeOK, CpuTypeOK, KInv
  <2>6. Runnable(k', Idle)
    BY <1>0, <2>3, <2>4 DEF Runnable, Kernel
  <2> QED
    BY <1>0, <2>1, <2>2, <2>4, <2>5, <2>6, Zenon DEF IInv, KInv, ActiveIsHead, HeadOutside
<1>5. ASSUME NEW t \in Pids, NEW prio \in CreatePrios, NEW flag \in CreateFlags,
             ThreadCreate(t, prio, flag)
      PROVE  IInv'
  <2>1. /\ k.active = t /\ pc[t] = "app" /\ t # Idle /\ FreePids(k) # {}
        /\ k' = thread_create(k, prio, flag)
        /\ pc' = [pc EXCEPT ![NewPid(k)] = "app",
                            ![t] = IF flag = "NONE" THEN "switch" ELSE "app"]
        /\ arg' = [arg EXCEPT ![t] = IF flag = "NONE" THEN prio ELSE 0]
        /\ UNCHANGED null_store
    BY <1>5, Zenon DEF ThreadCreate, InApp
  <2>2. IsHead(k, t) /\ t \in k.threads
    BY <2>1, ActiveFacts, Zenon
  <2>3. CreateEffect(k, k', prio, flag)
    BY <1>0, <2>1, Create, ThreadConstants, Zenon
  <2>4. prio \in Nat
    BY SchedConstants DEF Prios
  <2>5. TypeOK'
    <3>1. /\ pc' \in [Pids -> Windows] /\ arg' \in [Pids -> Nat]
          /\ \A u \in Pids : u # t => arg'[u] = arg[u] /\ pc'[u] \in {"app", pc[u]}
      BY <1>0, <2>1, <2>4, Zenon DEF Windows
    <3>2. /\ pc'[t] # "wakeup"
          /\ pc'[t] = "switch" => arg'[t] = prio
      BY <1>0, <2>1, Zenon
    <3> QED
      BY <1>0, <2>1, <2>3, <3>1, <3>2 DEF TypeOK, CpuTypeOK, KInv, CreateEffect
  <2>6. Runnable(k', Idle)
    BY <1>0, <2>3, Zenon DEF Runnable, CreateEffect
  <2> QED
    BY <1>0, <2>1, <2>2, <2>3, <2>5, <2>6, Zenon DEF IInv, KInv, ActiveIsHead, HeadOutside, CreateEffect
<1>6. ASSUME NEW t \in Pids, TaskExit(t) PROVE IInv'
  <2>1. /\ k.active = t /\ pc[t] = "app" /\ t # Idle
        /\ k' = sched_task_exit(k)
        /\ pc' = [pc EXCEPT ![t] = "app"]
        /\ arg' = [arg EXCEPT ![t] = 0] /\ UNCHANGED null_store
    BY <1>6, Zenon DEF TaskExit, InApp, GoTo
  <2>2. IsHead(k, t) /\ Runnable(k, t)
    BY <2>1, ActiveFacts, Zenon
  <2>3. /\ KInv(k') /\ k'.active = NULL /\ k'.threads = k.threads \ {t}
        /\ k'.status = [k.status EXCEPT ![t] = "STOPPED"]
    BY <1>0, <2>1, <2>2, Exit, Zenon
  <2>4. TypeOK'
    BY <1>0, <2>1, <2>3, Zenon DEF TypeOK, CpuTypeOK, KInv, Windows
  <2>5. Runnable(k', Idle)
    BY <1>0, <2>1, <2>3, Zenon DEF Runnable, Kernel
  <2> QED
    BY <1>0, <2>1, <2>3, <2>4, <2>5, Zenon DEF IInv, KInv, ActiveIsHead, HeadOutside
<1>7. ASSUME NEW t \in Pids, YieldHigher(t) \/ SchedSwitch(t) \/ WakeupSwitch(t)
      PROVE  IInv'
  <2>1. /\ k.active = t /\ t # Idle
        /\ pc' = [pc EXCEPT ![t] = "app"]
        /\ arg' = [arg EXCEPT ![t] = 0] /\ UNCHANGED null_store
        /\ k' = sched_run(k) \/ (k' = k /\ pc[t] # "yield_higher")
    BY <1>0, <1>7, Zenon DEF YieldHigher, SchedSwitch, WakeupSwitch, GoTo, sched_switch
  <2>2. /\ pc' \in [Pids -> Windows] /\ pc'[Idle] = "app" /\ arg' \in [Pids -> Nat]
        /\ \A u \in Pids : /\ pc'[u] = "switch" => arg'[u] \in Prios
                           /\ pc'[u] = "wakeup" => arg'[u] \in Pids
    BY <1>0, <2>1, Zenon DEF Windows
  <2>3. CASE k' = sched_run(k)
    BY <2>1, <2>2, <2>3, RunKeepsIInv, Zenon
  <2>4. CASE k' = k /\ pc[t] # "yield_higher"
    <3>1. IsHead(k, t)
      BY <2>1, <2>4, ActiveFacts, Zenon
    <3>2. TypeOK'
      BY <1>0, <2>1, <2>2, <2>4, Zenon DEF TypeOK, CpuTypeOK
    <3> QED
      BY <2>1, <2>2, <2>4, <3>1, <3>2, Zenon DEF IInv, ActiveIsHead, HeadOutside
  <2> QED
    BY <2>1, <2>3, <2>4, Zenon
<1>8. CASE Svc
  <2>1. k' = sched_run(k) /\ pc' = pc /\ arg' = arg /\ UNCHANGED null_store
    BY <1>8, Zenon DEF Svc
  <2> QED
    BY <1>0, <2>1, RunKeepsIInv, Zenon
<1>9. ASSUME NEW p \in Pids, IsrWakeup(p) PROVE IInv'
  <2> DEFINE k1 == sched_set_status(k, p, "RUNNING")
  <2>1. /\ p \in k.threads /\ k.status[p] = "SLEEPING"
        /\ IsrSwitch(k1, k.priority[p])
        /\ pc' = pc /\ arg' = arg
    BY <1>9, Zenon DEF IsrWakeup, Sleeping
  <2>2. ~Runnable(k, p) /\ "RUNNING" \in OnRunqueue /\ k.priority[p] \in Prios
    BY <1>0, <2>1, Zenon DEF Runnable, OnRunqueue, Kernel
  <2>3. /\ KInv(k1) /\ k1.active = k.active /\ k1.threads = k.threads
        /\ k1.status = [k.status EXCEPT ![p] = "RUNNING"]
        /\ \A u \in Pids : IsHead(k, u) => IsHead(k1, u)
    BY <1>0, <2>1, <2>2, SetStatusEnter
  <2> HIDE DEF k1
  <2>4. \A u \in k.threads : Runnable(k, u) => Runnable(k1, u)
    BY <1>0, <2>2, <2>3, Zenon DEF Runnable, Kernel
  <2> QED
    BY <1>0, <2>1, <2>2, <2>3, <2>4, IsrKeepsIInv, Zenon
<1>10. ASSUME NEW prio \in CreatePrios, NEW flag \in CreateFlags, IsrCreate(prio, flag)
       PROVE  IInv'
  <2> DEFINE k1 == thread_create(k, prio, flag)
  <2>1. /\ FreePids(k) # {}
        /\ IF flag = "NONE" THEN IsrSwitch(k1, prio)
                            ELSE k' = k1 /\ UNCHANGED null_store
        /\ pc' = [pc EXCEPT ![NewPid(k)] = "app"] /\ arg' = arg
    BY <1>10, Zenon DEF IsrCreate
  <2>2. CreateEffect(k, k1, prio, flag)
    BY <1>0, <2>1, Create, ThreadConstants, Zenon
  <2> HIDE DEF k1
  <2>3. /\ KInv(k1) /\ k1.active = k.active /\ k.threads \subseteq k1.threads
        /\ \A u \in k.threads : Runnable(k, u) => Runnable(k1, u)
        /\ \A u \in k.threads : IsHead(k, u) => IsHead(k1, u)
    BY <1>0, <2>2, Zenon DEF CreateEffect, Runnable
  <2>4. /\ pc' \in [Pids -> Windows]
        /\ \A u \in k.threads : pc'[u] = pc[u]
        /\ \A u \in Pids : pc'[u] = pc[u] \/ pc'[u] = "app"
    BY <1>0, <2>1, <2>2, Zenon DEF CreateEffect, Windows
  <2>5. CASE flag = "NONE"
    BY <2>1, <2>3, <2>4, <2>5, IsrKeepsIInv, Zenon
  <2>6. CASE flag # "NONE"
    <3>1. k' = k1 /\ UNCHANGED null_store
      BY <2>1, <2>6, Zenon
    <3>2. TypeOK'
      BY <1>0, <2>1, <2>3, <2>4, <3>1, Zenon DEF TypeOK, CpuTypeOK, KInv
    <3>3. ActiveIsHead'
      BY <1>0, <2>3, <2>4, <3>1, Zenon DEF IInv, ActiveIsHead, HeadOutside
    <3> QED
      BY <1>0, <2>3, <2>4, <3>1, <3>2, <3>3, Zenon DEF IInv, KInv
  <2> QED
    BY <2>5, <2>6, Zenon
<1> QED
  BY <1>1, <1>2, <1>3, <1>4, <1>5, <1>6, <1>7, <1>8, <1>9, <1>10, Zenon
  DEF Next, KernelStep, AppStep, IsrStep
---------------------------------------------------------------------------
(* Spec keeps the inductive invariant.                                     *)
THEOREM Inductive == Spec => []IInv
<1>1. Init => IInv
  BY InitIInv, Zenon
<1>2. IInv /\ [Next]_vars => IInv'
  BY NextIInv, Zenon
<1> QED
  BY <1>1, <1>2, PTL DEF Spec

(* The variables of core/sched.c and the locals of every window keep their *)
(* ranges.                                                                 *)
THEOREM TypeCorrect == Spec => []TypeOK
<1>1. IInv => TypeOK
  BY Zenon DEF IInv
<1> QED
  BY <1>1, Inductive, PTL

(* Run queues, statuses and bitcache agree, whatever the interleaving of   *)
(* threads and interrupts; sched_set_status() always pops the thread it is *)
(* given.                                                                  *)
THEOREM RunqueueSafe == Spec => []SchedulerIntact
<1>1. IInv => SchedulerIntact
  BY Zenon DEF IInv, SchedulerIntact, RunqueueConsistent
<1> QED
  BY <1>1, Inductive, PTL

(* sched_run() always finds a thread.                                      *)
THEOREM Schedulable == Spec => []AlwaysSchedulable
<1>1. IInv => AlwaysSchedulable
  <2> SUFFICES ASSUME IInv PROVE AlwaysSchedulable
    BY Zenon
  <2>1. KInv(k) /\ k.bitcache # {} /\ k.bitcache \in SUBSET Prios
    BY Constants, RunnableBit, Zenon DEF IInv, TypeOK, CpuTypeOK, KInv, Kernel
  <2>2. bitarithm_lsb(k.bitcache) \in k.bitcache
    BY <2>1, LsbIsLeast, Zenon
  <2>3. k.bitcache = {p \in Prios : k.rq[p] # <<>>}
    BY <2>1, Zenon DEF KInv, Consistent
  <2> QED
    BY <2>1, <2>2, <2>3, Zenon DEF AlwaysSchedulable
<1> QED
  BY <1>1, Inductive, PTL
---------------------------------------------------------------------------
(* The strengthening of HighestPriorityRuns: a thread in a window may be   *)
(* outranked only by what the rest of its call is about to switch to.      *)
HInv ==
  LET a == k.active
  IN  a # NULL =>
        /\ pc[a] = "app" => Topmost(k, a)
        /\ pc[a] = "switch" => Topmost(k, a) \/ arg[a] < k.priority[a]
        /\ pc[a] = "wakeup" => \/ Topmost(k, a)
                               \/ /\ arg[a] \in k.threads
                                  /\ k.priority[arg[a]] < k.priority[a]

(* With nothing but a wake-up of priority prio since k, either sched_run() *)
(* has been called or the active thread is still outranked by no one new.  *)
LEMMA IsrKeepsHInv ==
  ASSUME IInv, HInv, NEW k1, KInv(k1), NEW prio \in Prios, IsrSwitch(k1, prio),
         k1.active = k.active, k.threads \subseteq k1.threads,
         Runnable(k1, Idle),
         \A u \in k.threads : k1.priority[u] = k.priority[u],
         \A u \in Pids : Runnable(k1, u) => Runnable(k, u) \/ k1.priority[u] = prio,
         arg' = arg, \A u \in k.threads : pc'[u] = pc[u]
  PROVE  HInv'
<1> USE Constants
<1>0. k1 \in Kernel /\ k \in Kernel /\ k1.active \in Pids \cup {NULL}
  BY Zenon DEF IInv, TypeOK, CpuTypeOK, KInv, Kernel
<1>1. CASE k1.active # NULL
  <2> DEFINE a == k.active
  <2>1. k1.bitcache # {} /\ a \in Pids /\ a \in k.threads /\ k1.active = a
    BY <1>0, <1>1, RunnableBit, Zenon DEF IInv
  <2>2. k' = cortexm_isr_end(sched_switch_isr(k1, prio))
    BY <1>1, Zenon DEF IsrSwitch
  <2>3. /\ k'.active \in Pids
        /\ Topmost(k', k'.active) \/ (~SwitchWanted(k1, prio) /\ k' = k1)
    BY <2>1, <2>2, IsrEnd, Zenon
  <2>4. CASE Topmost(k', k'.active)
    BY <2>3, <2>4, Zenon DEF HInv
  <2>5. CASE ~SwitchWanted(k1, prio) /\ k' = k1
    <3>1. k1.priority[a] <= prio /\ k1.priority[a] = k.priority[a]
      <4>1. k1.priority[a] \in Nat /\ prio \in Nat /\ ~(k1.priority[a] > prio)
        BY <1>0, <2>1, <2>5, SchedConstants DEF SwitchWanted, Kernel, Prios
      <4> QED
        BY <4>1, <2>1
    <3>2. Topmost(k, a) => Topmost(k1, a)
      <4> SUFFICES ASSUME Topmost(k, a), NEW u \in Pids, Runnable(k1, u)
                   PROVE  k1.priority[a] <= k1.priority[u]
        BY Zenon DEF Topmost
      <4>1. CASE Runnable(k, u)
        <5>1. u \in k.threads
          BY <4>1, Zenon DEF IInv, Consistent
        <5> QED
          BY <4>1, <5>1, <3>1, Zenon DEF Topmost
      <4>2. CASE k1.priority[u] = prio
        BY <4>2, <3>1, Zenon
      <4> QED
        BY <4>1, <4>2, Zenon
    <3>3. pc'[a] = pc[a] /\ k'.active = a /\ arg'[a] = arg[a]
      BY <2>1, <2>5, Zenon
    <3> QED
      BY <2>1, <2>5, <3>1, <3>2, <3>3, Zenon DEF HInv
  <2> QED
    BY <2>3, <2>4, <2>5, Zenon
<1>2. CASE k1.active = NULL
  <2>1. k'.active = NULL
    BY <1>0, <1>2, Zenon DEF IsrSwitch, Kernel
  <2> QED
    BY <2>1, Zenon DEF HInv
<1> QED
  BY <1>1, <1>2, Zenon

(* Without THREAD_CREATE_WOUT_YIELD every step preserves HInv.             *)
LEMMA NextHInv ==
  ASSUME "WOUT_YIELD" \notin CreateFlags, IInv, HInv, [Next]_vars
  PROVE  HInv'
<1> USE Constants
<1>0. /\ KInv(k) /\ k \in Kernel /\ k.threads \subseteq Pids
      /\ pc \in [Pids -> Windows] /\ arg \in [Pids -> Nat]
      /\ Idle \in k.threads /\ Runnable(k, Idle) /\ k.bitcache # {}
      /\ \A u \in Pids : Runnable(k, u) => u \in k.threads
  BY RunnableBit, Zenon DEF IInv, TypeOK, CpuTypeOK, KInv, Kernel, Consistent
<1>1. CASE UNCHANGED vars
  BY <1>1, Zenon DEF vars, cpuVars, HInv
<1>2. ASSUME NEW t \in Pids, ThreadYield(t) \/ ThreadSleep(t) PROVE HInv'
  <2>1. k.active = t /\ pc[t] = "app" /\ pc'[t] = "yield_higher"
    BY <1>0, <1>2, Zenon DEF ThreadYield, ThreadSleep, InApp, GoTo
  <2>2. k'.active = t
    <3>1. CASE ThreadYield(t)
      BY <1>0, <2>1, <3>1, Yield, Zenon DEF ThreadYield, GoTo
    <3>2. CASE ThreadSleep(t)
      BY <1>0, <2>1, <3>2, Zenon DEF ThreadSleep, GoTo, sched_set_status, Kernel
    <3> QED
      BY <1>2, <3>1, <3>2, Zenon
  <2> QED
    BY <2>1, <2>2, Zenon DEF HInv
<1>3. ASSUME NEW t \in Pids, NEW p \in Pids, ThreadWakeup(t, p) PROVE HInv'
  <2>1. /\ k.active = t /\ pc[t] = "app"
        /\ p \in k.threads /\ k.status[p] = "SLEEPING"
        /\ k' = sched_set_status(k, p, "RUNNING")
        /\ pc'[t] = "wakeup" /\ arg'[t] = p
    BY <1>0, <1>3, Zenon DEF ThreadWakeup, InApp, Sleeping, GoTo
  <2>2. ~Runnable(k, p) /\ "RUNNING" \in OnRunqueue
    BY <2>1, Zenon DEF Runnable, OnRunqueue
  <2>3. /\ k'.active = t /\ k'.threads = k.threads /\ k'.priority = k.priority
        /\ k'.status = [k.status EXCEPT ![p] = "RUNNING"]
    BY <1>0, <2>1, <2>2, SetStatusEnter
  <2>4. \A u \in Pids : Runnable(k', u) => Runnable(k, u) \/ u = p
    BY <1>0, <2>3, Zenon DEF Runnable, Kernel
  <2>5. k.priority[t] \in Nat /\ k.priority[p] \in Nat
    BY <1>0, SchedConstants DEF Kernel, Prios
  <2>6. Topmost(k, t)
    BY <2>1, Zenon DEF HInv
  <2>7. Topmost(k', t) \/ k'.priority[p] < k'.priority[t]
    BY <2>3, <2>4, <2>5, <2>6 DEF Topmost
  <2> QED
    BY <2>1, <2>3, <2>7, Zenon DEF HInv
<1>4. ASSUME NEW t \in Pids, NEW prio \in CreatePrios, NEW flag \in CreateFlags,
             ThreadCreate(t, prio, flag)
      PROVE  HInv'
  <2>1. /\ k.active = t /\ pc[t] = "app" /\ FreePids(k) # {}
        /\ k' = thread_create(k, prio, flag)
        /\ pc'[t] = IF flag = "NONE" THEN "switch" ELSE "app"
        /\ arg'[t] = IF flag = "NONE" THEN prio ELSE 0
    BY <1>0, <1>4, Zenon DEF ThreadCreate, InApp
  <2>2. t \in k.threads /\ Topmost(k, t)
    BY <2>1, ActiveFacts, Zenon DEF HInv
  <2>3. CreateEffect(k, k', prio, flag)
    BY <1>0, <2>1, Create, ThreadConstants, Zenon
  <2>4. /\ k'.active = t /\ k'.priority[t] = k.priority[t]
        /\ \A u \in Pids : Runnable(k', u) =>
             \/ Runnable(k, u) /\ k'.priority[u] = k.priority[u]
             \/ flag # "SLEEPING" /\ k'.priority[u] = prio
    BY <1>0, <2>1, <2>2, <2>3, Zenon DEF CreateEffect, Runnable, Kernel
  <2>5. k.priority[t] \in Nat /\ prio \in Nat
    BY <1>0, SchedConstants DEF Kernel, Prios
  <2>6. flag \in {"NONE", "SLEEPING"}
    BY ThreadConstants, Zenon DEF Flags
  <2>7. CASE flag = "SLEEPING"
    BY <2>1, <2>2, <2>4, <2>7, Zenon DEF HInv, Topmost
  <2>8. CASE flag = "NONE"
    <3>1. Topmost(k', t) \/ prio < k'.priority[t]
      BY <2>2, <2>4, <2>5 DEF Topmost
    <3> QED
      BY <2>1, <2>4, <2>8, <3>1, Zenon DEF HInv
  <2> QED
    BY <2>6, <2>7, <2>8, Zenon
<1>5. ASSUME NEW t \in Pids, TaskExit(t) PROVE HInv'
  <2>1. k'.active = NULL
    BY <1>5 DEF TaskExit, GoTo, sched_task_exit, sched_set_status
  <2> QED
    BY <2>1, Zenon DEF HInv
<1>6. CASE k' = sched_run(k)
  <2>1. k'.active \in Pids /\ Topmost(k', k'.active)
    BY <1>0, <1>6, SchedRun, Zenon
  <2> QED
    BY <2>1, Zenon DEF HInv
<1>7. ASSUME NEW t \in Pids, SchedSwitch(t) \/ WakeupSwitch(t) PROVE HInv'
  <2>1. /\ k.active = t /\ pc'[t] = "app" /\ pc[t] \in {"switch", "wakeup"}
        /\ k' = sched_switch(k, IF pc[t] = "switch" THEN arg[t]
                                                    ELSE k.priority[arg[t]])
    BY <1>0, <1>7, Zenon DEF SchedSwitch, WakeupSwitch, GoTo
  <2> DEFINE prio == IF pc[t] = "switch" THEN arg[t] ELSE k.priority[arg[t]]
  <2>2. CASE SwitchWanted(k, prio)
    BY <1>6, <2>1, <2>2, Zenon DEF sched_switch
  <2>3. CASE ~SwitchWanted(k, prio)
    <3>1. k' = k
      BY <2>1, <2>3, Zenon DEF sched_switch
    <3>2. prio \in Nat /\ k.priority[t] \in Nat
      BY <1>0, <2>1, SchedConstants, SMTT(30) DEF IInv, TypeOK, CpuTypeOK, Kernel, Prios
    <3>3. ~(prio < k.priority[t])
      BY <2>1, <2>3, <3>2, Zenon DEF SwitchWanted
    <3>4. Topmost(k, t)
      BY <2>1, <3>3, Zenon DEF HInv
    <3> QED
      BY <2>1, <3>1, <3>4, Zenon DEF HInv
  <2> QED
    BY <2>2, <2>3, Zenon
<1>8. ASSUME NEW p \in Pids, IsrWakeup(p) PROVE HInv'
  <2> DEFINE k1 == sched_set_status(k, p, "RUNNING")
  <2>1. /\ p \in k.threads /\ k.status[p] = "SLEEPING"
        /\ IsrSwitch(k1, k.priority[p])
        /\ pc' = pc /\ arg' = arg
    BY <1>8, Zenon DEF IsrWakeup, Sleeping
  <2>2. ~Runnable(k, p) /\ "RUNNING" \in OnRunqueue /\ k.priority[p] \in Prios
    BY <1>0, <2>1, Zenon DEF Runnable, OnRunqueue, Kernel
  <2>3. /\ KInv(k1) /\ k1.active = k.active /\ k1.threads = k.threads
        /\ k1.priority = k.priority
        /\ k1.status = [k.status EXCEPT ![p] = "RUNNING"]
    BY <1>0, <2>1, <2>2, SetStatusEnter, SMTT(60)
  <2> HIDE DEF k1
  <2>4. /\ Runnable(k1, Idle)
        /\ \A u \in Pids : Runnable(k1, u) =>
             Runnable(k, u) \/ k1.priority[u] = k.priority[p]
    BY <1>0, <2>2, <2>3, Zenon DEF Runnable, Kernel
  <2> QED
    BY <1>0, <2>1, <2>2, <2>3, <2>4, IsrKeepsHInv, SMTT(30)
<1>9. ASSUME NEW prio \in CreatePrios, NEW flag \in CreateFlags, IsrCreate(prio, flag)
      PROVE  HInv'
  <2> DEFINE k1 == thread_create(k, prio, flag)
  <2>1. /\ FreePids(k) # {}
        /\ IF flag = "NONE" THEN IsrSwitch(k1, prio) ELSE k' = k1
        /\ pc' = [pc EXCEPT ![NewPid(k)] = "app"] /\ arg' = arg
    BY <1>9, Zenon DEF IsrCreate
  <2>2. CreateEffect(k, k1, prio, flag)
    BY <1>0, <2>1, Create, ThreadConstants, Zenon
  <2> HIDE DEF k1
  <2>3. /\ KInv(k1) /\ k1.active = k.active /\ k.threads \subseteq k1.threads
        /\ \A u \in k.threads : k1.priority[u] = k.priority[u]
        /\ \A u \in k.threads : pc'[u] = pc[u]
    BY <1>0, <2>1, <2>2, Zenon DEF CreateEffect, Kernel
  <2>4. /\ Runnable(k1, Idle)
        /\ \A u \in Pids : Runnable(k1, u) =>
             \/ Runnable(k, u)
             \/ flag # "SLEEPING" /\ k1.priority[u] = prio
    BY <1>0, <2>2, Zenon DEF CreateEffect, Runnable, Kernel
  <2>5. CASE flag = "NONE"
    <3>1. IsrSwitch(k1, prio) /\ arg' = arg
      BY <2>1, <2>5, Zenon
    <3>2. \A u \in Pids : Runnable(k1, u) => Runnable(k, u) \/ k1.priority[u] = prio
      BY <2>4, Zenon
    <3>3. IInv /\ HInv /\ Runnable(k1, Idle)
      BY <1>0, <2>4, Zenon
    <3> QED
      BY <2>3, <3>1, <3>2, <3>3, IsrKeepsHInv, Zenon
  <2>6. CASE flag = "SLEEPING"
    <3> DEFINE a == k.active
    <3>1. k' = k1
      BY <2>1, <2>6, Zenon
    <3>2. CASE a = NULL
      BY <2>3, <3>1, <3>2, Zenon DEF HInv
    <3>3. CASE a # NULL
      <4>1. a \in Pids /\ a \in k.threads
        BY <1>0, <3>3, Zenon DEF IInv, Kernel
      <4>2. Topmost(k, a) => Topmost(k1, a)
        BY <1>0, <2>3, <2>4, <2>6, <4>1, Zenon DEF Topmost
      <4> QED
        <5>1. k'.active = a /\ pc'[a] = pc[a] /\ arg' = arg
          BY <2>1, <2>3, <3>1, <4>1, Zenon
        <5>2. k'.priority[a] = k.priority[a]
          BY <2>3, <3>1, <4>1, Zenon
        <5>3. arg[a] \in k.threads =>
                arg[a] \in k'.threads /\ k'.priority[arg[a]] = k.priority[arg[a]]
          BY <2>3, <3>1, Zenon
        <5>4. Topmost(k, a) => Topmost(k', a)
          BY <3>1, <4>2, Zenon
        <5> QED
          BY <1>0, <3>3, <5>1, <5>2, <5>3, <5>4, Zenon DEF HInv
    <3> QED
      BY <3>2, <3>3, Zenon
  <2> QED
    BY <2>5, <2>6, ThreadConstants, Zenon DEF Flags
<1>10. \A t \in Pids : YieldHigher(t) => HInv'
  BY <1>6, Zenon DEF YieldHigher, GoTo
<1>11. Svc => HInv'
  BY <1>6, Zenon DEF Svc
<1> QED
  BY <1>1, <1>2, <1>3, <1>4, <1>5, <1>7, <1>8, <1>9, <1>10, <1>11, Zenon
  DEF Next, KernelStep, AppStep, IsrStep

(* The scheduler is a fixed-priority one: application code runs only while *)
(* nothing of higher priority is runnable.                                 *)
THEOREM PriorityScheduling ==
  ASSUME "WOUT_YIELD" \notin CreateFlags
  PROVE  Spec => []HighestPriorityRuns
<1>1. Init => HInv
  BY InitIInv, Zenon DEF HInv
<1>2. IInv /\ HInv /\ [Next]_vars => HInv'
  BY NextHInv, Zenon
<1>3. HInv => HighestPriorityRuns
  BY Zenon DEF HInv, HighestPriorityRuns
<1> QED
  BY <1>1, <1>2, <1>3, Inductive, PTL DEF Spec
============================================================================
