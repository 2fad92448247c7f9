------------------------------- MODULE Sched -------------------------------
(***************************************************************************)
(* The RIOT scheduler (core/sched.c) with the parts of core/thread.c and   *)
(* of the Cortex-M port that every other kernel service calls, as pure     *)
(* operators on the record k of the scheduler's global variables:          *)
(*                                                                         *)
(*   threads   the slots of sched_threads[] that are not NULL              *)
(*   status    thread_t.status                                             *)
(*   priority  thread_t.priority; 0 is the highest                         *)
(*   rq        sched_runqueues[], a sequence of thread ids per priority;   *)
(*             Head is the node clist_lpop would remove                    *)
(*   bitcache  runqueue_bitcache, the priorities whose bit is set          *)
(*   active    sched_active_thread                                         *)
(*   request   sched_context_switch_request                                *)
(*                                                                         *)
(* A thread is identified with its PID.  There is one core; code between   *)
(* irq_disable() and irq_restore() is atomic.                              *)
(***************************************************************************)
EXTENDS Integers, Sequences, FiniteSets, Functions

CONSTANTS
  MaxPid,      \* KERNEL_PID_LAST
  PrioLevels   \* SCHED_PRIO_LEVELS

ASSUME SchedConstants ==
  /\ MaxPid \in Nat /\ MaxPid >= 2
  /\ PrioLevels \in Nat /\ PrioLevels >= 2

Pids  == 1..MaxPid
NULL  == 0                  \* KERNEL_PID_UNDEF, and a NULL thread pointer
Prios == 0..(PrioLevels - 1)

Blocked    == {"STOPPED", "SLEEPING", "MUTEX_BLOCKED", "RECEIVE_BLOCKED",
               "SEND_BLOCKED", "REPLY_BLOCKED", "FLAG_BLOCKED_ANY",
               "FLAG_BLOCKED_ALL", "MBOX_BLOCKED"}
OnRunqueue == {"RUNNING", "PENDING"}      \* status >= STATUS_ON_RUNQUEUE
Status     == Blocked \cup OnRunqueue

Kernel == [ threads  : SUBSET Pids,
            status   : [Pids -> Status],
            priority : [Pids -> Prios],
            rq       : [Prios -> Seq(Pids)],
            bitcache : SUBSET Prios,
            active   : Pids \cup {NULL},
            request  : BOOLEAN ]

Runnable(k, t) == k.status[t] \in OnRunqueue
---------------------------------------------------------------------------
(* Deliberately wrong variants, named Mut_..., stand before the operator   *)
(* they are a wrong version of; nothing uses them.                         *)
(* core/include/clist.h *)
Mut_rpush_at_front(q, t) == <<t>> \o q

clist_rpush(q, t) == Append(q, t)
clist_lpop(q)     == IF q = <<>> THEN q ELSE Tail(q)
clist_lpoprpush(q) == IF q = <<>> THEN q ELSE Append(Tail(q), Head(q))

(* core/bitarithm.c: the lowest bit that is set *)
bitarithm_lsb(bits) == CHOOSE p \in bits : \A q \in bits : p <= q
---------------------------------------------------------------------------
(* Leaving the run queue pops the head of the queue, whoever that is. *)
sched_set_status(k, t, st) ==
  LET p     == k.priority[t]
      enter == st \in OnRunqueue /\ ~Runnable(k, t)
      leave == st \notin OnRunqueue /\ Runnable(k, t)
      q     == CASE enter -> clist_rpush(k.rq[p], t)
                 [] leave -> clist_lpop(k.rq[p])
                 [] OTHER -> k.rq[p]
  IN  [k EXCEPT
         !.status[t] = st,
         !.rq[p]     = q,
         !.bitcache  = CASE enter             -> @ \cup {p}
                         [] leave /\ q = <<>> -> @ \ {p}
                         [] OTHER             -> @]

(* The first thread of the highest priority that has a runnable thread. *)
NextThread(k) == Head(k.rq[bitarithm_lsb(k.bitcache)])

sched_run(k) ==
  LET next == NextThread(k)
  IN  IF k.active = next
      THEN [k EXCEPT !.request = FALSE]
      ELSE [k EXCEPT
              !.request = FALSE,
              !.status  = [t \in Pids |->
                             CASE t = next -> "RUNNING"
                               [] t = k.active /\ k.status[t] = "RUNNING"
                                    -> "PENDING"
                               [] OTHER -> k.status[t]],
              !.active  = next]

Mut_SwitchWanted_reversed(k, other_prio) ==
  \/ ~Runnable(k, k.active)
  \/ k.priority[k.active] < other_prio

(* The condition under which sched_switch(other_prio) yields or, in an ISR, *)
(* requests a context switch.                                               *)
SwitchWanted(k, other_prio) ==
  \/ ~Runnable(k, k.active)
  \/ k.priority[k.active] > other_prio

sched_switch(k, other_prio) ==
  IF SwitchWanted(k, other_prio) THEN sched_run(k) ELSE k

sched_switch_isr(k, other_prio) ==
  IF SwitchWanted(k, other_prio) THEN [k EXCEPT !.request = TRUE] ELSE k

Mut_yield_without_rotation(k) == k

(* thread_yield() up to its irq_restore(); thread_yield_higher() follows. *)
thread_yield(k) ==
  IF Runnable(k, k.active)
  THEN [k EXCEPT !.rq[k.priority[k.active]] = clist_lpoprpush(@)]
  ELSE k

(* The end of an interrupt handler.  Interrupts, PendSV and SVC share one    *)
(* NVIC priority, and PendSV has the lowest exception number of those, so    *)
(* the context switch follows the handler before anything else runs.         *)
cortexm_isr_end(k) ==
  IF k.request THEN sched_run(thread_yield(k)) ELSE k

Mut_add_in_front_of_equals(priority, list, t) ==
  LET lower == {i \in 1..Len(list) : priority[list[i]] >= priority[t]}
      pos   == IF lower = {} THEN Len(list) + 1
               ELSE CHOOSE i \in lower : \A j \in lower : i <= j
  IN  SubSeq(list, 1, pos - 1) \o <<t>> \o SubSeq(list, pos, Len(list))

Mut_add_at_end(priority, list, t) == Append(list, t)

(* thread_add_to_list(): t goes in front of the first entry of a lower     *)
(* priority.                                                               *)
thread_add_to_list(priority, list, t) ==
  LET lower == {i \in 1..Len(list) : priority[list[i]] > priority[t]}
      pos   == IF lower = {} THEN Len(list) + 1
               ELSE CHOOSE i \in lower : \A j \in lower : i <= j
  IN  SubSeq(list, 1, pos - 1) \o <<t>> \o SubSeq(list, pos, Len(list))

(* The flags of thread_create() that matter to the scheduler. *)
Flags == {"NONE", "SLEEPING", "WOUT_YIELD"}

(* thread_create() up to its last irq_restore(): the lowest free PID.        *)
FreePids(k) == Pids \ k.threads
NewPid(k)   == CHOOSE p \in FreePids(k) : \A q \in FreePids(k) : p <= q

thread_create(k, prio, flag) ==
  LET pid == NewPid(k)
      k1  == [k EXCEPT !.threads       = @ \cup {pid},
                       !.priority[pid] = prio,
                       !.status[pid]   = "STOPPED"]
  IN  sched_set_status(k1, pid,
        IF flag = "SLEEPING" THEN "SLEEPING" ELSE "PENDING")

(* sched_task_exit() up to cpu_switch_context_exit(). *)
sched_task_exit(k) ==
  LET k1 == [k EXCEPT !.threads = @ \ {k.active}]
  IN  [sched_set_status(k1, k.active, "STOPPED") EXCEPT !.active = NULL]

IdlePrio == PrioLevels - 1     \* THREAD_PRIORITY_IDLE
Idle     == 1                  \* kernel_init() creates it first

(* The kernel before kernel_init().                                        *)
NoThreads == [ threads  |-> {},
               status   |-> [t \in Pids |-> "STOPPED"],
               priority |-> [t \in Pids |-> 0],
               rq       |-> [p \in Prios |-> <<>>],
               bitcache |-> {},
               active   |-> NULL,
               request  |-> FALSE ]

(* core/kernel_init.c: nothing runs yet; idle and main are created.        *)
BootKernel(idle_prio, main_prio) ==
  thread_create(thread_create(NoThreads, idle_prio, "WOUT_YIELD"),
                main_prio, "WOUT_YIELD")

(* The scheduler once the application has its n threads, thread t with     *)
(* priority prio[t], and none but main() has run: main() has created those *)
(* after idle and itself with THREAD_CREATE_WOUT_YIELD and then calls      *)
(* thread_yield_higher().                                                  *)
AllCreated(n, prio) ==
  LET upTo[i \in 0..n] ==
        IF i = 0 THEN NoThreads ELSE thread_create(upTo[i - 1], prio[i], "WOUT_YIELD")
  IN  sched_run(upTo[n])
---------------------------------------------------------------------------
(* Every run queue holds, once each, the runnable threads of its priority; *)
(* the bitcache has the bits of the queues that are not empty; only        *)
(* existing threads are runnable.                                          *)
Consistent(k) ==
  /\ \A p \in Prios :
       /\ Range(k.rq[p]) = {t \in Pids : Runnable(k, t) /\ k.priority[t] = p}
       /\ IsInjective(k.rq[p])
  /\ k.bitcache = {p \in Prios : k.rq[p] # <<>>}
  /\ \A t \in Pids : Runnable(k, t) => t \in k.threads

(* Thread t is the one clist_lpop() would take from its run queue.         *)
IsHead(k, t) ==
  LET q == k.rq[k.priority[t]] IN q # <<>> /\ Head(q) = t

(* No runnable thread has a higher priority than t.                        *)
Topmost(k, t) ==
  \A u \in Pids : Runnable(k, u) => k.priority[t] <= k.priority[u]
============================================================================
