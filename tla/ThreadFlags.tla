---------------------------- MODULE ThreadFlags ----------------------------
(***************************************************************************)
(* core/thread_flags.c, and the use core/msg.c makes of it: threads and    *)
(* interrupt handlers set the flags of threads that wait for any, for one  *)
(* or for all of a mask of flags.                                          *)
(*                                                                         *)
(*   flags[t]   thread_t.flags                                             *)
(*   mask[t]    the mask of the call t is in; wait_data while t is blocked *)
(*   msgs[t]    how many messages are in the queue of t                    *)
(*   drain[t]   t empties its queue, see Handlers                          *)
(*                                                                         *)
(* Windows added to those of Cpu:                                          *)
(*   flag_yield   blocked, about to call thread_yield_higher()             *)
(*   flag_read    thread_flags_wait_one() about to choose its flag         *)
(*   flag_clear   about to clear the flags of mask[t] and return them      *)
(* arg[t] is 1 in thread_flags_wait_one(), 2 in thread_flags_wait_all().   *)
(***************************************************************************)
EXTENDS Cpu

CONSTANTS
  Prio,        \* the priority of each thread
  NBits,       \* the flags of a thread; the last is THREAD_FLAG_MSG_WAITING
  Masks,       \* the masks of the calls
  Waiters,     \* threads that call any function of thread_flags.c
  Handlers,    \* threads that wait for flags and messages with the loop of
               \* core/include/thread_flags.h and set flags of others
  Sleepers,    \* bound: the threads that sleep now and then
  QueueSize    \* of the message queue of a handler

Bits == 1..NBits
THREAD_FLAG_MSG_WAITING == NBits

ASSUME ThreadFlagsConstants ==
  /\ Prio \in [Pids -> Prios]
  /\ \A t \in Pids : (Prio[t] = IdlePrio) <=> (t = Idle)
  /\ NBits \in Nat \ {0}
  /\ Masks \subseteq SUBSET Bits /\ {} \notin Masks
  /\ Waiters \subseteq Pids /\ Handlers \subseteq Pids /\ Waiters \cap Handlers = {}
  /\ Sleepers \subseteq Pids \ {Idle}
  /\ QueueSize \in Nat

VARIABLES flags, mask, msgs, drain

flagVars == <<flags, mask, msgs, drain>>
vars     == <<cpuVars, flagVars>>

FlagWindows == {"app", "yield_higher", "flag_yield", "flag_read", "flag_clear"}

Init ==
  /\ k = AllCreated(MaxPid, Prio) /\ Quiet
  /\ flags = [t \in Pids |-> {}]
  /\ mask = [t \in Pids |-> {}]
  /\ msgs = [t \in Handlers |-> 0]
  /\ drain = [t \in Handlers |-> FALSE]
---------------------------------------------------------------------------
Mut_any_is_all(status, fl, m) ==
  \/ status = "FLAG_BLOCKED_ANY" /\ m \subseteq fl
  \/ status = "FLAG_BLOCKED_ALL" /\ m \subseteq fl

Mut_all_is_any(status, fl, m) ==
  \/ status = "FLAG_BLOCKED_ANY" /\ fl \cap m # {}
  \/ status = "FLAG_BLOCKED_ALL" /\ fl \cap m # {}

(* thread_flags_wake(): the condition a thread of that status waits for    *)
Wakes(status, fl, m) ==
  \/ status = "FLAG_BLOCKED_ANY" /\ fl \cap m # {}
  \/ status = "FLAG_BLOCKED_ALL" /\ m \subseteq fl

Mut_raised_without_request(r, m) ==
  IF Wakes(k.status[r], flags[r] \cup m, mask[r])
  THEN sched_set_status(k, r, "PENDING")
  ELSE k

(* The scheduler after r has got the flags m and thread_flags_wake(r).     *)
Raised(r, m) ==
  IF Wakes(k.status[r], flags[r] \cup m, mask[r])
  THEN [sched_set_status(k, r, "PENDING") EXCEPT !.request = TRUE]
  ELSE k

Raise(r, m) == flags' = [flags EXCEPT ![r] = @ \cup m]

(* thread_flags_set()                                                      *)
Set(t, r, m) ==
  /\ InApp(t)
  /\ Raise(r, m)
  /\ GoTo(t, Raised(r, m), IF Raised(r, m) = k THEN "app" ELSE "yield_higher", 0)
  /\ UNCHANGED <<mask, msgs, drain>>

IsrSet(r, m) ==
  /\ Raise(r, m)
  /\ k' = cortexm_isr_end(Raised(r, m))
  /\ UNCHANGED <<pc, arg, null_store, mask, msgs, drain>>
---------------------------------------------------------------------------
(* _thread_flags_wait() when condition does not hold; the rest of the call *)
(* starts in window next, with or without a wait.                          *)
WaitUnless(t, m, condition, status, a, next) ==
  /\ InApp(t)
  /\ mask' = [mask EXCEPT ![t] = m]
  /\ IF condition THEN GoTo(t, k, next, a)
                  ELSE GoTo(t, sched_set_status(k, t, status), "flag_yield", a)
  /\ UNCHANGED <<flags, msgs, drain>>

Rest(a) == IF a = 1 THEN "flag_read" ELSE "flag_clear"

WaitAny(t, m) == WaitUnless(t, m, flags[t] \cap m # {}, "FLAG_BLOCKED_ANY", 0, Rest(0))
WaitOne(t, m) == WaitUnless(t, m, flags[t] \cap m # {}, "FLAG_BLOCKED_ANY", 1, Rest(1))
WaitAll(t, m) == WaitUnless(t, m, m \subseteq flags[t], "FLAG_BLOCKED_ALL", 2, Rest(2))

FlagYield(t) ==
  /\ k.active = t /\ pc[t] = "flag_yield"
  /\ GoTo(t, sched_run(k), Rest(arg[t]), arg[t])
  /\ UNCHANGED flagVars

(* thread_flags_wait_one(): "clear all but least significant bit"          *)
FlagRead(t) ==
  /\ k.active = t /\ pc[t] = "flag_read"
  /\ GoTo(t, k, "flag_clear", arg[t])
  /\ LET tmp == flags[t] \cap mask[t]
     IN  mask' = [mask EXCEPT ![t] = {b \in tmp : \A c \in tmp : b <= c}]
  /\ UNCHANGED <<flags, msgs, drain>>

(* _thread_flags_clear_atomic() and the return; a handler that gets        *)
(* THREAD_FLAG_MSG_WAITING goes on to empty its queue.                     *)
FlagClear(t) ==
  /\ k.active = t /\ pc[t] = "flag_clear"
  /\ GoTo(t, k, "app", 0)
  /\ drain' = [h \in Handlers |->
                 IF h = t THEN THREAD_FLAG_MSG_WAITING \in flags[t] \cap mask[t] ELSE drain[h]]
  /\ flags' = [flags EXCEPT ![t] = @ \ mask[t]]
  /\ mask' = [mask EXCEPT ![t] = {}]
  /\ UNCHANGED msgs

(* thread_flags_clear()                                                    *)
Clear(t, m) ==
  /\ InApp(t)
  /\ flags' = [flags EXCEPT ![t] = @ \ m]
  /\ UNCHANGED <<cpuVars, mask, msgs, drain>>
---------------------------------------------------------------------------
Mut_queue_without_flag(h) ==
  /\ msgs[h] < QueueSize
  /\ msgs' = [msgs EXCEPT ![h] = @ + 1]
  /\ UNCHANGED <<flags, mask, drain>>

(* queue_msg() in core/msg.c                                               *)
QueueMsg(h) ==
  /\ msgs[h] < QueueSize
  /\ msgs' = [msgs EXCEPT ![h] = @ + 1]
  /\ Raise(h, {THREAD_FLAG_MSG_WAITING})
  /\ UNCHANGED <<mask, drain>>

(* msg_send() to a thread with room in its queue: thread_flags_wake(), but *)
(* no thread_yield_higher()                                                *)
Send(t, h) ==
  /\ InApp(t)
  /\ QueueMsg(h)
  /\ GoTo(t, Raised(h, {THREAD_FLAG_MSG_WAITING}), "app", 0)

(* msg_send_int()                                                          *)
IsrSend(h) ==
  /\ QueueMsg(h)
  /\ k' = cortexm_isr_end(Raised(h, {THREAD_FLAG_MSG_WAITING}))
  /\ UNCHANGED <<pc, arg, null_store>>

(* msg_try_receive() in the loop of a handler                              *)
TryReceive(h) ==
  /\ InApp(h) /\ drain[h]
  /\ \/ msgs[h] > 0 /\ msgs' = [msgs EXCEPT ![h] = @ - 1] /\ UNCHANGED drain
     \/ msgs[h] = 0 /\ drain' = [drain EXCEPT ![h] = FALSE] /\ UNCHANGED msgs
  /\ UNCHANGED <<cpuVars, flags, mask>>

HandlerWait(h) == ~drain[h] /\ WaitAny(h, Bits)
---------------------------------------------------------------------------
(* An interrupt whose handler has nothing to do with this module ends with *)
(* a switch if sched_context_switch_request is set.                        *)
IsrOther ==
  /\ k.request
  /\ k' = cortexm_isr_end(k)
  /\ UNCHANGED <<pc, arg, null_store, flagVars>>

Threads == Waiters \cup Handlers

Next ==
  \/ \E t \in Pids : FlagYield(t) \/ FlagRead(t) \/ FlagClear(t)
  \/ \E t \in Pids : YieldHigher(t) /\ UNCHANGED flagVars
  \/ \E t \in Sleepers : (ThreadSleep(t) \/ IsrWakeup(t)) /\ UNCHANGED flagVars
  \/ \E t, r \in Threads, m \in Masks : Set(t, r, m)
  \/ \E r \in Threads, m \in Masks : IsrSet(r, m)
  \/ \E t \in Waiters, m \in Masks :
       WaitAny(t, m) \/ WaitOne(t, m) \/ WaitAll(t, m) \/ Clear(t, m)
  \/ \E h \in Handlers : HandlerWait(h) \/ TryReceive(h) \/ IsrSend(h)
  \/ \E t \in Threads, h \in Handlers : t # h /\ Send(t, h)
  \/ IsrOther

Spec == Init /\ [][Next]_vars
---------------------------------------------------------------------------
(* The ranges of the variables.                                            *)
TypeOK ==
  /\ CpuTypeOK(FlagWindows)
  /\ flags \in [Pids -> SUBSET Bits] /\ mask \in [Pids -> SUBSET Bits]
  /\ msgs \in [Handlers -> 0..QueueSize]
  /\ drain \in [Handlers -> BOOLEAN]

(* The calls of this module keep run queues, statuses and bitcache in      *)
(* agreement, and find and leave the caller at the head of its run queue,  *)
(* as sched_set_status() requires.                                         *)
SchedulerIntact ==
  /\ RunqueueConsistent
  /\ HeadOutside({"yield_higher", "flag_yield"})

(* Application code never runs with a thread of higher priority runnable   *)
(* and nothing to bring the switch about: thread_flags_wake() has left     *)
(* sched_context_switch_request set, and the next interrupt switches.      *)
SwitchRequested ==
  pc[k.active] = "app" => Topmost(k, k.active) \/ k.request

(* The kernel's structures agree: types, run queues, and a switch at least *)
(* requested whenever a more urgent thread is runnable.                    *)
FlagsIntact == TypeOK /\ SchedulerIntact /\ SwitchRequested

(* No thread is blocked while the condition it waits for holds, whether    *)
(* the flags came before the call, in the window before its yield, or one  *)
(* by one from several threads and interrupts.                             *)
NoLostWakeup ==
  \A t \in Pids :
    /\ k.status[t] = "FLAG_BLOCKED_ANY" => flags[t] \cap mask[t] = {}
    /\ k.status[t] = "FLAG_BLOCKED_ALL" => mask[t] \ flags[t] # {}

(* "Both ways, it will clear and return (sched_active_thread-flags &       *)
(* mask)": when a wait clears its flags, long after the wakeup perhaps,    *)
(* those that ended the wait are still there, so that it returns one flag  *)
(* at least, exactly one in thread_flags_wait_one() and the whole mask in  *)
(* thread_flags_wait_all().                                                *)
WaitReturnsFlags ==
  \A t \in Pids :
    (k.active = t /\ pc[t] = "flag_clear") =>
      LET result == flags[t] \cap mask[t]
      IN  /\ result # {}
          /\ arg[t] = 1 => \E b \in Bits : result = {b}
          /\ arg[t] = 2 => result = mask[t]

(* The loop recommended for threads that wait for flags and messages       *)
(* leaves no message behind: a handler that has stopped emptying its queue *)
(* finds THREAD_FLAG_MSG_WAITING set if a message has come since, and does *)
(* not block.                                                              *)
NoMessageForgotten ==
  \A h \in Handlers :
    (msgs[h] > 0 /\ ~drain[h]) =>
      /\ THREAD_FLAG_MSG_WAITING \in flags[h]
      /\ k.status[h] # "FLAG_BLOCKED_ANY"
============================================================================
