-------------------------------- MODULE Mbox --------------------------------
(***************************************************************************)
(* core/mbox.c: one mailbox that threads and interrupt handlers put        *)
(* messages into and threads get them from.                                *)
(*                                                                         *)
(*   cib, msg_array     the queue of the mailbox                           *)
(*   readers, writers   the threads blocked in mbox_get() and mbox_put()   *)
(*   wait_data[t]       the message buffer of a blocked mbox_get()         *)
(*                                                                         *)
(* A message is its sender and a number that the sender counts modulo      *)
(* Numbers; sent and got are the last number of each sender that was put   *)
(* and got.  slipped says whether a mbox_put() that had to wait has ever   *)
(* found, when it ran again, what it should have waited for: no free place *)
(* or a waiting reader; messages are not counted any longer after that.    *)
(*                                                                         *)
(* Windows added to those of Cpu:                                          *)
(*   mbox_wait    blocked, about to call thread_yield()                    *)
(*   mbox_yield   in thread_yield(), about to call thread_yield_higher()   *)
(*   mbox_woken   switched away there                                      *)
(* arg[t] is 1 in mbox_put() and 0 in mbox_get().                          *)
(***************************************************************************)
EXTENDS Cpu, Cib

CONSTANTS
  Prio,        \* the priority of each thread
  Size,        \* of the mailbox
  Writers,     \* who puts: threads, and NULL for interrupt handlers
  Readers,     \* the threads that get
  Numbers      \* messages are counted modulo this: more than Size + 1 tell
               \* those in transit apart

ASSUME MboxConstants ==
  /\ Prio \in [Pids -> Prios]
  /\ \A t \in Pids : (Prio[t] = IdlePrio) <=> (t = Idle)
  /\ Size \in {0} \cup {2^i : i \in 0..(W - 2)}
  /\ Writers \subseteq Pids \cup {NULL} /\ Readers \subseteq Pids
  /\ Numbers \in Nat \ {0}

VARIABLES cib, msg_array, readers, writers, wait_data, sent, got, slipped

mboxVars == <<cib, msg_array, readers, writers, wait_data, sent, got, slipped>>
vars     == <<cpuVars, mboxVars>>

NoMsg   == [from |-> NULL, num |-> Numbers]
Message == [from : Writers, num : 0..(Numbers - 1)]

MboxWindows ==
  {"app", "yield_higher", "switch", "mbox_wait", "mbox_yield", "mbox_woken"}

(* MBOX_INIT                                                               *)
Init ==
  /\ k = AllCreated(MaxPid, Prio) /\ Quiet
  /\ cib = CIB_INIT(Size)
  /\ msg_array = [i \in 0..(Size - 1) |-> NoMsg]
  /\ readers = <<>> /\ writers = <<>>
  /\ wait_data = [t \in Pids |-> NoMsg]
  /\ sent = [s \in Writers |-> 0]
  /\ got = [s \in Writers |-> 0]
  /\ slipped = FALSE
---------------------------------------------------------------------------
NextNum(s) == IF slipped THEN 0 ELSE (sent[s] + 1) % Numbers
Mail(s)    == [from |-> s, num |-> NextNum(s)]
Count(s)   == sent' = [sent EXCEPT ![s] = NextNum(s)]

(* "copy msg into queue"                                                   *)
Store(s) ==
  /\ msg_array' = [msg_array EXCEPT ![PutIndex(cib)] = Mail(s)]
  /\ cib' = AfterPut(cib)
  /\ Count(s)

HandTo(t, s) ==
  /\ wait_data' = [wait_data EXCEPT ![t] = Mail(s)]
  /\ readers' = Tail(readers)
  /\ Count(s)
  /\ UNCHANGED <<cib, msg_array, writers, got, slipped>>

(* _mbox_put() with a reader waiting                                       *)
PutHandOver(t) ==
  /\ InApp(t)
  /\ readers # <<>>
  /\ LET r == Head(readers)
     IN  /\ GoTo(t, sched_set_status(k, r, "PENDING"), "switch", k.priority[r])
         /\ HandTo(r, t)

Mut_queue_before_readers(t) ==
  /\ InApp(t)
  /\ ~cib_full(cib)
  /\ Store(t)
  /\ UNCHANGED <<cpuVars, readers, writers, wait_data, got, slipped>>

PutQueue(t) ==
  /\ InApp(t)
  /\ readers = <<>> /\ ~cib_full(cib)
  /\ Store(t)
  /\ UNCHANGED <<cpuVars, readers, writers, wait_data, got, slipped>>

(* _wait().  mbox_try_put() returns 0 instead.                             *)
PutBlock(t) ==
  /\ InApp(t)
  /\ readers = <<>> /\ cib_full(cib)
  /\ GoTo(t, sched_set_status(k, t, "MBOX_BLOCKED"), "mbox_wait", 1)
  /\ writers' = thread_add_to_list(k.priority, writers, t)
  /\ UNCHANGED <<cib, msg_array, readers, wait_data, sent, got, slipped>>

(* _mbox_put() after _wait(): it stores without looking again.             *)
PutAfterWait(t) ==
  /\ k.active = t /\ pc[t] = "mbox_woken" /\ arg[t] = 1
  /\ GoTo(t, k, "app", 0)
  /\ Store(t)
  /\ slipped' = (slipped \/ cib_full(cib) \/ readers # <<>>)
  /\ UNCHANGED <<readers, writers, wait_data, got>>
---------------------------------------------------------------------------
Take(m) == got' = [got EXCEPT ![m.from] = IF slipped THEN 0 ELSE m.num]

(* _mbox_get() with a message in the queue                                 *)
GetQueued(t) ==
  /\ InApp(t)
  /\ cib_avail(cib) # 0
  /\ Take(msg_array[GetIndex(cib)])
  /\ cib' = AfterGet(cib)
  /\ IF writers = <<>>
     THEN UNCHANGED <<cpuVars, writers>>
     ELSE LET w == Head(writers)
          IN  /\ GoTo(t, sched_set_status(k, w, "PENDING"), "switch", k.priority[w])
              /\ writers' = Tail(writers)
  /\ UNCHANGED <<msg_array, readers, wait_data, sent, slipped>>

Mut_block_before_list(t) ==
  /\ InApp(t)
  /\ cib_avail(cib) = 0
  /\ GoTo(t, sched_set_status(k, t, "MBOX_BLOCKED"), "mbox_wait", 0)
  /\ UNCHANGED mboxVars

(* mbox_try_get() returns 0 instead.                                       *)
GetBlock(t) ==
  /\ InApp(t)
  /\ cib_avail(cib) = 0
  /\ GoTo(t, sched_set_status(k, t, "MBOX_BLOCKED"), "mbox_wait", 0)
  /\ readers' = thread_add_to_list(k.priority, readers, t)
  /\ UNCHANGED <<cib, msg_array, writers, wait_data, sent, got, slipped>>

(* "sender has copied message"                                             *)
GetAfterWait(t) ==
  /\ k.active = t /\ pc[t] = "mbox_woken" /\ arg[t] = 0
  /\ GoTo(t, k, "app", 0)
  /\ Take(wait_data[t])
  /\ wait_data' = [wait_data EXCEPT ![t] = NoMsg]
  /\ UNCHANGED <<cib, msg_array, readers, writers, sent, slipped>>

(* _wait() yields with thread_yield(), which moves a thread that has been  *)
(* woken meanwhile to the end of its run queue.                            *)
WaitYield(t) ==
  /\ k.active = t /\ pc[t] = "mbox_wait"
  /\ GoTo(t, thread_yield(k), "mbox_yield", arg[t])
  /\ UNCHANGED mboxVars

WaitSwitch(t) ==
  /\ k.active = t /\ pc[t] = "mbox_yield"
  /\ GoTo(t, sched_run(k), "mbox_woken", arg[t])
  /\ UNCHANGED mboxVars
---------------------------------------------------------------------------
(* mbox_try_put() in an interrupt handler                                  *)
IsrPut ==
  \/ /\ readers # <<>>
     /\ LET r == Head(readers)
        IN  /\ IsrSwitch(sched_set_status(k, r, "PENDING"), k.priority[r])
            /\ HandTo(r, NULL)
     /\ UNCHANGED <<pc, arg>>
  \/ /\ readers = <<>> /\ ~cib_full(cib)
     /\ Store(NULL)
     /\ UNCHANGED <<cpuVars, readers, writers, wait_data, got, slipped>>

KernelStep(t) ==
  \/ (YieldHigher(t) \/ SchedSwitch(t)) /\ UNCHANGED mboxVars
  \/ WaitYield(t) \/ WaitSwitch(t) \/ GetAfterWait(t) \/ PutAfterWait(t)

Put(t) == PutHandOver(t) \/ PutQueue(t) \/ PutBlock(t)
Get(t) == GetQueued(t) \/ GetBlock(t)

Next ==
  \/ \E t \in Pids : KernelStep(t)
  \/ \E t \in Writers \ {NULL} : Put(t)
  \/ \E t \in Readers : Get(t)
  \/ NULL \in Writers /\ IsrPut
  \/ \E t \in Pids : (ThreadSleep(t) \/ IsrWakeup(t)) /\ UNCHANGED mboxVars

Spec == Init /\ [][Next]_vars
---------------------------------------------------------------------------
(* The ranges of the variables.                                            *)
TypeOK ==
  /\ CpuTypeOK(MboxWindows)
  /\ cib \in CibType
  /\ msg_array \in [0..(Size - 1) -> Message \cup {NoMsg}]
  /\ readers \in Seq(Pids) /\ writers \in Seq(Pids)
  /\ wait_data \in [Pids -> Message \cup {NoMsg}]
  /\ sent \in [Writers -> 0..(Numbers - 1)] /\ got \in [Writers -> 0..(Numbers - 1)]
  /\ slipped \in BOOLEAN

(* The calls of this module keep run queues, statuses and bitcache in      *)
(* agreement, and find and leave the caller at the head of its run queue,  *)
(* as sched_set_status() requires.                                         *)
SchedulerIntact ==
  /\ RunqueueConsistent
  /\ HeadOutside({"yield_higher", "mbox_wait", "mbox_yield"})

(* t is in a mbox_get(), a = 0, or in a mbox_put(), a = 1, that has had to *)
(* wait.                                                                   *)
In(t, a) == pc[t] \in {"mbox_wait", "mbox_yield", "mbox_woken"} /\ arg[t] = a

(* rq_entry is in one list only: a thread is MBOX_BLOCKED exactly while it *)
(* is among the readers or the writers, once, in the call that put it      *)
(* there.                                                                  *)
BlockedAreListed ==
  /\ IsInjective(readers) /\ IsInjective(writers)
  /\ Range(readers) \cap Range(writers) = {}
  /\ \A t \in Pids :
       k.status[t] = "MBOX_BLOCKED" <=> t \in Range(readers) \cup Range(writers)
  /\ \A t \in Range(readers) : In(t, 0)
  /\ \A t \in Range(writers) : In(t, 1)

(* mbox_get() returns a message, though it takes what is in its buffer     *)
(* without a look whenever it runs again.                                  *)
WokenWithMessage ==
  \A t \in Pids :
    (k.active = t /\ pc[t] = "mbox_woken" /\ arg[t] = 0) => wait_data[t] # NoMsg

(* The kernel's and the mailbox's structures agree: types, run queues, the *)
(* most urgent thread on the CPU, each blocked thread in one list, and no  *)
(* reader woken without a message.                                         *)
MboxIntact ==
  TypeOK /\ SchedulerIntact /\ HighestPriorityRuns /\ BlockedAreListed /\ WokenWithMessage

(* The messages in the queue, in order.                                    *)
Queued == [i \in 1..cib_avail(cib) |-> msg_array[And(cib.read_count + i - 1, cib.mask)]]

(* What is on its way to the only reader r: the message handed to it, and  *)
(* those in the queue.                                                     *)
InTransit(r) == (IF wait_data[r] = NoMsg THEN <<>> ELSE <<wait_data[r]>>) \o Queued

(* The messages of s in q carry successive numbers, the last one n.        *)
Successive(q, s, n) ==
  LET Mine == {i \in 1..Len(q) : q[i].from = s}
  IN  /\ \A i, j \in Mine :
           (i < j /\ \A h \in Mine : h <= i \/ j <= h)
           => q[j].num = (q[i].num + 1) % Numbers
      /\ \A i \in Mine : (\A h \in Mine : h <= i) => q[i].num = n

(* As long as no mbox_put() has slipped, every message put arrives once,   *)
(* and those of one sender in order, handed over or queued: from the last  *)
(* one got to the last one put, each number comes once and in turn.        *)
NoLossNoReordering ==
  \A r \in Readers, s \in Writers :
    (~slipped /\ Readers = {r}) =>
      Successive(<<[from |-> s, num |-> got[s]]>> \o InTransit(r), s, sent[s])

(* core/include/mbox.h: mbox_get() blocks "until a message becomes         *)
(* available": nobody waits while there is one.                            *)
NoReaderWaitsInVain == readers # <<>> => cib_avail(cib) = 0

(* That no mbox_put() looks again after its wait is the only way to a      *)
(* reader that waits in vain and to a queue with more messages than        *)
(* places, where one is overwritten.                                       *)
OnlySlipsHarm == ~slipped => NoReaderWaitsInVain /\ cib_avail(cib) <= Size
============================================================================
