-------------------------------- MODULE Msg --------------------------------
(***************************************************************************)
(* core/msg.c without MODULE_CORE_THREAD_FLAGS: messages between threads   *)
(* and from interrupt handlers, requests and replies.                      *)
(*                                                                         *)
(*   mq[t]        the messages in t's msg_queue; QueueSize[t] = 0 is a     *)
(*                thread that never called msg_init_queue()                *)
(*   waiters[t]   t's msg_waiters, the threads blocked in sending to t     *)
(*   buf[t]       the msg_t that t's wait_data points to                   *)
(*                                                                         *)
(* The rest observes.  Messages on one link, any one, are numbered modulo  *)
(* Numbers, the others all have number 0; sent and got are the last number *)
(* sent and received on that link, the only one in their domains; todo[t]  *)
(* are the senders of the requests t has received and not yet replied to.  *)
(*                                                                         *)
(* Windows added to those of Cpu:                                          *)
(*   recv_yield, recv_woken     blocked in msg_receive(): about to yield,  *)
(*                              and switched away                          *)
(*   reply_check                msg_send_receive() has queued its message  *)
(*                              and is about to read its own status        *)
(*   reply_yield, reply_woken   blocked in msg_send_receive()              *)
(* arg[t] is there the thread that the request went to.                    *)
(***************************************************************************)
EXTENDS Cpu

CONSTANTS
  NThreads,    \* how many threads exist
  Prio,        \* the priority of each thread
  QueueSize,   \* the size of each thread's message queue
  Sends,       \* who calls msg_send() to whom: pairs <<sender, receiver>>
  Requests,    \* who calls msg_send_receive() to whom
  Numbers      \* message numbers count modulo this

KERNEL_PID_ISR == MaxPid + 1
Created == 1..NThreads
Senders == Created \cup {KERNEL_PID_ISR}
Links   == Sends \cup Requests

ASSUME MsgConstants ==
  /\ NThreads \in Pids
  /\ Prio \in [Pids -> Prios]
  /\ \A t \in Created : (Prio[t] = IdlePrio) <=> (t = Idle)
  /\ QueueSize \in [Pids -> Nat]
  /\ Sends \subseteq Senders \X Created
  /\ Requests \subseteq Created \X Created
  /\ \A l \in Requests : l[1] # l[2]
  /\ Numbers \in Nat /\ \A t \in Pids : Numbers > QueueSize[t] + 2

VARIABLES mq, waiters, buf, sent, got, todo

msgVars == <<mq, waiters, buf, sent, got, todo>>
vars    == <<cpuVars, msgVars>>

NoMsg == [from |-> NULL, kind |-> "none", num |-> 0]

Message == [from : Senders, kind : {"send", "request", "reply"}, num : 0..(Numbers - 1)]

MsgWindows ==
  {"app", "yield_higher", "switch", "recv_yield", "recv_woken",
   "reply_check", "reply_yield", "reply_woken"}

Init ==
  /\ k = AllCreated(NThreads, Prio) /\ Quiet
  /\ mq = [t \in Pids |-> <<>>]
  /\ waiters = [t \in Pids |-> <<>>]
  /\ buf = [t \in Pids |-> NoMsg]
  /\ \E watched \in Links : sent = [l \in {watched} |-> 0]
  /\ got = sent
  /\ todo = [t \in Pids |-> {}]
---------------------------------------------------------------------------
NextNum(s, r) == IF <<s, r>> \in DOMAIN sent THEN (sent[<<s, r>>] + 1) % Numbers ELSE 0

(* The message that s sends to r next.                                     *)
Mail(s, r, kind) == [from |-> s, kind |-> kind, num |-> NextNum(s, r)]

Count(s, r) == sent' = [l \in DOMAIN sent |-> IF l = <<s, r>> THEN NextNum(s, r) ELSE sent[l]]

(* queue_msg() finds room.                                                 *)
HasRoom(r) == Len(mq[r]) < QueueSize[r]

(* msg_send_receive() sets the status before it calls _msg_send().         *)
Enter(t, kind) ==
  IF kind = "request" THEN sched_set_status(k, t, "REPLY_BLOCKED") ELSE k

(* t leaves the interrupt-free part of sending to r.                       *)
Leave(t, r, kind, k2, request_label, send_label) ==
  IF kind = "request" THEN GoTo(t, k2, request_label, r) ELSE GoTo(t, k2, send_label, 0)

(* _msg_send() to a receiver that waits.                                   *)
SendDirect(t, r, kind) ==
  /\ InApp(t)
  /\ k.status[r] = "RECEIVE_BLOCKED"
  /\ Leave(t, r, kind, sched_set_status(Enter(t, kind), r, "PENDING"),
           "reply_yield", "yield_higher")
  /\ buf' = [buf EXCEPT ![r] = Mail(t, r, kind),
                        ![t] = IF kind = "request" THEN Mail(t, r, kind) ELSE @]
  /\ Count(t, r)
  /\ UNCHANGED <<mq, waiters, got, todo>>

(* ... to one that has room in its queue, also msg_send_to_self().         *)
SendQueue(t, r, kind) ==
  /\ InApp(t)
  /\ k.status[r] # "RECEIVE_BLOCKED" /\ HasRoom(r)
  /\ Leave(t, r, kind, Enter(t, kind), "reply_check", "app")
  /\ mq' = [mq EXCEPT ![r] = Append(@, Mail(t, r, kind))]
  /\ buf' = [buf EXCEPT ![t] = IF kind = "request" THEN Mail(t, r, kind) ELSE @]
  /\ Count(t, r)
  /\ UNCHANGED <<waiters, got, todo>>

(* ... to one that has not: the sender blocks.  msg_try_send() and         *)
(* msg_send_to_self() return 0 instead.                                    *)
SendBlock(t, r, kind) ==
  /\ InApp(t) /\ t # r
  /\ k.status[r] # "RECEIVE_BLOCKED" /\ ~HasRoom(r)
  /\ Leave(t, r, kind,
           sched_set_status(Enter(t, kind), t,
             IF kind = "request" THEN "REPLY_BLOCKED" ELSE "SEND_BLOCKED"),
           "reply_yield", "yield_higher")
  /\ waiters' = [waiters EXCEPT ![r] = thread_add_to_list(k.priority, @, t)]
  /\ buf' = [buf EXCEPT ![t] = Mail(t, r, kind)]
  /\ Count(t, r)
  /\ UNCHANGED <<mq, got, todo>>

(* _msg_send() for a PID without a thread returns -1, but msg_send_receive *)
(* has blocked its caller by then.                                         *)
RequestNobody(t) ==
  /\ InApp(t)
  /\ Pids \ Created # {}
  /\ GoTo(t, Enter(t, "request"), "app", 0)
  /\ buf' = [buf EXCEPT ![t] = [from |-> t, kind |-> "request", num |-> 0]]
  /\ UNCHANGED <<mq, waiters, sent, got, todo>>

Mut_reply_check_never_yields(t) ==
  /\ k.active = t /\ pc[t] = "reply_check"
  /\ GoTo(t, k, "reply_woken", arg[t])
  /\ UNCHANGED msgVars

(* msg_send_receive() after _msg_send() has restored interrupts.           *)
ReplyCheck(t) ==
  /\ k.active = t /\ pc[t] = "reply_check"
  /\ GoTo(t, IF k.status[t] = "REPLY_BLOCKED" THEN sched_run(k) ELSE k,
          "reply_woken", arg[t])
  /\ UNCHANGED msgVars

ReplyYield(t) ==
  /\ k.active = t /\ pc[t] = "reply_yield"
  /\ GoTo(t, sched_run(k), "reply_woken", arg[t])
  /\ UNCHANGED msgVars

ReplyReturn(t) ==
  /\ k.active = t /\ pc[t] = "reply_woken"
  /\ GoTo(t, k, "app", 0)
  /\ buf' = [buf EXCEPT ![t] = NoMsg]
  /\ UNCHANGED <<mq, waiters, sent, got, todo>>
---------------------------------------------------------------------------
(* The application of t gets message m.                                    *)
Consume(t, m) ==
  /\ got' = [l \in DOMAIN got |-> IF l = <<m.from, t>> THEN m.num ELSE got[l]]
  /\ todo' = [todo EXCEPT ![t] = IF m.kind = "request" THEN @ \cup {m.from} ELSE @]

(* A sender whose message has been taken out of its buffer runs on, unless *)
(* it waits for a reply.                                                   *)
ReleaseSender(t, s) ==
  IF k.status[s] # "REPLY_BLOCKED"
  THEN /\ GoTo(t, sched_set_status(k, s, "PENDING"), "switch", k.priority[s])
       /\ buf' = [buf EXCEPT ![s] = NoMsg]
  ELSE UNCHANGED <<cpuVars, buf>>

Mut_receive_forgets_copy(t) ==
  /\ InApp(t)
  /\ mq[t] # <<>>
  /\ mq' = [mq EXCEPT ![t] = Tail(@)]
  /\ IF waiters[t] = <<>>
     THEN UNCHANGED <<cpuVars, buf, waiters>>
     ELSE /\ waiters' = [waiters EXCEPT ![t] = Tail(@)]
          /\ ReleaseSender(t, Head(waiters[t]))
  /\ Consume(t, Head(mq[t]))
  /\ UNCHANGED sent

Mut_receive_forgets_waiter(t) ==
  /\ InApp(t)
  /\ mq[t] # <<>>
  /\ mq' = [mq EXCEPT ![t] = Tail(@)]
  /\ Consume(t, Head(mq[t]))
  /\ UNCHANGED <<cpuVars, buf, waiters, sent>>

(* _msg_receive() with a message in the queue; the first waiter's message  *)
(* takes the place that becomes free.                                      *)
ReceiveQueued(t) ==
  /\ InApp(t)
  /\ mq[t] # <<>>
  /\ IF waiters[t] = <<>>
     THEN /\ mq' = [mq EXCEPT ![t] = Tail(@)]
          /\ UNCHANGED <<cpuVars, buf, waiters>>
     ELSE LET s == Head(waiters[t])
          IN  /\ mq' = [mq EXCEPT ![t] = Append(Tail(@), buf[s])]
              /\ waiters' = [waiters EXCEPT ![t] = Tail(@)]
              /\ ReleaseSender(t, s)
  /\ Consume(t, Head(mq[t]))
  /\ UNCHANGED sent

ReceiveFromWaiter(t) ==
  /\ InApp(t)
  /\ mq[t] = <<>> /\ waiters[t] # <<>>
  /\ LET s == Head(waiters[t])
     IN  /\ Consume(t, buf[s])
         /\ ReleaseSender(t, s)
  /\ waiters' = [waiters EXCEPT ![t] = Tail(@)]
  /\ UNCHANGED <<mq, sent>>

(* msg_try_receive() returns -1 instead.                                   *)
ReceiveBlock(t) ==
  /\ InApp(t)
  /\ mq[t] = <<>> /\ waiters[t] = <<>>
  /\ GoTo(t, sched_set_status(k, t, "RECEIVE_BLOCKED"), "recv_yield", 0)
  /\ UNCHANGED msgVars

ReceiveYield(t) ==
  /\ k.active = t /\ pc[t] = "recv_yield"
  /\ GoTo(t, sched_run(k), "recv_woken", 0)
  /\ UNCHANGED msgVars

(* "sender copied message"                                                 *)
ReceiveReturn(t) ==
  /\ k.active = t /\ pc[t] = "recv_woken"
  /\ GoTo(t, k, "app", 0)
  /\ Consume(t, buf[t])
  /\ buf' = [buf EXCEPT ![t] = NoMsg]
  /\ UNCHANGED <<mq, waiters, sent>>
---------------------------------------------------------------------------
Reply(t, s) ==
  /\ todo' = [todo EXCEPT ![t] = @ \ {s}]
  /\ buf' = [buf EXCEPT ![s] = [from |-> t, kind |-> "reply", num |-> 0]]
  /\ UNCHANGED <<mq, waiters, sent, got>>

Mut_reply_without_wakeup(t, s) ==
  /\ InApp(t)
  /\ s \in todo[t] /\ k.status[s] = "REPLY_BLOCKED"
  /\ GoTo(t, k, "switch", k.priority[s])
  /\ Reply(t, s)

(* msg_reply().  The users' discipline: one reply to each request.         *)
MsgReply(t, s) ==
  /\ InApp(t)
  /\ s \in todo[t] /\ k.status[s] = "REPLY_BLOCKED"
  /\ GoTo(t, sched_set_status(k, s, "PENDING"), "switch", k.priority[s])
  /\ Reply(t, s)

(* An interrupt handler that has set sched_context_switch_request.         *)
IsrEnd(k1) ==
  /\ k' = cortexm_isr_end([k1 EXCEPT !.request = TRUE])
  /\ UNCHANGED <<pc, arg, null_store>>

(* msg_reply_int(), by an interrupt handler that t has left the request to *)
IsrReply(t, s) ==
  /\ s \in todo[t] /\ k.status[s] = "REPLY_BLOCKED"
  /\ IsrEnd(sched_set_status(k, s, "PENDING"))
  /\ Reply(t, s)

(* msg_send_int(); with a full queue it returns 0.                         *)
IsrSend(r) ==
  LET m == Mail(KERNEL_PID_ISR, r, "send")
  IN  /\ \/ /\ k.status[r] = "RECEIVE_BLOCKED"
            /\ IsrEnd(sched_set_status(k, r, "PENDING"))
            /\ buf' = [buf EXCEPT ![r] = m]
            /\ UNCHANGED mq
         \/ /\ k.status[r] # "RECEIVE_BLOCKED" /\ HasRoom(r)
            /\ mq' = [mq EXCEPT ![r] = Append(@, m)]
            /\ UNCHANGED <<cpuVars, buf>>
      /\ Count(KERNEL_PID_ISR, r)
      /\ UNCHANGED <<waiters, got, todo>>
---------------------------------------------------------------------------
KernelStep(t) ==
  \/ (YieldHigher(t) \/ SchedSwitch(t)) /\ UNCHANGED msgVars
  \/ ReplyCheck(t) \/ ReplyYield(t) \/ ReplyReturn(t)
  \/ ReceiveYield(t) \/ ReceiveReturn(t)

Send(t, r, kind) == SendDirect(t, r, kind) \/ SendQueue(t, r, kind) \/ SendBlock(t, r, kind)

Receive(t) == ReceiveQueued(t) \/ ReceiveFromWaiter(t) \/ ReceiveBlock(t)

AppStep(t) ==
  \/ Receive(t)
  \/ \E r \in Created : \/ <<t, r>> \in Sends /\ Send(t, r, "send")
                        \/ <<t, r>> \in Requests /\ Send(t, r, "request")
                        \/ MsgReply(t, r)

IsrStep ==
  \/ \E t, s \in Created : IsrReply(t, s)
  \/ \E r \in Created : <<KERNEL_PID_ISR, r>> \in Sends /\ IsrSend(r)

Next == (\E t \in Created : KernelStep(t) \/ AppStep(t)) \/ IsrStep

Spec == Init /\ [][Next]_vars

(* The core never stops while a thread other than idle has it; a receiver  *)
(* that runs again and again receives again and again; every request that  *)
(* was received is replied to, by its receiver or an interrupt handler.    *)
Fairness ==
  /\ WF_vars(\E t \in Created : KernelStep(t) \/ AppStep(t))
  /\ \A t \in {l[2] : l \in Links} : SF_vars(Receive(t))
  /\ \A l \in Requests : SF_vars(MsgReply(l[2], l[1]) \/ IsrReply(l[2], l[1]))

FairSpec == Spec /\ Fairness

(* With callers that do not check whether the thread exists.               *)
SpecNobody == Init /\ [][Next \/ \E t \in Created : RequestNobody(t)]_vars
---------------------------------------------------------------------------
(* The ranges of the variables; no queue holds more than its size.         *)
TypeOK ==
  /\ CpuTypeOK(MsgWindows)
  /\ mq \in [Pids -> Seq(Message)]
  /\ \A t \in Pids : Len(mq[t]) <= QueueSize[t]
  /\ waiters \in [Pids -> Seq(Pids)]
  /\ buf \in [Pids -> Message \cup {NoMsg}]
  /\ \E l \in Links : {sent, got} \subseteq [{l} -> 0..(Numbers - 1)]
  /\ todo \in [Pids -> SUBSET Created]

(* Messages from s that r has not got yet, in the order r will get them:   *)
(* in the buffer of its msg_receive(), in its queue, in the buffer of a    *)
(* sender that waits.                                                      *)
InTransit(s, r) ==
  LET handed  == IF pc[r] \in {"recv_yield", "recv_woken"} /\ buf[r] # NoMsg
                 THEN <<buf[r]>> ELSE <<>>
      waiting == [i \in 1..Len(waiters[r]) |-> buf[waiters[r][i]]]
  IN  SelectSeq(handed \o mq[r] \o waiting, LAMBDA m : m.from = s)

(* Every message sent arrives once and in order: those between s and r     *)
(* have the numbers that follow the last one received, up to the last one  *)
(* sent, whether they were handed over, queued, or moved from a blocked    *)
(* sender into the queue.                                                  *)
NoLossNoReordering ==
  \A l \in DOMAIN sent :
    LET transit == InTransit(l[1], l[2])
    IN  /\ \A i \in 1..Len(transit) : transit[i].num = (got[l] + i) % Numbers
        /\ sent[l] = (got[l] + Len(transit)) % Numbers

(* No message waits for a receiver that waits for a message: a thread is   *)
(* RECEIVE_BLOCKED only with nothing in its queue and nobody blocked in    *)
(* sending to it, and a sender blocks only while the queue is full.        *)
NobodyWaitsInVain ==
  \A r \in Pids :
    /\ k.status[r] = "RECEIVE_BLOCKED" => mq[r] = <<>> /\ waiters[r] = <<>>
    /\ waiters[r] # <<>> => Len(mq[r]) = QueueSize[r]

(* rq_entry is in one list only: a thread that waits in some msg_waiters   *)
(* is there once and is blocked, a SEND_BLOCKED thread always is, and a    *)
(* thread whose request has been received is in none.                      *)
SendersLinkedOnce ==
  \A t \in Created :
    LET places == {<<r, i>> \in Created \X Pids : i <= Len(waiters[r]) /\ waiters[r][i] = t}
    IN  /\ Cardinality(places) <= 1
        /\ places # {} => k.status[t] \in {"SEND_BLOCKED", "REPLY_BLOCKED"}
        /\ k.status[t] = "SEND_BLOCKED" => places # {}
        /\ (\E r \in Created : t \in todo[r]) => places = {} /\ k.status[t] = "REPLY_BLOCKED"

(* msg_send_receive() returns the reply of the thread it was called for,   *)
(* and msg_receive() a message, though both take what is in their buffer   *)
(* without a look whenever they run again.                                 *)
WokenWithMessage ==
  k.active # NULL =>
    LET t == k.active
    IN  /\ pc[t] = "reply_woken" => buf[t].kind = "reply" /\ buf[t].from = arg[t]
        /\ pc[t] = "recv_woken" => buf[t].kind \in {"send", "request"}

(* The calls of this module keep run queues, statuses and bitcache in      *)
(* agreement, and find and leave the caller at the head of its run queue,  *)
(* as sched_set_status() requires.                                         *)
SchedulerIntact ==
  /\ RunqueueConsistent
  /\ HeadOutside({"yield_higher", "recv_yield", "reply_check", "reply_yield"})

(* The kernel's and the messages' structures agree: types, run queues, the *)
(* most urgent thread on the CPU, each blocked sender in one list, and     *)
(* nobody woken without a message.                                         *)
MsgIntact ==
  TypeOK /\ SchedulerIntact /\ HighestPriorityRuns /\ SendersLinkedOnce /\ WokenWithMessage

(* The request of the most urgent thread is answered if the threads keep   *)
(* receiving and replying: it is not overtaken for ever in the list of     *)
(* waiters, and no other thread keeps the receiver from running for ever.  *)
UrgentRequestAnswered ==
  \A t \in Created :
    (\A u \in Created \ {t} : Prio[t] < Prio[u]) =>
      (k.status[t] = "REPLY_BLOCKED" ~> pc[t] = "app")

(* core/include/thread.h: a REPLY_BLOCKED thread is "waiting for a message *)
(* response", so it does not run application code.                         *)
NotBlockedInApp ==
  (k.active # NULL /\ pc[k.active] = "app") => k.status[k.active] # "REPLY_BLOCKED"
============================================================================
