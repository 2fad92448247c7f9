-------------------------------- MODULE Tcp --------------------------------
(***************************************************************************)
(* gnrc_tcp: a client and a server, each with one TCB used by one thread   *)
(* of the application and by the event loop thread, and the network        *)
(* between them.                                                           *)
(*                                                                         *)
(*   tcb[h]    the transmission control block                              *)
(*   mbox[h]   its mbox, through which timers and the FSM wake the thread  *)
(*             that is inside a call                                       *)
(*   events[h] timer messages in the queue of the event loop               *)
(*   app[h]    the thread: pc is its place in the call, ret the result so  *)
(*             far, timers the running timers of the call, probing the     *)
(*             probing mode of gnrc_tcp_send()                             *)
(*   net[h]    the segments under way to h, in the order they were sent.   *)
(*             The network may lose, repeat and reorder them               *)
(*                                                                         *)
(* A call of _fsm() holds fsm_lock and is one step.  Between two           *)
(* statements of the application's thread the event loop, whose priority   *)
(* is higher, may run.                                                     *)
(*                                                                         *)
(* History: given[h] counts the bytes the FSM reported as transmitted,     *)
(* stream[h] holds those that went into a segment, taken[h] those for      *)
(* which gnrc_tcp_send() returned success, got[h] those that               *)
(* gnrc_tcp_recv() returned.  orphan: LL_DELETE() was called on the empty  *)
(* list; app[h].dropped: a timer of the call found the mbox full.          *)
(***************************************************************************)
EXTENDS TcpFsm, SequencesExt

CONSTANTS
  Iss,         \* [Hosts -> the first initial sequence number drawn]
  MboxSize,    \* GNRC_TCP_TCB_MBOX_SIZE
  Offer,       \* bound: [Hosts -> number of bytes the application sends]
  Accepts,     \* bound: number of SYNs the server accepts
  Hungry,      \* the hosts whose packet buffer may be full
  Mishaps,     \* bound: number of expired timers, aborts and full packet buffers
  Faults       \* bound: number of times the network loses, repeats or reorders

Client == "client"
Server == "server"
Hosts  == {Client, Server}
Peer(h) == IF h = Client THEN Server ELSE Client

ASSUME TcpConstants ==
  /\ Iss \in [Hosts -> 0..(SeqSpace - 1)]
  /\ {MboxSize, Accepts} \subseteq Nat \ {0}
  /\ Offer \in [Hosts -> Nat]
  /\ {Mishaps, Faults} \subseteq Nat /\ Hungry \subseteq Hosts

VARIABLES tcb, mbox, events, app, net, given, stream, taken, got, accepts, mishaps, faults, orphan

histVars == <<given, stream, taken, got>>
vars == <<tcb, mbox, events, app, net, histVars, accepts, mishaps, faults, orphan>>

ClientPort == 1
Garbage == 0     \* the payload of a probe; the bytes of a stream count from 1

Idle(pc) == [pc |-> pc, ret |-> 0, timers |-> {}, probing |-> FALSE, dropped |-> FALSE]

Init ==
  /\ tcb = [h \in Hosts |-> tcb_init]
  /\ mbox = [h \in Hosts |-> <<>>]
  /\ events = [h \in Hosts |-> {}]
  /\ app = [h \in Hosts |-> Idle("start")]
  /\ net = [h \in Hosts |-> <<>>]
  /\ given = [h \in Hosts |-> 0]
  /\ stream = [h \in Hosts |-> <<>>]
  /\ taken = [h \in Hosts |-> {}]
  /\ got = [h \in Hosts |-> <<>>]
  /\ accepts = 0 /\ mishaps = 0 /\ faults = 0 /\ orphan = FALSE
---------------------------------------------------------------------------
Mishap == mishaps < Mishaps /\ mishaps' = mishaps + 1

(* mbox_try_put()                                                          *)
try_put(box, type) == IF Len(box) < MboxSize THEN Append(box, type) ELSE box

(* _fsm() of the event e: t is the TCB, box the mbox and n the network     *)
(* when it is called.  A thread that waits is told of what concerns it.    *)
(* notify is cleared at the end and not at the start of a call: nobody     *)
(* reads it between two calls.                                             *)
fsm(h, t, box, n, e) ==
  LET result(mem) ==
        fsm_unprotected([tcb |-> t, out |-> <<>>, mem |-> mem, orphan |-> orphan], e)
      takes(x) ==
        /\ tcb' = [tcb EXCEPT ![h] = [x.tcb EXCEPT !.notify = FALSE]]
        /\ net' = [n EXCEPT ![Peer(h)] = @ \o x.out]
        /\ mbox' = [mbox EXCEPT ![h] =
                      IF x.tcb.notify /\ x.tcb.wait THEN try_put(box, "NOTIFY_USER") ELSE box]
        /\ orphan' = x.orphan
  IN  \E x \in {result(TRUE)} :
        \/ takes(x) /\ UNCHANGED mishaps
        \/ h \in Hungry /\ x.out # <<>> /\ Mishap /\ \E y \in {result(FALSE)} : takes(y)

(* The entry of a call marks the TCB as waiting, flushes the mbox and      *)
(* starts the timers.                                                      *)
Enter(h, pc, timers) ==
  /\ tcb' = [tcb EXCEPT ![h].wait = TRUE]
  /\ mbox' = [mbox EXCEPT ![h] = <<>>]
  /\ app' = [app EXCEPT ![h] = [Idle(pc) EXCEPT !.timers = timers]]
  /\ UNCHANGED <<events, net, histVars, accepts, mishaps, faults, orphan>>

(* Its end stops them.                                                     *)
Return(h) ==
  /\ tcb' = [tcb EXCEPT ![h].wait = FALSE]
  /\ app' = [app EXCEPT ![h] = Idle("ready")]
  /\ UNCHANGED <<mbox, events, net, given, stream, got, accepts, mishaps, faults, orphan>>

At(h, pc) == app[h].pc = pc
Goto(h, pc) ==
  /\ app' = [app EXCEPT ![h].pc = pc]
  /\ UNCHANGED <<tcb, mbox, events, net, histVars, accepts, mishaps, faults, orphan>>

(* mbox_get() of a message, to which the thread reacts with the event e,   *)
(* the result ret and a jump to pc                                         *)
Get(h, type, e, ret, pc) ==
  /\ mbox[h] # <<>> /\ Head(mbox[h]) = type
  /\ fsm(h, tcb[h], Tail(mbox[h]), net, e)
  /\ app' = [app EXCEPT ![h].ret = ret, ![h].pc = pc]
  /\ UNCHANGED <<events, histVars, accepts, faults>>

GetNotify(h, pc) ==
  /\ mbox[h] # <<>> /\ Head(mbox[h]) = "NOTIFY_USER"
  /\ mbox' = [mbox EXCEPT ![h] = Tail(@)]
  /\ app' = [app EXCEPT ![h].pc = pc]
  /\ UNCHANGED <<tcb, events, net, histVars, accepts, mishaps, faults, orphan>>
---------------------------------------------------------------------------
(* gnrc_tcp_open_active(), gnrc_tcp_open_passive()                         *)

(* Nobody else knows the TCB before the FSM has put it into the list.      *)
OpenCall(h) ==
  /\ At(h, "start") /\ tcb[h].state = "CLOSED"
  /\ \E room \in BOOLEAN :
       /\ fsm(h, [tcb[h] EXCEPT !.wait = TRUE, !.passive = (h = Server)], <<>>, net,
              [type |-> "CALL_OPEN", room |-> room, port |-> ClientPort, iss |-> Iss[h]])
       /\ app' = [app EXCEPT ![h] = [Idle("open") EXCEPT
                    !.ret = IF room THEN 0 ELSE -1,
                    !.timers = IF h = Client THEN {"CONNECTION_TIMEOUT"} ELSE {}]]
  /\ UNCHANGED <<events, histVars, accepts, faults>>

Open(h) ==
  /\ At(h, "open")
  /\ IF app[h].ret >= 0 /\ tcb[h].state \notin {"CLOSED", "ESTABLISHED", "CLOSE_WAIT"}
     THEN Goto(h, "open_get") ELSE Return(h) /\ UNCHANGED taken

OpenGet(h) ==
  /\ At(h, "open_get")
  /\ Get(h, "CONNECTION_TIMEOUT", Event("TIMEOUT_CONNECTION"), -1, "open") \/ GetNotify(h, "open")
---------------------------------------------------------------------------
(* gnrc_tcp_send() of the bytes the peer has not been sent                 *)

Rest(h) == [i \in 1..(Offer[h] - given[h]) |-> given[h] + i]

SendCall(h) ==
  /\ At(h, "ready") /\ tcb[h].state \in {"ESTABLISHED", "CLOSE_WAIT"} /\ Rest(h) # <<>>
  /\ Enter(h, "send", {"CONNECTION_TIMEOUT", "USER_SPEC_TIMEOUT"})

Mut_send_without_ack(h) ==
  LET t == tcb[h]
      a == app[h]
      probing == a.probing \/ t.snd_wnd = 0
  IN  /\ At(h, "send")
      /\ IF a.ret # 0
         THEN /\ taken' = [taken EXCEPT ![h] = @ \cup (given[h] - a.ret + 1)..given[h]]
              /\ Return(h)
         ELSE IF t.state = "CLOSED" THEN Return(h) /\ UNCHANGED taken
         ELSE /\ app' = [app EXCEPT
                   ![h].pc = IF a.ret = 0 /\ ~probing THEN "send_fsm" ELSE "send_get",
                   ![h].probing = probing,
                   ![h].timers = @ \cup IF t.snd_wnd = 0 THEN {"PROBE_TIMEOUT"} ELSE {}]
              /\ UNCHANGED <<tcb, mbox, events, net, histVars, accepts, mishaps, faults, orphan>>

(* The head of the loop.  The reset is looked for only if the loop goes on.*)
Send(h) ==
  LET t == tcb[h]
      a == app[h]
      probing == a.probing \/ t.snd_wnd = 0
  IN  /\ At(h, "send")
      /\ IF a.ret # 0 /\ t.pkt_retransmit = <<>>
         THEN /\ taken' = [taken EXCEPT ![h] = @ \cup (given[h] - a.ret + 1)..given[h]]
              /\ Return(h)
         ELSE IF t.state = "CLOSED" THEN Return(h) /\ UNCHANGED taken
         ELSE /\ app' = [app EXCEPT
                   ![h].pc = IF a.ret = 0 /\ ~probing THEN "send_fsm" ELSE "send_get",
                   ![h].probing = probing,
                   ![h].timers = @ \cup IF t.snd_wnd = 0 THEN {"PROBE_TIMEOUT"} ELSE {}]
              /\ UNCHANGED <<tcb, mbox, events, net, histVars, accepts, mishaps, faults, orphan>>

(* The result is the length of the payload, sent or not.                   *)
SendFsm(h) ==
  LET n == Len(Payload(tcb[h], Rest(h)))
  IN  /\ At(h, "send_fsm")
      /\ fsm(h, tcb[h], mbox[h], net, [type |-> "CALL_SEND", buf |-> Rest(h)])
      /\ given' = [given EXCEPT ![h] = @ + n]
      /\ stream' = [stream EXCEPT ![h] = IF mishaps' = mishaps THEN @ \o SubSeq(Rest(h), 1, n) ELSE @]
      /\ app' = [app EXCEPT ![h].pc = "send_get", ![h].ret = n]
      /\ UNCHANGED <<events, taken, got, accepts, faults>>

(* A notification starts the connection timeout anew, and ends the probing *)
(* if the window is open.                                                  *)
SendGet(h) ==
  /\ At(h, "send_get")
  /\ \/ Get(h, "CONNECTION_TIMEOUT", Event("TIMEOUT_CONNECTION"), -1, "send")
     \/ Get(h, "USER_SPEC_TIMEOUT", Event("CLEAR_RETRANSMIT"), -1, "send")
     \/ Get(h, "PROBE_TIMEOUT", [type |-> "SEND_PROBE", garbage |-> Garbage], app[h].ret, "send")
     \/ LET open == tcb[h].snd_wnd > 0 /\ app[h].probing
        IN  /\ mbox[h] # <<>> /\ Head(mbox[h]) = "NOTIFY_USER"
            /\ mbox' = [mbox EXCEPT ![h] = Tail(@)]
            /\ app' = [app EXCEPT
                 ![h].pc = "send", ![h].probing = @ /\ ~open,
                 ![h].timers = (@ \cup {"CONNECTION_TIMEOUT"})
                               \ IF open THEN {"PROBE_TIMEOUT"} ELSE {}]
            /\ UNCHANGED <<tcb, events, net, histVars, accepts, mishaps, faults, orphan>>
---------------------------------------------------------------------------
(* gnrc_tcp_recv() with a timeout                                          *)

RecvCall(h) ==
  /\ At(h, "ready") /\ tcb[h].state \in {"ESTABLISHED", "FIN_WAIT_1", "FIN_WAIT_2", "CLOSE_WAIT"}
  /\ Offer[Peer(h)] > 0
  /\ Enter(h, "recv", {"CONNECTION_TIMEOUT", "USER_SPEC_TIMEOUT"})

Recv(h) ==
  /\ At(h, "recv")
  /\ IF app[h].ret # 0 \/ tcb[h].state = "CLOSED"
     THEN Return(h) /\ UNCHANGED taken ELSE Goto(h, "recv_fsm")

RecvFsm(h) ==
  LET buf == tcb[h].rcv_buf
  IN  /\ At(h, "recv_fsm")
      /\ fsm(h, tcb[h], mbox[h], net, [type |-> "CALL_RECV", len |-> MSS])
      /\ got' = [got EXCEPT ![h] = @ \o buf]
      /\ app' = [app EXCEPT ![h].ret = Len(buf),
                            ![h].pc = IF buf = <<>> THEN "recv_get" ELSE "recv"]
      /\ UNCHANGED <<events, given, stream, taken, accepts, faults>>

RecvGet(h) ==
  /\ At(h, "recv_get")
  /\ \/ Get(h, "CONNECTION_TIMEOUT", Event("TIMEOUT_CONNECTION"), -1, "recv")
     \/ Get(h, "USER_SPEC_TIMEOUT", Event("CLEAR_RETRANSMIT"), -1, "recv")
     \/ GetNotify(h, "recv")
---------------------------------------------------------------------------
(* gnrc_tcp_close(), gnrc_tcp_abort()                                      *)

(* Bound: an application closes when it has sent everything or its peer    *)
(* has closed.                                                             *)
CloseCall(h) ==
  /\ At(h, "ready") /\ tcb[h].state # "CLOSED"
  /\ Rest(h) = <<>> \/ tcb[h].state = "CLOSE_WAIT"
  /\ Enter(h, "close_fsm", {"CONNECTION_TIMEOUT"})

CloseFsm(h) ==
  /\ At(h, "close_fsm")
  /\ fsm(h, tcb[h], mbox[h], net, Event("CALL_CLOSE"))
  /\ app' = [app EXCEPT ![h].pc = "close"]
  /\ UNCHANGED <<events, histVars, accepts, faults>>

Close(h) ==
  /\ At(h, "close")
  /\ IF tcb[h].state = "CLOSED" THEN Return(h) /\ UNCHANGED taken ELSE Goto(h, "close_get")

CloseGet(h) ==
  /\ At(h, "close_get")
  /\ Get(h, "CONNECTION_TIMEOUT", Event("TIMEOUT_CONNECTION"), 0, "close") \/ GetNotify(h, "close")

AbortCall(h) ==
  /\ At(h, "ready") /\ tcb[h].state # "CLOSED"
  /\ Mishap
  /\ app' = [app EXCEPT ![h].pc = "abort_fsm"]
  /\ UNCHANGED <<tcb, mbox, events, net, histVars, accepts, faults, orphan>>

AbortFsm(h) ==
  /\ At(h, "abort_fsm")
  /\ fsm(h, tcb[h], mbox[h], net, Event("CALL_ABORT"))
  /\ app' = [app EXCEPT ![h].pc = "ready"]
  /\ UNCHANGED <<events, histVars, accepts, faults>>
---------------------------------------------------------------------------
(* Timers.  Those of a call put a message into the mbox, if it has room,   *)
(* that of the TCB sends one to the event loop.                            *)

CallTimer(h) ==
  /\ \E type \in app[h].timers :
       /\ mbox' = [mbox EXCEPT ![h] = try_put(@, type)]
       /\ app' = [app EXCEPT ![h].timers = @ \ {type},
                             ![h].dropped = @ \/ Len(mbox[h]) = MboxSize]
  /\ Mishap
  /\ UNCHANGED <<tcb, events, net, histVars, accepts, faults, orphan>>

(* A retransmission is due when nothing is under way any more: an earlier  *)
(* one does what a segment does that the network repeats.                  *)
TcbTimer(h) ==
  /\ tcb[h].tim_tout # "off"
  /\ events' = [events EXCEPT ![h] = @ \cup {tcb[h].tim_tout}]
  /\ tcb' = [tcb EXCEPT ![h].tim_tout = "off"]
  /\ tcb[h].tim_tout = "retransmission" => \A p \in Hosts : net[p] = <<>>
  /\ UNCHANGED <<mbox, app, net, histVars, accepts, mishaps, faults, orphan>>

(* _event_loop() and _receive().  A pure SYN is for a TCB that listens,    *)
(* any other segment for that of its connection.  (A reset for which there *)
(* is no memory here is one the network loses.)                            *)

Timeout(h, type, e) ==
  /\ type \in events[h]
  /\ events' = [events EXCEPT ![h] = @ \ {type}]
  /\ fsm(h, tcb[h], mbox[h], net, e)
  /\ UNCHANGED <<app, histVars, accepts, faults>>

Fits(h, s) ==
  /\ tcb[h].listed
  /\ IF "SYN" \in s.ctl /\ "ACK" \notin s.ctl
     THEN tcb[h].state = "LISTEN" ELSE tcb[h].port = s.conn

Receive(h, s, n) ==
  /\ tcb[h].state = "LISTEN" => accepts < Accepts
  /\ IF Fits(h, s)
     THEN fsm(h, tcb[h], mbox[h], n,
              [type |-> "RCVD_PKT", in_pkt |-> s, iss |-> Add(Iss[h], 5 * accepts)])
     ELSE /\ net' = [n EXCEPT ![Peer(h)] =
                       @ \o IF "RST" \in s.ctl THEN <<>> ELSE <<pkt_build_reset_from_pkt(s)>>]
          /\ UNCHANGED <<tcb, mbox, mishaps, orphan>>
  /\ accepts' = accepts + IF tcb[h].state = "LISTEN" /\ tcb'[h].state # "LISTEN" THEN 1 ELSE 0
  /\ UNCHANGED <<app, events, histVars, faults>>

EventLoop(h) ==
  \/ Timeout(h, "retransmission", Event("TIMEOUT_RETRANSMIT"))
  \/ Timeout(h, "timewait", Event("TIMEOUT_TIMEWAIT"))
  \/ net[h] # <<>> /\ Receive(h, Head(net[h]), [net EXCEPT ![h] = Tail(@)])

(* The network loses the segment at the head, or lets the others pass, or  *)
(* delivers a copy of it later.                                            *)
Network(h) ==
  /\ net[h] # <<>> /\ faults < Faults /\ faults' = faults + 1
  /\ \E n \in {Tail(net[h]), Append(Tail(net[h]), Head(net[h])), Append(net[h], Head(net[h]))} :
       n # net[h] /\ net' = [net EXCEPT ![h] = n]
  /\ UNCHANGED <<tcb, mbox, events, app, histVars, accepts, mishaps, orphan>>

Call(h) == SendCall(h) \/ RecvCall(h) \/ CloseCall(h) \/ AbortCall(h)
Step(h) ==
  \/ Open(h) \/ OpenGet(h) \/ Send(h) \/ SendFsm(h) \/ SendGet(h)
  \/ Recv(h) \/ RecvFsm(h) \/ RecvGet(h) \/ CloseFsm(h) \/ Close(h) \/ CloseGet(h) \/ AbortFsm(h)

(* What follows a call of LL_DELETE() on the empty list is not modelled.   *)
Next ==
  ~orphan /\ \E h \in Hosts :
    OpenCall(h) \/ Call(h) \/ Step(h) \/ CallTimer(h) \/ TcbTimer(h) \/ EventLoop(h) \/ Network(h)

Spec == Init /\ [][Next]_vars
---------------------------------------------------------------------------
(* What the application of h gets, or will get with its next calls of      *)
(* gnrc_tcp_recv()                                                         *)
Received(h) == got[h] \o tcb[h].rcv_buf

(* The bytes gnrc_tcp_recv() returns are those the peer's gnrc_tcp_send()  *)
(* put into segments, in that order, without a gap and none twice, however *)
(* segments are lost, repeated, reordered and retransmitted, packets find  *)
(* no memory, and connections are aborted and accepted again.  (The        *)
(* garbage byte of a probe is never among them.)                           *)
StreamInOrder ==
  \A h \in Hosts : IsPrefix(Received(h), stream[Peer(h)])

Synchronized == {"ESTABLISHED", "CLOSE_WAIT", "LAST_ACK", "FIN_WAIT_1", "FIN_WAIT_2", "CLOSING"}

(* While both ends are in a synchronized state, what the sender takes for  *)
(* acknowledged has been received and what has been received was sent:     *)
(* snd_una <= rcv_nxt of the peer <= snd_nxt in the arithmetic modulo 2^32 *)
(* of LSS_32_BIT and LEQ_32_BIT.                                           *)
SequenceAgreement ==
  \A h \in Hosts :
    LET p == Peer(h)
    IN  {tcb[h].state, tcb[p].state} \subseteq Synchronized
        => /\ LEQ_32_BIT(tcb[h].snd_una, tcb[p].rcv_nxt)
           /\ LEQ_32_BIT(tcb[p].rcv_nxt, tcb[h].snd_nxt)

(* A packet in the retransmission queue, and a TCB in TIME_WAIT, always    *)
(* have their timer running or its message in the queue of the event loop, *)
(* although both share tim_tout and msg_tout: nothing is retransmitted     *)
(* never again, and no TCB stays in TIME_WAIT.                             *)
TimersArmed ==
  \A h \in Hosts :
    LET due(type) == tcb[h].tim_tout = type \/ type \in events[h]
    IN  /\ tcb[h].pkt_retransmit # <<>> => due("retransmission")
        /\ tcb[h].state = "TIME_WAIT" => due("timewait")

Waiting(h) == app[h].pc \in {"open_get", "send_get", "recv_get", "close_get"}

(* A thread that waits in mbox_get() with nothing in the mbox has its      *)
(* connection timeout running, so that every call comes to an end.  Two    *)
(* cases excepted: gnrc_tcp_open_passive() has none, and _cb_mbox_put_msg()*)
(* drops the message of a timer that finds the mbox full.                  *)
WaitsForATimer ==
  \A h \in Hosts :
    Waiting(h) /\ mbox[h] = <<>> /\ ~app[h].dropped /\ ~(h = Server /\ At(h, "open_get"))
    => "CONNECTION_TIMEOUT" \in app[h].timers

(* When gnrc_tcp_send() returns the number of bytes sent, the peer has     *)
(* received them ("Loop until something was sent and acked",               *)
(* gnrc_tcp.c:339), unless the connection was closed meanwhile, which the  *)
(* loop then does not look at, or _pkt_build() found no memory, which      *)
(* _fsm_call_send() does not look at.                                      *)
SendSuccess ==
  [][\A h \in Hosts : \A b \in taken'[h] \ taken[h] :
       \/ b \in Range(Received(Peer(h)))
       \/ tcb[h].state = "CLOSED"
       \/ b \notin Range(stream[h])]_vars

(* What the comment says: bytes that gnrc_tcp_send() reports as sent have  *)
(* been acknowledged, and so received, by the peer.                        *)
SentAndAcked ==
  \A h \in Hosts : taken[h] \subseteq Range(Received(Peer(h)))
============================================================================
