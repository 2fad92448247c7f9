------------------------------- MODULE TcpFsm -------------------------------
(***************************************************************************)
(* gnrc_tcp_fsm.c and gnrc_tcp_pkt.c: what one event does to a TCB.  Every *)
(* operator maps a result x to a result,                                   *)
(*   x.tcb   the transmission control block                                *)
(*   x.out   the segments passed down the network stack                    *)
(*   x.mem   the packet buffer has room for the packets of this event      *)
(*   x.orphan  LL_DELETE() was called on the empty list, which it follows  *)
(*             through a null pointer                                      *)
(* so that an event is the composition of the functions it calls.          *)
(*                                                                         *)
(* A segment holds the ports (there is one server: conn is the port of the *)
(* client), the control bits, the sequence numbers modulo SeqSpace (2^32), *)
(* the window and the payload.                                             *)
(* The TCB keeps the fields that decide anything: not the RTT estimation,  *)
(* nor mss, which each SYN sets to GNRC_TCP_MSS.  tim_tout is the message  *)
(* the running timer will send, or "off".                                  *)
(***************************************************************************)
EXTENDS Integers, Sequences, FiniteSets

CONSTANTS
  SeqSpace,        \* the number of sequence numbers
  MSS              \* GNRC_TCP_MSS, also the window and the receive buffer

ASSUME FsmConstants ==
  /\ SeqSpace \in Nat /\ SeqSpace > 1 /\ SeqSpace % 2 = 0
  /\ MSS \in 1..(SeqSpace \div 2 - 1)

States ==
  {"CLOSED", "LISTEN", "SYN_SENT", "SYN_RCVD", "ESTABLISHED", "CLOSE_WAIT", "LAST_ACK",
   "FIN_WAIT_1", "FIN_WAIT_2", "CLOSING", "TIME_WAIT"}
---------------------------------------------------------------------------
Add(a, b) == (a + b) % SeqSpace

(* The sign of the 32-bit difference.                                      *)
LSS_32_BIT(a, b) == (a - b) % SeqSpace >= SeqSpace \div 2
LEQ_32_BIT(a, b) == a = b \/ LSS_32_BIT(a, b)

INSIDE_WND(l_ed, seq_num, r_ed) == LEQ_32_BIT(l_ed, seq_num) /\ LSS_32_BIT(seq_num, r_ed)

pkt_get_pay_len(s) == Len(s.data)
pkt_get_seg_len(s) == Len(s.data) + Cardinality(s.ctl \cap {"SYN", "FIN"})

(* gnrc_tcp_tcb_init(): all zero                                           *)
tcb_init ==
  [state |-> "CLOSED", port |-> 0, passive |-> FALSE, wait |-> FALSE, notify |-> FALSE,
   listed |-> FALSE, buffer |-> FALSE, rcv_buf |-> <<>>, pkt_retransmit |-> <<>>,
   tim_tout |-> "off", iss |-> 0, snd_una |-> 0, snd_nxt |-> 0, snd_wnd |-> 0,
   snd_wl1 |-> 0, snd_wl2 |-> 0, rcv_nxt |-> 0, rcv_wnd |-> 0]
---------------------------------------------------------------------------
(* Packets                                                                 *)

Segment(t, ctl, seq, ack, data) ==
  [conn |-> t.port, ctl |-> ctl, seq |-> seq, ack |-> ack, wnd |-> t.rcv_wnd, data |-> data]

Mut_send_counts_flags_only(x, ctl, seq, ack, data) ==
  IF ~x.mem THEN x
  ELSE [x EXCEPT !.out = Append(@, Segment(x.tcb, ctl, seq, ack, data)),
                 !.tcb.snd_nxt = Add(@, Cardinality(ctl \cap {"SYN", "FIN"}))]

(* _pkt_build() and _pkt_send(): without memory nothing is sent and        *)
(* snd_nxt stays.                                                          *)
pkt_send(x, ctl, seq, ack, data) ==
  LET s == Segment(x.tcb, ctl, seq, ack, data)
  IN  IF ~x.mem THEN x
      ELSE [x EXCEPT !.out = Append(@, s),
                     !.tcb.snd_nxt = Add(@, pkt_get_seg_len(s))]

(* _pkt_setup_retransmit() between the two, for the segments that take     *)
(* sequence numbers: the queue has one place, and a packet that finds it   *)
(* taken is sent all the same.                                             *)
pkt_send_reliably(x, ctl, seq, ack, data) ==
  LET s == Segment(x.tcb, ctl, seq, ack, data)
      y == pkt_send(x, ctl, seq, ack, data)
  IN  IF ~x.mem \/ x.tcb.pkt_retransmit # <<>> THEN y
      ELSE [y EXCEPT !.tcb.pkt_retransmit = <<s>>, !.tcb.tim_tout = "retransmission"]

pkt_send_ack(x) == pkt_send(x, {"ACK"}, x.tcb.snd_nxt, x.tcb.rcv_nxt, <<>>)

(* The header of _fsm_send_probe() is built without seq_con.               *)
pkt_send_probe(x, garbage) ==
  IF ~x.mem THEN x
  ELSE [x EXCEPT !.out = Append(@, Segment(x.tcb, {"ACK"}, Add(x.tcb.snd_una, -1),
                                           x.tcb.rcv_nxt, <<garbage>>))]

(* _pkt_build_reset_from_pkt()                                             *)
pkt_build_reset_from_pkt(s) ==
  [conn |-> s.conn, wnd |-> 0, data |-> <<>>,
   ctl |-> IF "ACK" \in s.ctl THEN {"RST"} ELSE {"RST", "ACK"},
   seq |-> IF "ACK" \in s.ctl THEN s.ack ELSE 0,
   ack |-> IF "ACK" \in s.ctl THEN 0 ELSE Add(s.seq, pkt_get_seg_len(s))]

(* _pkt_acknowledge()                                                      *)
pkt_acknowledge(x, ack) ==
  IF /\ x.tcb.pkt_retransmit # <<>>
     /\ LET p == x.tcb.pkt_retransmit[1]
        IN  LSS_32_BIT(Add(p.seq, pkt_get_seg_len(p) - 1), ack)
  THEN [x EXCEPT !.tcb.pkt_retransmit = <<>>, !.tcb.tim_tout = "off"]
  ELSE x

(* _pkt_chk_seq_num()                                                      *)
pkt_chk_seq_num(t, seq_num, seg_len) ==
  LET r_edge   == Add(t.rcv_nxt, t.rcv_wnd)
      last_seq == Add(seq_num, seg_len - 1)
  IN  \/ seg_len = 0 /\ t.rcv_wnd = 0 /\ t.rcv_nxt = seq_num
      \/ seg_len = 0 /\ t.rcv_wnd > 0 /\ INSIDE_WND(t.rcv_nxt, seq_num, r_edge)
      \/ /\ seg_len > 0 /\ t.rcv_wnd > 0
         /\ INSIDE_WND(t.rcv_nxt, seq_num, r_edge) \/ INSIDE_WND(t.rcv_nxt, last_seq, r_edge)
---------------------------------------------------------------------------
(* _transition_to().  The time-wait timer is not stopped on the way to     *)
(* CLOSED, only a retransmission is.                                       *)

clear_retransmit(x) ==
  IF x.tcb.pkt_retransmit = <<>> THEN x
  ELSE [x EXCEPT !.tcb.pkt_retransmit = <<>>, !.tcb.tim_tout = "off"]

to_closed(x) ==
  [clear_retransmit(x) EXCEPT
     !.tcb.listed = FALSE, !.tcb.buffer = FALSE, !.tcb.notify = TRUE, !.tcb.state = "CLOSED",
     !.orphan = @ \/ ~x.tcb.listed]

(* _rcvbuf_get_buffer() empties the ring buffer only if the TCB had none.  *)
get_buffer(x) ==
  [x EXCEPT !.tcb.rcv_buf = IF x.tcb.buffer THEN @ ELSE <<>>, !.tcb.buffer = TRUE]

to_listen(x) ==
  [get_buffer(x) EXCEPT !.tcb.port = 0, !.tcb.listed = TRUE, !.tcb.state = "LISTEN"]

to_syn_sent(x, port) ==
  [get_buffer(x) EXCEPT !.tcb.port = port, !.tcb.listed = TRUE, !.tcb.state = "SYN_SENT"]

(* ESTABLISHED and CLOSE_WAIT                                              *)
to_notifying(x, state) == [x EXCEPT !.tcb.notify = TRUE, !.tcb.state = state]

restart_timewait_timer(x) == [x EXCEPT !.tcb.tim_tout = "timewait"]

to_time_wait(x) == [restart_timewait_timer(x) EXCEPT !.tcb.state = "TIME_WAIT"]

to_plain(x, state) == [x EXCEPT !.tcb.state = state]
---------------------------------------------------------------------------
(* The calls of the user                                                   *)

(* _fsm_call_open(): a passive TCB listens, any other sends a SYN.  room:  *)
(* a receive buffer is free, and so is the port; if not, the list holds    *)
(* the TCB that has it, and LL_DELETE() finds nothing to do.               *)
fsm_call_open(x, room, port, iss) ==
  LET y == [x EXCEPT !.tcb.rcv_wnd = MSS]
      z == [y EXCEPT !.tcb.iss = iss, !.tcb.snd_nxt = iss, !.tcb.snd_una = iss]
      closed(w) == [to_closed(w) EXCEPT !.orphan = x.orphan]
  IN  IF x.tcb.passive THEN (IF room THEN to_listen(y) ELSE closed(y))
      ELSE IF ~room THEN closed(z)
      ELSE pkt_send_reliably(to_syn_sent(z, port), {"SYN"}, iss, 0, <<>>)

(* The payload that _fsm_call_send() takes from bytes: none if the window  *)
(* is closed or a packet is under way.  The first difference is unsigned.  *)
Payload(t, bytes) ==
  LET usable == (t.snd_una + t.snd_wnd - t.snd_nxt) % SeqSpace
      fits   == {n \in 1..Len(bytes) : n <= usable /\ n <= MSS}
  IN  IF t.snd_wnd = 0 \/ t.pkt_retransmit # <<>> \/ fits = {} THEN <<>>
      ELSE SubSeq(bytes, 1, CHOOSE n \in fits : \A m \in fits : m <= n)

fsm_call_send(x, bytes) ==
  LET payload == Payload(x.tcb, bytes)
  IN  IF payload = <<>> THEN x
      ELSE pkt_send_reliably(x, {"ACK"}, x.tcb.snd_nxt, x.tcb.rcv_nxt, payload)

(* _fsm_call_recv() of up to len bytes: the window is opened again only    *)
(* when the buffer can take a whole segment.                               *)
fsm_call_recv(x, len) ==
  LET buf  == x.tcb.rcv_buf
      n    == IF len < Len(buf) THEN len ELSE Len(buf)
      left == SubSeq(buf, n + 1, Len(buf))
      y    == [x EXCEPT !.tcb.rcv_buf = left]
  IN  IF buf = <<>> \/ MSS - Len(left) < MSS THEN y
      ELSE pkt_send_ack([y EXCEPT !.tcb.rcv_wnd = MSS - Len(left)])

(* _fsm_call_close()                                                       *)
fsm_call_close(x) ==
  LET fin == pkt_send_reliably(x, {"FIN", "ACK"}, x.tcb.snd_nxt, x.tcb.rcv_nxt, <<>>)
  IN  CASE x.tcb.state = "LISTEN"                      -> to_closed(x)
        [] x.tcb.state \in {"SYN_RCVD", "ESTABLISHED"} -> to_plain(fin, "FIN_WAIT_1")
        [] x.tcb.state = "CLOSE_WAIT"                  -> to_plain(fin, "LAST_ACK")
        [] OTHER                                       -> x

(* _fsm_call_abort()                                                       *)
fsm_call_abort(x) ==
  to_closed(IF x.tcb.state \in {"SYN_RCVD", "ESTABLISHED", "FIN_WAIT_1", "FIN_WAIT_2",
                                "CLOSE_WAIT"}
            THEN pkt_send(x, {"RST"}, x.tcb.snd_nxt, x.tcb.rcv_nxt, <<>>)
            ELSE x)
---------------------------------------------------------------------------
Mut_retransmit_once(x) ==
  IF x.tcb.pkt_retransmit = <<>> THEN x
  ELSE [x EXCEPT !.out = Append(@, x.tcb.pkt_retransmit[1])]

(* The timers.  A retransmission is sent as it was built.                  *)

fsm_timeout_retransmit(x) ==
  IF x.tcb.pkt_retransmit = <<>> THEN x
  ELSE [x EXCEPT !.tcb.tim_tout = "retransmission",
                 !.out = Append(@, x.tcb.pkt_retransmit[1])]

fsm_timeout_timewait(x) == to_closed(x)

Mut_connection_timeout_ignored(x) == x

fsm_timeout_connection(x) == to_closed(x)
---------------------------------------------------------------------------
(* _fsm_rcvd_pkt(), by state                                               *)

Window(x, s) ==
  [x EXCEPT !.tcb.snd_wnd = s.wnd, !.tcb.snd_wl1 = s.seq, !.tcb.snd_wl2 = s.ack]

rcvd_listen(x, s, iss) ==
  LET y == [x EXCEPT !.tcb.port = s.conn, !.tcb.rcv_nxt = Add(s.seq, 1),
                     !.tcb.iss = iss, !.tcb.snd_una = iss, !.tcb.snd_nxt = iss,
                     !.tcb.snd_wnd = s.wnd]
  IN  IF "RST" \in s.ctl THEN x
      ELSE IF "ACK" \in s.ctl
           THEN [x EXCEPT !.out = IF x.mem THEN Append(@, pkt_build_reset_from_pkt(s)) ELSE @]
      ELSE IF "SYN" \in s.ctl
           THEN to_plain(pkt_send_reliably(y, {"SYN", "ACK"}, iss, y.tcb.rcv_nxt, <<>>),
                         "SYN_RCVD")
      ELSE x

(* The acknowledgment is compared without regard to overflow.              *)
rcvd_syn_sent(x, s) ==
  LET t == x.tcb
      has(c) == c \in s.ctl
      y == [x EXCEPT !.tcb.rcv_nxt = Add(s.seq, 1)]
      z == IF has("ACK") THEN pkt_acknowledge([y EXCEPT !.tcb.snd_una = s.ack], s.ack) ELSE y
  IN  IF has("ACK") /\ (s.ack <= t.iss \/ s.ack > t.snd_nxt)
      THEN IF has("RST") THEN x ELSE pkt_send(x, {"RST"}, s.ack, 0, <<>>)
      ELSE IF has("RST") THEN IF has("ACK") THEN to_closed(x) ELSE x
      ELSE IF ~has("SYN") THEN x
      ELSE IF z.tcb.snd_una > t.iss
           THEN Window(to_notifying(pkt_send_ack(z), "ESTABLISHED"), s)
           ELSE Window(to_plain(pkt_send_reliably(z, {"SYN", "ACK"}, t.iss, z.tcb.rcv_nxt, <<>>),
                                "SYN_RCVD"), s)

Advances(t, ack) == LSS_32_BIT(t.snd_una, ack) /\ LEQ_32_BIT(ack, t.snd_nxt)

(* The ACK of a SYN_RCVD; a wrong one is answered and nothing else.        *)
rcvd_ack_of_syn(x, s) ==
  IF x.tcb.state # "SYN_RCVD" THEN x
  ELSE IF Advances(x.tcb, s.ack)
       THEN to_notifying(Window(x, s), "ESTABLISHED")
       ELSE pkt_send(x, {"RST"}, s.ack, 0, <<>>)

Acknowledging ==
  {"ESTABLISHED", "FIN_WAIT_1", "FIN_WAIT_2", "CLOSE_WAIT", "CLOSING", "LAST_ACK"}

(* Acknowledge what was sent, and take over the peer's window.             *)
rcvd_acknowledgment(x, s) ==
  LET y == IF Advances(x.tcb, s.ack)
           THEN pkt_acknowledge([x EXCEPT !.tcb.snd_una = s.ack], s.ack) ELSE x
      u == y.tcb
  IN  IF /\ LEQ_32_BIT(u.snd_una, s.ack) /\ LEQ_32_BIT(s.ack, u.snd_nxt)
         /\ \/ LSS_32_BIT(u.snd_wl1, s.seq)
            \/ u.snd_wl1 = s.seq /\ LEQ_32_BIT(u.snd_wl2, s.ack)
      THEN [Window(y, s) EXCEPT !.tcb.notify = TRUE] ELSE y

(* What the acknowledgment of our FIN leads to: an empty retransmission    *)
(* queue is taken for it.                                                  *)
rcvd_ack_of_fin(x) ==
  IF x.tcb.pkt_retransmit # <<>> THEN x
  ELSE CASE x.tcb.state = "FIN_WAIT_1" -> to_plain(x, "FIN_WAIT_2")
         [] x.tcb.state = "CLOSING"    -> to_time_wait(x)
         [] x.tcb.state = "LAST_ACK"   -> to_closed(x)
         [] OTHER                      -> x

Mut_payload_not_counted(x, s) ==
  LET room == MSS - Len(x.tcb.rcv_buf)
      n    == IF room < Len(s.data) THEN room ELSE Len(s.data)
      y    == IF x.tcb.rcv_nxt # s.seq THEN x
              ELSE [x EXCEPT !.tcb.rcv_buf = @ \o SubSeq(s.data, 1, n),
                             !.tcb.rcv_wnd = room - n, !.tcb.notify = TRUE]
  IN  IF s.data = <<>> \/ x.tcb.state \notin {"ESTABLISHED", "FIN_WAIT_1", "FIN_WAIT_2"} THEN x
      ELSE IF "FIN" \in s.ctl THEN y ELSE pkt_send_ack(y)

(* Only the payload that is next in line is taken, and as much of it as    *)
(* the buffer holds; it is acknowledged unless a FIN does so.              *)
rcvd_payload(x, s) ==
  LET room == MSS - Len(x.tcb.rcv_buf)
      n    == IF room < Len(s.data) THEN room ELSE Len(s.data)
      y    == IF x.tcb.rcv_nxt # s.seq THEN x
              ELSE [x EXCEPT !.tcb.rcv_buf = @ \o SubSeq(s.data, 1, n),
                             !.tcb.rcv_nxt = Add(@, n),
                             !.tcb.rcv_wnd = room - n,
                             !.tcb.notify = TRUE]
  IN  IF s.data = <<>> \/ x.tcb.state \notin {"ESTABLISHED", "FIN_WAIT_1", "FIN_WAIT_2"} THEN x
      ELSE IF "FIN" \in s.ctl THEN y ELSE pkt_send_ack(y)

rcvd_fin(x, s) ==
  LET y == pkt_send_ack([x EXCEPT !.tcb.rcv_nxt = Add(s.seq, pkt_get_seg_len(s))])
  IN  IF "FIN" \notin s.ctl \/ x.tcb.state \in {"CLOSED", "LISTEN", "SYN_SENT"} THEN x
      ELSE CASE x.tcb.state \in {"SYN_RCVD", "ESTABLISHED"} -> to_notifying(y, "CLOSE_WAIT")
             [] x.tcb.state = "FIN_WAIT_1" ->
                  IF x.tcb.pkt_retransmit = <<>> THEN to_time_wait(y) ELSE to_plain(y, "CLOSING")
             [] x.tcb.state = "FIN_WAIT_2" -> to_time_wait(y)
             [] x.tcb.state = "TIME_WAIT"  -> restart_timewait_timer(y)
             [] OTHER                      -> y

(* After the ACK check: an acknowledgment of what was not sent yet is      *)
(* answered and ends the matter, and so does the end of a LAST_ACK.        *)
rcvd_acceptable(x, s) ==
  LET y == rcvd_ack_of_syn(x, s)
      z == rcvd_ack_of_fin(rcvd_acknowledgment(y, s))
  IN  IF y.tcb.state \notin Acknowledging THEN rcvd_fin(rcvd_payload(y, s), s)
      ELSE IF ~Advances(y.tcb, s.ack) /\ LSS_32_BIT(y.tcb.snd_nxt, s.ack) THEN pkt_send_ack(y)
      ELSE IF y.tcb.state = "LAST_ACK" /\ z.tcb.state = "CLOSED" THEN z
      ELSE rcvd_fin(rcvd_payload(z, s), s)

rcvd_other(x, s) ==
  IF ~pkt_chk_seq_num(x.tcb, s.seq, pkt_get_pay_len(s))
  THEN IF "RST" \in s.ctl THEN x ELSE pkt_send_ack(x)
  ELSE IF "RST" \in s.ctl
       THEN IF x.tcb.state = "SYN_RCVD" /\ x.tcb.passive THEN to_listen(x) ELSE to_closed(x)
  ELSE IF "SYN" \in s.ctl
       THEN to_closed(pkt_send(x, {"RST"}, x.tcb.snd_nxt, x.tcb.rcv_nxt, <<>>))
  ELSE IF "ACK" \in s.ctl THEN rcvd_acceptable(x, s) ELSE x

fsm_rcvd_pkt(x, s, iss) ==
  CASE x.tcb.state = "LISTEN"   -> rcvd_listen(x, s, iss)
    [] x.tcb.state = "SYN_SENT" -> rcvd_syn_sent(x, s)
    [] OTHER                    -> rcvd_other(x, s)
---------------------------------------------------------------------------
(* _fsm_unprotected(): e is the event with its arguments.                  *)
Event(type) == [type |-> type]

fsm_unprotected(x, e) ==
  CASE e.type = "CALL_OPEN"          -> fsm_call_open(x, e.room, e.port, e.iss)
    [] e.type = "CALL_SEND"          -> fsm_call_send(x, e.buf)
    [] e.type = "CALL_RECV"          -> fsm_call_recv(x, e.len)
    [] e.type = "CALL_CLOSE"         -> fsm_call_close(x)
    [] e.type = "CALL_ABORT"         -> fsm_call_abort(x)
    [] e.type = "RCVD_PKT"           -> fsm_rcvd_pkt(x, e.in_pkt, e.iss)
    [] e.type = "TIMEOUT_TIMEWAIT"   -> fsm_timeout_timewait(x)
    [] e.type = "TIMEOUT_RETRANSMIT" -> fsm_timeout_retransmit(x)
    [] e.type = "TIMEOUT_CONNECTION" -> fsm_timeout_connection(x)
    [] e.type = "SEND_PROBE"         -> pkt_send_probe(x, e.garbage)
    [] e.type = "CLEAR_RETRANSMIT"   -> clear_retransmit(x)
============================================================================
