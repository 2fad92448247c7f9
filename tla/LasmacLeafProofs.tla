-------------------------- MODULE LasmacLeafProofs --------------------------
(***************************************************************************)
(* The safety properties of LasmacLeaf for any number of packets and any   *)
(* sizes of the queues.                                                    *)
(*                                                                         *)
(* Unless one of the races has happened, the duty cycle has one token: it  *)
(* is either with the radio (radio_busy), or an EVENT or REMOVE_QUEUE      *)
(* waits in the inbox or is being worked on, or the timer runs.  An EVENT  *)
(* may come second, behind a REMOVE_QUEUE, when a frame is received.       *)
(***************************************************************************)
EXTENDS LasmacLeaf, SequenceTheorems, TLAPS

Types == {"EVENT", "REMOVE_QUEUE", "NETDEV", "SND"}
Duties == {"TX_DATA", "TX_DATA_BEFORE_DATAREQ", "TX_DATAREQ", "LISTEN", "SLEEP"}
Message == [type : Types, pkt : Packets \cup {"none"}]
Radio ==
  [status : {"RX", "SLEEP", "TX", "BUSY_TX"}, idle : {"RX", "SLEEP"}, pending_tx : Int,
   irq : BOOLEAN, trac : {"SUCCESS", "NO_ACK", "SUCCESS_DATA_PENDING"},
   frame : Packets \cup {"DATAREQ", "none"}]

TypeOK ==
  /\ duty \in Duties /\ timer \in BOOLEAN /\ pkt_queue \in Seq(Packets)
  /\ radio_busy \in BOOLEAN /\ additional_wakeup \in BOOLEAN
  /\ inbox \in Seq(Message) /\ Len(inbox) <= InboxSize
  /\ job \in Seq([msg : Message, duty : Duties])
  /\ radio \in Radio /\ pending_event \in BOOLEAN
  /\ fate \in [Packets -> {"unsent", "accepted", "sent", "lost", "behind", "dropped"}]
  /\ raced \in BOOLEAN

(* A message of this type is in the queue s.                               *)
Has(s, type) == \E i \in 1..Len(s) : s[i].type = type

(* At most one EVENT and one REMOVE_QUEUE, the latter first                *)
Ordered(s) ==
  /\ \A i, j \in 1..Len(s) : s[i].type = "EVENT" /\ s[j].type = "EVENT" => i = j
  /\ \A i, j \in 1..Len(s) :
       s[i].type = "REMOVE_QUEUE" /\ s[j].type \in {"EVENT", "REMOVE_QUEUE"} => i <= j

(* The packets handed over in s are no longer unsent.                      *)
HandedOver(s, f) ==
  \A i \in 1..Len(s) : s[i].type = "SND" => s[i].pkt \in Packets /\ f[s[i].pkt] # "unsent"

Due(type) == Has(inbox, type) \/ Working(type)

(* The radio's side of radio_busy                                          *)
RadioInv ==
  IF radio_busy
  THEN /\ radio.pending_tx = 1
       /\ \/ radio.status = "BUSY_TX" /\ ~radio.irq
          \/ radio.status = "TX" /\ radio.irq /\ radio.frame = "none"
  ELSE /\ radio.pending_tx = 0 /\ radio.frame = "none"
       /\ radio.status = "RX" \/ (radio.status = "SLEEP" /\ ~radio.irq)

(* Who has the token, and what the duty-cycle state says about it          *)
TokenInv ==
  /\ Ordered(inbox)
  /\ Working("EVENT") => ~Has(inbox, "EVENT")
  /\ Working("EVENT") \/ Working("REMOVE_QUEUE") => ~Has(inbox, "REMOVE_QUEUE")
  /\ radio_busy => /\ ~Due("EVENT") /\ ~Due("REMOVE_QUEUE")
                   /\ duty \in {"TX_DATA", "TX_DATA_BEFORE_DATAREQ", "TX_DATAREQ"}
  /\ timer => duty \in {"TX_DATA", "SLEEP", "LISTEN"}
  /\ timer /\ Due("EVENT") => duty = "TX_DATA" /\ ~Due("REMOVE_QUEUE")
  /\ Due("REMOVE_QUEUE") =>
       duty \in {"TX_DATA", "TX_DATA_BEFORE_DATAREQ"} /\ pkt_queue # <<>>
  /\ duty = "TX_DATAREQ" => radio_busy \/ Due("EVENT")
  /\ Working("EVENT") \/ Working("REMOVE_QUEUE") => job[1].duty = duty
  /\ Working("SND") /\ job[1].duty = "SLEEP" => duty = "SLEEP"

(* The head of the packet queue has been transmitted when it is removed.   *)
PacketInv ==
  /\ \A p \in Packets : fate[p] # "lost"
  /\ Due("REMOVE_QUEUE") => fate[Head(pkt_queue)] # "accepted"
  /\ radio_busy /\ duty # "TX_DATAREQ" /\ pkt_queue # <<>> =>
       \/ radio.status = "BUSY_TX" /\ radio.frame = Head(pkt_queue)
       \/ fate[Head(pkt_queue)] # "accepted"

(* The answer to a data request is known when its EVENT is handled.        *)
PendingInv ==
  /\ duty = "TX_DATAREQ" /\ Due("EVENT") /\ pending_event
  /\ radio.trac = "SUCCESS_DATA_PENDING"
  => additional_wakeup

HandedInv ==
  /\ HandedOver(inbox, fate)
  /\ Working("SND") => job[1].msg.pkt \in Packets /\ fate[job[1].msg.pkt] # "unsent"
  /\ \A i \in 1..Len(pkt_queue) : fate[pkt_queue[i]] # "unsent"

LeafInv ==
  /\ TypeOK /\ HandedInv
  /\ ~raced => RadioInv /\ TokenInv /\ PacketInv /\ PendingInv
---------------------------------------------------------------------------
(* Appending to the inbox: what it has, and when it stays in order         *)
LEMMA AppendHas ==
  ASSUME NEW s \in Seq(Message), NEW m \in Message
  PROVE  /\ Append(s, m) \in Seq(Message)
         /\ \A x : Has(Append(s, m), x) <=> Has(s, x) \/ m.type = x
         /\ Ordered(s) /\ (m.type \in {"EVENT", "REMOVE_QUEUE"} => ~Has(s, "EVENT"))
            /\ (m.type = "REMOVE_QUEUE" => ~Has(s, "REMOVE_QUEUE")) => Ordered(Append(s, m))
<1> DEFINE r == Append(s, m)
           n == Len(s)
<1>1. /\ r \in Seq(Message) /\ Len(r) = n + 1 /\ n \in Nat
      /\ \A i \in 1..n : r[i] = s[i]
      /\ r[n + 1] = m
  BY AppendProperties, LenProperties
<1>2. \A i \in 1..Len(r) : i \in 1..n \/ i = n + 1
  BY <1>1
<1>3. 1..n \subseteq 1..Len(r) /\ n + 1 \in 1..Len(r)
  BY <1>1
<1> HIDE DEF r, n
<1>4. ASSUME NEW x PROVE Has(r, x) <=> Has(s, x) \/ m.type = x
  <2>1. Has(r, x) => Has(s, x) \/ m.type = x
    BY <1>1, <1>2, Zenon DEF Has, n
  <2>2. Has(s, x) \/ m.type = x => Has(r, x)
    BY <1>1, <1>3, Zenon DEF Has, n
  <2> QED
    BY <2>1, <2>2, Zenon
<1>5. ASSUME Ordered(s), m.type \in {"EVENT", "REMOVE_QUEUE"} => ~Has(s, "EVENT"),
             m.type = "REMOVE_QUEUE" => ~Has(s, "REMOVE_QUEUE")
      PROVE  Ordered(r)
  <2>1. ASSUME NEW i \in 1..Len(r), NEW j \in 1..Len(r),
               r[i].type = "EVENT", r[j].type = "EVENT"
        PROVE  i = j
    BY <1>1, <1>2, <1>5, <2>1, Zenon DEF Ordered, Has, n
  <2>2. ASSUME NEW i \in 1..Len(r), NEW j \in 1..Len(r),
               r[i].type = "REMOVE_QUEUE", r[j].type \in {"EVENT", "REMOVE_QUEUE"}
        PROVE  i <= j
    BY <1>1, <1>2, <1>5, <2>2 DEF Ordered, Has, n
  <2> QED
    BY <2>1, <2>2, Zenon DEF Ordered
<1> QED
  BY <1>1, <1>4, <1>5, Zenon DEF r

(* Taking the first message off the inbox                                  *)
LEMMA TailHas ==
  ASSUME NEW s \in Seq(Message), s # <<>>
  PROVE  /\ Head(s) \in Message /\ Tail(s) \in Seq(Message)
         /\ \A x : Has(s, x) <=> Has(Tail(s), x) \/ Head(s).type = x
         /\ Ordered(s) => /\ Ordered(Tail(s))
                          /\ Head(s).type = "EVENT" => ~Has(Tail(s), "EVENT")
                          /\ Head(s).type \in {"EVENT", "REMOVE_QUEUE"}
                             => ~Has(Tail(s), "REMOVE_QUEUE")
<1> DEFINE r == Tail(s)
           n == Len(r)
<1>1. /\ r \in Seq(Message) /\ Len(s) = n + 1 /\ n \in Nat
      /\ \A i \in 1..n : r[i] = s[i + 1]
      /\ Head(s) = s[1] /\ Head(s) \in Message
  BY HeadTailProperties, LenProperties, EmptySeq
<1>2. /\ \A i \in 1..n : i + 1 \in 1..Len(s) /\ i + 1 # 1
      /\ \A i \in 1..Len(s) : i = 1 \/ (i - 1 \in 1..n /\ (i - 1) + 1 = i)
      /\ 1 \in 1..Len(s)
  BY <1>1
<1>3. \A i \in 1..Len(s) : i = 1 \/ s[i] = r[i - 1]
  BY <1>1, <1>2, Zenon
<1> HIDE DEF r, n
<1>4. ASSUME NEW x PROVE Has(s, x) <=> Has(r, x) \/ Head(s).type = x
  <2>1. Has(s, x) => Has(r, x) \/ Head(s).type = x
    BY <1>1, <1>2, <1>3, Zenon DEF Has, n
  <2>2. Has(r, x) \/ Head(s).type = x => Has(s, x)
    BY <1>1, <1>2 DEF Has, n
  <2> QED
    BY <2>1, <2>2, Zenon
<1>5. ASSUME Ordered(s)
      PROVE  /\ Ordered(r)
             /\ Head(s).type = "EVENT" => ~Has(r, "EVENT")
             /\ Head(s).type \in {"EVENT", "REMOVE_QUEUE"} => ~Has(r, "REMOVE_QUEUE")
  <2>1. ASSUME NEW i \in 1..n, NEW j \in 1..n, r[i].type = "EVENT", r[j].type = "EVENT"
        PROVE  i = j
    BY <1>1, <1>2, <1>5, <2>1 DEF Ordered
  <2>2. ASSUME NEW i \in 1..n, NEW j \in 1..n,
               r[i].type = "REMOVE_QUEUE", r[j].type \in {"EVENT", "REMOVE_QUEUE"}
        PROVE  i <= j
    BY <1>1, <1>2, <1>5, <2>2 DEF Ordered
  <2>3. ASSUME NEW i \in 1..n
        PROVE  /\ s[1].type = "EVENT" => r[i].type # "EVENT"
               /\ s[1].type \in {"EVENT", "REMOVE_QUEUE"} => r[i].type # "REMOVE_QUEUE"
    BY <1>1, <1>2, <1>5 DEF Ordered
  <2> QED
    BY <1>1, <2>1, <2>2, <2>3, Zenon DEF Ordered, Has, n
<1> QED
  BY <1>1, <1>4, <1>5, Zenon DEF r

(* The packets of a queue stay handed over when it grows, shrinks, and     *)
(* when no packet becomes unsent.                                          *)
LEMMA Handed ==
  ASSUME NEW s \in Seq(Message), NEW f, HandedOver(s, f)
  PROVE  /\ \A g : (\A p \in Packets : f[p] # "unsent" => g[p] # "unsent") => HandedOver(s, g)
         /\ \A m \in Message :
              (m.type = "SND" => m.pkt \in Packets /\ f[m.pkt] # "unsent")
              => HandedOver(Append(s, m), f)
         /\ s # <<>> =>
              /\ HandedOver(Tail(s), f)
              /\ Head(s).type = "SND" => Head(s).pkt \in Packets /\ f[Head(s).pkt] # "unsent"
<1>1. ASSUME NEW g, \A p \in Packets : f[p] # "unsent" => g[p] # "unsent"
      PROVE  HandedOver(s, g)
  BY <1>1, Zenon DEF HandedOver
<1>2. ASSUME NEW m \in Message, m.type = "SND" => m.pkt \in Packets /\ f[m.pkt] # "unsent"
      PROVE  HandedOver(Append(s, m), f)
  <2> DEFINE r == Append(s, m)
  <2>1. Len(r) = Len(s) + 1 /\ Len(s) \in Nat
        /\ (\A i \in 1..Len(s) : r[i] = s[i]) /\ r[Len(s) + 1] = m
    BY AppendProperties, LenProperties
  <2>2. \A i \in 1..Len(r) : i \in 1..Len(s) \/ i = Len(s) + 1
    BY <2>1
  <2> HIDE DEF r
  <2>3. HandedOver(r, f)
    BY <1>2, <2>1, <2>2, Zenon DEF HandedOver
  <2> QED
    BY <2>3, Zenon DEF r
<1>3. ASSUME s # <<>>
      PROVE  /\ HandedOver(Tail(s), f)
             /\ Head(s).type = "SND" => Head(s).pkt \in Packets /\ f[Head(s).pkt] # "unsent"
  <2> DEFINE r == Tail(s)
  <2>1. /\ Len(s) = Len(r) + 1 /\ Len(r) \in Nat /\ Head(s) = s[1]
        /\ \A i \in 1..Len(r) : r[i] = s[i + 1]
    BY <1>3, HeadTailProperties, LenProperties, EmptySeq
  <2>2. 1 \in 1..Len(s) /\ \A i \in 1..Len(r) : i + 1 \in 1..Len(s)
    BY <2>1
  <2> HIDE DEF r
  <2>3. HandedOver(r, f)
    BY <2>1, <2>2, Zenon DEF HandedOver
  <2>4. Head(s).type = "SND" => Head(s).pkt \in Packets /\ f[Head(s).pkt] # "unsent"
    BY <2>1, <2>2, Zenon DEF HandedOver
  <2> QED
    BY <2>3, <2>4, Zenon DEF r
<1> QED
  BY <1>1, <1>2, <1>3, Zenon

(* The message that the thread works on                                    *)
LEMMA JobType ==
  ASSUME TypeOK, job # <<>>
  PROVE  job[1] \in [msg : Message, duty : Duties]
<1> DEFINE J == [msg : Message, duty : Duties]
<1>1. job \in Seq(J)
  BY Zenon DEF TypeOK
<1> HIDE DEF J
<1>2. Len(job) \in Nat /\ Len(job) # 0
  BY <1>1, EmptySeq, LenProperties, Zenon
<1>3. 1 \in 1..Len(job)
  BY <1>2
<1>4. job[1] \in J
  BY <1>1, <1>3, ElementOfSeq, Zenon
<1> QED
  BY <1>4, Zenon DEF J

(* post(): the message is in the inbox, or is lost for want of room.       *)
LEMMA Posted ==
  ASSUME TypeOK, NEW type \in Types, post(type)
  PROVE  /\ inbox' \in Seq(Message) /\ Len(inbox') <= InboxSize
         /\ \A x : Has(inbox', x) => Has(inbox, x) \/ x = type
         /\ \A x : Has(inbox, x) => Has(inbox', x)
         /\ ~Lost => Has(inbox', type)
         /\ Ordered(inbox) /\ (type \in {"EVENT", "REMOVE_QUEUE"} => ~Has(inbox, "EVENT"))
            /\ (type = "REMOVE_QUEUE" => ~Has(inbox, "REMOVE_QUEUE")) => Ordered(inbox')
         /\ type # "SND" /\ HandedOver(inbox, fate) => HandedOver(inbox', fate)
<1>1. Msg(type) \in Message /\ Msg(type).type = type
  BY Zenon DEF Msg, Message
<1>2. Len(inbox) \in Nat /\ InboxSize \in Nat /\ Len(inbox) <= InboxSize
  BY LenProperties, LeafConstants, Zenon DEF TypeOK
<1>3. CASE inbox' = inbox /\ Lost
  BY <1>2, <1>3, Zenon DEF TypeOK
<1>4. CASE inbox' = Append(inbox, Msg(type)) /\ Len(inbox) < InboxSize
  <2>1. type # "SND" /\ HandedOver(inbox, fate) => HandedOver(inbox', fate)
    BY <1>1, <1>4, Handed, Zenon DEF TypeOK
  <2>2. Len(inbox') <= InboxSize
    BY <1>1, <1>2, <1>4, AppendProperties DEF TypeOK
  <2> QED
    BY <1>1, <1>4, <2>1, <2>2, AppendHas, Zenon DEF TypeOK
<1> QED
  BY <1>2, <1>3, <1>4 DEF post, Lost

Frames == Packets \cup {"DATAREQ", "none"}

(* The driver's operations keep the radio's ranges.                        *)
LEMMA RadioTypes ==
  ASSUME NEW r \in Radio
  PROVE  /\ \A s \in {"RX", "SLEEP"} : set_state(r, s) \in Radio
         /\ \A f \in Frames : r.status # "BUSY_TX" => send(r, f) \in Radio
         /\ [r EXCEPT !.irq = FALSE] \in Radio
         /\ [r EXCEPT !.pending_tx = @ - 1] \in Radio
         /\ \A i \in {"RX", "SLEEP"} : [r EXCEPT !.pending_tx = 0, !.idle = i] \in Radio
<1>1. ASSUME NEW s \in {"RX", "SLEEP"} PROVE set_state(r, s) \in Radio
  BY Zenon DEF set_state, Radio
<1>2. ASSUME NEW f \in Frames, r.status # "BUSY_TX" PROVE send(r, f) \in Radio
  <2> DEFINE idle == IF r.status = "TX" THEN r.idle ELSE r.status
             n == r.pending_tx + 1
  <2>1. idle \in {"RX", "SLEEP"} /\ n \in Int
    BY <1>2 DEF Radio
  <2> HIDE DEF idle, n
  <2>2. [r EXCEPT !.pending_tx = n, !.idle = idle, !.status = "BUSY_TX", !.frame = f] \in Radio
    BY <2>1, Zenon DEF Radio, Frames
  <2> QED
    BY <2>2, Zenon DEF send, idle, n
<1>3. [r EXCEPT !.irq = FALSE] \in Radio
  BY Zenon DEF Radio
<1>4. [r EXCEPT !.pending_tx = @ - 1] \in Radio
  BY DEF Radio
<1>5. ASSUME NEW i \in {"RX", "SLEEP"} PROVE [r EXCEPT !.pending_tx = 0, !.idle = i] \in Radio
  <2> DEFINE a == [r EXCEPT !.pending_tx = 0]
  <2>1. a \in Radio
    BY DEF Radio
  <2>2. [r EXCEPT !.pending_tx = 0, !.idle = i] = [a EXCEPT !.idle = i]
    BY Zenon DEF Radio
  <2> HIDE DEF a
  <2>3. [a EXCEPT !.idle = i] \in Radio
    BY <2>1, Zenon DEF Radio
  <2> QED
    BY <2>2, <2>3, Zenon
<1> QED
  BY <1>1, <1>2, <1>3, <1>4, <1>5, Zenon

(* Transmit() keeps the ranges of what it changes.                         *)
LEMMA TransmitType ==
  ASSUME TypeOK, Quiet, NEW f \in Frames, Transmit(f)
  PROVE  radio' \in Radio /\ radio_busy' \in BOOLEAN /\ raced' \in BOOLEAN
  BY RadioTypes, Zenon DEF TypeOK, Quiet, Transmit, Race, Waits

(* So does going to sleep.                                                 *)
LEMMA SleepType ==
  ASSUME TypeOK, Sleep
  PROVE  /\ radio' \in Radio /\ radio_busy' \in BOOLEAN /\ raced' \in BOOLEAN
         /\ duty' \in Duties
  BY RadioTypes, Zenon DEF TypeOK, Sleep, Duties

(* The packets in the queue are among Packets.                             *)
LEMMA QueueType ==
  ASSUME NEW q \in Seq(Packets), q # <<>>
  PROVE  /\ Head(q) \in Packets /\ Head(q) = q[1] /\ Tail(q) \in Seq(Packets)
         /\ Len(q) \in Nat \ {0} /\ 1 \in 1..Len(q)
         /\ Len(q) = 1 => Tail(q) = <<>>
         /\ Len(q) > 1 => /\ q[2] \in Packets /\ Tail(q) # <<>> /\ Head(Tail(q)) = q[2]
         /\ \A i \in 1..Len(Tail(q)) : i + 1 \in 1..Len(q) /\ Tail(q)[i] = q[i + 1]
<1>1. Len(q) \in Nat \ {0}
  BY LenProperties, EmptySeq, Zenon
<1>2. /\ Head(q) \in Packets /\ Head(q) = q[1] /\ Tail(q) \in Seq(Packets)
      /\ Len(Tail(q)) = Len(q) - 1
      /\ \A i \in 1..Len(Tail(q)) : Tail(q)[i] = q[i + 1]
  BY <1>1, HeadTailProperties
<1>3. Len(q) = 1 => Tail(q) = <<>>
  <2> DEFINE r == Tail(q)
  <2>1. r \in Seq(Packets) /\ Len(r) = Len(q) - 1
    BY <1>2, Zenon
  <2> HIDE DEF r
  <2>2. Len(q) = 1 => r = <<>>
    BY <1>1, <2>1, EmptySeq
  <2> QED
    BY <2>2, Zenon DEF r
<1>4. ASSUME Len(q) > 1 PROVE q[2] \in Packets /\ Tail(q) # <<>> /\ Head(Tail(q)) = q[2]
  <2>1. Len(Tail(q)) \in Nat \ {0} /\ 1 \in 1..Len(Tail(q)) /\ 2 \in 1..Len(q)
    BY <1>1, <1>2, <1>4
  <2>2. Tail(q) # <<>>
    BY <2>1, EmptySeq, Zenon
  <2>3. Head(Tail(q)) = Tail(q)[1] /\ Tail(q)[1] = q[1 + 1]
    BY <1>2, <2>1, <2>2, HeadTailProperties
  <2> QED
    BY <2>1, <2>2, <2>3, ElementOfSeq
<1>5. \A i \in 1..Len(Tail(q)) : i + 1 \in 1..Len(q)
  BY <1>1, <1>2
<1> QED
  BY <1>1, <1>2, <1>3, <1>4, <1>5

(* Every step keeps the ranges.                                            *)
LEMMA TypeStep ==
  ASSUME TypeOK, HandedInv, [Next]_vars
  PROVE  TypeOK'
<1>1. CASE UNCHANGED vars
  BY <1>1, Zenon DEF TypeOK, vars, macVars
<1>2. CASE dutycycle_cb
  BY <1>2, Posted, Zenon DEF TypeOK, dutycycle_cb, Race, Lost, Working, Types, Duties
<1>3. ASSUME NEW r \in Radio, irq_handler(r)
      PROVE  /\ radio' \in Radio /\ raced' \in BOOLEAN
             /\ inbox' \in Seq(Message) /\ Len(inbox') <= InboxSize
  BY <1>3, Posted, Zenon DEF TypeOK, irq_handler, Race, Lost, Types, Radio
<1>4. CASE TxEnd
  <2>1. PICK trac \in {"SUCCESS", "NO_ACK", "SUCCESS_DATA_PENDING"} :
          irq_handler([radio EXCEPT !.status = "TX", !.trac = trac, !.frame = "none"])
    BY <1>4, Zenon DEF TxEnd
  <2>2. [radio EXCEPT !.status = "TX", !.trac = trac, !.frame = "none"] \in Radio
    BY Zenon DEF TypeOK, Radio
  <2> QED
    BY <1>3, <1>4, <2>1, <2>2, Zenon DEF TypeOK, TxEnd, macVars
<1>5. CASE RxEnd
  BY <1>3, <1>5, Zenon DEF TypeOK, RxEnd, macVars
<1>6. CASE Snd
  <2>1. PICK p \in Packets : /\ fate' = [fate EXCEPT ![p] = "accepted"]
                             /\ inbox' = Append(inbox, [type |-> "SND", pkt |-> p])
    BY <1>6, Zenon DEF Snd
  <2>2. [type |-> "SND", pkt |-> p] \in Message
    BY Zenon DEF Message, Types
  <2>3. inbox' \in Seq(Message) /\ Len(inbox') = Len(inbox) + 1 /\ Len(inbox) \in Nat
    BY <2>1, <2>2, AppendProperties, LenProperties, Zenon DEF TypeOK
  <2>4. Len(inbox') <= InboxSize
    BY <1>6, <2>3, LeafConstants DEF Snd
  <2> QED
    BY <1>6, <2>1, <2>3, <2>4, Zenon DEF TypeOK, Snd, macVars
<1>7. CASE msg_receive
  <2>1. Head(inbox) \in Message /\ Tail(inbox) \in Seq(Message)
    BY <1>7, TailHas, Zenon DEF TypeOK, msg_receive
  <2>2. Len(Tail(inbox)) <= InboxSize
    BY <1>7, HeadTailProperties, LenProperties, LeafConstants DEF TypeOK, msg_receive
  <2>3. job' \in Seq([msg : Message, duty : Duties])
    BY <1>7, <2>1 DEF TypeOK, msg_receive
  <2> QED
    BY <1>7, <2>1, <2>2, <2>3, Zenon DEF TypeOK, msg_receive, macVars
<1>8. Done => job' \in Seq([msg : Message, duty : Duties])
  BY DEF Done
<1>9. ASSUME pkt_queue # <<>> PROVE Head(pkt_queue) \in Frames /\ Head(pkt_queue) \in Packets
  BY <1>9, QueueType, Zenon DEF TypeOK, Frames
<1>10. "DATAREQ" \in Frames
  BY Zenon DEF Frames
<1>11. CASE Event
  <2>1. CASE EndCycle
    <3>1. radio' \in Radio /\ radio_busy' \in BOOLEAN /\ raced' \in BOOLEAN /\ duty' \in Duties
      BY <1>9, <1>11, <2>1, TransmitType, SleepType, RadioTypes, Zenon
         DEF Event, EndCycle, TypeOK, Duties
    <3> QED
      BY <1>8, <1>11, <2>1, <3>1, Zenon DEF Event, EndCycle, TypeOK
  <2>2. CASE ~EndCycle
    <3>1. radio' \in Radio /\ radio_busy' \in BOOLEAN /\ raced' \in BOOLEAN /\ duty' \in Duties
          /\ UNCHANGED <<timer, additional_wakeup>>
      BY <1>9, <1>10, <1>11, <2>2, TransmitType, SleepType, Zenon DEF Event, Duties
    <3> QED
      BY <1>8, <1>11, <3>1, Zenon DEF Event, TypeOK
  <2> QED
    BY <2>1, <2>2, Zenon
<1>12. CASE RemoveQueue
  <2>1. /\ Head(pkt_queue) \in Packets /\ Tail(pkt_queue) \in Seq(Packets)
        /\ Len(pkt_queue) > 1 => pkt_queue[2] \in Frames
    BY <1>12, QueueType, Zenon DEF RemoveQueue, TypeOK, Frames
  <2>2. radio' \in Radio /\ radio_busy' \in BOOLEAN /\ raced' \in BOOLEAN /\ duty' \in Duties
    BY <1>10, <1>12, <2>1, TransmitType, SleepType, Zenon DEF RemoveQueue, TypeOK, Duties
  <2> QED
    BY <1>8, <1>12, <2>1, <2>2, Zenon DEF RemoveQueue, TypeOK
<1>13. CASE SndMsg
  <2> DEFINE p == job[1].msg.pkt
  <2>1. p \in Packets
    BY <1>13, Zenon DEF SndMsg, HandedInv
  <2>2. Append(pkt_queue, p) \in Seq(Packets)
    BY <2>1, AppendProperties, Zenon DEF TypeOK
  <2>3. radio' \in Radio /\ radio_busy' \in BOOLEAN /\ raced' \in BOOLEAN /\ duty' \in Duties
    BY <1>13, <2>1, TransmitType, Zenon DEF SndMsg, TypeOK, Duties, Frames
  <2> QED
    BY <1>8, <1>13, <2>1, <2>2, <2>3, Zenon DEF SndMsg, TypeOK
<1>14. CASE Isr
  <2> DEFINE r == [radio EXCEPT !.irq = FALSE]
             pending == radio.trac = "SUCCESS_DATA_PENDING"
             idle == IF pending THEN "RX" ELSE radio.idle
  <2>1. radio \in Radio /\ radio.idle \in {"RX", "SLEEP"}
    BY Zenon DEF TypeOK, Radio
  <2>2. /\ r \in Radio /\ [r EXCEPT !.pending_tx = @ - 1] \in Radio
        /\ set_state([r EXCEPT !.pending_tx = 0, !.idle = idle], idle) \in Radio
    <3>1. r \in Radio /\ idle \in {"RX", "SLEEP"}
      BY <2>1, RadioTypes, Zenon
    <3> HIDE DEF r, idle
    <3>2. [r EXCEPT !.pending_tx = 0, !.idle = idle] \in Radio
      BY <3>1, RadioTypes, Zenon
    <3> QED
      BY <3>1, <3>2, RadioTypes, Zenon
  <2>3. radio' \in Radio
    BY <1>14, <2>1, <2>2, Zenon DEF Isr, TypeOK
  <2>4. /\ inbox' \in Seq(Message) /\ Len(inbox') <= InboxSize
        /\ timer' \in BOOLEAN /\ radio_busy' \in BOOLEAN
        /\ additional_wakeup' \in BOOLEAN /\ raced' \in BOOLEAN
    <3>1. CASE UNCHANGED <<timer, radio_busy, additional_wakeup, inbox, raced>>
      BY <3>1, Zenon DEF TypeOK
    <3>2. CASE rx_complete
      BY <3>2, Posted, Zenon DEF rx_complete, Race, Lost, Waits, Types, TypeOK
    <3>3. CASE tx_complete(pending /\ pending_event)
      BY <3>3, Posted, Zenon DEF tx_complete, Race, Lost, Types, TypeOK
    <3> QED
      BY <1>14, <3>1, <3>2, <3>3, Zenon DEF Isr
  <2> QED
    BY <1>8, <1>14, <2>3, <2>4, Zenon DEF Isr, TypeOK
<1> QED
  BY <1>1, <1>2, <1>4, <1>5, <1>6, <1>7, <1>11, <1>12, <1>13, <1>14, Zenon DEF Next, Thread

(* No packet becomes unsent again, and what is queued has been handed over. *)
LEMMA HandedStep ==
  ASSUME TypeOK, HandedInv, [Next]_vars
  PROVE  HandedInv'
<1> DEFINE Kept == \A p \in Packets : fate[p] # "unsent" => fate'[p] # "unsent"
           InQueue(q, f) == \A i \in 1..Len(q) : f[q[i]] # "unsent"
           InJob(j, f) == /\ j # <<>> /\ j[1].msg.type = "SND"
                          => j[1].msg.pkt \in Packets /\ f[j[1].msg.pkt] # "unsent"
<1>1. HandedInv <=> HandedOver(inbox, fate) /\ InJob(job, fate) /\ InQueue(pkt_queue, fate)
  BY Zenon DEF HandedInv, Working
<1>2. HandedInv' <=> HandedOver(inbox', fate') /\ InJob(job', fate') /\ InQueue(pkt_queue', fate')
  BY Zenon DEF HandedInv, Working
<1>3. ASSUME Kept, NEW s \in Seq(Message), HandedOver(s, fate) PROVE HandedOver(s, fate')
  BY <1>3, Handed
<1>4. \A i \in 1..Len(pkt_queue) : pkt_queue[i] \in Packets
  BY ElementOfSeq, Zenon DEF TypeOK
<1>5. Kept => InJob(job, fate') /\ InQueue(pkt_queue, fate')
  BY <1>1, <1>4, Zenon
<1>6. fate' = fate => Kept
  BY Zenon
<1>7. InJob(<<>>, fate')
  BY Zenon
<1>8. ASSUME Kept, inbox' = inbox, job' \in {job, <<>>}, pkt_queue' = pkt_queue PROVE HandedInv'
  BY <1>1, <1>2, <1>3, <1>5, <1>7, <1>8, Zenon DEF TypeOK
<1>9. ASSUME NEW type \in Types \ {"SND"}, post(type), Kept, fate' = fate,
             job' \in {job, <<>>}, pkt_queue' = pkt_queue
      PROVE  HandedInv'
  BY <1>1, <1>2, <1>5, <1>7, <1>9, Posted, Zenon
<1> HIDE DEF InQueue, InJob
<1>10. CASE UNCHANGED vars
  BY <1>6, <1>8, <1>10, Zenon DEF vars, macVars
<1>11. CASE dutycycle_cb
  BY <1>6, <1>8, <1>9, <1>11, Zenon DEF dutycycle_cb, Types
<1>12. CASE TxEnd
  <2>1. Kept
    BY <1>12, Zenon DEF TxEnd
  <2>2. CASE inbox' = inbox
    BY <1>8, <1>12, <2>1, <2>2, Zenon DEF TxEnd, macVars
  <2>3. CASE post("NETDEV")
    <3>1. inbox' \in Seq(Message) /\ HandedOver(inbox', fate)
      BY <1>1, <2>3, Posted, Zenon DEF Types
    <3> QED
      BY <1>2, <1>3, <1>5, <1>12, <2>1, <3>1, Zenon DEF TxEnd, macVars
  <2> QED
    BY <1>12, <2>2, <2>3, Zenon DEF TxEnd, irq_handler
<1>13. CASE RxEnd
  BY <1>6, <1>8, <1>9, <1>13, Zenon DEF RxEnd, irq_handler, Types, macVars
<1>14. CASE Snd
  <2>1. PICK p \in Packets : /\ fate' = [fate EXCEPT ![p] = "accepted"]
                             /\ inbox' = Append(inbox, [type |-> "SND", pkt |-> p])
    BY <1>14, Zenon DEF Snd
  <2>2. Kept /\ fate'[p] # "unsent"
    BY <2>1, Zenon DEF TypeOK
  <2>3. [type |-> "SND", pkt |-> p] \in Message
    BY Zenon DEF Message, Types
  <2>4. HandedOver(inbox, fate')
    BY <1>1, <1>3, <2>2, Zenon DEF TypeOK
  <2>5. HandedOver(inbox', fate')
    BY <2>1, <2>2, <2>3, <2>4, Handed, Zenon DEF TypeOK
  <2> QED
    BY <1>2, <1>5, <1>14, <2>2, <2>5, Zenon DEF Snd, macVars
<1>15. CASE msg_receive
  <2>1. HandedOver(inbox', fate') /\ InJob(job', fate')
    BY <1>1, <1>15, Handed, Zenon DEF msg_receive, TypeOK, InJob
  <2> QED
    BY <1>2, <1>5, <1>6, <1>15, <2>1, Zenon DEF msg_receive, macVars
<1>16. CASE Event
  BY <1>6, <1>8, <1>16, Zenon DEF Event, Done
<1>17. CASE RemoveQueue
  <2>1. Kept
    BY <1>17, QueueType, Zenon DEF RemoveQueue, TypeOK
  <2>2. InQueue(Tail(pkt_queue), fate')
    BY <1>5, <1>17, <2>1, QueueType DEF RemoveQueue, TypeOK, InQueue
  <2> QED
    BY <1>1, <1>2, <1>3, <1>7, <1>17, <2>1, <2>2, Zenon DEF RemoveQueue, Done, TypeOK
<1>18. CASE SndMsg
  <2> DEFINE p == job[1].msg.pkt
  <2>1. p \in Packets /\ fate[p] # "unsent"
    BY <1>18, Zenon DEF SndMsg, HandedInv
  <2>2. Kept /\ fate'[p] # "unsent"
    BY <1>18, <2>1, Zenon DEF SndMsg, TypeOK
  <2>3. CASE pkt_queue' = pkt_queue
    BY <1>8, <1>18, <2>2, <2>3, Zenon DEF SndMsg, Done
  <2>4. CASE pkt_queue' = Append(pkt_queue, p)
    <3> HIDE DEF p
    <3>1. /\ Len(pkt_queue') = Len(pkt_queue) + 1 /\ Len(pkt_queue) \in Nat
          /\ \A i \in 1..Len(pkt_queue) : pkt_queue'[i] = pkt_queue[i]
          /\ pkt_queue'[Len(pkt_queue) + 1] = p
      BY <2>1, <2>4, AppendProperties, LenProperties DEF TypeOK
    <3>2. \A i \in 1..Len(pkt_queue') : i \in 1..Len(pkt_queue) \/ i = Len(pkt_queue) + 1
      BY <3>1
    <3>3. InQueue(pkt_queue', fate')
      BY <1>5, <2>2, <3>1, <3>2, Zenon DEF InQueue
    <3> QED
      BY <1>1, <1>2, <1>3, <1>7, <1>18, <2>2, <3>3, Zenon DEF SndMsg, Done, TypeOK
  <2> QED
    BY <1>18, <2>3, <2>4, Zenon DEF SndMsg
<1>19. CASE Isr
  <2>1. fate' = fate /\ job' = <<>> /\ pkt_queue' = pkt_queue
    BY <1>19, Zenon DEF Isr, Done
  <2>2. \/ inbox' = inbox
        \/ \E type \in Types \ {"SND"} : post(type)
    BY <1>19, Zenon DEF Isr, rx_complete, tx_complete, Types
  <2> QED
    BY <1>6, <1>8, <1>9, <2>1, <2>2, Zenon
<1> QED
  BY <1>10, <1>11, <1>12, <1>13, <1>14, <1>15, <1>16, <1>17, <1>18, <1>19, Zenon DEF Next, Thread
---------------------------------------------------------------------------
(* The part of the invariant that the races break                          *)
Calm == RadioInv /\ TokenInv /\ PacketInv /\ PendingInv

(* A transmission that starts from a quiet radio                           *)
LEMMA TransmitStep ==
  ASSUME TypeOK, RadioInv, ~radio_busy, NEW f \in Frames, Transmit(f), ~raced'
  PROVE  /\ RadioInv' /\ radio_busy' /\ ~raced /\ ~Has(inbox, "EVENT")
         /\ radio'.status = "BUSY_TX" /\ radio'.frame = f /\ radio'.trac = radio.trac
<1>1. ~raced /\ ~radio.irq /\ ~Has(inbox, "EVENT") /\ radio_busy'
  BY Zenon DEF Transmit, Race, Waits, Has, TypeOK
<1>2. radio.pending_tx = 0 /\ radio.status # "TX"
  BY Zenon DEF RadioInv
<1>3. /\ radio'.status = "BUSY_TX" /\ radio'.frame = f /\ radio'.trac = radio.trac
      /\ radio'.irq = radio.irq /\ radio'.pending_tx = 1
  BY <1>2 DEF Transmit, send, TypeOK, Radio
<1> QED
  BY <1>1, <1>3, Zenon DEF RadioInv

(* The radio is put to sleep, or set to listen.                            *)
LEMMA SetStateStep ==
  ASSUME TypeOK, RadioInv, ~radio_busy, NEW s \in {"RX", "SLEEP"},
         radio' = set_state(radio, s), radio_busy' = radio_busy
  PROVE  RadioInv' /\ ~radio_busy' /\ radio'.trac = radio.trac
<1>1. /\ radio'.status = s /\ radio'.trac = radio.trac /\ radio'.frame = radio.frame
      /\ radio'.pending_tx = radio.pending_tx
      /\ s = "SLEEP" => ~radio'.irq
  BY Zenon DEF set_state, TypeOK, Radio
<1> QED
  BY <1>1, Zenon DEF RadioInv

(* The handler of the timer                                                *)
LEMMA TimerStep ==
  ASSUME LeafInv, dutycycle_cb, ~raced'
  PROVE  Calm'
<1>1. TypeOK /\ ~raced /\ Calm
  BY Zenon DEF LeafInv, Calm, dutycycle_cb, Race, TypeOK
<1>2. RadioInv'
  BY <1>1, Zenon DEF Calm, RadioInv, dutycycle_cb
<1>3. CASE duty = "TX_DATA"
  <2>1. /\ duty' = "TX_DATA_BEFORE_DATAREQ" /\ ~timer' /\ inbox' = inbox /\ job' = job
        /\ ~Working("EVENT") /\ ~Working("REMOVE_QUEUE")
        /\ UNCHANGED <<pkt_queue, radio_busy, additional_wakeup, radio, pending_event, fate>>
    BY <1>3, Zenon DEF dutycycle_cb, Race
  <2>2. TokenInv'
    BY <1>1, <1>3, <2>1, Zenon DEF Calm, TokenInv, Due, Working
  <2>3. PacketInv' /\ PendingInv'
    BY <1>1, <1>3, <2>1, Zenon DEF Calm, PacketInv, PendingInv, Due, Working
  <2> QED
    BY <1>2, <2>2, <2>3, Zenon DEF Calm
<1>4. CASE duty # "TX_DATA"
  <2>1. /\ duty' = duty /\ ~timer' /\ post("EVENT") /\ ~Lost /\ job' = job
        /\ UNCHANGED <<pkt_queue, radio_busy, additional_wakeup, radio, pending_event, fate>>
    BY <1>4, Zenon DEF dutycycle_cb, Race
  <2>2. ~Due("EVENT") /\ ~radio_busy /\ duty \in {"SLEEP", "LISTEN"} /\ ~Due("REMOVE_QUEUE")
    BY <1>1, <1>4, Zenon DEF Calm, TokenInv, dutycycle_cb
  <2>3. /\ \A x : Has(inbox', x) => Has(inbox, x) \/ x = "EVENT"
        /\ Ordered(inbox) => Ordered(inbox')
    BY <1>1, <2>1, <2>2, Posted, Zenon DEF Types, Due
  <2>4. TokenInv'
    BY <1>1, <2>1, <2>2, <2>3, Zenon DEF Calm, TokenInv, Due, Working
  <2>5. PacketInv' /\ PendingInv'
    BY <1>1, <2>1, <2>2, <2>3, Zenon DEF Calm, PacketInv, PendingInv, Due, Working
  <2> QED
    BY <1>2, <2>4, <2>5, Zenon DEF Calm
<1> QED
  BY <1>3, <1>4, Zenon

(* The interrupts of the transceiver add a NETDEV to the inbox, or nothing. *)
LEMMA NetdevPosted ==
  ASSUME LeafInv, NEW r, irq_handler(r), ~raced'
  PROVE  /\ TypeOK /\ ~raced /\ Calm
         /\ radio' = [r EXCEPT !.irq = TRUE]
         /\ \A x \in Types \ {"NETDEV"} : Has(inbox', x) <=> Has(inbox, x)
         /\ Ordered(inbox')
<1>1. TypeOK /\ ~raced /\ Calm
  BY Zenon DEF LeafInv, Calm, irq_handler, Race, TypeOK
<1>2. CASE inbox' = inbox
  BY <1>1, <1>2, Zenon DEF irq_handler, Calm, TokenInv
<1>3. CASE post("NETDEV")
  BY <1>1, <1>3, Posted, Zenon DEF irq_handler, Calm, TokenInv, Types
<1> QED
  BY <1>2, <1>3, Zenon DEF irq_handler

(* A transmission ends.                                                    *)
LEMMA TxEndStep ==
  ASSUME LeafInv, TxEnd, ~raced'
  PROVE  Calm'
<1>1. PICK trac \in {"SUCCESS", "NO_ACK", "SUCCESS_DATA_PENDING"} :
        irq_handler([radio EXCEPT !.status = "TX", !.trac = trac, !.frame = "none"])
  BY Zenon DEF TxEnd
<1> DEFINE r == [radio EXCEPT !.status = "TX", !.trac = trac, !.frame = "none"]
<1>2. /\ TypeOK /\ Calm /\ radio' = [r EXCEPT !.irq = TRUE]
      /\ \A x \in Types \ {"NETDEV"} : Has(inbox', x) <=> Has(inbox, x)
      /\ Ordered(inbox')
  BY <1>1, NetdevPosted, Zenon
<1>3. /\ radio'.status = "TX" /\ radio'.irq /\ radio'.frame = "none"
      /\ radio'.pending_tx = radio.pending_tx /\ radio.status = "BUSY_TX"
  BY <1>2, Zenon DEF TxEnd, TypeOK, Radio
<1>4. /\ radio_busy /\ radio_busy' = radio_busy /\ duty' = duty /\ timer' = timer
      /\ pkt_queue' = pkt_queue /\ job' = job
      /\ fate' = [p \in Packets |-> IF p = radio.frame THEN "sent" ELSE fate[p]]
  BY <1>2, <1>3, Zenon DEF TxEnd, macVars, Calm, RadioInv
<1>5. RadioInv'
  BY <1>2, <1>3, <1>4, Zenon DEF Calm, RadioInv
<1>6. \A x \in Types \ {"NETDEV"} : Due(x)' <=> Due(x)
  BY <1>2, <1>4, Zenon DEF Due, Working
<1>7. TokenInv'
  BY <1>2, <1>4, <1>6, Zenon DEF Calm, TokenInv, Working, Types
<1>8. PacketInv'
  <2>1. ~Due("REMOVE_QUEUE")'
    BY <1>2, <1>4, <1>6, Zenon DEF Calm, TokenInv, Types
  <2>2. ASSUME pkt_queue # <<>>, duty # "TX_DATAREQ" PROVE fate'[Head(pkt_queue)] # "accepted"
    <3>1. Head(pkt_queue) \in Packets
      BY <1>2, <2>2, QueueType, Zenon DEF TypeOK
    <3> QED
      BY <1>2, <1>4, <2>2, <3>1, Zenon DEF Calm, PacketInv
  <2> QED
    BY <1>2, <1>4, <2>1, <2>2, Zenon DEF Calm, PacketInv
<1>9. PendingInv'
  BY <1>2, <1>4, <1>6, Zenon DEF Calm, TokenInv, PendingInv, Types
<1> QED
  BY <1>5, <1>7, <1>8, <1>9, Zenon DEF Calm

(* A frame has been received.                                              *)
LEMMA RxEndStep ==
  ASSUME LeafInv, RxEnd, ~raced'
  PROVE  Calm'
<1>1. /\ TypeOK /\ Calm /\ radio' = [radio EXCEPT !.irq = TRUE]
      /\ \A x \in Types \ {"NETDEV"} : Has(inbox', x) <=> Has(inbox, x)
      /\ Ordered(inbox')
  BY NetdevPosted, Zenon DEF RxEnd
<1>2. /\ radio'.status = "RX" /\ radio'.frame = radio.frame /\ radio'.trac = radio.trac
      /\ radio'.pending_tx = radio.pending_tx /\ radio.status = "RX"
  BY <1>1, Zenon DEF RxEnd, TypeOK, Radio
<1>3. UNCHANGED <<duty, timer, pkt_queue, radio_busy, additional_wakeup, job, pending_event, fate>>
  BY Zenon DEF RxEnd, macVars
<1>4. RadioInv'
  BY <1>1, <1>2, <1>3, Zenon DEF Calm, RadioInv
<1>5. \A x \in Types \ {"NETDEV"} : Due(x)' <=> Due(x)
  BY <1>1, <1>3, Zenon DEF Due, Working
<1>6. TokenInv'
  BY <1>1, <1>3, <1>5, Zenon DEF Calm, TokenInv, Working, Types
<1>7. PacketInv' /\ PendingInv'
  BY <1>1, <1>2, <1>3, <1>5, Zenon DEF Calm, PacketInv, PendingInv, RadioInv, Types
<1> QED
  BY <1>4, <1>6, <1>7, Zenon DEF Calm

(* The upper layer                                                         *)
LEMMA SndStep ==
  ASSUME LeafInv, Snd, ~raced'
  PROVE  Calm'
<1>1. TypeOK /\ HandedInv /\ ~raced /\ Calm
  BY Zenon DEF LeafInv, Calm, Snd
<1>2. PICK p \in Packets : /\ fate[p] = "unsent" /\ fate' = [fate EXCEPT ![p] = "accepted"]
                           /\ inbox' = Append(inbox, [type |-> "SND", pkt |-> p])
  BY Zenon DEF Snd
<1>3. UNCHANGED <<duty, timer, pkt_queue, radio_busy, additional_wakeup, job, radio, pending_event>>
  BY Zenon DEF Snd, macVars
<1>4. [type |-> "SND", pkt |-> p] \in Message
  BY Zenon DEF Message, Types
<1>5. /\ \A x \in Types \ {"SND"} : Has(inbox', x) <=> Has(inbox, x)
      /\ Ordered(inbox')
  BY <1>1, <1>2, <1>4, AppendHas DEF TypeOK, Calm, TokenInv
<1>6. \A x \in Types \ {"SND"} : Due(x)' <=> Due(x)
  BY <1>3, <1>5, Zenon DEF Due, Working
<1>7. RadioInv' /\ TokenInv' /\ PendingInv'
  BY <1>1, <1>3, <1>5, <1>6, Zenon DEF Calm, RadioInv, TokenInv, PendingInv, Working, Types
<1>8. pkt_queue # <<>> => fate'[Head(pkt_queue)] = fate[Head(pkt_queue)]
  <2>1. ASSUME pkt_queue # <<>> PROVE Head(pkt_queue) \in Packets /\ fate[Head(pkt_queue)] # "unsent"
    BY <1>1, <2>1, QueueType, Zenon DEF TypeOK, HandedInv
  <2> QED
    BY <1>1, <1>2, <2>1, Zenon DEF TypeOK
<1>9. PacketInv'
  <2>1. \A q \in Packets : fate'[q] # "lost"
    BY <1>1, <1>2, Zenon DEF Calm, PacketInv, TypeOK
  <2> QED
    BY <1>1, <1>3, <1>6, <1>8, <2>1, Zenon DEF Calm, PacketInv, TokenInv, Types
<1> QED
  BY <1>7, <1>9, Zenon DEF Calm

(* The thread takes the next message.                                      *)
LEMMA ReceiveStep ==
  ASSUME LeafInv, msg_receive, ~raced'
  PROVE  Calm'
<1>1. TypeOK /\ ~raced /\ Calm
  BY Zenon DEF LeafInv, Calm, msg_receive
<1>2. /\ UNCHANGED <<duty, timer, pkt_queue, radio_busy, additional_wakeup, radio, pending_event, fate>>
      /\ job = <<>> /\ inbox # <<>> /\ inbox' = Tail(inbox)
      /\ job' = <<[msg |-> Head(inbox), duty |-> duty]>>
  BY Zenon DEF msg_receive, macVars
<1>3. \A x : Working(x)' <=> Head(inbox).type = x
  BY <1>2, Zenon DEF Working
<1>4. /\ \A x : Has(inbox, x) <=> Has(inbox', x) \/ Head(inbox).type = x
      /\ Ordered(inbox')
      /\ Head(inbox).type = "EVENT" => ~Has(inbox', "EVENT")
      /\ Head(inbox).type \in {"EVENT", "REMOVE_QUEUE"} => ~Has(inbox', "REMOVE_QUEUE")
  BY <1>1, <1>2, TailHas, Zenon DEF TypeOK, Calm, TokenInv
<1>5. \A x : Due(x)' <=> Due(x)
  BY <1>2, <1>3, <1>4, Zenon DEF Due, Working
<1>6. job'[1].duty = duty
  BY <1>2, Zenon
<1>7. RadioInv' /\ PacketInv' /\ PendingInv'
  BY <1>1, <1>2, <1>5, Zenon DEF Calm, RadioInv, PacketInv, PendingInv
<1>8. TokenInv'
  BY <1>1, <1>2, <1>3, <1>4, <1>5, <1>6, Zenon DEF Calm, TokenInv
<1> QED
  BY <1>7, <1>8, Zenon DEF Calm

(* The radio takes the token from the thread, or the radio is at rest and  *)
(* an EVENT may still wait: either way the rest of the invariant follows.  *)
LEMMA TokenPassed ==
  ASSUME Ordered(inbox'), job' = <<>>, ~Has(inbox', "REMOVE_QUEUE"), RadioInv',
         \A q \in Packets : fate'[q] # "lost",
         \/ /\ radio_busy' /\ ~Has(inbox', "EVENT")
            /\ duty' \in {"TX_DATA", "TX_DATA_BEFORE_DATAREQ", "TX_DATAREQ"}
            /\ timer' => duty' = "TX_DATA"
            /\ duty' # "TX_DATAREQ" /\ pkt_queue' # <<>> =>
                 radio'.status = "BUSY_TX" /\ radio'.frame = Head(pkt_queue')
         \/ /\ ~radio_busy' /\ duty' \in {"SLEEP", "LISTEN"}
            /\ ~(timer' /\ Has(inbox', "EVENT"))
  PROVE  Calm'
<1>1. \A x : ~Working(x)'
  BY Zenon DEF Working
<1>2. TokenInv'
  BY <1>1, Zenon DEF TokenInv, Due
<1>3. PacketInv'
  BY <1>1, Zenon DEF PacketInv, Due
<1>4. PendingInv'
  BY <1>1, Zenon DEF PendingInv, Due
<1> QED
  BY <1>2, <1>3, <1>4, Zenon DEF Calm

(* The thread handles an EVENT.                                            *)
LEMMA EventStep ==
  ASSUME LeafInv, Event, ~raced'
  PROVE  Calm'
<1> DEFINE d == job[1].duty
<1>1. raced' = raced \/ \E f \in Frames : Transmit(f)
  <2>1. pkt_queue # <<>> => Head(pkt_queue) \in Frames
    BY QueueType, Zenon DEF LeafInv, TypeOK, Frames
  <2> QED
    BY <2>1, Zenon DEF Event, EndCycle, Sleep, Frames
<1>2. TypeOK /\ ~raced /\ Calm
  BY <1>1, Zenon DEF LeafInv, Calm, Transmit, Race, TypeOK
<1>3. /\ d = duty /\ ~radio_busy /\ ~Has(inbox, "EVENT") /\ ~Has(inbox, "REMOVE_QUEUE")
      /\ Ordered(inbox) /\ (timer => duty = "TX_DATA") /\ RadioInv
      /\ \A q \in Packets : fate[q] # "lost"
  BY <1>2, Zenon DEF Event, Calm, TokenInv, PacketInv, Due
<1>4. inbox' = inbox /\ job' = <<>> /\ pkt_queue' = pkt_queue /\ fate' = fate
  BY Zenon DEF Event, Done
<1>5. ASSUME Sleep PROVE Calm'
  <2>1. RadioInv' /\ ~radio_busy' /\ duty' = "SLEEP"
    BY <1>2, <1>3, <1>5, SetStateStep, Zenon DEF Sleep
  <2> QED
    BY <1>3, <1>4, <2>1, TokenPassed, Zenon
<1>6. ASSUME duty' = "LISTEN", radio' = set_state(radio, "RX"), radio_busy' = radio_busy
      PROVE  Calm'
  <2>1. RadioInv' /\ ~radio_busy'
    BY <1>2, <1>3, <1>6, SetStateStep, Zenon
  <2> QED
    BY <1>3, <1>4, <1>6, <2>1, TokenPassed, Zenon
<1>7. ASSUME duty' = "TX_DATAREQ", Transmit("DATAREQ"), ~timer' PROVE Calm'
  <2>1. RadioInv' /\ radio_busy'
    BY <1>2, <1>3, <1>7, TransmitStep, Zenon DEF Frames
  <2> QED
    BY <1>3, <1>4, <1>7, <2>1, TokenPassed, Zenon
<1>8. ASSUME duty' \in {"TX_DATA", "TX_DATA_BEFORE_DATAREQ"}, pkt_queue # <<>>,
             Transmit(Head(pkt_queue)), timer' => duty' = "TX_DATA"
      PROVE  Calm'
  <2>1. Head(pkt_queue) \in Frames
    BY <1>2, <1>8, QueueType, Zenon DEF TypeOK, Frames
  <2>2. /\ RadioInv' /\ radio_busy'
        /\ radio'.status = "BUSY_TX" /\ radio'.frame = Head(pkt_queue)
    BY <1>2, <1>3, <1>8, <2>1, TransmitStep, Zenon
  <2> QED
    BY <1>3, <1>4, <1>8, <2>2, TokenPassed, Zenon
<1>9. CASE d \in {"TX_DATAREQ", "LISTEN"} /\ EndCycle
  BY <1>5, <1>6, <1>8, <1>9, Zenon DEF EndCycle
<1>10. CASE d = "TX_DATA" /\ Sleep
  BY <1>5, <1>10, Zenon
<1>11. CASE /\ d \in {"TX_DATA_BEFORE_DATAREQ", "SLEEP"} /\ timer' = timer
            /\ \/ duty' = "TX_DATAREQ" /\ Transmit("DATAREQ")
               \/ /\ duty' = "TX_DATA_BEFORE_DATAREQ"
                  /\ pkt_queue # <<>> /\ Transmit(Head(pkt_queue))
  BY <1>3, <1>7, <1>8, <1>11, Zenon
<1> QED
  BY <1>9, <1>10, <1>11, Zenon DEF Event

(* The thread removes the head of the queue.                               *)
LEMMA RemoveQueueStep ==
  ASSUME LeafInv, RemoveQueue, ~raced'
  PROVE  Calm'
<1>1. /\ Head(pkt_queue) \in Packets
      /\ Len(pkt_queue) = 1 => Tail(pkt_queue) = <<>>
      /\ Len(pkt_queue) > 1 => /\ pkt_queue[2] \in Frames
                               /\ Head(Tail(pkt_queue)) = pkt_queue[2]
  BY QueueType, Zenon DEF LeafInv, TypeOK, RemoveQueue, Frames
<1>2. TypeOK /\ ~raced /\ Calm
  BY DEF LeafInv, Calm, RemoveQueue, Sleep, Transmit, Race, TypeOK
<1>3. /\ job[1].duty = duty /\ ~radio_busy /\ ~Has(inbox, "REMOVE_QUEUE")
      /\ Ordered(inbox) /\ RadioInv /\ duty \in {"TX_DATA", "TX_DATA_BEFORE_DATAREQ"}
      /\ (timer => duty = "TX_DATA") /\ ~(timer /\ Has(inbox, "EVENT"))
      /\ fate[Head(pkt_queue)] # "accepted" /\ \A q \in Packets : fate[q] # "lost"
  BY <1>2, Zenon DEF RemoveQueue, Calm, TokenInv, PacketInv, Due
<1>4. inbox' = inbox /\ job' = <<>> /\ pkt_queue' = Tail(pkt_queue) /\ timer' = timer
  BY Zenon DEF RemoveQueue, Done
<1>5. \A q \in Packets : fate'[q] # "lost"
  BY <1>1, <1>2, <1>3, Zenon DEF RemoveQueue, TypeOK
<1>6. CASE Len(pkt_queue) > 1 /\ Transmit(pkt_queue[2]) /\ UNCHANGED duty
  <2>1. /\ RadioInv' /\ radio_busy' /\ ~Has(inbox, "EVENT")
        /\ radio'.status = "BUSY_TX" /\ radio'.frame = Head(pkt_queue')
    BY <1>1, <1>2, <1>3, <1>4, <1>6, TransmitStep, Zenon
  <2> QED
    BY <1>3, <1>4, <1>5, <1>6, <2>1, TokenPassed, Zenon
<1>7. CASE /\ Len(pkt_queue) = 1 /\ job[1].duty = "TX_DATA_BEFORE_DATAREQ"
           /\ duty' = "TX_DATAREQ" /\ Transmit("DATAREQ")
  <2>1. RadioInv' /\ radio_busy' /\ ~Has(inbox, "EVENT")
    BY <1>2, <1>3, <1>7, TransmitStep, Zenon DEF Frames
  <2> QED
    BY <1>3, <1>4, <1>5, <1>7, <2>1, TokenPassed, Zenon
<1>8. CASE Sleep
  <2>1. RadioInv' /\ ~radio_busy' /\ duty' = "SLEEP"
    BY <1>2, <1>3, <1>8, SetStateStep, Zenon DEF Sleep
  <2> QED
    BY <1>3, <1>4, <1>5, <2>1, TokenPassed, Zenon
<1> QED
  BY <1>6, <1>7, <1>8, Zenon DEF RemoveQueue

(* The thread sends a packet at once, queues it or drops it.               *)
LEMMA SndMsgStep ==
  ASSUME LeafInv, SndMsg, ~raced'
  PROVE  Calm'
<1> DEFINE p == job[1].msg.pkt
           now == job[1].duty = "SLEEP" /\ pkt_queue = <<>> /\ ~radio_busy
<1>1. TypeOK /\ HandedInv /\ ~raced /\ Calm
  BY DEF LeafInv, Calm, SndMsg, Transmit, Race, TypeOK
<1>2. /\ p \in Packets /\ Working("SND")
      /\ inbox' = inbox /\ job' = <<>> /\ timer' = timer
      /\ additional_wakeup' = additional_wakeup /\ pending_event' = pending_event
  BY <1>1, Zenon DEF SndMsg, HandedInv, Done
<1>3. ~Working("EVENT") /\ ~Working("REMOVE_QUEUE") /\ \A x : ~Working(x)'
  BY <1>2, Zenon DEF Working
<1>4. CASE /\ now /\ duty' = "TX_DATA" /\ Transmit(p)
           /\ UNCHANGED <<pkt_queue, fate>>
  <2>1. duty = "SLEEP" /\ ~radio_busy /\ ~Has(inbox, "REMOVE_QUEUE") /\ RadioInv
    BY <1>1, <1>2, <1>4, Zenon DEF Calm, TokenInv, Due
  <2>2. RadioInv' /\ radio_busy' /\ ~Has(inbox, "EVENT")
    BY <1>1, <1>2, <1>4, <2>1, TransmitStep, Zenon DEF Frames
  <2>3. Ordered(inbox') /\ \A q \in Packets : fate'[q] # "lost"
    BY <1>1, <1>2, <1>4, Zenon DEF Calm, TokenInv, PacketInv
  <2> QED
    BY <1>2, <1>4, <2>1, <2>2, <2>3, TokenPassed, Zenon
<1>5. CASE /\ UNCHANGED <<duty, radio_busy, radio>>
           /\ \/ /\ pkt_queue' = Append(pkt_queue, p)
                 /\ fate' = [fate EXCEPT ![p] = IF Overtaken THEN "behind" ELSE @]
              \/ fate' = [fate EXCEPT ![p] = "dropped"] /\ UNCHANGED pkt_queue
  <2> HIDE DEF p
  <2>1. \A x \in {"EVENT", "REMOVE_QUEUE"} : Due(x)' <=> Due(x)
    BY <1>2, <1>3, Zenon DEF Due
  <2>2. pkt_queue # <<>> => pkt_queue' # <<>> /\ Head(pkt_queue') = Head(pkt_queue)
    <3>1. ASSUME pkt_queue # <<>>, pkt_queue' = Append(pkt_queue, p)
          PROVE  pkt_queue' # <<>> /\ Head(pkt_queue') = Head(pkt_queue)
      <4> DEFINE q == Append(pkt_queue, p)
      <4>1. Len(pkt_queue) \in Nat \ {0} /\ Head(pkt_queue) = pkt_queue[1]
        BY <1>1, <3>1, QueueType, Zenon DEF TypeOK
      <4>2. /\ q \in Seq(Packets) /\ Len(q) = Len(pkt_queue) + 1
            /\ \A i \in 1..Len(pkt_queue) : q[i] = pkt_queue[i]
        BY <1>1, <1>2, AppendProperties DEF TypeOK
      <4> HIDE DEF q
      <4>3. q # <<>> /\ q[1] = pkt_queue[1]
        BY <4>1, <4>2, EmptySeq
      <4>4. Head(q) = q[1]
        BY <4>2, <4>3, QueueType, Zenon
      <4> QED
        BY <3>1, <4>1, <4>3, <4>4, Zenon DEF q
    <3> QED
      BY <1>5, <3>1, Zenon
  <2>3. pkt_queue = <<>> /\ pkt_queue' # <<>> =>
          /\ Head(pkt_queue') = p
          /\ fate' = [fate EXCEPT ![p] = IF Overtaken THEN "behind" ELSE @]
    BY <1>2, <1>5, AppendProperties, EmptySeq DEF TypeOK
  <2>4. /\ \A q \in Packets : fate[q] # "accepted" => fate'[q] # "accepted"
        /\ \A q \in Packets : fate'[q] # "lost"
    BY <1>1, <1>2, <1>5, Zenon DEF TypeOK, Calm, PacketInv
  <2>5. RadioInv' /\ PendingInv'
    BY <1>1, <1>2, <1>5, <2>1, Zenon DEF Calm, RadioInv, PendingInv
  <2>6. TokenInv'
    BY <1>1, <1>2, <1>3, <1>5, <2>1, <2>2, Zenon DEF Calm, TokenInv
  <2>7. PacketInv'
    <3>1. CASE pkt_queue # <<>>
      <4>1. Head(pkt_queue) \in Packets
        BY <1>1, <3>1, QueueType, Zenon DEF TypeOK
      <4> QED
        BY <1>1, <1>5, <2>1, <2>2, <2>4, <3>1, <4>1, Zenon DEF Calm, PacketInv
    <3>2. CASE pkt_queue = <<>>
      <4>1. ~Due("REMOVE_QUEUE")'
        BY <1>1, <2>1, <3>2, Zenon DEF Calm, TokenInv
      <4>2. ASSUME radio_busy, duty # "TX_DATAREQ", pkt_queue' # <<>>
            PROVE  fate'[Head(pkt_queue')] # "accepted"
        <5>1. Overtaken
          BY <1>1, <3>2, <4>2, Zenon DEF Overtaken, Calm, TokenInv
        <5> QED
          BY <1>1, <1>2, <2>3, <3>2, <4>2, <5>1, Zenon DEF TypeOK
      <4> QED
        BY <1>5, <2>4, <4>1, <4>2, Zenon DEF PacketInv
    <3> QED
      BY <3>1, <3>2, Zenon
  <2> QED
    BY <2>5, <2>6, <2>7, Zenon DEF Calm
<1> QED
  BY <1>4, <1>5, Zenon DEF SndMsg

(* The thread handles the interrupt of the radio.                          *)
LEMMA IsrStep ==
  ASSUME LeafInv, Isr, ~raced'
  PROVE  Calm'
<1> DEFINE pending == radio.trac = "SUCCESS_DATA_PENDING"
           idle == IF pending THEN "RX" ELSE radio.idle
           r == [radio EXCEPT !.irq = FALSE]
<1>1. TypeOK /\ ~raced /\ Calm
  <2>1. raced' = raced \/ rx_complete \/ tx_complete(pending /\ pending_event)
    BY Zenon DEF Isr
  <2> HIDE DEF pending
  <2>2. ~raced
    BY <2>1, Zenon DEF LeafInv, TypeOK, rx_complete, tx_complete, Race
  <2> QED
    BY <2>2, Zenon DEF LeafInv, Calm
<1>2. /\ job' = <<>> /\ UNCHANGED <<duty, pkt_queue, pending_event, fate>>
      /\ ~Working("EVENT") /\ ~Working("REMOVE_QUEUE") /\ \A x : ~Working(x)'
  BY Zenon DEF Isr, Done, Working
<1>3. CASE /\ ~radio.irq
           /\ UNCHANGED <<radio, timer, radio_busy, additional_wakeup, inbox, raced>>
  <2>1. \A x \in {"EVENT", "REMOVE_QUEUE"} : Due(x)' <=> Due(x)
    BY <1>2, <1>3, Zenon DEF Due
  <2>2. RadioInv' /\ PendingInv' /\ PacketInv'
    BY <1>1, <1>2, <1>3, <2>1, Zenon DEF Calm, RadioInv, PendingInv, PacketInv
  <2>3. TokenInv'
    BY <1>1, <1>2, <1>3, <2>1, Zenon DEF Calm, TokenInv
  <2> QED
    BY <2>2, <2>3, Zenon DEF Calm
<1>4. CASE radio.status = "RX" /\ radio.irq /\ radio' = r /\ rx_complete
  <2>1. /\ ~radio_busy /\ ~radio_busy' /\ ~timer' /\ post("EVENT") /\ ~Lost
        /\ ~Has(inbox, "EVENT")
    BY <1>1, <1>4, Zenon DEF Calm, RadioInv, rx_complete, Race, Waits, Has
  <2>2. duty # "TX_DATAREQ"
    BY <1>1, <1>2, <2>1, Zenon DEF Calm, TokenInv, Due
  <2>3. /\ Ordered(inbox')
        /\ Has(inbox', "REMOVE_QUEUE") => Has(inbox, "REMOVE_QUEUE")
    BY <1>1, <2>1, Posted, Zenon DEF Types, Calm, TokenInv
  <2>4. /\ radio'.status = "RX" /\ radio'.pending_tx = radio.pending_tx
        /\ radio'.frame = radio.frame
    BY <1>1, <1>4, Zenon DEF TypeOK, Radio
  <2>5. RadioInv'
    BY <1>1, <2>1, <2>4, Zenon DEF Calm, RadioInv
  <2>6. Due("REMOVE_QUEUE")' => Due("REMOVE_QUEUE")
    BY <1>2, <2>3, Zenon DEF Due
  <2>7. TokenInv'
    BY <1>1, <1>2, <2>1, <2>2, <2>3, <2>6, Zenon DEF Calm, TokenInv
  <2>8. PacketInv' /\ PendingInv'
    BY <1>1, <1>2, <2>1, <2>2, <2>6, Zenon DEF Calm, PacketInv, PendingInv
  <2> QED
    BY <2>5, <2>7, <2>8, Zenon DEF Calm
<1>5. CASE /\ radio.status \in {"TX", "BUSY_TX"} /\ radio.irq
           /\ radio' = IF radio.pending_tx = 1
                       THEN set_state([r EXCEPT !.pending_tx = 0, !.idle = idle], idle)
                       ELSE [r EXCEPT !.pending_tx = @ - 1]
           /\ tx_complete(pending /\ pending_event)
  <2> DEFINE type == IF (pending /\ pending_event) \/ duty = "TX_DATAREQ" \/ pkt_queue = <<>>
                     THEN "EVENT" ELSE "REMOVE_QUEUE"
  <2>1. radio_busy /\ radio.pending_tx = 1 /\ radio.status = "TX" /\ radio.frame = "none"
    BY <1>1, <1>5, Zenon DEF Calm, RadioInv
  <2>2. /\ ~Has(inbox, "EVENT") /\ ~Has(inbox, "REMOVE_QUEUE")
        /\ duty \in {"TX_DATA", "TX_DATA_BEFORE_DATAREQ", "TX_DATAREQ"}
        /\ timer => duty = "TX_DATA"
    BY <1>1, <2>1, Zenon DEF Calm, TokenInv, Due
  <2>3. /\ ~radio_busy' /\ timer' = timer /\ post(type) /\ ~Lost
        /\ pending /\ pending_event => additional_wakeup'
    BY <1>5, Zenon DEF tx_complete, Race
  <2>4. type \in {"EVENT", "REMOVE_QUEUE"}
    BY Zenon
  <2>5. /\ type = "REMOVE_QUEUE" => pkt_queue # <<>> /\ duty # "TX_DATAREQ"
        /\ duty = "TX_DATAREQ" => type = "EVENT"
    BY Zenon
  <2>6. radio'.status = idle /\ radio'.trac = radio.trac /\ radio'.frame = "none"
        /\ radio'.pending_tx = 0 /\ idle \in {"RX", "SLEEP"}
        /\ (idle = "SLEEP" => ~radio'.irq)
    <3>1. r \in Radio /\ r.trac = radio.trac /\ r.frame = "none" /\ ~r.irq
      BY <1>1, <2>1, Zenon DEF TypeOK, Radio
    <3>2. idle \in {"RX", "SLEEP"}
      BY <1>1, Zenon DEF TypeOK, Radio
    <3>3. radio' = set_state([r EXCEPT !.pending_tx = 0, !.idle = idle], idle)
      BY <1>5, <2>1, Zenon
    <3> HIDE DEF r, idle
    <3> DEFINE a == [r EXCEPT !.pending_tx = 0, !.idle = idle]
    <3>4. a \in Radio /\ a.trac = r.trac /\ a.frame = r.frame /\ a.irq = r.irq /\ a.pending_tx = 0
      <4>1. a \in Radio
        BY <3>1, <3>2, RadioTypes, Zenon
      <4> QED
        BY <3>1, <4>1, Zenon DEF Radio
    <3> HIDE DEF a
    <3>5. radio' = set_state(a, idle)
      BY <3>3, Zenon DEF a
    <3> QED
      BY <3>1, <3>2, <3>4, <3>5, Zenon DEF set_state, Radio
  <2> HIDE DEF type, idle, r
  <2>7. RadioInv'
    BY <2>3, <2>6, Zenon DEF RadioInv
  <2>8. /\ Ordered(inbox')
        /\ \A x \in {"EVENT", "REMOVE_QUEUE"} : Has(inbox', x) <=> x = type
    BY <1>1, <2>2, <2>3, <2>4, Posted, Zenon DEF Types, Calm, TokenInv
  <2>9. \A x \in {"EVENT", "REMOVE_QUEUE"} : Due(x)' <=> x = type
    BY <1>2, <2>8, Zenon DEF Due
  <2>10. TokenInv'
    BY <1>2, <2>2, <2>3, <2>5, <2>8, <2>9, <2>4, Zenon DEF TokenInv
  <2>11. PacketInv'
    BY <1>1, <1>2, <2>1, <2>3, <2>5, <2>9, Zenon DEF Calm, PacketInv
  <2>12. PendingInv'
    BY <1>2, <2>3, <2>6, Zenon DEF PendingInv
  <2> QED
    BY <2>7, <2>10, <2>11, <2>12, Zenon DEF Calm
<1> QED
  BY <1>3, <1>4, <1>5, Zenon DEF Isr
---------------------------------------------------------------------------
(* The initial state                                                       *)
LEMMA InitInv == Init => LeafInv
<1> SUFFICES ASSUME Init PROVE LeafInv
  BY Zenon
<1>1. inbox = <<>> /\ job = <<>> /\ pkt_queue = <<>>
  BY Zenon DEF Init
<1>2. TypeOK
  <2>1. radio \in Radio
    BY DEF Init, Radio
  <2>2. Len(inbox) <= InboxSize
    BY <1>1, LeafConstants
  <2>3. /\ inbox \in Seq(Message) /\ pkt_queue \in Seq(Packets)
        /\ job \in Seq([msg : Message, duty : Duties])
    BY <1>1
  <2>4. /\ duty \in Duties /\ timer \in BOOLEAN /\ radio_busy \in BOOLEAN
        /\ additional_wakeup \in BOOLEAN /\ pending_event \in BOOLEAN /\ raced \in BOOLEAN
    BY Zenon DEF Init, Duties
  <2>5. fate \in [Packets -> {"unsent", "accepted", "sent", "lost", "behind", "dropped"}]
    BY Zenon DEF Init
  <2> QED
    BY <2>1, <2>2, <2>3, <2>4, <2>5, Zenon DEF TypeOK
<1>3. (\A x : ~Working(x)) /\ (\A x : ~Has(inbox, x))
  BY <1>1 DEF Working, Has
<1>4. HandedInv
  BY <1>1, <1>3 DEF HandedInv, HandedOver
<1>5. RadioInv
  BY Zenon DEF Init, RadioInv
<1>6. TokenInv
  <2>1. Ordered(inbox)
    BY <1>1 DEF Ordered
  <2> QED
    BY <1>3, <2>1, Zenon DEF Init, TokenInv, Due
<1>7. PacketInv /\ PendingInv
  BY <1>3, Zenon DEF Init, PacketInv, PendingInv, Due
<1> QED
  BY <1>2, <1>4, <1>5, <1>6, <1>7, Zenon DEF LeafInv

(* LeafInv is inductive.                                                   *)
LEMMA LeafStep == LeafInv /\ [Next]_vars => LeafInv'
<1> SUFFICES ASSUME LeafInv, [Next]_vars PROVE LeafInv'
  BY Zenon
<1>1. TypeOK' /\ HandedInv'
  BY TypeStep, HandedStep, Zenon DEF LeafInv
<1>2. ASSUME ~raced' PROVE Calm'
  <2>1. CASE UNCHANGED vars
    BY <1>2, <2>1, Zenon DEF LeafInv, vars, macVars, Calm, RadioInv, TokenInv, PacketInv, PendingInv,
                      Due, Working
  <2> QED
    BY Zenon, <1>2, <2>1, TimerStep, TxEndStep, RxEndStep, SndStep, ReceiveStep, EventStep,
       RemoveQueueStep, SndMsgStep, IsrStep DEF Next, Thread
<1> QED
  BY <1>1, <1>2, Zenon DEF LeafInv, Calm

(* The invariant of the leaf: of the radio, the thread's messages and the  *)
(* timer one at a time moves the duty cycle on, unless a race has happened. *)
THEOREM LeafInvariant == Spec => []LeafInv
  BY InitInv, LeafStep, PTL DEF Spec

(* radio_busy agrees with the driver for any number of packets and any     *)
(* sizes of the queues: no send() finds another transmission unfinished,   *)
(* and the driver's assertion about pending_tx holds.                      *)
THEOREM RadioBusyExact == Spec => []BusyIsExact
<1>1. LeafInv => BusyIsExact
  BY Zenon DEF LeafInv, RadioInv, BusyIsExact
<1> QED
  BY <1>1, LeafInvariant, PTL

(* msg_queue_remove_head() never meets an empty queue, nor releases a      *)
(* packet whose transmission has not ended.                                *)
THEOREM QueueHeadWasSent == Spec => []NoPacketLost
<1>1. LeafInv => NoPacketLost
  BY Zenon DEF LeafInv, TokenInv, PacketInv, NoPacketLost, Due
<1> QED
  BY <1>1, LeafInvariant, PTL

(* After a data request whose acknowledgment has the pending bit set the   *)
(* leaf listens: only the EVENT of the request ends TX_DATAREQ, and by     *)
(* then additional_wakeup is set.                                          *)
THEOREM PendingLeadsToListen == Spec => ListensWhenPending
<1> DEFINE Listens == /\ duty = "TX_DATAREQ" /\ duty' # duty /\ ~raced' /\ pending_event
                      /\ radio.trac = "SUCCESS_DATA_PENDING"
                      => duty' = "LISTEN"
<1>1. LeafInv /\ [Next]_vars => [Listens]_vars
  <2> SUFFICES ASSUME LeafInv, Next, duty = "TX_DATAREQ", duty' # duty, ~raced', pending_event,
                      radio.trac = "SUCCESS_DATA_PENDING"
               PROVE  duty' = "LISTEN"
    BY Zenon
  <2>1. ~dutycycle_cb /\ ~TxEnd /\ ~RxEnd /\ ~Snd /\ ~msg_receive /\ ~Isr
    BY Zenon DEF dutycycle_cb, TxEnd, RxEnd, Snd, msg_receive, Isr, macVars
  <2>2. ~raced
    BY <2>1, Zenon DEF Next, Thread, Event, EndCycle, RemoveQueue, SndMsg, Sleep, Transmit, Race,
                LeafInv, TypeOK
  <2>3. TokenInv /\ PendingInv
    BY <2>2, Zenon DEF LeafInv
  <2>4. ~RemoveQueue /\ ~SndMsg
    BY <2>3, Zenon DEF RemoveQueue, SndMsg, TokenInv, Due
  <2>5. Event /\ job[1].duty = "TX_DATAREQ" /\ additional_wakeup
    BY <2>1, <2>3, <2>4, Zenon DEF Next, Thread, Event, TokenInv, PendingInv, Due
  <2> QED
    BY <2>5, Zenon DEF Event, EndCycle
<1> QED
  BY <1>1, LeafInvariant, PTL DEF Spec, ListensWhenPending
=============================================================================
