----------------------------- MODULE LasmacLeaf -----------------------------
(***************************************************************************)
(* lasmac_leaf.c: the duty-cycling MAC of a leaf node, on the radio driver *)
(* at86rf2xx.  The leaf sleeps, wakes up when its timer expires, sends     *)
(* what is queued and a data request, and listens if the acknowledgment of *)
(* the request says that the router has data for it.                       *)
(*                                                                         *)
(*   duty, timer, pkt_queue, radio_busy, additional_wakeup: the variables  *)
(*     of the source (pending_num is the length of pkt_queue; timer tells  *)
(*     whether the wake-up timer runs)                                     *)
(*   inbox   the message queue of the MAC thread                           *)
(*   job     <<>>, or the message the thread works on together with the    *)
(*           duty-cycle state it read                                      *)
(*   radio   the transceiver: status, idle (dev->idle_state), pending_tx,  *)
(*           irq (TRX_END in its IRQ_STATUS) and trac (how the last        *)
(*           transmission ended), frame (what is being transmitted)        *)
(*                                                                         *)
(* Interrupts (the timer, the transceiver) come between the thread's       *)
(* reading of the duty-cycle state and its acting upon it.                 *)
(*                                                                         *)
(*   pending_event  whether the build has MODULE_OPENTHREAD, without which *)
(*           the driver never raises NETDEV_EVENT_TX_COMPLETE_DATA_PENDING *)
(*                                                                         *)
(* History: fate[p] is what became of packet p, and raced tells whether    *)
(* one of the races below has happened, each of which makes the thread     *)
(* work on a message that no longer belongs to its duty-cycle state:       *)
(*   - a packet is sent at once while the EVENT of the expired timer waits *)
(*   - a frame is received while the EVENT of the expired timer waits      *)
(*   - the timer expires between the thread's reading of TX_DATA and its   *)
(*     return to SLEEP                                                     *)
(*   - a transmission starts while the end of a reception is unhandled     *)
(*   - a message meets a full queue                                        *)
(***************************************************************************)
EXTENDS Integers, Sequences

CONSTANTS
  Packets,      \* the packets the upper layer sends
  InboxSize,    \* NETDEV_NETAPI_MSG_QUEUE_SIZE
  QueueSize,    \* NETDEV_PKT_QUEUE_SIZE
  MaxTx         \* bound on pending_tx, which only races let grow

ASSUME LeafConstants ==
  /\ {InboxSize, QueueSize, MaxTx} \subseteq Nat \ {0}
  /\ "DATAREQ" \notin Packets

VARIABLES duty, timer, pkt_queue, radio_busy, additional_wakeup, inbox, job, radio,
          pending_event, fate, raced

macVars == <<duty, timer, pkt_queue, radio_busy, additional_wakeup>>
vars == <<macVars, inbox, job, radio, pending_event, fate, raced>>

Msg(type) == [type |-> type, pkt |-> "none"]

(* dev->driver->init(), then the first LISTEN                              *)
Init ==
  /\ duty = "LISTEN" /\ timer = TRUE /\ pkt_queue = <<>>
  /\ radio_busy = FALSE /\ additional_wakeup = FALSE
  /\ inbox = <<>> /\ job = <<>>
  /\ radio = [status |-> "RX", idle |-> "RX", pending_tx |-> 0, irq |-> FALSE,
              trac |-> "SUCCESS", frame |-> "none"]
  /\ pending_event \in BOOLEAN
  /\ fate = [p \in Packets |-> "unsent"] /\ raced = FALSE
---------------------------------------------------------------------------
(* msg_send() from an interrupt or from the thread to itself: a full queue *)
(* loses the message.                                                      *)
post(type) == inbox' = IF Len(inbox) < InboxSize THEN Append(inbox, Msg(type)) ELSE inbox
Lost == Len(inbox) = InboxSize

Waits(type) == \E i \in 1..Len(inbox) : inbox[i].type = type

Race(c) == raced' = (raced \/ c)

Working(type) == job # <<>> /\ job[1].msg.type = type
Done == job' = <<>>

(* at86rf2xx_set_state(): waits for the end of a transmission.             *)
set_state(r, s) ==
  [r EXCEPT !.status = s, !.irq = IF s = "SLEEP" /\ @ THEN FALSE ELSE @]

(* _send() of the driver: at86rf2xx_tx_prepare(), at86rf2xx_tx_exec()      *)
send(r, f) ==
  [r EXCEPT !.pending_tx = @ + 1,
            !.idle = IF r.status = "TX" THEN @ ELSE r.status,
            !.status = "BUSY_TX", !.frame = f]
---------------------------------------------------------------------------
(* Interrupts                                                              *)

(* dutycycle_cb()                                                          *)
dutycycle_cb ==
  /\ timer
  /\ timer' = FALSE
  /\ IF duty = "TX_DATA"
     THEN /\ duty' = "TX_DATA_BEFORE_DATAREQ" /\ UNCHANGED inbox
          /\ Race(Working("EVENT") \/ Working("REMOVE_QUEUE"))
     ELSE post("EVENT") /\ Race(Lost) /\ UNCHANGED duty
  /\ UNCHANGED <<pkt_queue, radio_busy, additional_wakeup, job, radio, pending_event, fate>>

(* _irq_handler(): on the rising edge only                                 *)
irq_handler(r) ==
  /\ radio' = [r EXCEPT !.irq = TRUE]
  /\ IF radio.irq THEN UNCHANGED <<inbox, raced>>
     ELSE post("NETDEV") /\ Race(Lost)

TxEnd ==
  /\ radio.status = "BUSY_TX"
  /\ \E trac \in {"SUCCESS", "NO_ACK"}
                 \cup {t \in {"SUCCESS_DATA_PENDING"} : radio.frame = "DATAREQ"} :
       irq_handler([radio EXCEPT !.status = "TX", !.trac = trac, !.frame = "none"])
  /\ fate' = [p \in Packets |-> IF p = radio.frame THEN "sent" ELSE fate[p]]
  /\ UNCHANGED <<macVars, job, pending_event>>

RxEnd ==
  /\ radio.status = "RX" /\ ~radio.irq
  /\ irq_handler(radio)
  /\ UNCHANGED <<macVars, job, pending_event, fate>>

(* The upper layer hands over a packet (it waits while the queue is full). *)
Snd ==
  /\ Len(inbox) < InboxSize
  /\ \E p \in Packets :
       /\ fate[p] = "unsent"
       /\ fate' = [fate EXCEPT ![p] = "accepted"]
       /\ inbox' = Append(inbox, [type |-> "SND", pkt |-> p])
  /\ UNCHANGED <<macVars, job, radio, pending_event, raced>>
---------------------------------------------------------------------------
(* The thread                                                              *)

msg_receive ==
  /\ job = <<>> /\ inbox # <<>>
  /\ job' = <<[msg |-> Head(inbox), duty |-> duty]>>
  /\ inbox' = Tail(inbox)
  /\ UNCHANGED <<macVars, radio, pending_event, fate, raced>>

Sleep ==
  /\ duty' = "SLEEP" /\ radio' = set_state(radio, "SLEEP")
  /\ UNCHANGED <<radio_busy, raced>>

Transmit(f) ==
  /\ radio_busy' = TRUE
  /\ radio.pending_tx < MaxTx
  /\ radio' = send(radio, f)
  /\ Race(radio.irq \/ Waits("EVENT"))

(* Every change of the radio's state waits for the end of a transmission.  *)
Quiet == radio.status # "BUSY_TX"

Mut_queue_before_pending ==
  /\ timer' = TRUE /\ additional_wakeup' = FALSE
  /\ \/ /\ pkt_queue # <<>>
        /\ duty' = "TX_DATA" /\ Transmit(Head(pkt_queue))
     \/ /\ pkt_queue = <<>> /\ additional_wakeup
        /\ duty' = "LISTEN" /\ radio' = set_state(radio, "RX")
        /\ UNCHANGED <<radio_busy, raced>>
     \/ /\ pkt_queue = <<>> /\ ~additional_wakeup /\ Sleep

Mut_listen_without_timer ==
  \/ /\ additional_wakeup
     /\ duty' = "LISTEN" /\ radio' = set_state(radio, "RX")
     /\ additional_wakeup' = FALSE
     /\ UNCHANGED <<timer, radio_busy, raced>>
  \/ /\ ~additional_wakeup
     /\ timer' = TRUE
     /\ IF pkt_queue # <<>> THEN duty' = "TX_DATA" /\ Transmit(Head(pkt_queue)) ELSE Sleep
     /\ UNCHANGED additional_wakeup

(* The data request has been answered, or the listening is over.           *)
EndCycle ==
  /\ timer' = TRUE /\ additional_wakeup' = FALSE
  /\ \/ /\ additional_wakeup
        /\ duty' = "LISTEN" /\ radio' = set_state(radio, "RX")
        /\ UNCHANGED <<radio_busy, raced>>
     \/ /\ ~additional_wakeup /\ pkt_queue # <<>>
        /\ duty' = "TX_DATA" /\ Transmit(Head(pkt_queue))
     \/ /\ ~additional_wakeup /\ pkt_queue = <<>> /\ Sleep

(* GNRC_NETDEV_DUTYCYCLE_MSG_TYPE_EVENT                                    *)
Event ==
  /\ Working("EVENT") /\ Quiet /\ Done
  /\ LET d == job[1].duty
     IN  \/ /\ d = "TX_DATA" /\ Sleep
            /\ UNCHANGED <<timer, additional_wakeup>>
         \/ /\ d = "TX_DATA_BEFORE_DATAREQ"
            /\ duty' = "TX_DATAREQ" /\ Transmit("DATAREQ")
            /\ UNCHANGED <<timer, additional_wakeup>>
         \/ d \in {"TX_DATAREQ", "LISTEN"} /\ EndCycle
         \/ /\ d = "SLEEP"
            /\ \/ /\ pkt_queue # <<>>
                  /\ duty' = "TX_DATA_BEFORE_DATAREQ" /\ Transmit(Head(pkt_queue))
               \/ /\ pkt_queue = <<>>
                  /\ duty' = "TX_DATAREQ" /\ Transmit("DATAREQ")
            /\ UNCHANGED <<timer, additional_wakeup>>
  /\ UNCHANGED <<pkt_queue, inbox, pending_event, fate>>

(* GNRC_NETDEV_DUTYCYCLE_MSG_TYPE_REMOVE_QUEUE, msg_queue_remove_head():   *)
(* an empty queue would make pending_num wrap around.                      *)
RemoveQueue ==
  /\ Working("REMOVE_QUEUE") /\ Quiet /\ Done
  /\ pkt_queue # <<>>
  /\ pkt_queue' = Tail(pkt_queue)
  /\ fate' = [fate EXCEPT ![Head(pkt_queue)] = IF @ = "accepted" THEN "lost" ELSE @]
  /\ \/ /\ Len(pkt_queue) > 1 /\ Transmit(pkt_queue[2]) /\ UNCHANGED duty
     \/ /\ Len(pkt_queue) = 1 /\ job[1].duty = "TX_DATA_BEFORE_DATAREQ"
        /\ duty' = "TX_DATAREQ" /\ Transmit("DATAREQ")
     \/ Len(pkt_queue) = 1 /\ job[1].duty # "TX_DATA_BEFORE_DATAREQ" /\ Sleep
  /\ UNCHANGED <<timer, additional_wakeup, inbox, pending_event>>

(* A packet that was not queued is being sent.                             *)
Overtaken ==
  radio_busy /\ pkt_queue = <<>> /\ duty \in {"TX_DATA", "TX_DATA_BEFORE_DATAREQ"}

(* GNRC_NETAPI_MSG_TYPE_SND, msg_queue_add()                               *)
SndMsg ==
  LET p == job[1].msg.pkt
      now == job[1].duty = "SLEEP" /\ pkt_queue = <<>> /\ ~radio_busy
  IN  /\ Working("SND") /\ Done
      /\ \/ /\ now /\ Quiet
            /\ duty' = "TX_DATA" /\ Transmit(p)
            /\ UNCHANGED <<pkt_queue, fate>>
         \/ /\ ~now
            /\ IF Len(pkt_queue) < QueueSize
               THEN /\ pkt_queue' = Append(pkt_queue, p)
                    /\ fate' = [fate EXCEPT ![p] = IF Overtaken THEN "behind" ELSE @]
               ELSE fate' = [fate EXCEPT ![p] = "dropped"] /\ UNCHANGED pkt_queue
            /\ UNCHANGED <<duty, radio_busy, radio, raced>>
      /\ UNCHANGED <<timer, additional_wakeup, inbox, pending_event>>

(* _event_cb(): NETDEV_EVENT_RX_COMPLETE                                   *)
rx_complete ==
  /\ timer' = FALSE /\ radio_busy' = FALSE /\ additional_wakeup' = FALSE
  /\ post("EVENT") /\ Race(Lost \/ Waits("EVENT"))

Mut_pending_stays_busy(pending) ==
  /\ radio_busy' = pending
  /\ additional_wakeup' = IF pending THEN TRUE
                          ELSE IF duty = "TX_DATAREQ" THEN FALSE ELSE additional_wakeup
  /\ post(IF pending \/ duty = "TX_DATAREQ" \/ pkt_queue = <<>>
          THEN "EVENT" ELSE "REMOVE_QUEUE")
  /\ Race(Lost)
  /\ UNCHANGED timer

Mut_remove_after_datareq(pending) ==
  /\ radio_busy' = FALSE
  /\ additional_wakeup' = IF pending THEN TRUE
                          ELSE IF duty = "TX_DATAREQ" THEN FALSE ELSE additional_wakeup
  /\ post(IF pending \/ pkt_queue = <<>> THEN "EVENT" ELSE "REMOVE_QUEUE")
  /\ Race(Lost)
  /\ UNCHANGED timer

(* _event_cb(): the events at the end of a transmission                    *)
tx_complete(pending) ==
  /\ radio_busy' = FALSE
  /\ additional_wakeup' = IF pending THEN TRUE
                          ELSE IF duty = "TX_DATAREQ" THEN FALSE ELSE additional_wakeup
  /\ post(IF pending \/ duty = "TX_DATAREQ" \/ pkt_queue = <<>>
          THEN "EVENT" ELSE "REMOVE_QUEUE")
  /\ Race(Lost)
  /\ UNCHANGED timer

(* NETDEV_MSG_TYPE_EVENT: _isr() of the driver                             *)
Isr ==
  /\ Working("NETDEV") /\ Done
  /\ LET r == [radio EXCEPT !.irq = FALSE]
         pending == radio.trac = "SUCCESS_DATA_PENDING"
         idle == IF pending THEN "RX" ELSE radio.idle
     IN  \/ /\ ~radio.irq
            /\ UNCHANGED <<radio, timer, radio_busy, additional_wakeup, inbox, raced>>
         \/ /\ radio.status = "RX" /\ radio.irq
            /\ radio' = r
            /\ rx_complete
         \/ /\ radio.status \in {"TX", "BUSY_TX"} /\ radio.irq
            /\ radio.pending_tx = 1 => Quiet
            /\ radio' = IF radio.pending_tx = 1
                        THEN set_state([r EXCEPT !.pending_tx = 0, !.idle = idle], idle)
                        ELSE [r EXCEPT !.pending_tx = @ - 1]
            /\ tx_complete(pending /\ pending_event)
  /\ UNCHANGED <<duty, pkt_queue, pending_event, fate>>

Thread == msg_receive \/ Event \/ RemoveQueue \/ SndMsg \/ Isr
Next == dutycycle_cb \/ TxEnd \/ RxEnd \/ Snd \/ Thread

Spec == Init /\ [][Next]_vars

(* The timer expires, a transmission ends, and the thread gets on with its *)
(* messages; nothing is promised about frames to receive and packets to    *)
(* send.                                                                   *)
FairSpec == Spec /\ WF_vars(Thread) /\ WF_vars(dutycycle_cb) /\ WF_vars(TxEnd)
---------------------------------------------------------------------------
(* Unless one of the races has happened, radio_busy is TRUE from send() to *)
(* the TX event and at no other time, as the comment "A packet can be sent *)
(* only when radio_busy = 0" (lasmac_leaf.c:70) needs it: the driver's     *)
(* pending_tx agrees, its assertion pending_tx != 0 holds, and no send()   *)
(* finds another transmission unfinished.                                  *)
BusyIsExact ==
  ~raced => /\ radio.pending_tx = (IF radio_busy THEN 1 ELSE 0)
            /\ radio.frame # "none" => radio.status = "BUSY_TX" /\ radio_busy
            /\ radio.irq /\ radio.status = "TX" => radio_busy

(* Unless one of the races has happened, msg_queue_remove_head() finds a   *)
(* packet in the queue, and one that has been transmitted: the MAC releases *)
(* an unsent packet only when it was queued behind one that SND had passed *)
(* to the radio without queuing it, whose completion is taken for its own. *)
NoPacketLost ==
  ~raced => /\ Working("REMOVE_QUEUE") => pkt_queue # <<>>
            /\ \A p \in Packets : fate[p] # "lost"

(* In a build whose driver reports the pending bit, a data request that is *)
(* acknowledged with the bit set is followed by LISTEN, never by sleeping  *)
(* or sending, unless one of the races has happened.                       *)
ListensWhenPending ==
  [][/\ duty = "TX_DATAREQ" /\ duty' # duty /\ ~raced' /\ pending_event
     /\ radio.trac = "SUCCESS_DATA_PENDING"
     => duty' = "LISTEN"]_vars

(* The leaf asks its router for data for ever: whatever it sends, receives *)
(* or drops, only one of the races can stop the duty cycle.                *)
KeepsPolling == <>raced \/ []<>(duty = "TX_DATAREQ")
============================================================================
