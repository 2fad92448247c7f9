------------------------------- MODULE Xtimer -------------------------------
(***************************************************************************)
(* sys/xtimer/xtimer_core.c in the configuration of the Hamilton mote: a   *)
(* slow 32-bit counter with one compare channel (XTIMER), multiplexed to   *)
(* any number of timers, and a fast counter (STIMER) that measures the     *)
(* time since the slow one was last read.                                  *)
(*                                                                         *)
(*   counter    the XTIMER counter, modulo Period                          *)
(*   channel    its compare channel: value, whether its interrupt is       *)
(*              enabled, and the interrupt flag                            *)
(*   timer_list_head, overflow_list_head, long_list_head: the lists of     *)
(*              the source                                                 *)
(*   target, long_target: of each timer, the latter relative to _long_cnt  *)
(*   prev_x     the counter when it was last read; diff: the time since,   *)
(*              by the STIMER (prev_s), in XTIMER ticks                    *)
(*   call       the thread's _xtimer_set(): None, or the timer, its        *)
(*              offset, and what the thread knows of the time              *)
(*   handler    _timer_callback(): next step, reference and now            *)
(*   delay      ticks since the last step of the code being executed       *)
(*   unarmed    history: a timer went to the long list while the channel   *)
(*              was off, and nothing has switched it on since              *)
(***************************************************************************)
EXTENDS Integers, Sequences, FiniteSets, SequencesExt

CONSTANTS
  Timers,
  Period,         \* 2^32
  BACKOFF,        \* XTIMER_BACKOFF
  ISR_BACKOFF,    \* XTIMER_ISR_BACKOFF
  OVERHEAD,       \* XTIMER_OVERHEAD
  Offsets,        \* what timers are set to
  Latency         \* bound on the ticks between two steps of executing code

ASSUME XtimerConstants ==
  /\ {Period, BACKOFF, ISR_BACKOFF, OVERHEAD, Latency} \subseteq Nat \ {0}
  /\ OVERHEAD < ISR_BACKOFF /\ ISR_BACKOFF < BACKOFF /\ 2 * BACKOFF < Period
  /\ Offsets \subseteq 0..(2 * Period - 1)

VARIABLES counter, channel, timer_list_head, overflow_list_head, long_list_head,
          target, long_target, prev_x, diff, call, handler, delay, unarmed

lists     == <<timer_list_head, overflow_list_head, long_list_head>>
timers    == <<lists, target, long_target>>
clock     == <<prev_x, diff>>
hardware  == <<channel, unarmed>>
vars == <<counter, hardware, timers, clock, call, handler, delay>>

None == [pc |-> "none"]
Off  == [pc |-> "off", reference |-> 0, now |-> 0]

Overflow == Period - 1     \* 0xFFFFFFFF

(* xtimer_init()                                                           *)
Init ==
  /\ counter = 0
  /\ channel = [value |-> Overflow, on |-> TRUE, flag |-> FALSE]
  /\ timer_list_head = <<>> /\ overflow_list_head = <<>> /\ long_list_head = <<>>
  /\ target = [t \in Timers |-> 0] /\ long_target = [t \in Timers |-> 0]
  /\ prev_x = 0 /\ diff = 0
  /\ call = None /\ handler = Off
  /\ delay = 0
  /\ unarmed = FALSE
---------------------------------------------------------------------------
Plus(a, b)  == (a + b) % Period
Minus(a, b) == (a - b) % Period

InHandler == handler.pc # "off"

(* timer_set_absolute() of cpu/samd21/periph/timer.c                       *)
timer_set_absolute(value) ==
  /\ channel' = [value |-> value, on |-> TRUE, flag |-> FALSE]
  /\ unarmed' = FALSE

lltimer_set(value) ==
  IF InHandler THEN UNCHANGED hardware ELSE timer_set_absolute(value)

(* _is_set(), which is also true of a timer that _remove() has taken out   *)
(* of its list, with no effect                                             *)
is_set(t) == \E l \in {timer_list_head, overflow_list_head, long_list_head} : t \in Range(l)

(* _add_timer_to_list() and _add_timer_to_long_list(): behind the timers   *)
(* that expire no later                                                    *)
add_timer_to_list(when, list, t) ==
  LET n == Cardinality({i \in 1..Len(list) : when[list[i]] <= when[t]})
  IN  SubSeq(list, 1, n) \o <<t>> \o SubSeq(list, n + 1, Len(list))

(* _xtimer_now()                                                           *)
xtimer_now == Plus(prev_x, diff)
---------------------------------------------------------------------------
(* Setting and removing timers                                             *)

(* _remove().  The targets of a timer that is not set are not used again   *)
(* and are 0 here, and so are value and flag of the channel while its      *)
(* interrupt is off.                                                       *)
Without(list, t) == SelectSeq(list, LAMBDA u : u # t)

IsHead(t) == timer_list_head # <<>> /\ Head(timer_list_head) = t

arm_without(t) ==
  LET rest == Without(timer_list_head, t)
  IN  lltimer_set(IF rest = <<>> THEN Overflow ELSE Minus(target[Head(rest)], OVERHEAD))

remove(t) ==
  /\ timer_list_head' = Without(timer_list_head, t)
  /\ overflow_list_head' = Without(overflow_list_head, t)
  /\ long_list_head' = Without(long_list_head, t)
  /\ target' = [target EXCEPT ![t] = 0]
  /\ long_target' = [long_target EXCEPT ![t] = 0]
  /\ IF IsHead(t) THEN arm_without(t) ELSE UNCHANGED hardware

Mut_insert_keeps_compare(t, now, offset) ==
  LET tgt  == [target EXCEPT ![t] = Plus(now, offset)]
      long == [long_target EXCEPT ![t] = IF tgt[t] < now THEN 1 ELSE 0]
      when == [u \in Timers |-> long[u] * Period + tgt[u]]
  IN  /\ target' = tgt /\ long_target' = long
      /\ IF long[t] > 0
         THEN /\ long_list_head' = add_timer_to_list(when, long_list_head, t)
              /\ UNCHANGED <<timer_list_head, overflow_list_head>>
         ELSE /\ timer_list_head' = add_timer_to_list(when, timer_list_head, t)
              /\ UNCHANGED <<overflow_list_head, long_list_head>>
      /\ IF timer_list_head = <<>>
         THEN lltimer_set(IF long[t] > 0 THEN Overflow ELSE Minus(tgt[t], OVERHEAD))
         ELSE UNCHANGED hardware

(* The part of _xtimer_set_absolute() with interrupts disabled, for a      *)
(* timer that is in no list. XTIMER_MASK is 0: every target is of this     *)
(* high period, and the overflow list is not used.                         *)
insert(t, now, offset) ==
  LET tgt  == [target EXCEPT ![t] = Plus(now, offset)]
      long == [long_target EXCEPT ![t] = IF tgt[t] < now THEN 1 ELSE 0]
      when == [u \in Timers |-> long[u] * Period + tgt[u]]
  IN  /\ target' = tgt /\ long_target' = long
      /\ IF long[t] > 0
         THEN /\ long_list_head' = add_timer_to_list(when, long_list_head, t)
              /\ IF timer_list_head = <<>> THEN lltimer_set(Overflow)
                 ELSE UNCHANGED hardware
              /\ UNCHANGED <<timer_list_head, overflow_list_head>>
         ELSE /\ timer_list_head' = add_timer_to_list(when, timer_list_head, t)
              /\ IF Head(timer_list_head') = t
                 THEN lltimer_set(Minus(tgt[t], OVERHEAD)) ELSE UNCHANGED hardware
              /\ UNCHANGED <<overflow_list_head, long_list_head>>

Interruptible == ~InHandler /\ ~(channel.on /\ channel.flag)

(* xtimer_remove()                                                         *)
xtimer_remove(t) ==
  /\ Interruptible /\ call = None /\ is_set(t)
  /\ remove(t)
  /\ delay' = 0
  /\ UNCHANGED <<counter, clock, call, handler>>

(* _xtimer_set(), its xtimer_remove(); a short offset is spun away, for a  *)
(* longer one _xtimer_now() reads the STIMER                               *)
xtimer_set(t, offset) ==
  /\ Interruptible /\ call = None
  /\ offset < BACKOFF \/ diff > 0
  /\ IF is_set(t) THEN remove(t) ELSE UNCHANGED <<timers, hardware>>
  /\ call' = IF offset < BACKOFF
             THEN [pc |-> "spin", timer |-> t, offset |-> offset, time |-> counter]
             ELSE [pc |-> "read", timer |-> t, offset |-> offset, time |-> diff]
  /\ delay' = 0
  /\ UNCHANGED <<counter, clock, handler>>

Sync == prev_x' = counter /\ diff' = 0

(* the end of _xtimer_spin(), and _shoot()                                 *)
xtimer_spin ==
  /\ Interruptible /\ call.pc = "spin"
  /\ Minus(counter, call.time) >= call.offset
  /\ Sync
  /\ call' = None /\ delay' = 0
  /\ UNCHANGED <<counter, hardware, timers, handler>>

(* the rest of _xtimer_now()                                               *)
ReadNow ==
  /\ Interruptible /\ call.pc = "read"
  /\ call' = [call EXCEPT !.pc = "set", !.time = Plus(prev_x, @)]
  /\ delay' = 0
  /\ UNCHANGED <<counter, hardware, timers, clock, handler>>

xtimer_set_absolute ==
  /\ Interruptible /\ call.pc = "set"
  /\ insert(call.timer, call.time, call.offset)
  /\ call' = None /\ delay' = 0
  /\ UNCHANGED <<counter, clock, handler>>

(* _xtimer_set64() with a long_offset, all with interrupts disabled:       *)
(* nothing but the _remove() of the head switches the channel on.          *)
xtimer_set64(t, offset) ==
  LET tgt  == [target EXCEPT ![t] = Plus(xtimer_now, offset)]
      long == [long_target EXCEPT ![t] = (xtimer_now + offset) \div Period]
      when == [u \in Timers |-> long[u] * Period + tgt[u]]
  IN  /\ Interruptible /\ call = None /\ diff > 0
      /\ target' = tgt /\ long_target' = long
      /\ timer_list_head' = Without(timer_list_head, t)
      /\ overflow_list_head' = Without(overflow_list_head, t)
      /\ long_list_head' = add_timer_to_list(when, Without(long_list_head, t), t)
      /\ IF IsHead(t) THEN arm_without(t)
         ELSE unarmed' = (unarmed \/ ~channel.on) /\ UNCHANGED channel
      /\ delay' = 0
      /\ UNCHANGED <<counter, clock, call, handler>>

Thread ==
  \/ xtimer_spin \/ ReadNow \/ xtimer_set_absolute
  \/ \E t \in Timers :
       \/ xtimer_remove(t)
       \/ \E o \in Offsets : IF o < Period THEN xtimer_set(t, o) ELSE xtimer_set64(t, o)
---------------------------------------------------------------------------
(* The interrupt: _timer_callback()                                        *)

Mut_select_two_periods ==
  LET n == Cardinality({i \in 1..Len(long_list_head) : long_target[long_list_head[i]] <= 2})
  IN  /\ timer_list_head' = overflow_list_head \o SubSeq(long_list_head, 1, n)
      /\ long_list_head' = SubSeq(long_list_head, n + 1, Len(long_list_head))
      /\ overflow_list_head' = <<>>
      /\ long_target' = [t \in Timers |-> IF long_target[t] > 0 THEN long_target[t] - 1 ELSE 0]

(* _next_period(), _select_long_timers(): the overflow list and the        *)
(* selected long timers are never both non-empty, so nothing is merged.    *)
next_period ==
  LET n == Cardinality({i \in 1..Len(long_list_head) : long_target[long_list_head[i]] <= 1})
  IN  /\ timer_list_head' = overflow_list_head \o SubSeq(long_list_head, 1, n)
      /\ long_list_head' = SubSeq(long_list_head, n + 1, Len(long_list_head))
      /\ overflow_list_head' = <<>>
      /\ long_target' = [t \in Timers |-> IF long_target[t] > 0 THEN long_target[t] - 1 ELSE 0]

ToOverflow(reference, now) ==
  handler' = [pc |-> "overflow", reference |-> reference, now |-> now]

(* The interrupt is taken: the driver disables it again, the handler reads *)
(* the counter.                                                            *)
Enter ==
  /\ ~InHandler /\ channel.on /\ channel.flag
  /\ timer_list_head = <<>> => counter # Overflow
  /\ channel' = [value |-> 0, on |-> FALSE, flag |-> FALSE]
  /\ IF timer_list_head = <<>> THEN next_period ELSE UNCHANGED <<lists, long_target>>
  /\ ToOverflow(counter, counter) /\ Sync
  /\ delay' = 0
  /\ UNCHANGED <<counter, target, call, unarmed>>

(* _time_left()                                                            *)
time_left(t) ==
  IF handler.now < handler.reference \/ target[t] <= handler.now THEN 0
  ELSE target[t] - handler.now

Close == timer_list_head # <<>> /\ time_left(Head(timer_list_head)) < ISR_BACKOFF

(* "make sure we don't fire too early"                                     *)
Spin ==
  /\ handler.pc = "overflow" /\ Close /\ time_left(Head(timer_list_head)) > 0
  /\ diff > 0
  /\ handler' = [handler EXCEPT !.now = Plus(@, diff)]
  /\ delay' = 0
  /\ UNCHANGED <<counter, hardware, timers, clock, call>>

shoot ==
  /\ handler.pc = "overflow" /\ Close /\ time_left(Head(timer_list_head)) = 0
  /\ timer_list_head' = Tail(timer_list_head)
  /\ target' = [target EXCEPT ![Head(timer_list_head)] = 0]
  /\ long_target' = [long_target EXCEPT ![Head(timer_list_head)] = 0]
  /\ handler' = [handler EXCEPT !.pc = "callback"]
  /\ delay' = 0
  /\ UNCHANGED <<counter, hardware, overflow_list_head, long_list_head, clock, call>>

(* A callback may set a timer that is not set, as periodic ones do; at     *)
(* most one each, and none that the thread is setting.                     *)
Rearm(t, offset) ==
  /\ handler.pc = "callback" /\ offset \in BACKOFF..(Period - 1) /\ diff > 0
  /\ ~is_set(t) /\ (call # None => call.timer # t)
  /\ insert(t, xtimer_now, offset)
  /\ handler' = [handler EXCEPT !.pc = "return"]
  /\ delay' = 0
  /\ UNCHANGED <<counter, clock, call>>

(* "update current time after executing callback"                          *)
Return ==
  /\ handler.pc \in {"callback", "return"}
  /\ handler' = [handler EXCEPT !.pc = "overflow", !.now = Plus(@, diff)]
  /\ delay' = 0
  /\ UNCHANGED <<counter, hardware, timers, clock, call>>

NextPeriod ==
  /\ next_period /\ ToOverflow(0, counter) /\ Sync
  /\ UNCHANGED <<hardware, target>>

Mut_leave_unarmed(arm) ==
  /\ handler' = Off
  /\ UNCHANGED <<hardware, timers, clock>>

Leave(arm) ==
  /\ handler' = Off
  /\ arm
  /\ UNCHANGED <<timers, clock>>

(* The end of the handler, once no timer is close                          *)
Finish ==
  LET next_target == Minus(target[Head(timer_list_head)], OVERHEAD)
      now == Plus(handler.now, diff)
  IN  /\ handler.pc = "overflow" /\ ~Close
      /\ IF handler.reference > handler.now THEN NextPeriod
         ELSE IF timer_list_head # <<>>
         THEN IF next_target < Plus(handler.now, ISR_BACKOFF)
              THEN /\ ToOverflow(handler.reference, counter) /\ Sync
                   /\ UNCHANGED <<hardware, timers>>
              ELSE Leave(timer_set_absolute(next_target))
         ELSE IF now < handler.reference THEN NextPeriod
         ELSE IF Plus(now, ISR_BACKOFF) < now
         THEN /\ handler' = [handler EXCEPT !.pc = "end", !.now = now]
              /\ UNCHANGED <<hardware, timers, clock>>
         ELSE Leave(IF overflow_list_head # <<>> \/ long_list_head # <<>>
                    THEN timer_set_absolute(Overflow) ELSE UNCHANGED hardware)
      /\ delay' = 0
      /\ UNCHANGED <<counter, call>>

(* "spin until next period, then advance"                                  *)
EndOfPeriod ==
  /\ handler.pc = "end" /\ counter < handler.now
  /\ NextPeriod
  /\ delay' = 0
  /\ UNCHANGED <<counter, call>>

Callback == Enter \/ Spin \/ shoot \/ Return \/ Finish \/ EndOfPeriod
---------------------------------------------------------------------------
(* Time passes. Code that executes takes a step at least every Latency     *)
(* ticks, except where it waits for the counters.                          *)
Executing == ~Interruptible \/ call.pc \in {"read", "set"}

BusyWaiting ==
  \/ ~InHandler /\ timer_list_head = <<>> /\ counter = Overflow
  \/ handler.pc = "overflow" /\ diff = 0
  \/ handler.pc = "end" /\ counter >= handler.now

Tick ==
  /\ Executing /\ delay = Latency => BusyWaiting
  /\ counter' = Plus(counter, 1)
  /\ diff' = (diff + 1) % Period
  /\ channel' = [channel EXCEPT !.flag = @ \/ (channel.on /\ channel.value = counter')]
  /\ delay' = IF Executing /\ delay < Latency THEN delay + 1 ELSE 0
  /\ UNCHANGED <<timers, prev_x, call, handler, unarmed>>

Next == Tick \/ Thread \/ Callback \/ \E t \in Timers, o \in Offsets : Rearm(t, o)

Spec == Init /\ [][Next]_vars

FairSpec == Spec /\ WF_vars(Tick) /\ WF_vars(Callback)
            /\ WF_vars(xtimer_spin \/ ReadNow \/ xtimer_set_absolute)
---------------------------------------------------------------------------
When(t) == long_target[t] * Period + target[t]

(* _add_timer_to_list(), _select_long_timers() and the handler look only   *)
(* at the heads of the lists, and _remove() at the first node it finds.    *)
(* Whatever is set, removed and fired in whichever order, across overflows *)
(* of the counter, the lists are sorted by the time of expiry, no timer is *)
(* linked twice, and the current list holds the timers of this period, the *)
(* long list those of later ones.                                          *)
ListsIntact ==
  /\ LET all == timer_list_head \o overflow_list_head \o long_list_head
     IN  IsInjective(all)
  /\ \A l \in {timer_list_head, overflow_list_head, long_list_head} :
       \A i, j \in 1..Len(l) : i < j => When(l[i]) <= When(l[j])
  /\ \A t \in Range(timer_list_head) : long_target[t] = 0
  /\ \A t \in Range(long_list_head) : long_target[t] > 0

(* Outside its handler the compare channel, which the driver switches off  *)
(* at each interrupt, waits for the first timer of this period, or for the *)
(* end of the period if there are only later ones - except after           *)
(* _xtimer_set64() has put a timer on the long list while it was off.      *)
Armed ==
  ~InHandler =>
    /\ timer_list_head # <<>> =>
         channel.on /\ channel.value = Minus(target[Head(timer_list_head)], OVERHEAD)
    /\ timer_list_head = <<>> /\ long_list_head # <<>> =>
         unarmed \/ (channel.on /\ channel.value = Overflow)

(* In the handler a timer leaves the lists only to be fired.               *)
OnlyFired ==
  InHandler /\ handler'.pc # "callback"
  => \A t \in Timers : is_set(t) => is_set(t)'

(* A timer that is set fires, however the handler is delayed, whatever     *)
(* periods it must wait and whichever timers are ahead of it, if threads   *)
(* and callbacks set no more timers from some time on (each time they do   *)
(* may start the wait again), and unless it is a long timer set while the  *)
(* channel was off.  _next_period(), which overwrites the current list,    *)
(* drops none.                                                             *)
Fires ==
  /\ [][OnlyFired]_vars
  /\ <>[][Tick \/ Callback]_vars => []<>(unarmed \/ \A t \in Timers : ~is_set(t))
============================================================================
