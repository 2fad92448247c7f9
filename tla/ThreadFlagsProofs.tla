------------------------- MODULE ThreadFlagsProofs -------------------------
(***************************************************************************)
(* What ThreadFlags.cfg checks of core/thread_flags.c and of the loop      *)
(* recommended in its header, for any number of threads, priorities, flags *)
(* and messages.                                                           *)
(***************************************************************************)
EXTENDS ThreadFlags, CpuProofs

Unqueued == {"yield_higher", "flag_yield"}
AtEase   == {"app", "flag_read", "flag_clear"}

(* The windows of the functions that wait.                                 *)
WaitWindows == {"flag_yield", "flag_read", "flag_clear"}

WaitsAny(t) == k.status[t] = "FLAG_BLOCKED_ANY"
WaitsAll(t) == k.status[t] = "FLAG_BLOCKED_ALL"

(* The scheduler's part of the invariant.                                  *)
CoreInv ==
  /\ CpuInv(FlagWindows, Unqueued, AtEase)
  /\ k.threads = Pids /\ k.priority = Prio

FlagTypes ==
  /\ flags \in [Pids -> SUBSET Bits] /\ mask \in [Pids -> SUBSET Bits]
  /\ msgs \in [Handlers -> 0..QueueSize]
  /\ drain \in [Handlers -> BOOLEAN]

(* A thread in a wait is blocked and its condition does not hold, or is    *)
(* not blocked and its condition holds; nobody else is blocked on flags.   *)
(* thread_flags_wait_one() that has chosen its flag waits for it alone.    *)
WaitInv(t) ==
  /\ pc[t] \notin WaitWindows => ~WaitsAny(t) /\ ~WaitsAll(t)
  /\ pc[t] \in WaitWindows =>
       /\ mask[t] # {} /\ arg[t] \in 0..2
       /\ pc[t] = "flag_read" => arg[t] = 1
       /\ WaitsAny(t) => arg[t] # 2 /\ flags[t] \cap mask[t] = {}
       /\ WaitsAll(t) => arg[t] = 2 /\ ~(mask[t] \subseteq flags[t])
       /\ (~WaitsAny(t) /\ ~WaitsAll(t)) =>
            IF arg[t] = 2 THEN mask[t] \subseteq flags[t] ELSE flags[t] \cap mask[t] # {}
  /\ (pc[t] = "flag_clear" /\ arg[t] = 1) =>
       /\ ~WaitsAny(t) /\ ~WaitsAll(t)
       /\ \E b \in Bits : mask[t] = {b}

(* A handler waits for all flags with its queue emptied; a message that    *)
(* came since has left its flag.                                           *)
HandlerInv(h) ==
  /\ pc[h] \in WaitWindows => arg[h] = 0 /\ mask[h] = Bits /\ ~drain[h]
  /\ (msgs[h] > 0 /\ ~drain[h]) => THREAD_FLAG_MSG_WAITING \in flags[h]

(* The inductive invariant.                                                *)
FlagInv ==
  /\ CoreInv /\ FlagTypes
  /\ \A t \in Pids : WaitInv(t)
  /\ \A h \in Handlers : HandlerInv(h)
---------------------------------------------------------------------------
(* The windows of this module are a sensible choice.                       *)
LEMMA FlagSets ==
  /\ WindowsOK(FlagWindows, Unqueued, AtEase)
  /\ "FLAG_BLOCKED_ANY" \in Blocked /\ "FLAG_BLOCKED_ALL" \in Blocked
  /\ Bits \subseteq Nat /\ Bits # {} /\ THREAD_FLAG_MSG_WAITING \in Bits
  /\ Handlers \subseteq Pids /\ Waiters \subseteq Pids /\ Threads \subseteq Pids
  /\ \A m \in Masks : m # {} /\ m \subseteq Bits
<1>1. WindowsOK(FlagWindows, Unqueued, AtEase)
  BY Zenon DEF WindowsOK, FlagWindows, Unqueued, AtEase
<1>2. Bits \subseteq Nat /\ Bits # {} /\ THREAD_FLAG_MSG_WAITING \in Bits
  BY ThreadFlagsConstants DEF Bits, THREAD_FLAG_MSG_WAITING
<1> QED
  BY <1>1, <1>2, ThreadFlagsConstants, Zenon DEF Threads, Blocked

(* The thread that has the CPU outside the two yields is not blocked.      *)
LEMMA ActiveIsAwake ==
  ASSUME FlagInv, NEW t \in Pids, k.active = t, pc[t] \notin Unqueued
  PROVE  ~WaitsAny(t) /\ ~WaitsAll(t)
<1>1. KInv(k) /\ IsHead(k, t)
  BY CpuConstants, Zenon DEF FlagInv, CoreInv, CpuInv, CpuTypeOK, KInv, HeadOutside
<1>2. Runnable(k, t)
  BY <1>1, HeadRunnable, Zenon
<1> QED
  BY <1>2, Zenon DEF Runnable, OnRunqueue, WaitsAny, WaitsAll

(* Where GoTo() leaves the threads.                                        *)
LEMMA GoToPlaces ==
  ASSUME FlagInv, NEW t \in Pids, NEW k2, NEW label, NEW a, GoTo(t, k2, label, a)
  PROVE  /\ pc'[t] = label /\ arg'[t] = a
         /\ \A u \in Pids : u # t => pc'[u] = pc[u] /\ arg'[u] = arg[u]
<1>1. pc \in [Pids -> FlagWindows] /\ arg \in [Pids -> Nat]
  BY Zenon DEF FlagInv, CoreInv, CpuInv, CpuTypeOK
<1>2. pc' = [pc EXCEPT ![t] = label] /\ arg' = [arg EXCEPT ![t] = a]
  BY Zenon DEF GoTo
<1> QED
  BY <1>1, <1>2, Zenon

(* Nothing has happened to u's wait.                                       *)
SamePlace(u) ==
  \/ pc'[u] = pc[u] /\ arg'[u] = arg[u]
  \/ pc'[u] \notin WaitWindows /\ pc[u] \notin WaitWindows

SameStatus(u) == (WaitsAny(u)' <=> WaitsAny(u)) /\ (WaitsAll(u)' <=> WaitsAll(u))

(* The wait of a thread that nothing has happened to.                      *)
LEMMA WaitKept ==
  ASSUME NEW u \in Pids, WaitInv(u), SamePlace(u), SameStatus(u),
         flags'[u] = flags[u], mask'[u] = mask[u]
  PROVE  WaitInv(u)'
BY Zenon DEF WaitInv, SamePlace, SameStatus, WaitWindows

(* ... of a handler.                                                       *)
LEMMA HandlerKept ==
  ASSUME NEW h \in Handlers, HandlerInv(h), SamePlace(h),
         flags'[h] = flags[h], mask'[h] = mask[h],
         msgs'[h] = msgs[h], drain'[h] = drain[h]
  PROVE  HandlerInv(h)'
BY Zenon DEF HandlerInv, SamePlace

(* A step that does nothing to anybody's wait.                             *)
LEMMA Frame ==
  ASSUME FlagInv, CoreInv', UNCHANGED flagVars,
         \A u \in Pids : SamePlace(u) /\ SameStatus(u)
  PROVE  FlagInv'
<1>1. flags' = flags /\ mask' = mask /\ msgs' = msgs /\ drain' = drain
  BY Zenon DEF flagVars
<1>2. \A u \in Pids : WaitInv(u)'
  BY <1>1, WaitKept, Zenon DEF FlagInv
<1>3. \A h \in Handlers : HandlerInv(h)'
  BY <1>1, HandlerKept, FlagSets, Zenon DEF FlagInv
<1> QED
  BY <1>1, <1>2, <1>3, Zenon DEF FlagInv, FlagTypes

(* The scheduler's invariant and the statuses after a step of the core.    *)
LEMMA CoreStep ==
  ASSUME FlagInv, CpuInv(FlagWindows, Unqueued, AtEase)', SameThreads
  PROVE  CoreInv'
BY Zenon DEF FlagInv, CoreInv, SameThreads

(* ... that blocks and wakes nobody.                                       *)
LEMMA StatusKept ==
  ASSUME SameBlocked(k.status, k'.status)
  PROVE  \A u \in Pids : SameStatus(u)
BY FlagSets, Zenon DEF SameBlocked, SameStatus, WaitsAny, WaitsAll
---------------------------------------------------------------------------
(* Steps of other calls and of interrupts that set no flags.               *)
LEMMA OtherStep ==
  ASSUME FlagInv, UNCHANGED flagVars, NEW t \in Pids,
         YieldHigher(t) \/ ThreadSleep(t) \/ IsrWakeup(t) \/ IsrOther
  PROVE  FlagInv'
<1> DEFINE ws == FlagWindows
<1>1. CpuInv(ws, Unqueued, AtEase) /\ k.threads = Pids /\ k.status \in [Pids -> Status]
  BY Zenon DEF FlagInv, CoreInv, CpuInv, CpuTypeOK, Kernel
<1>2. /\ "app" \notin WaitWindows /\ "yield_higher" \notin WaitWindows
      /\ "yield_higher" \in ws \cap Unqueued
  BY Zenon DEF WaitWindows, FlagWindows, Unqueued
<1>3. ASSUME NEW k2, NEW label, NEW a, GoTo(t, k2, label, a),
             label \notin WaitWindows, pc[t] \notin WaitWindows
      PROVE  \A u \in Pids : SamePlace(u)
  <2>1. /\ pc'[t] = label
        /\ \A u \in Pids : u # t => pc'[u] = pc[u] /\ arg'[u] = arg[u]
    BY <1>3, GoToPlaces, Zenon
  <2> QED
    BY <1>3, <2>1, Zenon DEF SamePlace
<1>4. CASE YieldHigher(t)
  <2>1. /\ CpuInv(ws, Unqueued, AtEase)' /\ SameThreads /\ SameBlocked(k.status, k'.status)
    BY <1>1, <1>4, FlagSets, YieldHigherStep, Zenon
  <2>2. GoTo(t, sched_run(k), "app", 0) /\ pc[t] \notin WaitWindows
    BY <1>2, <1>4, Zenon DEF YieldHigher
  <2> QED
    BY <1>2, <1>3, <2>1, <2>2, CoreStep, StatusKept, Frame, Zenon
<1>5. CASE ThreadSleep(t)
  <2>1. /\ CpuInv(ws, Unqueued, AtEase)' /\ SameThreads
        /\ k'.status = [k.status EXCEPT ![t] = "SLEEPING"]
    BY <1>1, <1>2, <1>5, FlagSets, SleepStep, Zenon
  <2>2. /\ GoTo(t, sched_set_status(k, t, "SLEEPING"), "yield_higher", 0)
        /\ pc[t] \notin WaitWindows
    BY <1>2, <1>5, Zenon DEF ThreadSleep, InApp
  <2>3. ~WaitsAny(t) /\ ~WaitsAll(t)
    BY <2>2, Zenon DEF FlagInv, WaitInv
  <2>4. \A u \in Pids : SameStatus(u)
    BY <1>1, <2>1, <2>3, Zenon DEF SameStatus, WaitsAny, WaitsAll
  <2> QED
    BY <1>2, <1>3, <2>1, <2>2, <2>4, CoreStep, Frame, Zenon
<1>6. CASE IsrWakeup(t)
  <2>1. /\ CpuInv(ws, Unqueued, AtEase)' /\ SameThreads
        /\ SameBlocked([k.status EXCEPT ![t] = "RUNNING"], k'.status)
        /\ k.status[t] = "SLEEPING"
    BY <1>1, <1>6, FlagSets, IsrWakeupStep, Zenon
  <2>2. \A u \in Pids : \A st \in {"FLAG_BLOCKED_ANY", "FLAG_BLOCKED_ALL"} :
          [k.status EXCEPT ![t] = "RUNNING"][u] = st <=> k.status[u] = st
    BY <1>1, <2>1, Zenon
  <2>3. \A u \in Pids : SameStatus(u)
    BY <2>1, <2>2, FlagSets, Zenon DEF SameBlocked, SameStatus, WaitsAny, WaitsAll
  <2>4. \A u \in Pids : SamePlace(u)
    BY <1>6, Zenon DEF IsrWakeup, SamePlace
  <2> QED
    BY <2>1, <2>3, <2>4, CoreStep, Frame, Zenon
<1>7. CASE IsrOther
  <2>1. k' = cortexm_isr_end(k) /\ UNCHANGED <<pc, arg, null_store>>
    BY <1>7, Zenon DEF IsrOther
  <2>2. /\ CpuInv(ws, Unqueued, AtEase)' /\ SameThreads /\ SameBlocked(k.status, k'.status)
    BY <1>1, <2>1, FlagSets, IsrReturnStep, Zenon
  <2>3. \A u \in Pids : SamePlace(u)
    BY <2>1, Zenon DEF SamePlace
  <2> QED
    BY <2>2, <2>3, CoreStep, StatusKept, Frame, Zenon
<1> QED
  BY <1>4, <1>5, <1>6, <1>7, Zenon
---------------------------------------------------------------------------
(* Whether r is woken when it gets the flags m.                            *)
Woken(r, m) == Wakes(k.status[r], flags[r] \cup m, mask[r])

(* The statuses after r has got the flags m.                               *)
StatusAfter(r, m) ==
  \A u \in Pids :
    /\ WaitsAny(u)' <=> WaitsAny(u) /\ ~(u = r /\ Woken(r, m))
    /\ WaitsAll(u)' <=> WaitsAll(u) /\ ~(u = r /\ Woken(r, m))

(* The waits after r has got the flags m: r is woken when its condition    *)
(* becomes true, and not before.                                           *)
LEMMA RaiseKeeps ==
  ASSUME FlagInv, NEW r \in Pids, NEW m \in SUBSET Bits, Raise(r, m), mask' = mask,
         \A u \in Pids : SamePlace(u), StatusAfter(r, m)
  PROVE  /\ \A u \in Pids : WaitInv(u)'
         /\ flags' \in [Pids -> SUBSET Bits] /\ flags'[r] = flags[r] \cup m
         /\ \A u \in Pids : u # r => flags'[u] = flags[u]
<1>1. flags \in [Pids -> SUBSET Bits]
  BY Zenon DEF FlagInv, FlagTypes
<1>2. /\ flags' \in [Pids -> SUBSET Bits] /\ flags'[r] = flags[r] \cup m
      /\ \A u \in Pids : u # r => flags'[u] = flags[u]
  BY <1>1, Zenon DEF Raise
<1>3. ASSUME NEW u \in Pids, u # r PROVE WaitInv(u)'
  <2>1. SameStatus(u) /\ flags'[u] = flags[u] /\ WaitInv(u)
    BY <1>2, <1>3, Zenon DEF StatusAfter, SameStatus, FlagInv
  <2> QED
    BY <2>1, WaitKept, Zenon
<1>4. WaitInv(r)'
  <2>1. /\ WaitInv(r) /\ SamePlace(r)
        /\ WaitsAny(r)' <=> WaitsAny(r) /\ ~Woken(r, m)
        /\ WaitsAll(r)' <=> WaitsAll(r) /\ ~Woken(r, m)
        /\ mask'[r] = mask[r]
    BY Zenon DEF FlagInv, StatusAfter
  <2>2. Woken(r, m) <=> \/ WaitsAny(r) /\ (flags[r] \cup m) \cap mask[r] # {}
                        \/ WaitsAll(r) /\ mask[r] \subseteq flags[r] \cup m
    BY Zenon DEF Woken, Wakes, WaitsAny, WaitsAll
  <2>3. ~(WaitsAny(r) /\ WaitsAll(r))
    BY Zenon DEF WaitsAny, WaitsAll
  <2> HIDE DEF WaitsAny, WaitsAll, Woken
  <2>4. CASE pc'[r] \notin WaitWindows
    <3>1. pc[r] \notin WaitWindows /\ pc'[r] # "flag_clear"
      BY <2>1, <2>4, Zenon DEF SamePlace, WaitWindows
    <3> QED
      BY <2>1, <2>4, <3>1, Zenon DEF WaitInv
  <2>5. CASE pc'[r] \in WaitWindows
    <3>1. pc'[r] = pc[r] /\ arg'[r] = arg[r]
      BY <2>1, <2>5, Zenon DEF SamePlace
    <3>2. WaitsAny(r)' => arg[r] # 2 /\ flags'[r] \cap mask[r] = {}
      BY <1>2, <2>1, <2>2, <2>5, <3>1, Zenon DEF WaitInv
    <3>3. WaitsAll(r)' => arg[r] = 2 /\ ~(mask[r] \subseteq flags'[r])
      BY <1>2, <2>1, <2>2, <2>5, <3>1, Zenon DEF WaitInv
    <3>4. (~WaitsAny(r)' /\ ~WaitsAll(r)') =>
            IF arg[r] = 2 THEN mask[r] \subseteq flags'[r] ELSE flags'[r] \cap mask[r] # {}
      <4>1. CASE ~WaitsAny(r) /\ ~WaitsAll(r)
        <5>1. IF arg[r] = 2 THEN mask[r] \subseteq flags[r] ELSE flags[r] \cap mask[r] # {}
          BY <2>1, <2>5, <3>1, <4>1, Zenon DEF WaitInv
        <5> QED
          BY <1>2, <5>1, Zenon
      <4>2. CASE WaitsAny(r)
        <5>1. arg[r] # 2
          BY <2>1, <2>5, <3>1, <4>2, Zenon DEF WaitInv
        <5> QED
          BY <1>2, <2>1, <2>2, <2>3, <4>2, <5>1, Zenon
      <4>3. CASE WaitsAll(r)
        <5>1. arg[r] = 2
          BY <2>1, <2>5, <3>1, <4>3, Zenon DEF WaitInv
        <5> QED
          BY <1>2, <2>1, <2>2, <2>3, <4>3, <5>1, Zenon
      <4> QED
        BY <4>1, <4>2, <4>3, Zenon
    <3>5. /\ mask[r] # {} /\ arg[r] \in 0..2
          /\ pc[r] = "flag_read" => arg[r] = 1
          /\ (pc[r] = "flag_clear" /\ arg[r] = 1) =>
               /\ ~WaitsAny(r) /\ ~WaitsAll(r)
               /\ \E b \in Bits : mask[r] = {b}
      BY <2>1, <2>5, <3>1, Zenon DEF WaitInv
    <3> QED
      BY <2>1, <2>5, <3>1, <3>2, <3>3, <3>4, <3>5, Zenon DEF WaitInv
  <2> QED
    BY <2>4, <2>5, Zenon
<1> QED
  BY <1>2, <1>3, <1>4, Zenon

(* thread_flags_wake() in a thread.                                        *)
LEMMA ThreadRaises ==
  ASSUME FlagInv, NEW t \in Pids, InApp(t), NEW r \in Pids, NEW m,
         NEW label \in {"app", "yield_higher"}, GoTo(t, Raised(r, m), label, 0),
         ~Woken(r, m) => label = "app"
  PROVE  CoreInv' /\ StatusAfter(r, m) /\ \A u \in Pids : SamePlace(u)
<1> DEFINE ws == FlagWindows
<1>1. /\ CpuInv(ws, Unqueued, AtEase) /\ k.threads = Pids /\ k.status \in [Pids -> Status]
      /\ k.active = t /\ pc[t] = "app" /\ t # Idle
  BY Zenon DEF FlagInv, CoreInv, CpuInv, CpuTypeOK, Kernel, InApp
<1>2. /\ label \in ws \ {"switch", "wakeup"} /\ 0 \in Nat /\ pc[t] \in AtEase
      /\ label \notin WaitWindows /\ pc[t] \notin WaitWindows
  BY <1>1, Zenon DEF FlagWindows, AtEase, WaitWindows
<1>3. \A u \in Pids : SamePlace(u)
  <2>1. /\ pc'[t] = label
        /\ \A u \in Pids : u # t => pc'[u] = pc[u] /\ arg'[u] = arg[u]
    BY GoToPlaces, Zenon
  <2> QED
    BY <1>2, <2>1, Zenon DEF SamePlace
<1>4. CASE Woken(r, m)
  <2>1. GoTo(t, Requested(r), label, 0)
    BY <1>4, Zenon DEF Raised, Woken, Requested
  <2>2. ~Runnable(k, r)
    BY <1>4, Zenon DEF Woken, Wakes, Runnable, OnRunqueue
  <2>3. /\ CpuInv(ws, Unqueued, AtEase)' /\ SameThreads
        /\ k'.status = [k.status EXCEPT ![r] = "PENDING"]
    BY <1>1, <1>2, <2>1, <2>2, FlagSets, RequestedStep, Zenon
  <2>4. StatusAfter(r, m)
    BY <1>1, <1>4, <2>3, Zenon DEF StatusAfter, WaitsAny, WaitsAll
  <2> QED
    BY <1>3, <2>3, <2>4, CoreStep, Zenon
<1>5. CASE ~Woken(r, m)
  <2>1. GoTo(t, k, label, 0)
    BY <1>5, Zenon DEF Raised, Woken
  <2>2. CpuInv(ws, Unqueued, AtEase)' /\ k' = k
    BY <1>1, <1>2, <1>5, <2>1, FlagSets, RestStep, Zenon
  <2>3. StatusAfter(r, m) /\ SameThreads
    BY <1>5, <2>2, Zenon DEF StatusAfter, WaitsAny, WaitsAll, SameThreads
  <2> QED
    BY <1>3, <2>2, <2>3, CoreStep, Zenon
<1> QED
  BY <1>4, <1>5, Zenon

(* ... in an interrupt handler.                                            *)
LEMMA IsrRaises ==
  ASSUME FlagInv, NEW r \in Pids, NEW m, k' = cortexm_isr_end(Raised(r, m)),
         UNCHANGED <<pc, arg, null_store>>
  PROVE  CoreInv' /\ StatusAfter(r, m) /\ \A u \in Pids : SamePlace(u)
<1> DEFINE ws == FlagWindows
<1>1. CpuInv(ws, Unqueued, AtEase) /\ k.threads = Pids /\ k.status \in [Pids -> Status]
  BY Zenon DEF FlagInv, CoreInv, CpuInv, CpuTypeOK, Kernel
<1>2. \A u \in Pids : SamePlace(u)
  BY Zenon DEF SamePlace
<1>3. CASE Woken(r, m)
  <2>1. k' = cortexm_isr_end(Requested(r))
    BY <1>3, Zenon DEF Raised, Woken, Requested
  <2>2. ~Runnable(k, r)
    BY <1>3, Zenon DEF Woken, Wakes, Runnable, OnRunqueue
  <2>3. /\ CpuInv(ws, Unqueued, AtEase)' /\ SameThreads
        /\ SameBlocked([k.status EXCEPT ![r] = "PENDING"], k'.status)
    BY <1>1, <2>1, <2>2, FlagSets, IsrRequestedStep, Zenon
  <2>4. \A u \in Pids : \A st \in {"FLAG_BLOCKED_ANY", "FLAG_BLOCKED_ALL"} :
          [k.status EXCEPT ![r] = "PENDING"][u] = st <=> k.status[u] = st /\ u # r
    BY <1>1, Zenon
  <2>5. StatusAfter(r, m)
    BY <1>3, <2>3, <2>4, FlagSets, Zenon DEF StatusAfter, SameBlocked, WaitsAny, WaitsAll
  <2> QED
    BY <1>2, <2>3, <2>5, CoreStep, Zenon
<1>4. CASE ~Woken(r, m)
  <2>1. k' = cortexm_isr_end(k)
    BY <1>4, Zenon DEF Raised, Woken
  <2>2. /\ CpuInv(ws, Unqueued, AtEase)' /\ SameThreads /\ SameBlocked(k.status, k'.status)
    BY <1>1, <2>1, FlagSets, IsrReturnStep, Zenon
  <2>3. StatusAfter(r, m)
    <3>1. \A u \in Pids : SameStatus(u)
      BY <2>2, StatusKept, Zenon
    <3> QED
      BY <1>4, <3>1, Zenon DEF StatusAfter, SameStatus
  <2> QED
    BY <1>2, <2>2, <2>3, CoreStep, Zenon
<1> QED
  BY <1>3, <1>4, Zenon

(* thread_flags_set()                                                      *)
LEMMA SetKeeps ==
  ASSUME FlagInv, NEW r \in Pids, NEW m \in SUBSET Bits,
         IsrSet(r, m) \/ \E t \in Pids : Set(t, r, m)
  PROVE  FlagInv'
<1>1. Raise(r, m) /\ mask' = mask /\ msgs' = msgs /\ drain' = drain
  BY Zenon DEF IsrSet, Set
<1>2. CoreInv' /\ StatusAfter(r, m) /\ \A u \in Pids : SamePlace(u)
  <2>1. CASE IsrSet(r, m)
    BY <2>1, IsrRaises, Zenon DEF IsrSet
  <2>2. ASSUME NEW t \in Pids, Set(t, r, m)
        PROVE  CoreInv' /\ StatusAfter(r, m) /\ \A u \in Pids : SamePlace(u)
    <3> DEFINE label == IF Raised(r, m) = k THEN "app" ELSE "yield_higher"
    <3>1. InApp(t) /\ GoTo(t, Raised(r, m), label, 0) /\ label \in {"app", "yield_higher"}
      BY <2>2, Zenon DEF Set
    <3>2. ~Woken(r, m) => label = "app"
      BY Zenon DEF Raised, Woken
    <3> HIDE DEF label
    <3> QED
      BY <3>1, <3>2, ThreadRaises, Zenon
  <2> QED
    BY <2>1, <2>2, Zenon
<1>3. /\ \A u \in Pids : WaitInv(u)'
      /\ flags' \in [Pids -> SUBSET Bits] /\ flags'[r] = flags[r] \cup m
      /\ \A u \in Pids : u # r => flags'[u] = flags[u]
  BY <1>1, <1>2, RaiseKeeps, Zenon
<1>4. ASSUME NEW h \in Handlers PROVE HandlerInv(h)'
  <2>1. h \in Pids /\ HandlerInv(h) /\ SamePlace(h)
    BY <1>2, FlagSets, Zenon DEF FlagInv
  <2>2. flags[h] \subseteq flags'[h]
    BY <1>3, <2>1, Zenon
  <2> QED
    BY <1>1, <2>1, <2>2, Zenon DEF HandlerInv, SamePlace
<1> QED
  BY <1>1, <1>2, <1>3, <1>4, Zenon DEF FlagInv, FlagTypes

(* msg_send() and msg_send_int() to a handler with room in its queue.      *)
LEMMA SendKeeps ==
  ASSUME FlagInv, NEW h \in Handlers,
         IsrSend(h) \/ \E t \in Pids : t # h /\ Send(t, h)
  PROVE  FlagInv'
<1> DEFINE m == {THREAD_FLAG_MSG_WAITING}
<1>1. /\ Raise(h, m) /\ mask' = mask /\ drain' = drain
      /\ msgs[h] < QueueSize /\ msgs' = [msgs EXCEPT ![h] = @ + 1]
      /\ h \in Pids /\ m \in SUBSET Bits
  BY FlagSets, Zenon DEF IsrSend, Send, QueueMsg
<1>2. CoreInv' /\ StatusAfter(h, m) /\ \A u \in Pids : SamePlace(u)
  <2>1. CASE IsrSend(h)
    BY <1>1, <2>1, IsrRaises, Zenon DEF IsrSend
  <2>2. ASSUME NEW t \in Pids, Send(t, h)
        PROVE  CoreInv' /\ StatusAfter(h, m) /\ \A u \in Pids : SamePlace(u)
    <3>1. InApp(t) /\ GoTo(t, Raised(h, m), "app", 0)
      BY <2>2, Zenon DEF Send
    <3> QED
      BY <1>1, <3>1, ThreadRaises, Zenon
  <2> QED
    BY <2>1, <2>2, Zenon
<1>3. /\ \A u \in Pids : WaitInv(u)'
      /\ flags' \in [Pids -> SUBSET Bits] /\ flags'[h] = flags[h] \cup m
      /\ \A u \in Pids : u # h => flags'[u] = flags[u]
  BY <1>1, <1>2, RaiseKeeps, Zenon
<1>4. msgs' \in [Handlers -> 0..QueueSize] /\ \A g \in Handlers : g # h => msgs'[g] = msgs[g]
  <2>1. msgs \in [Handlers -> 0..QueueSize] /\ QueueSize \in Nat
    BY ThreadFlagsConstants, Zenon DEF FlagInv, FlagTypes
  <2>2. msgs[h] + 1 \in 0..QueueSize
    BY <1>1, <2>1
  <2> QED
    BY <1>1, <2>1, <2>2, Zenon
<1>5. ASSUME NEW g \in Handlers PROVE HandlerInv(g)'
  <2>1. g \in Pids /\ HandlerInv(g) /\ SamePlace(g)
    BY <1>2, FlagSets, Zenon DEF FlagInv
  <2>2. CASE g = h
    <3>1. THREAD_FLAG_MSG_WAITING \in flags'[h]
      BY <1>3, Zenon
    <3> QED
      BY <1>1, <2>1, <2>2, <3>1, Zenon DEF HandlerInv, SamePlace
  <2>3. CASE g # h
    <3>1. flags'[g] = flags[g] /\ mask'[g] = mask[g] /\ msgs'[g] = msgs[g] /\ drain'[g] = drain[g]
      BY <1>1, <1>3, <1>4, <2>1, <2>3, Zenon
    <3> QED
      BY <2>1, <3>1, HandlerKept, Zenon
  <2> QED
    BY <2>2, <2>3, Zenon
<1> QED
  BY <1>1, <1>2, <1>3, <1>4, <1>5, Zenon DEF FlagInv, FlagTypes
---------------------------------------------------------------------------
(* The condition of a wait with the flags fl: any or all of m.             *)
Met(a, fl, m) == IF a = 2 THEN m \subseteq fl ELSE fl \cap m # {}

(* A step of t itself, which leaves the other threads alone.               *)
LEMMA OwnStep ==
  ASSUME FlagInv, CoreInv', FlagTypes', NEW t \in Pids, WaitInv(t)',
         t \in Handlers => HandlerInv(t)',
         \A u \in Pids : u # t => SamePlace(u) /\ SameStatus(u)
                                  /\ flags'[u] = flags[u] /\ mask'[u] = mask[u],
         \A h \in Handlers : h # t => msgs'[h] = msgs[h] /\ drain'[h] = drain[h]
  PROVE  FlagInv'
<1>1. \A u \in Pids : WaitInv(u)'
  BY WaitKept, Zenon DEF FlagInv
<1>2. \A h \in Handlers : HandlerInv(h)'
  BY HandlerKept, FlagSets, Zenon DEF FlagInv
<1> QED
  BY <1>1, <1>2, Zenon DEF FlagInv

(* _thread_flags_wait(), called by any of the functions that wait.         *)
LEMMA WaitKeeps ==
  ASSUME FlagInv, NEW t \in Pids, InApp(t), NEW m \in SUBSET Bits, m # {},
         NEW a \in 0..2, NEW status \in {"FLAG_BLOCKED_ANY", "FLAG_BLOCKED_ALL"},
         status = "FLAG_BLOCKED_ALL" <=> a = 2,
         mask' = [mask EXCEPT ![t] = m], UNCHANGED <<flags, msgs, drain>>,
         Met(a, flags[t], m) => GoTo(t, k, Rest(a), a),
         ~Met(a, flags[t], m) => GoTo(t, sched_set_status(k, t, status), "flag_yield", a),
         t \in Handlers => a = 0 /\ m = Bits /\ ~drain[t]
  PROVE  FlagInv'
<1> DEFINE ws == FlagWindows
<1>1. /\ CpuInv(ws, Unqueued, AtEase) /\ k.threads = Pids /\ k.status \in [Pids -> Status]
      /\ k.active = t /\ pc[t] = "app" /\ t # Idle /\ a \in Nat
      /\ flags' = flags /\ msgs' = msgs /\ drain' = drain
  BY SMTT(30) DEF FlagInv, CoreInv, CpuInv, CpuTypeOK, Kernel, InApp
<1>2. /\ mask \in [Pids -> SUBSET Bits] /\ mask' \in [Pids -> SUBSET Bits]
      /\ mask'[t] = m /\ \A u \in Pids : u # t => mask'[u] = mask[u]
  BY Zenon DEF FlagInv, FlagTypes
<1>3. /\ Rest(a) \in ws \ {"switch", "wakeup"} /\ "flag_yield" \in ws \cap Unqueued
      /\ pc[t] \in AtEase /\ status \in Blocked
      /\ Rest(a) \in WaitWindows /\ "flag_yield" \in WaitWindows
      /\ (Rest(a) = "flag_read" <=> a = 1) /\ (Rest(a) = "flag_clear" <=> a # 1)
  BY <1>1, FlagSets, Zenon DEF Rest, FlagWindows, Unqueued, AtEase, WaitWindows
<1>4. ~WaitsAny(t) /\ ~WaitsAll(t)
  BY <1>1, ActiveIsAwake, Zenon DEF Unqueued
<1>5. FlagTypes'
  BY <1>1, <1>2, Zenon DEF FlagInv, FlagTypes
<1>6. ASSUME pc'[t] \in WaitWindows, arg'[t] = a, t \in Handlers PROVE HandlerInv(t)'
  <2>1. HandlerInv(t)
    BY <1>6, Zenon DEF FlagInv
  <2> QED
    BY <1>1, <1>2, <1>6, <2>1, Zenon DEF HandlerInv
<1>7. CASE Met(a, flags[t], m)
  <2>1. GoTo(t, k, Rest(a), a)
    BY <1>7, Zenon
  <2>2. CpuInv(ws, Unqueued, AtEase)' /\ k' = k
    BY <1>1, <1>3, <2>1, FlagSets, RestStep, Zenon
  <2>3. /\ pc'[t] = Rest(a) /\ arg'[t] = a
        /\ \A u \in Pids : u # t => pc'[u] = pc[u] /\ arg'[u] = arg[u]
    BY <2>1, GoToPlaces, Zenon
  <2>4. CoreInv' /\ \A u \in Pids : SameStatus(u)
    BY <2>2, CoreStep, Zenon DEF SameThreads, SameStatus, WaitsAny, WaitsAll
  <2>5. WaitInv(t)'
    <3>1. ~WaitsAny(t)' /\ ~WaitsAll(t)'
      BY <1>4, <2>4, Zenon DEF SameStatus
    <3> QED
      BY <1>1, <1>2, <1>3, <1>7, <2>3, <3>1, Zenon DEF WaitInv, Met
  <2> QED
    BY <1>1, <1>2, <1>3, <1>5, <1>6, <2>3, <2>4, <2>5, OwnStep, Zenon DEF SamePlace
<1>8. CASE ~Met(a, flags[t], m)
  <2>1. GoTo(t, sched_set_status(k, t, status), "flag_yield", a)
    BY <1>8, Zenon
  <2>2. /\ CpuInv(ws, Unqueued, AtEase)' /\ SameThreads
        /\ k'.status = [k.status EXCEPT ![t] = status]
    BY <1>1, <1>3, <2>1, FlagSets, BlockStep, SMTT(30)
  <2>3. /\ pc'[t] = "flag_yield" /\ arg'[t] = a
        /\ \A u \in Pids : u # t => pc'[u] = pc[u] /\ arg'[u] = arg[u]
    BY <2>1, GoToPlaces, SMTT(30)
  <2>4. CoreInv' /\ \A u \in Pids : u # t => SameStatus(u)
    BY <1>1, <2>2, CoreStep, Zenon DEF SameStatus, WaitsAny, WaitsAll
  <2>5. (WaitsAny(t)' <=> a # 2) /\ (WaitsAll(t)' <=> a = 2)
    BY <1>1, <2>2, Zenon DEF WaitsAny, WaitsAll
  <2>6. WaitInv(t)'
    BY <1>1, <1>2, <1>3, <1>8, <2>3, <2>5, Zenon DEF WaitInv, Met
  <2> QED
    BY <1>1, <1>2, <1>3, <1>5, <1>6, <2>3, <2>4, <2>6, OwnStep, SMTT(30) DEF SamePlace
<1> QED
  BY <1>7, <1>8, Zenon

(* The yield in a wait.                                                    *)
LEMMA FlagYieldKeeps ==
  ASSUME FlagInv, NEW t \in Pids, FlagYield(t)
  PROVE  FlagInv'
<1> DEFINE ws == FlagWindows
           label == Rest(arg[t])
<1>1. /\ CpuInv(ws, Unqueued, AtEase) /\ k.active = t /\ pc[t] = "flag_yield"
      /\ GoTo(t, sched_run(k), label, arg[t]) /\ UNCHANGED flagVars
      /\ WaitInv(t)
  BY Zenon DEF FlagInv, CoreInv, FlagYield
<1>2. /\ t # Idle /\ arg[t] \in Nat /\ label \in ws \ {"switch", "wakeup"}
      /\ label \in WaitWindows /\ (label = "flag_read" <=> arg[t] = 1)
      /\ (label = "flag_clear" <=> arg[t] # 1) /\ "flag_yield" \in WaitWindows
  <2>1. pc[Idle] = "app" /\ arg[t] \in Nat
    BY <1>1, Zenon DEF CpuInv, CpuTypeOK
  <2> QED
    BY <1>1, <2>1, Zenon DEF Rest, FlagWindows, WaitWindows
<1> HIDE DEF label
<1>3. CpuInv(ws, Unqueued, AtEase)' /\ SameThreads /\ SameBlocked(k.status, k'.status)
  BY <1>1, <1>2, FlagSets, RunStep, Zenon
<1>4. CoreInv' /\ \A u \in Pids : SameStatus(u)
  BY <1>3, CoreStep, StatusKept, Zenon
<1>5. /\ pc'[t] = label /\ arg'[t] = arg[t]
      /\ \A u \in Pids : u # t => pc'[u] = pc[u] /\ arg'[u] = arg[u]
  BY <1>1, GoToPlaces, Zenon
<1>6. flags' = flags /\ mask' = mask /\ msgs' = msgs /\ drain' = drain
  BY <1>1, Zenon DEF flagVars
<1>7. WaitInv(t)'
  <2>1. SameStatus(t)
    BY <1>4, Zenon
  <2> QED
    BY <1>1, <1>2, <1>5, <1>6, <2>1, Zenon DEF WaitInv, SameStatus
<1>8. t \in Handlers => HandlerInv(t)'
  BY <1>1, <1>2, <1>5, <1>6, Zenon DEF FlagInv, HandlerInv
<1>9. FlagTypes'
  BY <1>6, Zenon DEF FlagInv, FlagTypes
<1> QED
  BY <1>4, <1>5, <1>6, <1>7, <1>8, <1>9, OwnStep, Zenon DEF SamePlace

(* A step of t in which the scheduler takes no part.                       *)
LEMMA RestKeeps ==
  ASSUME FlagInv, NEW t \in Pids, k.active = t, pc[t] \in AtEase,
         NEW label \in AtEase, t = Idle => label = "app", NEW a \in Nat,
         GoTo(t, k, label, a)
  PROVE  /\ CoreInv' /\ \A u \in Pids : SameStatus(u)
         /\ pc'[t] = label /\ arg'[t] = a
         /\ \A u \in Pids : u # t => SamePlace(u)
         /\ ~WaitsAny(t)' /\ ~WaitsAll(t)' /\ ~WaitsAny(t) /\ ~WaitsAll(t)
<1>1. CpuInv(FlagWindows, Unqueued, AtEase)
  BY Zenon DEF FlagInv, CoreInv
<1>2. label \in FlagWindows \ {"switch", "wakeup"} /\ pc[t] \notin Unqueued
  BY Zenon DEF AtEase, FlagWindows, Unqueued
<1>3. CpuInv(FlagWindows, Unqueued, AtEase)' /\ k' = k
  BY <1>1, <1>2, FlagSets, RestStep, Zenon
<1>4. CoreInv' /\ \A u \in Pids : SameStatus(u)
  BY <1>3, CoreStep, Zenon DEF SameThreads, SameStatus, WaitsAny, WaitsAll
<1>5. /\ pc'[t] = label /\ arg'[t] = a
      /\ \A u \in Pids : u # t => SamePlace(u)
  BY GoToPlaces DEF SamePlace
<1>6. ~WaitsAny(t) /\ ~WaitsAll(t)
  BY <1>2, ActiveIsAwake, Zenon
<1> QED
  BY <1>4, <1>5, <1>6, Zenon DEF SameStatus

(* thread_flags_wait_one() chooses the least flag of those that are set.   *)
LEMMA FlagReadKeeps ==
  ASSUME FlagInv, NEW t \in Pids, FlagRead(t)
  PROVE  FlagInv'
<1> DEFINE tmp == flags[t] \cap mask[t]
           one == {b \in tmp : \A c \in tmp : b <= c}
<1>1. /\ k.active = t /\ pc[t] = "flag_read" /\ GoTo(t, k, "flag_clear", arg[t])
      /\ mask' = [mask EXCEPT ![t] = one]
      /\ flags' = flags /\ msgs' = msgs /\ drain' = drain /\ WaitInv(t)
  BY Zenon DEF FlagRead, FlagInv
<1>2. arg[t] = 1 /\ mask[t] # {} /\ t # Idle
  BY <1>1, Zenon DEF WaitInv, WaitWindows, FlagInv, CoreInv, CpuInv
<1>3. /\ CoreInv' /\ \A u \in Pids : SameStatus(u)
      /\ pc'[t] = "flag_clear" /\ arg'[t] = arg[t]
      /\ \A u \in Pids : u # t => SamePlace(u)
      /\ ~WaitsAny(t)' /\ ~WaitsAll(t)' /\ ~WaitsAny(t) /\ ~WaitsAll(t)
  BY <1>1, <1>2, RestKeeps, Zenon DEF AtEase
<1>4. tmp # {} /\ tmp \subseteq Bits /\ tmp \in SUBSET Nat
  <2>1. tmp # {}
    BY <1>1, <1>2, <1>3, Zenon DEF WaitInv, WaitWindows
  <2>2. tmp \subseteq Bits
    BY Zenon DEF FlagInv, FlagTypes
  <2> QED
    BY <2>1, <2>2, FlagSets, Zenon
<1>5. PICK b \in tmp : \A c \in tmp : b <= c
  <2> HIDE DEF tmp
  <2> QED
    BY <1>4, LeastNat, Zenon
<1>6. one = {b}
  BY <1>4, <1>5
<1>7. b \in Bits /\ b \in flags[t]
  BY <1>4, <1>5, Zenon
<1> HIDE DEF one, tmp
<1>8. /\ mask' \in [Pids -> SUBSET Bits] /\ mask'[t] = {b}
      /\ \A u \in Pids : u # t => mask'[u] = mask[u]
  BY <1>1, <1>6, <1>7, Zenon DEF FlagInv, FlagTypes
<1>9. WaitInv(t)'
  BY <1>1, <1>2, <1>3, <1>7, <1>8, SMTT(30) DEF WaitInv
<1>10. t \notin Handlers
  BY <1>1, <1>2, SMTT(30) DEF FlagInv, HandlerInv, WaitWindows
<1>11. FlagTypes'
  BY <1>1, <1>8, Zenon DEF FlagInv, FlagTypes
<1> QED
  BY <1>1, <1>3, <1>8, <1>9, <1>10, <1>11, OwnStep, Zenon

(* The end of a wait.                                                      *)
LEMMA FlagClearKeeps ==
  ASSUME FlagInv, NEW t \in Pids, FlagClear(t)
  PROVE  FlagInv'
<1>1. /\ k.active = t /\ pc[t] = "flag_clear" /\ GoTo(t, k, "app", 0)
      /\ drain' = [h \in Handlers |->
                     IF h = t THEN THREAD_FLAG_MSG_WAITING \in flags[t] \cap mask[t]
                              ELSE drain[h]]
      /\ flags' = [flags EXCEPT ![t] = @ \ mask[t]]
      /\ mask' = [mask EXCEPT ![t] = {}]
      /\ msgs' = msgs
  BY Zenon DEF FlagClear
<1>2. /\ CoreInv' /\ \A u \in Pids : SameStatus(u)
      /\ pc'[t] = "app" /\ \A u \in Pids : u # t => SamePlace(u)
      /\ ~WaitsAny(t)' /\ ~WaitsAll(t)'
  BY <1>1, RestKeeps, Zenon DEF AtEase
<1>3. /\ flags \in [Pids -> SUBSET Bits] /\ mask \in [Pids -> SUBSET Bits]
      /\ drain \in [Handlers -> BOOLEAN]
  BY Zenon DEF FlagInv, FlagTypes
<1>4. /\ flags' \in [Pids -> SUBSET Bits] /\ mask' \in [Pids -> SUBSET Bits]
      /\ flags'[t] = flags[t] \ mask[t]
      /\ \A u \in Pids : u # t => flags'[u] = flags[u] /\ mask'[u] = mask[u]
  BY <1>1, <1>3, Zenon
<1>5. /\ drain' \in [Handlers -> BOOLEAN]
      /\ \A h \in Handlers : h # t => drain'[h] = drain[h]
  <2> DEFINE got == THREAD_FLAG_MSG_WAITING \in flags[t] \cap mask[t]
  <2>1. drain' = [h \in Handlers |-> IF h = t THEN got ELSE drain[h]]
    BY <1>1, Zenon
  <2>0. got \in BOOLEAN
    OBVIOUS
  <2> HIDE DEF got
  <2>2. \A h \in Handlers : drain'[h] = IF h = t THEN got ELSE drain[h]
    BY <2>1, Zenon
  <2>3. \A h \in Handlers : (IF h = t THEN got ELSE drain[h]) \in BOOLEAN
    BY <1>3, <2>0, Zenon
  <2>4. drain' \in [Handlers -> BOOLEAN]
    BY <2>1, <2>3, Zenon
  <2> QED
    BY <2>2, <2>4, Zenon
<1>6. WaitInv(t)'
  BY <1>2, Zenon DEF WaitInv, WaitWindows
<1>7. ASSUME t \in Handlers PROVE HandlerInv(t)'
  <2>1. mask[t] = Bits /\ ~drain[t] /\ (msgs[t] > 0 => THREAD_FLAG_MSG_WAITING \in flags[t])
    BY <1>1, <1>7, Zenon DEF FlagInv, HandlerInv, WaitWindows
  <2>2. THREAD_FLAG_MSG_WAITING \in flags[t] => drain'[t]
    BY <1>1, <1>7, <2>1, FlagSets, Zenon
  <2> QED
    BY <1>1, <1>2, <2>1, <2>2, Zenon DEF HandlerInv, WaitWindows
<1>8. FlagTypes'
  BY <1>1, <1>4, <1>5, Zenon DEF FlagInv, FlagTypes
<1> QED
  BY <1>1, <1>2, <1>4, <1>5, <1>6, <1>7, <1>8, OwnStep, Zenon

(* thread_flags_clear() and msg_try_receive(), which leave the core alone. *)
LEMMA AppKeeps ==
  ASSUME FlagInv, NEW t \in Pids,
         \/ TryReceive(t) /\ t \in Handlers
         \/ t \in Waiters /\ \E m \in Masks : Clear(t, m)
  PROVE  FlagInv'
<1>1. /\ k' = k /\ pc' = pc /\ arg' = arg /\ null_store' = null_store /\ mask' = mask
      /\ k.active = t /\ pc[t] = "app"
  BY Zenon DEF TryReceive, Clear, cpuVars, InApp
<1>2. CoreInv'
  BY <1>1, Zenon DEF FlagInv, CoreInv, CpuInv, CpuTypeOK, HeadOutside, Settled
<1>3. \A u \in Pids : SamePlace(u) /\ SameStatus(u)
  BY <1>1, Zenon DEF SamePlace, SameStatus, WaitsAny, WaitsAll
<1>4. WaitInv(t)' /\ "app" \notin WaitWindows
  BY <1>1, <1>3, Zenon DEF FlagInv, WaitInv, WaitWindows, SameStatus
<1>5. CASE TryReceive(t) /\ t \in Handlers
  <2>1. flags' = flags /\ drain[t]
    BY <1>5, Zenon DEF TryReceive
  <2>2. msgs \in [Handlers -> 0..QueueSize] /\ drain \in [Handlers -> BOOLEAN]
        /\ QueueSize \in Nat /\ HandlerInv(t)
    BY <1>5, ThreadFlagsConstants, Zenon DEF FlagInv, FlagTypes
  <2>3. CASE msgs[t] > 0 /\ msgs' = [msgs EXCEPT ![t] = @ - 1] /\ UNCHANGED drain
    <3>1. msgs[t] - 1 \in 0..QueueSize
      BY <1>5, <2>2, <2>3
    <3>2. /\ msgs' \in [Handlers -> 0..QueueSize]
          /\ \A h \in Handlers : h # t => msgs'[h] = msgs[h]
      BY <2>2, <2>3, <3>1, Zenon
    <3>3. HandlerInv(t)' /\ FlagTypes'
      BY <1>1, <1>4, <2>1, <2>3, <3>2, Zenon DEF FlagInv, FlagTypes, HandlerInv
    <3> QED
      BY <1>1, <1>2, <1>3, <1>4, <2>1, <2>3, <3>2, <3>3, OwnStep, Zenon
  <2>4. CASE msgs[t] = 0 /\ drain' = [drain EXCEPT ![t] = FALSE] /\ UNCHANGED msgs
    <3>1. /\ drain' \in [Handlers -> BOOLEAN]
          /\ \A h \in Handlers : h # t => drain'[h] = drain[h]
      BY <2>2, <2>4, Zenon
    <3>2. HandlerInv(t)' /\ FlagTypes'
      BY <1>1, <1>4, <2>1, <2>4, <3>1, SMTT(30) DEF FlagInv, FlagTypes, HandlerInv
    <3> QED
      BY <1>1, <1>2, <1>3, <1>4, <2>1, <2>4, <3>1, <3>2, OwnStep, Zenon
  <2> QED
    BY <1>5, <2>3, <2>4, Zenon DEF TryReceive
<1>6. ASSUME t \in Waiters, NEW m \in Masks, Clear(t, m) PROVE FlagInv'
  <2>1. flags' = [flags EXCEPT ![t] = @ \ m] /\ msgs' = msgs /\ drain' = drain
    BY <1>6, Zenon DEF Clear
  <2>2. /\ flags' \in [Pids -> SUBSET Bits]
        /\ \A u \in Pids : u # t => flags'[u] = flags[u]
    BY <2>1, Zenon DEF FlagInv, FlagTypes
  <2>3. t \notin Handlers
    BY <1>6, ThreadFlagsConstants, Zenon
  <2>4. FlagTypes'
    BY <1>1, <2>1, <2>2, Zenon DEF FlagInv, FlagTypes
  <2> QED
    BY <1>1, <1>2, <1>3, <1>4, <2>1, <2>2, <2>3, <2>4, OwnStep, Zenon
<1> QED
  BY <1>5, <1>6, Zenon
---------------------------------------------------------------------------
(* Every step preserves the invariant.                                     *)
LEMMA FlagStep ==
  ASSUME FlagInv, [Next]_vars
  PROVE  FlagInv'
<1>1. CASE UNCHANGED vars
  <2>1. /\ k' = k /\ pc' = pc /\ arg' = arg /\ null_store' = null_store
        /\ UNCHANGED flagVars
    BY <1>1, Zenon DEF vars, cpuVars
  <2>2. CoreInv'
    BY <2>1, Zenon DEF FlagInv, CoreInv, CpuInv, CpuTypeOK, HeadOutside, Settled
  <2>3. \A u \in Pids : SamePlace(u) /\ SameStatus(u)
    BY <2>1, Zenon DEF SamePlace, SameStatus, WaitsAny, WaitsAll
  <2> QED
    BY <2>1, <2>2, <2>3, Frame, Zenon
<1>2. ASSUME NEW t \in Pids, FlagYield(t) \/ FlagRead(t) \/ FlagClear(t) PROVE FlagInv'
  BY <1>2, FlagYieldKeeps, FlagReadKeeps, FlagClearKeeps, Zenon
<1>3. ASSUME NEW t \in Pids, YieldHigher(t), UNCHANGED flagVars PROVE FlagInv'
  BY <1>3, OtherStep, Zenon
<1>4. ASSUME NEW t \in Sleepers, ThreadSleep(t) \/ IsrWakeup(t), UNCHANGED flagVars
      PROVE  FlagInv'
  <2>1. t \in Pids
    BY <1>4, ThreadFlagsConstants, Zenon
  <2> QED
    BY <1>4, <2>1, OtherStep, Zenon
<1>5. ASSUME NEW r \in Threads, NEW m \in Masks,
             IsrSet(r, m) \/ \E t \in Threads : Set(t, r, m)
      PROVE  FlagInv'
  <2>1. r \in Pids /\ m \in SUBSET Bits /\ (IsrSet(r, m) \/ \E t \in Pids : Set(t, r, m))
    BY <1>5, FlagSets, Zenon
  <2> QED
    BY <2>1, SetKeeps, Zenon
<1>6. ASSUME NEW t \in Waiters, NEW m \in Masks,
             WaitAny(t, m) \/ WaitOne(t, m) \/ WaitAll(t, m)
      PROVE  FlagInv'
  <2>1. /\ t \in Pids /\ t \notin Handlers /\ m \in SUBSET Bits /\ m # {}
    BY FlagSets, ThreadFlagsConstants, Zenon
  <2>2. /\ InApp(t) /\ mask' = [mask EXCEPT ![t] = m] /\ UNCHANGED <<flags, msgs, drain>>
    BY <1>6, Zenon DEF WaitAny, WaitOne, WaitAll, WaitUnless
  <2>3. \E a \in 0..2, status \in {"FLAG_BLOCKED_ANY", "FLAG_BLOCKED_ALL"} :
          /\ status = "FLAG_BLOCKED_ALL" <=> a = 2
          /\ Met(a, flags[t], m) => GoTo(t, k, Rest(a), a)
          /\ ~Met(a, flags[t], m) => GoTo(t, sched_set_status(k, t, status), "flag_yield", a)
    <3>1. 0 \in 0..2 /\ 1 \in 0..2 /\ 2 \in 0..2
      OBVIOUS
    <3>2. CASE WaitAny(t, m)
      <4> WITNESS 0 \in 0..2, "FLAG_BLOCKED_ANY" \in {"FLAG_BLOCKED_ANY", "FLAG_BLOCKED_ALL"}
      <4> QED
        BY <3>2 DEF WaitAny, WaitUnless, Met
    <3>3. CASE WaitOne(t, m)
      <4> WITNESS 1 \in 0..2, "FLAG_BLOCKED_ANY" \in {"FLAG_BLOCKED_ANY", "FLAG_BLOCKED_ALL"}
      <4> QED
        BY <3>3 DEF WaitOne, WaitUnless, Met
    <3>4. CASE WaitAll(t, m)
      <4> WITNESS 2 \in 0..2, "FLAG_BLOCKED_ALL" \in {"FLAG_BLOCKED_ANY", "FLAG_BLOCKED_ALL"}
      <4> QED
        BY <3>4, Zenon DEF WaitAll, WaitUnless, Met
    <3> QED
      BY <1>6, <3>2, <3>3, <3>4, Zenon
  <2> QED
    BY <2>1, <2>2, <2>3, WaitKeeps, Zenon
<1>7. ASSUME NEW h \in Handlers, HandlerWait(h) PROVE FlagInv'
  <2>1. /\ h \in Pids /\ Bits \in SUBSET Bits /\ Bits # {}
        /\ InApp(h) /\ mask' = [mask EXCEPT ![h] = Bits] /\ UNCHANGED <<flags, msgs, drain>>
        /\ ~drain[h]
    BY <1>7, FlagSets, Zenon DEF HandlerWait, WaitAny, WaitUnless
  <2>2. \E a \in 0..2, status \in {"FLAG_BLOCKED_ANY", "FLAG_BLOCKED_ALL"} :
          /\ a = 0 /\ (status = "FLAG_BLOCKED_ALL" <=> a = 2)
          /\ Met(a, flags[h], Bits) => GoTo(h, k, Rest(a), a)
          /\ ~Met(a, flags[h], Bits) => GoTo(h, sched_set_status(k, h, status), "flag_yield", a)
    <3> WITNESS 0 \in 0..2, "FLAG_BLOCKED_ANY" \in {"FLAG_BLOCKED_ANY", "FLAG_BLOCKED_ALL"}
    <3> QED
      BY <1>7, SMTT(30) DEF HandlerWait, WaitAny, WaitUnless, Met
  <2> QED
    BY <2>1, <2>2, WaitKeeps, Zenon
<1>8. ASSUME NEW t \in Waiters, NEW m \in Masks, Clear(t, m) PROVE FlagInv'
  <2>1. t \in Pids
    BY FlagSets, Zenon
  <2> QED
    BY <1>8, <2>1, AppKeeps, Zenon
<1>9. ASSUME NEW h \in Handlers, TryReceive(h) PROVE FlagInv'
  <2>1. h \in Pids
    BY FlagSets, Zenon
  <2> QED
    BY <1>9, <2>1, AppKeeps, Zenon
<1>10. ASSUME NEW h \in Handlers, IsrSend(h) \/ \E t \in Threads : t # h /\ Send(t, h)
       PROVE  FlagInv'
  <2>1. IsrSend(h) \/ \E t \in Pids : t # h /\ Send(t, h)
    BY <1>10, FlagSets, Zenon
  <2> QED
    BY <2>1, SendKeeps, Zenon
<1>11. CASE IsrOther
  <2>1. UNCHANGED flagVars /\ Idle \in Pids
    BY <1>11, CpuConstants, Zenon DEF IsrOther
  <2> QED
    BY <1>11, <2>1, OtherStep, Zenon
<1> QED
  BY <1>1, <1>2, <1>3, <1>4, <1>5, <1>6, <1>7, <1>8, <1>9, <1>10, <1>11, Zenon DEF Next

(* The system starts with no flag set, nobody in a wait and no message.    *)
LEMMA FlagInit ==
  ASSUME Init
  PROVE  FlagInv
<1>1. /\ k = AllCreated(MaxPid, Prio) /\ Quiet /\ Prio \in [Pids -> Prios]
      /\ flags = [t \in Pids |-> {}] /\ mask = [t \in Pids |-> {}]
      /\ msgs = [t \in Handlers |-> 0] /\ drain = [t \in Handlers |-> FALSE]
  BY ThreadFlagsConstants, Zenon DEF Init
<1>2. MaxPid \in Pids /\ Pids = 1..MaxPid
  BY SchedConstants DEF Pids
<1>3. /\ CpuInv(FlagWindows, Unqueued, AtEase)
      /\ k.threads = 1..MaxPid /\ \A t \in 1..MaxPid : k.priority[t] = Prio[t]
      /\ \A t \in 1..MaxPid : Runnable(k, t)
  BY <1>1, <1>2, FlagSets, CpuInit
<1>4. CoreInv
  <2>1. k.priority \in [Pids -> Prios]
    BY <1>3, Zenon DEF CpuInv, CpuTypeOK, Kernel
  <2>2. k.priority = Prio
    BY <1>1, <1>2, <1>3, <2>1, SMTT(30)
  <2> QED
    BY <1>2, <1>3, <2>2, Zenon DEF CoreInv
<1>5. FlagTypes
  <2>1. QueueSize \in Nat
    BY ThreadFlagsConstants, Zenon
  <2>2. /\ flags \in [Pids -> SUBSET Bits] /\ mask \in [Pids -> SUBSET Bits]
        /\ msgs \in [Handlers -> 0..QueueSize]
    BY <1>1, <2>1
  <2>3. drain \in [Handlers -> BOOLEAN]
    BY <1>1, Zenon
  <2> QED
    BY <2>2, <2>3, Zenon DEF FlagTypes
<1>6. \A t \in Pids : pc[t] = "app" /\ ~WaitsAny(t) /\ ~WaitsAll(t)
  BY <1>1, <1>2, <1>3, Zenon DEF Quiet, WaitsAny, WaitsAll, Runnable, OnRunqueue
<1>7. \A t \in Pids : WaitInv(t)
  BY <1>6, Zenon DEF WaitInv, WaitWindows
<1>8. \A h \in Handlers : HandlerInv(h)
  BY <1>1, <1>6, FlagSets, SMTT(30) DEF HandlerInv, WaitWindows
<1> QED
  BY <1>4, <1>5, <1>7, <1>8, Zenon DEF FlagInv

(* FlagInv is an invariant.                                                *)
LEMMA FlagInvariant == Spec => []FlagInv
<1>1. Init => FlagInv
  BY FlagInit, Zenon
<1>2. FlagInv /\ [Next]_vars => FlagInv'
  BY FlagStep, Zenon
<1> QED
  BY <1>1, <1>2, PTL DEF Spec
---------------------------------------------------------------------------
(* core/thread_flags.c keeps run queues, statuses and bitcache in          *)
(* agreement, and whenever thread_flags_set() makes a more urgent thread   *)
(* runnable a switch follows or stays requested.                           *)
THEOREM Intact == Spec => []FlagsIntact
<1>1. FlagInv => FlagsIntact
  <2> SUFFICES ASSUME FlagInv PROVE FlagsIntact
    BY Zenon
  <2>1. TypeOK
    BY Zenon DEF FlagInv, FlagTypes, CoreInv, CpuInv, TypeOK
  <2>2. SchedulerIntact
    BY Zenon DEF FlagInv, CoreInv, CpuInv, SchedulerIntact, RunqueueConsistent, Unqueued
  <2>3. SwitchRequested
    BY Zenon DEF FlagInv, CoreInv, CpuInv, SwitchRequested, Settled, AtEase
  <2> QED
    BY <2>1, <2>2, <2>3, Zenon DEF FlagsIntact
<1> QED
  BY <1>1, FlagInvariant, PTL

(* No thread stays blocked in thread_flags_wait_any(), _one() or _all()    *)
(* once the flags it waits for are set, whoever set them and whenever.     *)
THEOREM NobodyForgotten == Spec => []NoLostWakeup
<1>1. FlagInv => NoLostWakeup
  <2> SUFFICES ASSUME FlagInv, NEW t \in Pids
               PROVE  /\ k.status[t] = "FLAG_BLOCKED_ANY" => flags[t] \cap mask[t] = {}
                      /\ k.status[t] = "FLAG_BLOCKED_ALL" => mask[t] \ flags[t] # {}
    BY Zenon DEF NoLostWakeup
  <2> QED
    BY Zenon DEF FlagInv, WaitInv, WaitsAny, WaitsAll
<1> QED
  BY <1>1, FlagInvariant, PTL

(* What ended a wait is still there when the wait clears its flags: it     *)
(* returns one flag at least, exactly one in thread_flags_wait_one(), and  *)
(* the whole mask in thread_flags_wait_all().                              *)
THEOREM ReturnsFlags == Spec => []WaitReturnsFlags
<1>1. FlagInv => WaitReturnsFlags
  <2> SUFFICES ASSUME FlagInv, NEW t \in Pids, k.active = t, pc[t] = "flag_clear"
               PROVE  LET result == flags[t] \cap mask[t]
                      IN  /\ result # {}
                          /\ arg[t] = 1 => \E b \in Bits : result = {b}
                          /\ arg[t] = 2 => result = mask[t]
    BY Zenon DEF WaitReturnsFlags
  <2>1. ~WaitsAny(t) /\ ~WaitsAll(t) /\ WaitInv(t)
    BY ActiveIsAwake, Zenon DEF FlagInv, Unqueued
  <2>2. /\ mask[t] # {}
        /\ IF arg[t] = 2 THEN mask[t] \subseteq flags[t] ELSE flags[t] \cap mask[t] # {}
        /\ arg[t] = 1 => \E b \in Bits : mask[t] = {b}
    BY <2>1, Zenon DEF WaitInv, WaitWindows
  <2>3. ASSUME arg[t] = 1 PROVE \E b \in Bits : flags[t] \cap mask[t] = {b}
    <3>1. PICK b \in Bits : mask[t] = {b}
      BY <2>2, <2>3, Zenon
    <3> QED
      BY <2>2, <2>3, <3>1, Zenon
  <2>4. arg[t] = 2 => flags[t] \cap mask[t] = mask[t]
    BY <2>2, Zenon
  <2>5. flags[t] \cap mask[t] # {}
    BY <2>2, Zenon
  <2> QED
    BY <2>3, <2>4, <2>5, Zenon
<1> QED
  BY <1>1, FlagInvariant, PTL

(* A thread that empties its queue whenever THREAD_FLAG_MSG_WAITING ends   *)
(* its wait never blocks with a message in the queue.                      *)
THEOREM LoopIsSafe == Spec => []NoMessageForgotten
<1>1. FlagInv => NoMessageForgotten
  <2> SUFFICES ASSUME FlagInv, NEW h \in Handlers, msgs[h] > 0, ~drain[h]
               PROVE  /\ THREAD_FLAG_MSG_WAITING \in flags[h]
                      /\ k.status[h] # "FLAG_BLOCKED_ANY"
    BY Zenon DEF NoMessageForgotten
  <2>1. THREAD_FLAG_MSG_WAITING \in flags[h] /\ WaitInv(h) /\ HandlerInv(h)
    BY FlagSets, Zenon DEF FlagInv, HandlerInv
  <2>2. WaitsAny(h) => mask[h] = Bits /\ flags[h] \cap mask[h] = {}
    BY <2>1, Zenon DEF WaitInv, HandlerInv
  <2> QED
    BY <2>1, <2>2, FlagSets, Zenon DEF WaitsAny
<1> QED
  BY <1>1, FlagInvariant, PTL
============================================================================
