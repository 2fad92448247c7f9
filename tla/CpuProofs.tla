----------------------------- MODULE CpuProofs -----------------------------
(***************************************************************************)
(* The kernel's lemmas, for any number of threads and priorities: what the *)
(* operators of core/sched.c and core/thread.c preserve, and, for modules  *)
(* that extend Cpu with a fixed set of threads, an invariant of the core   *)
(* and one lemma for each way in which a kernel call or an interrupt       *)
(* handler changes it.                                                     *)
(***************************************************************************)
EXTENDS Cpu, WellFoundedInduction, TLAPS

(* clist_rpush() adds its thread to the queue's members and keeps them     *)
(* distinct if it was not one of them.                                     *)
LEMMA PushMembers ==
  ASSUME NEW q \in Seq(Pids), NEW t \in Pids
  PROVE  /\ clist_rpush(q, t) \in Seq(Pids)
         /\ clist_rpush(q, t) # <<>>
         /\ Range(clist_rpush(q, t)) = Range(q) \cup {t}
         /\ IsInjective(q) /\ t \notin Range(q) => IsInjective(clist_rpush(q, t))
         /\ q # <<>> => Head(clist_rpush(q, t)) = Head(q)
<1> DEFINE r == Append(q, t)
<1>1. /\ r \in Seq(Pids) /\ Len(r) = Len(q) + 1
      /\ \A i \in 1..Len(q) : r[i] = q[i]
      /\ r[Len(q) + 1] = t
  OBVIOUS
<1>2. DOMAIN r = 1..(Len(q) + 1) /\ DOMAIN q = 1..Len(q) /\ Len(q) \in Nat
  BY <1>1
<1>3. Range(r) = Range(q) \cup {t}
  BY <1>1, <1>2 DEF Range
<1>4. IsInjective(q) /\ t \notin Range(q) => IsInjective(r)
  BY <1>1, <1>2 DEF Range, IsInjective
<1>5. r # <<>>
  <2> HIDE DEF r
  <2> QED
    BY <1>1, <1>2
<1>6. q # <<>> => Head(r) = Head(q)
  BY <1>1, <1>2
<1> QED
  BY <1>1, <1>3, <1>4, <1>5, <1>6, Zenon DEF clist_rpush

(* clist_lpop() removes the head, and only it, from a queue of distinct    *)
(* threads.                                                                *)
LEMMA PopMembers ==
  ASSUME NEW q \in Seq(Pids), q # <<>>, IsInjective(q)
  PROVE  /\ clist_lpop(q) \in Seq(Pids)
         /\ Head(q) \in Range(q)
         /\ Range(clist_lpop(q)) = Range(q) \ {Head(q)}
         /\ IsInjective(clist_lpop(q))
<1> DEFINE r == Tail(q)
<1>1. /\ r \in Seq(Pids) /\ Len(r) = Len(q) - 1
      /\ \A i \in 1..Len(r) : r[i] = q[i + 1]
  OBVIOUS
<1>2. /\ Len(q) \in Nat \ {0} /\ DOMAIN q = 1..Len(q)
      /\ DOMAIN r = 1..(Len(q) - 1)
      /\ Head(q) = q[1]
  BY <1>1
<1>3. Head(q) \in Range(q)
  BY <1>2 DEF Range
<1>4. Range(r) = Range(q) \ {Head(q)}
  <2>1. ASSUME NEW x \in Range(r) PROVE x \in Range(q) \ {Head(q)}
    <3>1. PICK i \in 1..(Len(q) - 1) : x = q[i + 1]
      BY <2>1, <1>1, <1>2, Zenon DEF Range
    <3>2. i + 1 \in 1..Len(q) /\ i + 1 # 1
      BY <1>2
    <3> QED
      BY <3>1, <3>2, <1>2 DEF Range, IsInjective
  <2>2. ASSUME NEW x \in Range(q) \ {Head(q)} PROVE x \in Range(r)
    <3>1. PICK i \in 1..Len(q) : x = q[i]
      BY <2>2, <1>2, Zenon DEF Range
    <3>2. i - 1 \in 1..(Len(q) - 1) /\ r[i - 1] = x
      BY <3>1, <2>2, <1>1, <1>2
    <3> QED
      BY <3>2, <1>2, Zenon DEF Range
  <2> QED
    BY <2>1, <2>2, Zenon
<1>5. IsInjective(r)
  BY <1>1, <1>2 DEF IsInjective
<1> QED
  BY <1>1, <1>3, <1>4, <1>5, Zenon DEF clist_lpop

(* clist_lpoprpush() keeps the members of a queue, and keeps them distinct.*)
LEMMA RotateMembers ==
  ASSUME NEW q \in Seq(Pids), IsInjective(q)
  PROVE  /\ clist_lpoprpush(q) \in Seq(Pids)
         /\ Range(clist_lpoprpush(q)) = Range(q)
         /\ IsInjective(clist_lpoprpush(q))
         /\ clist_lpoprpush(q) = <<>> <=> q = <<>>
<1>1. CASE q = <<>>
  BY <1>1, Zenon DEF clist_lpoprpush
<1>2. CASE q # <<>>
  <2>1. /\ Tail(q) \in Seq(Pids) /\ Head(q) \in Range(q)
        /\ Range(Tail(q)) = Range(q) \ {Head(q)} /\ IsInjective(Tail(q))
    BY <1>2, PopMembers, Zenon DEF clist_lpop
  <2>2. Head(q) \in Pids
    BY <1>2
  <2>3. clist_lpoprpush(q) = clist_rpush(Tail(q), Head(q))
    BY <1>2, Zenon DEF clist_lpoprpush, clist_rpush
  <2> DEFINE r == clist_rpush(Tail(q), Head(q))
  <2>4. r \in Seq(Pids) /\ r # <<>>
    BY <2>1, <2>2, PushMembers, Zenon
  <2>5. Range(r) = Range(Tail(q)) \cup {Head(q)}
    BY <2>1, <2>2, PushMembers, Zenon
  <2>6. IsInjective(r)
    BY <2>1, <2>2, PushMembers, Zenon
  <2> HIDE DEF r
  <2>7. clist_lpoprpush(q) = r
    BY <2>3, Zenon DEF r
  <2> QED
    BY <1>2, <2>1, <2>4, <2>5, <2>6, <2>7, Zenon
<1> QED
  BY <1>1, <1>2, Zenon
---------------------------------------------------------------------------
(* The part of the scheduler state every kernel call relies on.            *)
KInv(s) == s \in Kernel /\ Consistent(s)

(* The head of a run queue is runnable.                                    *)
LEMMA HeadRunnable ==
  ASSUME NEW s, KInv(s), NEW t \in Pids, IsHead(s, t)
  PROVE  Runnable(s, t) /\ t \in s.threads
<1> DEFINE p == s.priority[t]
<1>1. p \in Prios /\ s.rq[p] \in Seq(Pids) /\ IsInjective(s.rq[p])
  BY Zenon DEF KInv, Kernel, Consistent
<1>2. t \in Range(s.rq[p])
  BY <1>1, PopMembers, Zenon DEF IsHead
<1>3. Range(s.rq[p]) = {u \in Pids : Runnable(s, u) /\ s.priority[u] = p}
  BY <1>1, Zenon DEF KInv, Consistent
<1> QED
  BY <1>2, <1>3, Zenon DEF KInv, Consistent

(* While some thread is runnable the bitcache is not empty.                *)
LEMMA RunnableBit ==
  ASSUME NEW s, KInv(s), NEW t \in Pids, Runnable(s, t)
  PROVE  s.bitcache # {} /\ s.priority[t] \in s.bitcache
<1> DEFINE p == s.priority[t]
<1>1. p \in Prios
  BY Zenon DEF KInv, Kernel
<1>2. Range(s.rq[p]) = {u \in Pids : Runnable(s, u) /\ s.priority[u] = p}
  BY <1>1, Zenon DEF KInv, Consistent
<1>3. s.rq[p] # <<>>
  BY <1>2 DEF Range
<1>4. s.bitcache = {x \in Prios : s.rq[x] # <<>>}
  BY Zenon DEF KInv, Consistent
<1> QED
  BY <1>1, <1>3, <1>4, Zenon

(* A thread that becomes runnable is appended to its queue; who was the    *)
(* head of a queue stays the head.                                         *)
LEMMA SetStatusEnter ==
  ASSUME NEW s, KInv(s), NEW t \in s.threads, ~Runnable(s, t),
         NEW st \in OnRunqueue
  PROVE  LET k2 == sched_set_status(s, t, st)
         IN  /\ KInv(k2)
             /\ k2.active = s.active /\ k2.request = s.request
             /\ k2.threads = s.threads /\ k2.priority = s.priority
             /\ k2.status = [s.status EXCEPT ![t] = st]
             /\ \A u \in Pids : IsHead(s, u) => IsHead(k2, u)
<1> DEFINE k2 == sched_set_status(s, t, st)
           p  == s.priority[t]
           r  == clist_rpush(s.rq[p], t)
<1>1. /\ s.threads \in SUBSET Pids /\ s.status \in [Pids -> Status]
      /\ s.priority \in [Pids -> Prios] /\ s.rq \in [Prios -> Seq(Pids)]
      /\ s.bitcache \in SUBSET Prios /\ s.active \in Pids \cup {NULL}
      /\ s.request \in BOOLEAN
  BY Zenon DEF KInv, Kernel
<1>2. t \in Pids /\ p \in Prios /\ s.rq[p] \in Seq(Pids) /\ st \in Status
  BY <1>1, Zenon DEF Status
<1>3. /\ k2 = [s EXCEPT !.status[t] = st, !.rq[p] = r, !.bitcache = @ \cup {p}]
  BY <1>2, Zenon DEF sched_set_status
<1>4. /\ k2.threads = s.threads /\ k2.priority = s.priority
      /\ k2.active = s.active /\ k2.request = s.request
      /\ k2.status = [s.status EXCEPT ![t] = st]
      /\ k2.rq = [s.rq EXCEPT ![p] = r]
      /\ k2.bitcache = s.bitcache \cup {p}
  BY <1>3, Zenon DEF KInv, Kernel
<1>5. t \notin Range(s.rq[p]) /\ IsInjective(s.rq[p])
  BY <1>2, Zenon DEF KInv, Consistent
<1>6. r \in Seq(Pids) /\ r # <<>>
  BY <1>2, PushMembers, Zenon
<1>7. Range(r) = Range(s.rq[p]) \cup {t}
  BY <1>2, PushMembers, Zenon
<1>8. IsInjective(r)
  BY <1>2, <1>5, PushMembers, Zenon
<1>9. s.rq[p] # <<>> => Head(r) = Head(s.rq[p])
  BY <1>2, PushMembers, Zenon
<1> HIDE DEF k2, r
<1>10. k2 \in Kernel
  BY <1>1, <1>2, <1>3, <1>6, Zenon DEF KInv, Kernel
<1>11. Consistent(k2)
  <2>1. \A u \in Pids : Runnable(k2, u) <=> Runnable(s, u) \/ u = t
    BY <1>1, <1>2, <1>4, Zenon DEF Runnable
  <2>2. ASSUME NEW x \in Prios
        PROVE  /\ Range(k2.rq[x]) =
                    {u \in Pids : Runnable(k2, u) /\ k2.priority[u] = x}
               /\ IsInjective(k2.rq[x])
    <3>1. CASE x = p
      <4>1. Range(s.rq[p]) = {u \in Pids : Runnable(s, u) /\ s.priority[u] = p}
        BY <1>2, Zenon DEF KInv, Consistent
      <4>2. k2.rq[x] = r
        BY <3>1, <1>1, <1>2, <1>4, Zenon
      <4> QED
        BY <3>1, <4>1, <4>2, <1>2, <1>4, <1>7, <1>8, <2>1
    <3>2. CASE x # p
      BY <3>2, <1>1, <1>2, <1>4, <2>1 DEF KInv, Consistent
    <3> QED
      BY <3>1, <3>2, Zenon
  <2>3. k2.bitcache = {x \in Prios : k2.rq[x] # <<>>}
    BY <1>1, <1>2, <1>4, <1>6 DEF KInv, Consistent
  <2>4. \A u \in Pids : Runnable(k2, u) => u \in k2.threads
    BY <1>4, <2>1, Zenon DEF KInv, Consistent
  <2> QED
    BY <2>2, <2>3, <2>4, Zenon DEF Consistent
<1>12. ASSUME NEW u \in Pids, IsHead(s, u) PROVE IsHead(k2, u)
  <2>1. s.rq[s.priority[u]] # <<>> /\ Head(s.rq[s.priority[u]]) = u
    BY <1>12, Zenon DEF IsHead
  <2>2. s.priority[u] \in Prios /\ k2.priority[u] = s.priority[u]
    BY <1>1, <1>4, Zenon
  <2>3. CASE s.priority[u] = p
    <3>1. k2.rq[p] = r
      BY <1>1, <1>2, <1>4, Zenon
    <3> QED
      BY <2>1, <2>2, <2>3, <3>1, <1>6, <1>9, Zenon DEF IsHead
  <2>4. CASE s.priority[u] # p
    <3>1. k2.rq[s.priority[u]] = s.rq[s.priority[u]]
      BY <1>1, <1>4, <2>2, <2>4, Zenon
    <3> QED
      BY <2>1, <2>2, <3>1, Zenon DEF IsHead
  <2> QED
    BY <2>3, <2>4, Zenon
<1> QED
  BY <1>4, <1>10, <1>11, <1>12, Zenon DEF KInv, k2

(* A thread that stops being runnable must be the head of its queue, which *)
(* sched_set_status() pops; then every other thread stays queued.          *)
LEMMA SetStatusLeave ==
  ASSUME NEW s, KInv(s), NEW t \in Pids, Runnable(s, t), IsHead(s, t),
         NEW st \in Blocked
  PROVE  LET k2 == sched_set_status(s, t, st)
         IN  /\ KInv(k2)
             /\ k2.active = s.active /\ k2.request = s.request
             /\ k2.threads = s.threads /\ k2.priority = s.priority
             /\ k2.status = [s.status EXCEPT ![t] = st]
<1> DEFINE k2 == sched_set_status(s, t, st)
           p  == s.priority[t]
           r  == clist_lpop(s.rq[p])
<1>1. /\ s.threads \in SUBSET Pids /\ s.status \in [Pids -> Status]
      /\ s.priority \in [Pids -> Prios] /\ s.rq \in [Prios -> Seq(Pids)]
      /\ s.bitcache \in SUBSET Prios /\ s.active \in Pids \cup {NULL}
      /\ s.request \in BOOLEAN
  BY Zenon DEF KInv, Kernel
<1>2. p \in Prios /\ s.rq[p] \in Seq(Pids) /\ st \in Status /\ st \notin OnRunqueue
  BY <1>1, Zenon DEF Status, Blocked, OnRunqueue
<1>3. k2 = [s EXCEPT !.status[t] = st, !.rq[p] = r,
                     !.bitcache = IF r = <<>> THEN @ \ {p} ELSE @]
  BY <1>2, Zenon DEF sched_set_status
<1>4. /\ k2.threads = s.threads /\ k2.priority = s.priority
      /\ k2.active = s.active /\ k2.request = s.request
      /\ k2.status = [s.status EXCEPT ![t] = st]
      /\ k2.rq = [s.rq EXCEPT ![p] = r]
      /\ k2.bitcache = IF r = <<>> THEN s.bitcache \ {p} ELSE s.bitcache
  BY <1>3, Zenon DEF KInv, Kernel
<1>5. IsInjective(s.rq[p]) /\ s.rq[p] # <<>> /\ Head(s.rq[p]) = t
  BY <1>2, Zenon DEF KInv, Consistent, IsHead
<1>6. r \in Seq(Pids) /\ IsInjective(r)
  BY <1>2, <1>5, PopMembers, Zenon
<1>7. Range(r) = Range(s.rq[p]) \ {t}
  BY <1>2, <1>5, PopMembers, Zenon
<1> HIDE DEF k2, r
<1>8. k2 \in Kernel
  BY <1>1, <1>2, <1>3, <1>6, Zenon DEF KInv, Kernel
<1>9. Consistent(k2)
  <2>1. \A u \in Pids : Runnable(k2, u) <=> Runnable(s, u) /\ u # t
    BY <1>1, <1>2, <1>4, Zenon DEF Runnable
  <2>2. ASSUME NEW x \in Prios
        PROVE  /\ Range(k2.rq[x]) =
                    {u \in Pids : Runnable(k2, u) /\ k2.priority[u] = x}
               /\ IsInjective(k2.rq[x])
    <3>1. CASE x = p
      <4>1. Range(s.rq[p]) = {u \in Pids : Runnable(s, u) /\ s.priority[u] = p}
        BY <1>2, Zenon DEF KInv, Consistent
      <4>2. k2.rq[x] = r
        BY <3>1, <1>1, <1>2, <1>4, Zenon
      <4> QED
        BY <3>1, <4>1, <4>2, <1>2, <1>4, <1>6, <1>7, <2>1
    <3>2. CASE x # p
      BY <3>2, <1>1, <1>2, <1>4, <2>1 DEF KInv, Consistent
    <3> QED
      BY <3>1, <3>2, Zenon
  <2>3. k2.bitcache = {x \in Prios : k2.rq[x] # <<>>}
    <3>1. s.bitcache = {x \in Prios : s.rq[x] # <<>>}
      BY Zenon DEF KInv, Consistent
    <3>2. \A x \in Prios : k2.rq[x] = IF x = p THEN r ELSE s.rq[x]
      BY <1>1, <1>2, <1>4, Zenon
    <3> QED
      BY <3>1, <3>2, <1>2, <1>4, <1>5
  <2>4. \A u \in Pids : Runnable(k2, u) => u \in k2.threads
    BY <1>4, <2>1, Zenon DEF KInv, Consistent
  <2> QED
    BY <2>2, <2>3, <2>4, Zenon DEF Consistent
<1> QED
  BY <1>4, <1>8, <1>9, Zenon DEF KInv, k2

(* From one blocked status to another the run queues are untouched.        *)
LEMMA SetStatusBlocked ==
  ASSUME NEW s, KInv(s), NEW t \in Pids, ~Runnable(s, t), NEW st \in Blocked
  PROVE  LET k2 == sched_set_status(s, t, st)
         IN  /\ KInv(k2)
             /\ k2.active = s.active /\ k2.request = s.request
             /\ k2.threads = s.threads /\ k2.priority = s.priority
             /\ k2.status = [s.status EXCEPT ![t] = st]
             /\ k2.rq = s.rq
<1> DEFINE k2 == sched_set_status(s, t, st)
<1>1. /\ s.status \in [Pids -> Status] /\ s.rq \in [Prios -> Seq(Pids)]
      /\ s.priority \in [Pids -> Prios] /\ s.bitcache \in SUBSET Prios
  BY Zenon DEF KInv, Kernel
<1>2. st \in Status /\ st \notin OnRunqueue
  BY Zenon DEF Status, Blocked, OnRunqueue
<1>3. k2 = [s EXCEPT !.status[t] = st, !.rq[s.priority[t]] = @, !.bitcache = @]
  BY <1>1, <1>2, Zenon DEF sched_set_status
<1>4. /\ k2.threads = s.threads /\ k2.priority = s.priority
      /\ k2.active = s.active /\ k2.request = s.request
      /\ k2.status = [s.status EXCEPT ![t] = st]
      /\ k2.rq = s.rq /\ k2.bitcache = s.bitcache
  BY <1>1, <1>3 DEF KInv, Kernel
<1> HIDE DEF k2
<1>5. k2 \in Kernel
  BY <1>1, <1>2, <1>3, <1>4, Zenon DEF KInv, Kernel
<1>6. \A u \in Pids : Runnable(k2, u) <=> Runnable(s, u)
  BY <1>1, <1>2, <1>4, Zenon DEF Runnable
<1>7. Consistent(k2)
  BY <1>4, <1>6 DEF KInv, Consistent
<1> QED
  BY <1>4, <1>5, <1>7, Zenon DEF KInv, k2
---------------------------------------------------------------------------
(* A set of natural numbers that is not empty has a least element.         *)
LEMMA LeastNat ==
  ASSUME NEW T \in SUBSET Nat, T # {}
  PROVE  \E p \in T : \A q \in T : p <= q
<1> DEFINE R == OpToRel(<, Nat)
<1>1. IsWellFoundedOn(R, Nat)
  BY NatLessThanWellFounded, Zenon
<1>2. \A x, y \in Nat : x < y => <<x, y>> \in R
  BY Zenon DEF OpToRel
<1> HIDE DEF R
<1>3. PICK p \in T : \A q \in T : ~(<<q, p>> \in R)
  BY <1>1, WFMin, Zenon
<1>4. ASSUME NEW q \in T PROVE p <= q
  <2>1. p \in Nat /\ q \in Nat
    BY Zenon
  <2>2. ~(q < p)
    BY <2>1, <1>2, <1>3, Zenon
  <2> QED
    BY <2>1, <2>2
<1> QED
  BY <1>4, Zenon

(* bitarithm_lsb() finds the lowest bit that is set.                       *)
LEMMA LsbIsLeast ==
  ASSUME NEW bits \in SUBSET Prios, bits # {}
  PROVE  /\ bitarithm_lsb(bits) \in bits
         /\ \A q \in bits : bitarithm_lsb(bits) <= q
<1>1. bits \in SUBSET Nat
  BY SchedConstants DEF Prios
<1> QED
  BY <1>1, LeastNat, Zenon DEF bitarithm_lsb

(* thread_create() takes a slot of sched_threads[] that is NULL.           *)
LEMMA NewPidIsFree ==
  ASSUME NEW s, FreePids(s) # {}
  PROVE  NewPid(s) \in Pids /\ NewPid(s) \notin s.threads
<1>1. FreePids(s) \in SUBSET Nat
  BY SchedConstants DEF FreePids, Pids
<1>2. \E p \in FreePids(s) : \A q \in FreePids(s) : p <= q
  BY <1>1, LeastNat, Zenon
<1>3. NewPid(s) \in FreePids(s)
  BY <1>2, Zenon DEF NewPid
<1> QED
  BY <1>3, Zenon DEF FreePids
---------------------------------------------------------------------------
(* After sched_run() the active thread is the head of its queue, and no    *)
(* runnable thread has a higher priority.                                  *)
LEMMA SchedRun ==
  ASSUME NEW s, KInv(s), s.bitcache # {}
  PROVE  LET k2 == sched_run(s)
         IN  /\ KInv(k2)
             /\ k2.active \in Pids
             /\ IsHead(k2, k2.active) /\ Topmost(k2, k2.active)
             /\ k2.threads = s.threads /\ k2.priority = s.priority
             /\ k2.rq = s.rq /\ k2.bitcache = s.bitcache /\ k2.request = FALSE
             /\ \A u \in Pids : Runnable(k2, u) <=> Runnable(s, u)
             /\ \A u \in Pids : s.status[u] \in Blocked => k2.status[u] = s.status[u]
<1> DEFINE k2   == sched_run(s)
           low  == bitarithm_lsb(s.bitcache)
           next == NextThread(s)
<1>1. /\ s.threads \in SUBSET Pids /\ s.status \in [Pids -> Status]
      /\ s.priority \in [Pids -> Prios] /\ s.rq \in [Prios -> Seq(Pids)]
      /\ s.bitcache \in SUBSET Prios /\ s.active \in Pids \cup {NULL}
      /\ s.request \in BOOLEAN
  BY Zenon DEF KInv, Kernel
<1>2. low \in Prios /\ low \in s.bitcache /\ \A p \in s.bitcache : low <= p
  BY <1>1, LsbIsLeast, Zenon
<1>3. s.rq[low] \in Seq(Pids) /\ s.rq[low] # <<>> /\ IsInjective(s.rq[low])
  BY <1>1, <1>2, Zenon DEF KInv, Consistent
<1>4. next \in Range(s.rq[low]) /\ next = Head(s.rq[low])
  BY <1>3, PopMembers, Zenon DEF NextThread
<1>5. next \in Pids /\ Runnable(s, next) /\ s.priority[next] = low
  <2>1. Range(s.rq[low]) = {u \in Pids : Runnable(s, u) /\ s.priority[u] = low}
    BY <1>2, Zenon DEF KInv, Consistent
  <2> HIDE DEF next, low
  <2> QED
    BY <2>1, <1>4, Zenon
<1>6. \A u \in Pids : Runnable(s, u) => low <= s.priority[u]
  <2> SUFFICES ASSUME NEW u \in Pids, Runnable(s, u) PROVE low <= s.priority[u]
    BY Zenon
  <2>1. s.priority[u] \in Prios /\ u \in Range(s.rq[s.priority[u]])
    BY <1>1, Zenon DEF KInv, Consistent
  <2>2. s.rq[s.priority[u]] # <<>>
    BY <2>1 DEF Range
  <2>3. s.priority[u] \in s.bitcache
    BY <2>1, <2>2, Zenon DEF KInv, Consistent
  <2> QED
    BY <1>2, <2>3, Zenon
<1> HIDE DEF next, low
<1>7. /\ k2 \in Kernel /\ k2.active = next
      /\ k2.threads = s.threads /\ k2.priority = s.priority
      /\ k2.rq = s.rq /\ k2.bitcache = s.bitcache /\ k2.request = FALSE
      /\ \A u \in Pids : k2.status[u] =
           CASE s.active # next /\ u = next -> "RUNNING"
             [] s.active # next /\ u # next /\ u = s.active /\ s.status[u] = "RUNNING"
                  -> "PENDING"
             [] OTHER -> s.status[u]
  <2>1. CASE s.active = next
    <3>1. k2 = [s EXCEPT !.request = FALSE]
      BY <2>1, Zenon DEF sched_run, next
    <3> QED
      BY <2>1, <3>1, <1>1, <1>5, Zenon DEF KInv, Kernel
  <2>2. CASE s.active # next
    <3> DEFINE st == [t \in Pids |->
                        CASE t = next -> "RUNNING"
                          [] t = s.active /\ s.status[t] = "RUNNING" -> "PENDING"
                          [] OTHER -> s.status[t]]
    <3>1. k2 = [s EXCEPT !.request = FALSE, !.status = st, !.active = next]
      BY <2>2, Zenon DEF sched_run, next
    <3>2. st \in [Pids -> Status]
      BY <1>1, Zenon DEF Status, OnRunqueue
    <3>3. \A u \in Pids : st[u] =
             CASE u = next -> "RUNNING"
               [] u = s.active /\ s.status[u] = "RUNNING" -> "PENDING"
               [] OTHER -> s.status[u]
      BY Zenon
    <3> HIDE DEF st
    <3>4. k2 \in Kernel
      BY <3>1, <3>2, <1>1, <1>5, Zenon DEF KInv, Kernel
    <3>5. /\ k2.threads = s.threads /\ k2.priority = s.priority
          /\ k2.rq = s.rq /\ k2.bitcache = s.bitcache
          /\ k2.status = st /\ k2.active = next /\ k2.request = FALSE
      BY <3>1, Zenon DEF KInv, Kernel
    <3> QED
      BY <2>2, <3>3, <3>4, <3>5, Zenon
  <2> QED
    BY <2>1, <2>2, Zenon
<1> HIDE DEF k2
<1>8. \A u \in Pids : Runnable(k2, u) <=> Runnable(s, u)
  BY <1>5, <1>7, Zenon DEF Runnable, OnRunqueue
<1>9. Consistent(k2)
  BY <1>7, <1>8 DEF KInv, Consistent
<1>10. IsHead(k2, next) /\ Topmost(k2, next)
  <2>1. k2.rq = s.rq /\ k2.priority = s.priority
    BY <1>7, Zenon
  <2>2. IsHead(k2, next)
    BY <2>1, <1>3, <1>4, <1>5, Zenon DEF IsHead
  <2>3. Topmost(k2, next)
    BY <2>1, <1>5, <1>6, <1>8, Zenon DEF Topmost
  <2> QED
    BY <2>2, <2>3, Zenon
<1>11. \A u \in Pids : s.status[u] \in Blocked => k2.status[u] = s.status[u]
  BY <1>5, <1>7, Zenon DEF Runnable, OnRunqueue, Blocked
<1> QED
  BY <1>5, <1>7, <1>8, <1>9, <1>10, <1>11, Zenon DEF KInv, k2

(* thread_yield() only reorders the queue of the active thread.            *)
LEMMA Yield ==
  ASSUME NEW s, KInv(s), s.active \in Pids
  PROVE  LET k2 == thread_yield(s)
         IN  /\ KInv(k2)
             /\ k2.active = s.active /\ k2.request = s.request
             /\ k2.threads = s.threads /\ k2.priority = s.priority
             /\ k2.status = s.status /\ k2.bitcache = s.bitcache
<1> DEFINE k2 == thread_yield(s)
           p  == s.priority[s.active]
           r  == clist_lpoprpush(s.rq[p])
<1>1. /\ s.threads \in SUBSET Pids /\ s.status \in [Pids -> Status]
      /\ s.priority \in [Pids -> Prios] /\ s.rq \in [Prios -> Seq(Pids)]
      /\ s.bitcache \in SUBSET Prios /\ s.active \in Pids \cup {NULL}
      /\ s.request \in BOOLEAN
  BY Zenon DEF KInv, Kernel
<1>2. CASE ~Runnable(s, s.active)
  BY <1>2, Zenon DEF thread_yield
<1>3. CASE Runnable(s, s.active)
  <2>1. p \in Prios /\ s.rq[p] \in Seq(Pids) /\ IsInjective(s.rq[p])
    BY <1>1, Zenon DEF KInv, Consistent
  <2>2. r \in Seq(Pids) /\ IsInjective(r)
    BY <2>1, RotateMembers, Zenon
  <2>3. Range(r) = Range(s.rq[p])
    BY <2>1, RotateMembers, Zenon
  <2>4. r = <<>> <=> s.rq[p] = <<>>
    BY <2>1, RotateMembers, Zenon
  <2>5. k2 = [s EXCEPT !.rq[p] = r]
    BY <1>3, Zenon DEF thread_yield
  <2> HIDE DEF k2, r, p
  <2>6. /\ k2.threads = s.threads /\ k2.priority = s.priority
        /\ k2.active = s.active /\ k2.request = s.request
        /\ k2.status = s.status /\ k2.bitcache = s.bitcache
        /\ \A x \in Prios : k2.rq[x] = IF x = p THEN r ELSE s.rq[x]
    BY <1>1, <2>1, <2>5, Zenon DEF KInv, Kernel
  <2>7. k2 \in Kernel
    BY <1>1, <2>1, <2>2, <2>5, Zenon DEF KInv, Kernel
  <2>8. \A u \in Pids : Runnable(k2, u) <=> Runnable(s, u)
    BY <2>6, Zenon DEF Runnable
  <2>9. \A x \in Prios : /\ Range(k2.rq[x]) = Range(s.rq[x])
                         /\ IsInjective(k2.rq[x])
                         /\ k2.rq[x] = <<>> <=> s.rq[x] = <<>>
    BY <2>1, <2>2, <2>3, <2>4, <2>6, Zenon DEF KInv, Consistent
  <2>10. Consistent(k2)
    BY <2>6, <2>8, <2>9 DEF KInv, Consistent
  <2> QED
    BY <2>6, <2>7, <2>10, Zenon DEF KInv, k2
<1> QED
  BY <1>2, <1>3, Zenon

(* An interrupt handler that ends with a request leaves the head of the    *)
(* highest queue active; without a request it changes nothing.             *)
LEMMA IsrReturn ==
  ASSUME NEW s, KInv(s), s.active \in Pids, s.bitcache # {}
  PROVE  LET k2 == cortexm_isr_end(s)
         IN  /\ KInv(k2)
             /\ k2.active \in Pids
             /\ k2.threads = s.threads /\ k2.priority = s.priority
             /\ k2.bitcache = s.bitcache
             /\ \A u \in Pids : Runnable(k2, u) <=> Runnable(s, u)
             /\ \A u \in Pids : s.status[u] \in Blocked => k2.status[u] = s.status[u]
             /\ \/ IsHead(k2, k2.active) /\ Topmost(k2, k2.active) /\ ~k2.request
                \/ ~s.request /\ k2 = s
<1> DEFINE k2 == cortexm_isr_end(s)
<1>1. CASE ~s.request
  <2>1. k2 = s
    BY <1>1, Zenon DEF cortexm_isr_end
  <2> HIDE DEF k2
  <2> QED
    BY <1>1, <2>1, Zenon DEF k2
<1>2. CASE s.request
  <2> DEFINE k3 == thread_yield(s)
  <2>1. /\ KInv(k3) /\ k3.active = s.active
        /\ k3.threads = s.threads /\ k3.priority = s.priority
        /\ k3.status = s.status /\ k3.bitcache = s.bitcache
    BY Yield, Zenon
  <2>2. k2 = sched_run(k3)
    BY <1>2, Zenon DEF cortexm_isr_end
  <2> HIDE DEF k3, k2
  <2>3. /\ KInv(k2) /\ k2.active \in Pids
        /\ IsHead(k2, k2.active) /\ Topmost(k2, k2.active) /\ k2.request = FALSE
        /\ k2.threads = k3.threads /\ k2.priority = k3.priority
        /\ k2.bitcache = k3.bitcache
        /\ \A u \in Pids : Runnable(k2, u) <=> Runnable(k3, u)
        /\ \A u \in Pids : k3.status[u] \in Blocked => k2.status[u] = k3.status[u]
    BY <2>1, <2>2, SchedRun, Zenon
  <2>4. \A u \in Pids : Runnable(k2, u) <=> Runnable(s, u)
    BY <2>1, <2>3, Zenon DEF Runnable
  <2> QED
    BY <2>1, <2>3, <2>4, Zenon DEF k2
<1> QED
  BY <1>1, <1>2, Zenon DEF KInv, Kernel

(* sched_context_switch_request does not matter to the run queues.         *)
LEMMA Request ==
  ASSUME NEW s, KInv(s), NEW r \in BOOLEAN
  PROVE  LET k2 == [s EXCEPT !.request = r]
         IN  /\ KInv(k2) /\ k2.active = s.active /\ k2.threads = s.threads
             /\ k2.priority = s.priority /\ k2.bitcache = s.bitcache
             /\ k2.status = s.status /\ k2.rq = s.rq /\ k2.request = r
<1> DEFINE k2 == [s EXCEPT !.request = r]
<1>1. /\ k2 \in Kernel /\ k2.active = s.active /\ k2.threads = s.threads
      /\ k2.priority = s.priority /\ k2.bitcache = s.bitcache
      /\ k2.status = s.status /\ k2.rq = s.rq /\ k2.request = r
  BY Zenon DEF KInv, Kernel
<1> HIDE DEF k2
<1>2. Consistent(k2)
  BY <1>1, Zenon DEF KInv, Consistent, Runnable
<1> QED
  BY <1>1, <1>2, Zenon DEF KInv, k2

(* The same for a handler that calls sched_switch(prio) before it returns. *)
LEMMA IsrEnd ==
  ASSUME NEW s, KInv(s), s.active \in Pids, s.bitcache # {}, NEW prio \in Prios
  PROVE  LET k2 == cortexm_isr_end(sched_switch_isr(s, prio))
         IN  /\ KInv(k2)
             /\ k2.active \in Pids
             /\ k2.threads = s.threads /\ k2.priority = s.priority
             /\ k2.bitcache = s.bitcache
             /\ \A u \in Pids : Runnable(k2, u) <=> Runnable(s, u)
             /\ \A u \in Pids : s.status[u] \in Blocked => k2.status[u] = s.status[u]
             /\ \/ IsHead(k2, k2.active) /\ Topmost(k2, k2.active) /\ ~k2.request
                \/ ~s.request /\ ~SwitchWanted(s, prio) /\ k2 = s
<1> DEFINE k1 == sched_switch_isr(s, prio)
           k2 == cortexm_isr_end(k1)
<1>1. /\ KInv(k1) /\ k1.active = s.active /\ k1.threads = s.threads
      /\ k1.priority = s.priority /\ k1.bitcache = s.bitcache /\ k1.status = s.status
      /\ ~k1.request => ~s.request /\ ~SwitchWanted(s, prio) /\ k1 = s
  <2>1. CASE SwitchWanted(s, prio)
    <3>1. k1 = [s EXCEPT !.request = TRUE]
      BY <2>1, Zenon DEF sched_switch_isr
    <3> HIDE DEF k1
    <3> QED
      BY <3>1, Request, Zenon
  <2>2. CASE ~SwitchWanted(s, prio)
    <3>1. k1 = s
      BY <2>2, Zenon DEF sched_switch_isr
    <3> HIDE DEF k1
    <3> QED
      BY <2>2, <3>1, Zenon
  <2> QED
    BY <2>1, <2>2, Zenon
<1> HIDE DEF k1
<1>2. /\ KInv(k2)
      /\ k2.active \in Pids
      /\ k2.threads = k1.threads /\ k2.priority = k1.priority
      /\ k2.bitcache = k1.bitcache
      /\ \A u \in Pids : Runnable(k2, u) <=> Runnable(k1, u)
      /\ \A u \in Pids : k1.status[u] \in Blocked => k2.status[u] = k1.status[u]
      /\ \/ IsHead(k2, k2.active) /\ Topmost(k2, k2.active) /\ ~k2.request
         \/ ~k1.request /\ k2 = k1
  BY <1>1, IsrReturn, Zenon
<1> HIDE DEF k2
<1>3. \A u \in Pids : Runnable(k2, u) <=> Runnable(s, u)
  BY <1>1, <1>2, Zenon DEF Runnable
<1> QED
  BY <1>1, <1>2, <1>3, Zenon DEF k1, k2

(* What thread_create() has done to s when it has made k2 of it.           *)
CreateEffect(s, k2, prio, flag) ==
  LET pid == NewPid(s)
  IN  /\ KInv(k2)
      /\ pid \in Pids /\ pid \notin s.threads
      /\ k2.threads = s.threads \cup {pid}
      /\ k2.priority = [s.priority EXCEPT ![pid] = prio]
      /\ k2.active = s.active /\ k2.request = s.request
      /\ \A u \in Pids : u # pid => k2.status[u] = s.status[u]
      /\ Runnable(k2, pid) <=> flag # "SLEEPING"
      /\ \A u \in Pids : u # pid /\ IsHead(s, u) => IsHead(k2, u)

(* A new thread gets a free slot and either sleeps or is appended to its   *)
(* queue.                                                                  *)
LEMMA Create ==
  ASSUME NEW s, KInv(s), FreePids(s) # {}, NEW prio \in Prios, NEW flag \in Flags
  PROVE  CreateEffect(s, thread_create(s, prio, flag), prio, flag)
<1> DEFINE pid == NewPid(s)
           k1  == [s EXCEPT !.threads       = @ \cup {pid},
                            !.priority[pid] = prio,
                            !.status[pid]   = "STOPPED"]
           k2  == thread_create(s, prio, flag)
<1>1. /\ s.threads \in SUBSET Pids /\ s.status \in [Pids -> Status]
      /\ s.priority \in [Pids -> Prios] /\ s.rq \in [Prios -> Seq(Pids)]
      /\ s.bitcache \in SUBSET Prios /\ s.active \in Pids \cup {NULL}
      /\ s.request \in BOOLEAN
  BY Zenon DEF KInv, Kernel
<1>2. pid \in Pids /\ pid \notin s.threads /\ ~Runnable(s, pid)
  BY NewPidIsFree, Zenon DEF KInv, Consistent
<1> HIDE DEF pid
<1>3. /\ k1 \in Kernel
      /\ k1.threads = s.threads \cup {pid}
      /\ k1.priority = [s.priority EXCEPT ![pid] = prio]
      /\ k1.status = [s.status EXCEPT ![pid] = "STOPPED"]
      /\ k1.active = s.active /\ k1.request = s.request
      /\ k1.rq = s.rq /\ k1.bitcache = s.bitcache
  BY <1>1, <1>2, Zenon DEF KInv, Kernel, Status, Blocked
<1>4. /\ \A u \in Pids : Runnable(k1, u) <=> Runnable(s, u)
      /\ \A u \in Pids : u # pid => k1.priority[u] = s.priority[u]
      /\ \A u \in Pids : u # pid => k1.status[u] = s.status[u]
  BY <1>1, <1>2, <1>3 DEF Runnable, OnRunqueue
<1> HIDE DEF k1
<1>5. Consistent(k1)
  <2>1. ASSUME NEW x \in Prios
        PROVE  {u \in Pids : Runnable(k1, u) /\ k1.priority[u] = x} =
               {u \in Pids : Runnable(s, u) /\ s.priority[u] = x}
    BY <1>2, <1>4, Zenon
  <2> QED
    BY <2>1, <1>3, <1>4 DEF KInv, Consistent
<1>6. KInv(k1) /\ ~Runnable(k1, pid) /\ pid \in k1.threads
  BY <1>2, <1>3, <1>4, <1>5, Zenon DEF KInv
<1>7. \A u \in Pids : u # pid /\ IsHead(s, u) => IsHead(k1, u)
  BY <1>3, <1>4, Zenon DEF IsHead
<1>8. CASE flag = "SLEEPING"
  <2>1. k2 = sched_set_status(k1, pid, "SLEEPING")
    BY <1>8, Zenon DEF thread_create, k1, pid
  <2> HIDE DEF k2
  <2>2. /\ KInv(k2)
        /\ k2.active = k1.active /\ k2.request = k1.request
        /\ k2.threads = k1.threads /\ k2.priority = k1.priority
        /\ k2.status = [k1.status EXCEPT ![pid] = "SLEEPING"]
        /\ k2.rq = k1.rq
    <3>1. "SLEEPING" \in Blocked
      BY Zenon DEF Blocked
    <3> QED
      BY <3>1, <1>2, <1>6, <2>1, SetStatusBlocked
  <2>3. ~Runnable(k2, pid) /\ \A u \in Pids : u # pid => k2.status[u] = s.status[u]
    BY <1>1, <1>2, <1>3, <1>4, <2>2 DEF Runnable, OnRunqueue
  <2>4. \A u \in Pids : u # pid /\ IsHead(s, u) => IsHead(k2, u)
    BY <1>7, <2>2, Zenon DEF IsHead
  <2> QED
    BY <1>2, <1>3, <1>8, <2>2, <2>3, <2>4, Zenon DEF k2, pid, CreateEffect
<1>9. CASE flag # "SLEEPING"
  <2>1. k2 = sched_set_status(k1, pid, "PENDING")
    BY <1>9, Zenon DEF thread_create, k1, pid
  <2> HIDE DEF k2
  <2>2. /\ KInv(k2)
        /\ k2.active = k1.active /\ k2.request = k1.request
        /\ k2.threads = k1.threads /\ k2.priority = k1.priority
        /\ k2.status = [k1.status EXCEPT ![pid] = "PENDING"]
        /\ \A u \in Pids : IsHead(k1, u) => IsHead(k2, u)
    BY <1>2, <1>6, <2>1, SetStatusEnter, Zenon DEF OnRunqueue
  <2>3. Runnable(k2, pid) /\ \A u \in Pids : u # pid => k2.status[u] = s.status[u]
    BY <1>1, <1>2, <1>3, <1>4, <2>2 DEF Runnable, OnRunqueue
  <2> QED
    BY <1>2, <1>3, <1>7, <1>9, <2>2, <2>3, Zenon DEF k2, pid, CreateEffect
<1> QED
  BY <1>8, <1>9, Zenon

(* An exiting thread must be the head of its queue.                        *)
LEMMA Exit ==
  ASSUME NEW s, KInv(s), s.active \in Pids, IsHead(s, s.active),
         Runnable(s, s.active)
  PROVE  LET k2 == sched_task_exit(s)
         IN  /\ KInv(k2)
             /\ k2.active = NULL /\ k2.request = s.request
             /\ k2.threads = s.threads \ {s.active} /\ k2.priority = s.priority
             /\ k2.status = [s.status EXCEPT ![s.active] = "STOPPED"]
<1> DEFINE t  == s.active
           k1 == sched_set_status(s, t, "STOPPED")
           k2 == sched_task_exit(s)
<1>1. "STOPPED" \in Blocked
  BY Zenon DEF Blocked
<1>2. /\ KInv(k1)
      /\ k1.active = s.active /\ k1.request = s.request
      /\ k1.threads = s.threads /\ k1.priority = s.priority
      /\ k1.status = [s.status EXCEPT ![t] = "STOPPED"]
  BY <1>1, SetStatusLeave
<1>3. k2 = [k1 EXCEPT !.threads = @ \ {t}, !.active = NULL]
  <2> DEFINE kt == [s EXCEPT !.threads = @ \ {t}]
             p  == s.priority[t]
             q  == clist_lpop(s.rq[p])
             b  == IF q = <<>> THEN s.bitcache \ {p} ELSE s.bitcache
  <2>1. "STOPPED" \notin OnRunqueue /\ Runnable(s, t)
    BY Zenon DEF OnRunqueue
  <2>2. /\ kt.status = s.status /\ kt.priority = s.priority
        /\ kt.rq = s.rq /\ kt.bitcache = s.bitcache
    BY Zenon DEF KInv, Kernel
  <2>3. Runnable(kt, t)
    BY <2>1, <2>2, Zenon DEF Runnable
  <2>4. k1 = [s EXCEPT !.status[t] = "STOPPED", !.rq[p] = q, !.bitcache = b]
    BY <2>1, Zenon DEF sched_set_status
  <2>5. sched_set_status(kt, t, "STOPPED")
          = [kt EXCEPT !.status[t] = "STOPPED", !.rq[p] = q, !.bitcache = b]
    BY <2>1, <2>2, <2>3, Zenon DEF sched_set_status
  <2> HIDE DEF q, b
  <2> QED
    BY <2>4, <2>5, Zenon DEF sched_task_exit, KInv, Kernel
<1> HIDE DEF k1, k2
<1>4. /\ k2 \in Kernel
      /\ k2.active = NULL /\ k2.request = s.request
      /\ k2.threads = s.threads \ {t} /\ k2.priority = s.priority
      /\ k2.status = k1.status /\ k2.rq = k1.rq /\ k2.bitcache = k1.bitcache
  BY <1>2, <1>3, Zenon DEF KInv, Kernel
<1>5. \A u \in Pids : Runnable(k2, u) <=> Runnable(k1, u)
  BY <1>4, Zenon DEF Runnable
<1>6. ~Runnable(k2, t)
  BY <1>2, <1>4, Zenon DEF Runnable, OnRunqueue, KInv, Kernel
<1>7. Consistent(k2)
  <2>1. \A u \in Pids : Runnable(k2, u) => u \in k2.threads
    BY <1>2, <1>4, <1>5, <1>6, Zenon DEF KInv, Consistent
  <2> QED
    BY <2>1, <1>2, <1>4, <1>5 DEF KInv, Consistent
<1> QED
  BY <1>2, <1>4, <1>7, Zenon DEF KInv, k2
---------------------------------------------------------------------------
(* Before kernel_init() the run queues are empty and nothing is runnable.  *)
LEMMA NoThreadsKInv == KInv(NoThreads)
<1> DEFINE k0 == NoThreads
<1>1. k0 \in Kernel
  BY SchedConstants DEF NoThreads, Kernel, Status, Blocked, Prios
<1>2. \A p \in Prios : k0.rq[p] = <<>>
  BY Zenon DEF NoThreads
<1>3. \A t \in Pids : ~Runnable(k0, t)
  BY Zenon DEF NoThreads, Runnable, OnRunqueue
<1>4. Range(<<>>) = {} /\ IsInjective(<<>>)
  BY DEF Range, IsInjective
<1>5. k0.bitcache = {}
  BY Zenon DEF NoThreads
<1> HIDE DEF k0
<1>6. Consistent(k0)
  BY <1>2, <1>3, <1>4, <1>5, Zenon DEF Consistent
<1> QED
  BY <1>1, <1>6, Zenon DEF KInv, k0

(* The scheduler with threads 1..n, all runnable, none running.            *)
Fresh(s, n, prio) ==
  /\ KInv(s)
  /\ s.threads = 1..n
  /\ \A t \in 1..n : Runnable(s, t) /\ s.priority[t] = prio[t]
  /\ \A t \in Pids : t > n => s.status[t] = "STOPPED"
  /\ s.active = NULL /\ s.request = FALSE

(* One more thread_create() takes the next PID.                            *)
LEMMA CreateNext ==
  ASSUME NEW n \in Nat, n + 1 \in Pids, NEW prio \in [Pids -> Prios],
         NEW s, Fresh(s, n, prio)
  PROVE  Fresh(thread_create(s, prio[n + 1], "WOUT_YIELD"), n + 1, prio)
<1> DEFINE k2 == thread_create(s, prio[n + 1], "WOUT_YIELD")
<1>0. MaxPid \in Nat /\ n + 1 \in 1..MaxPid
  BY SchedConstants, Zenon DEF Pids
<1>1. KInv(s) /\ s.threads = 1..n /\ prio[n + 1] \in Prios /\ "WOUT_YIELD" \in Flags
  BY Zenon DEF Fresh, Flags
<1>2. FreePids(s) = (n + 1)..MaxPid
  BY <1>0, <1>1 DEF FreePids, Pids
<1>3. NewPid(s) = n + 1
  <2>1. n + 1 \in FreePids(s) /\ \A q \in FreePids(s) : n + 1 <= q
    BY <1>0, <1>2
  <2>2. \A p \in FreePids(s) : (\A q \in FreePids(s) : p <= q) => p = n + 1
    BY <1>0, <1>2
  <2> QED
    BY <2>1, <2>2, Zenon DEF NewPid
<1>4. CreateEffect(s, k2, prio[n + 1], "WOUT_YIELD")
  <2>1. n + 1 \in FreePids(s)
    BY <1>0, <1>2
  <2>2. FreePids(s) # {}
    BY <2>1, Zenon
  <2> QED
    BY <1>1, <2>2, Create, ZenonT(30)
<1> HIDE DEF k2
<1>5. /\ KInv(k2) /\ k2.threads = s.threads \cup {n + 1}
      /\ k2.priority = [s.priority EXCEPT ![n + 1] = prio[n + 1]]
      /\ k2.active = s.active /\ k2.request = s.request
      /\ \A u \in Pids : u # n + 1 => k2.status[u] = s.status[u]
      /\ Runnable(k2, n + 1)
  BY <1>3, <1>4, Zenon DEF CreateEffect
<1>6. k2.threads = 1..(n + 1)
  BY <1>0, <1>1, <1>5
<1>7. \A t \in 1..(n + 1) : Runnable(k2, t) /\ k2.priority[t] = prio[t]
  <2> SUFFICES ASSUME NEW t \in 1..(n + 1)
               PROVE  Runnable(k2, t) /\ k2.priority[t] = prio[t]
    BY Zenon
  <2>1. t \in Pids /\ s.priority \in [Pids -> Prios]
    BY <1>0, <1>1 DEF Pids, KInv, Kernel
  <2>2. CASE t = n + 1
    BY <2>1, <2>2, <1>5, Zenon
  <2>3. CASE t # n + 1
    <3>1. t \in 1..n
      BY <2>3
    <3>2. Runnable(s, t) /\ s.priority[t] = prio[t]
      BY <3>1, Zenon DEF Fresh
    <3> QED
      BY <2>1, <2>3, <3>2, <1>5, Zenon DEF Runnable
  <2> QED
    BY <2>2, <2>3, Zenon
<1>8. \A t \in Pids : t > n + 1 => k2.status[t] = "STOPPED"
  BY <1>0, <1>5 DEF Fresh, Pids
<1> QED
  BY <1>5, <1>6, <1>7, <1>8, Zenon DEF Fresh, k2

(* After main() has created all threads, in the order of their PIDs, and   *)
(* called thread_yield_higher(), the scheduler is consistent and a thread  *)
(* of the highest priority runs.                                           *)
LEMMA AllCreatedIsFresh ==
  ASSUME NEW n \in Pids, NEW prio \in [Pids -> Prios]
  PROVE  \E k0 : Fresh(k0, n, prio) /\ AllCreated(n, prio) = sched_run(k0)
<1> DEFINE Step(f, i) == IF i = 0 THEN NoThreads
                         ELSE thread_create(f[i - 1], prio[i], "WOUT_YIELD")
           Upto(f, m) == f = [i \in 0..m |-> Step(f, i)]
           Bad == {m \in 0..n : ~\E f : Upto(f, m)}
           up  == CHOOSE f : Upto(f, n)
<1>0. n \in Nat /\ MaxPid \in Nat /\ n >= 1 /\ n <= MaxPid
  BY SchedConstants DEF Pids
<1>1. ASSUME NEW m \in 0..n, NEW f, Upto(f, m), m + 1 <= n
      PROVE  \E g : Upto(g, m + 1)
  <2> DEFINE g == [i \in 0..(m + 1) |-> IF i <= m THEN f[i] ELSE Step(f, m + 1)]
  <2>1. \A i \in 0..m : f[i] = Step(f, i)
    BY <1>1, Zenon
  <2>2. \A i \in 0..m : g[i] = f[i]
    BY <1>0
  <2>3. g[m + 1] = Step(f, m + 1)
    BY <1>0
  <2>4. ASSUME NEW i \in 0..(m + 1) PROVE g[i] = Step(g, i)
    <3>1. i \in Nat /\ (i # 0 => i - 1 \in 0..m)
      BY <1>0
    <3>2. i # 0 => g[i - 1] = f[i - 1]
      BY <3>1, <2>2, Zenon
    <3>3. Step(g, i) = Step(f, i)
      BY <3>2
    <3>4. CASE i <= m
      BY <3>1, <3>3, <3>4, <2>1, <2>2
    <3>5. CASE i = m + 1
      BY <3>3, <3>5, <2>3
    <3> QED
      BY <1>0, <3>4, <3>5
  <2>5. g = [i \in 0..(m + 1) |-> g[i]]
    BY Zenon
  <2> HIDE DEF g
  <2>6. g = [i \in 0..(m + 1) |-> Step(g, i)]
    BY <2>4, <2>5, Zenon
  <2> QED
    BY <2>6, Zenon
<1>2. \E f : Upto(f, 0)
  <2> DEFINE g == [i \in 0..0 |-> NoThreads]
  <2>1. \A i \in 0..0 : Step(g, i) = NoThreads
    OBVIOUS
  <2>2. Upto(g, 0)
    BY <2>1, Zenon
  <2> QED
    BY <2>2, Zenon
<1>3. Bad = {}
  <2> SUFFICES ASSUME Bad # {} PROVE FALSE
    BY Zenon
  <2>1. PICK m \in Bad : \A q \in Bad : m <= q
    <3>1. Bad \in SUBSET Nat
      BY <1>0
    <3> HIDE DEF Bad
    <3> QED
      BY <3>1, LeastNat, Zenon
  <2>2. m \in 0..n /\ m # 0 /\ ~\E f : Upto(f, m)
    BY <1>2, Zenon
  <2>3. m - 1 \in 0..n /\ m - 1 \notin Bad
    BY <1>0, <2>1, <2>2
  <2>4. \E f : Upto(f, m - 1)
    BY <2>3, Zenon
  <2> HIDE DEF Upto, Bad
  <2>5. PICK f : Upto(f, m - 1)
    BY <2>4, Zenon
  <2>6. (m - 1) + 1 = m /\ (m - 1) + 1 <= n
    BY <1>0, <2>2
  <2> QED
    BY <2>2, <2>3, <2>5, <2>6, <1>1, Zenon
<1>4. Upto(up, n)
  <2>1. \E f : Upto(f, n)
    BY <1>0, <1>3
  <2> HIDE DEF Upto
  <2> QED
    BY <2>1, Zenon
<1>5. AllCreated(n, prio) = sched_run(up[n])
  BY Zenon DEF AllCreated
<1> HIDE DEF up
<1>6. \A i \in 0..n : up[i] = Step(up, i)
  BY <1>4, Zenon
<1> DEFINE Wrong == {i \in 0..n : ~Fresh(up[i], i, prio)}
<1>7. Wrong = {}
  <2> SUFFICES ASSUME Wrong # {} PROVE FALSE
    BY Zenon
  <2>1. PICK m \in Wrong : \A q \in Wrong : m <= q
    <3>1. Wrong \in SUBSET Nat
      BY <1>0
    <3> HIDE DEF Wrong
    <3> QED
      BY <3>1, LeastNat, Zenon
  <2>2. Fresh(up[0], 0, prio)
    <3>1. up[0] = NoThreads
      BY <1>0, <1>6
    <3> QED
      BY <3>1, NoThreadsKInv DEF Fresh, NoThreads
  <2>3. m \in 0..n /\ m # 0 /\ ~Fresh(up[m], m, prio)
    BY <2>2, Zenon
  <2>4. m - 1 \in 0..n /\ m - 1 \in Nat /\ m \in Nat
    BY <1>0, <2>3
  <2>5. Fresh(up[m - 1], m - 1, prio)
    BY <1>0, <2>1, <2>4
  <2>6. up[m] = thread_create(up[m - 1], prio[m], "WOUT_YIELD")
    BY <1>6, <2>3, Zenon
  <2>7. (m - 1) + 1 = m /\ m \in Pids
    BY <1>0, <2>3 DEF Pids
  <2>8. Fresh(thread_create(up[m - 1], prio[(m - 1) + 1], "WOUT_YIELD"), (m - 1) + 1, prio)
    BY <2>4, <2>5, <2>7, CreateNext, Zenon
  <2> QED
    BY <2>3, <2>6, <2>7, <2>8, Zenon
<1>8. Fresh(up[n], n, prio)
  BY <1>0, <1>7
<1> QED
  BY <1>5, <1>8, Zenon
---------------------------------------------------------------------------
(* A list of waiting threads in the order in which they will be served.    *)
Sorted(prio, q) ==
  \A i, j \in 1..Len(q) : i < j => prio[q[i]] <= prio[q[j]]

(* t has been inserted at place p of q, which made r of it.                *)
InsertedAt(q, r, t, p) ==
  /\ p \in 1..(Len(q) + 1)
  /\ r \in Seq(Pids) /\ Len(r) = Len(q) + 1
  /\ \A i \in 1..Len(q) : i < p => r[i] = q[i]
  /\ r[p] = t
  /\ \A i \in 1..Len(q) : i >= p => r[i + 1] = q[i]

(* thread_add_to_list() inserts behind all entries of t's priority and     *)
(* above, up to the first of a lower one.                                  *)
LEMMA AddToList ==
  ASSUME NEW prio \in [Pids -> Prios], NEW q \in Seq(Pids), NEW t \in Pids
  PROVE  \E p \in 1..(Len(q) + 1) :
           /\ InsertedAt(q, thread_add_to_list(prio, q, t), t, p)
           /\ \A i \in 1..Len(q) : i < p => prio[q[i]] <= prio[t]
           /\ p <= Len(q) => prio[q[p]] > prio[t]
<1> DEFINE n     == Len(q)
           lower == {i \in 1..n : prio[q[i]] > prio[t]}
           first == CHOOSE i \in lower : \A j \in lower : i <= j
           pos   == IF lower = {} THEN n + 1 ELSE first
           s1    == SubSeq(q, 1, pos - 1)
           s2    == SubSeq(q, pos, n)
           r     == s1 \o <<t>> \o s2
<1>1. n \in Nat /\ q \in [1..n -> Pids] /\ lower \in SUBSET Nat
  OBVIOUS
<1>2. lower # {} => first \in lower /\ \A j \in lower : first <= j
  <2> SUFFICES ASSUME lower # {}
               PROVE  first \in lower /\ \A j \in lower : first <= j
    BY Zenon
  <2> HIDE DEF lower
  <2>1. \E i \in lower : \A j \in lower : i <= j
    BY <1>1, LeastNat, Zenon
  <2> QED
    BY <2>1, Zenon
<1>3. pos \in 1..(n + 1)
  BY <1>1, <1>2
<1>4. \A i \in 1..n : prio[q[i]] \in Nat /\ prio[t] \in Nat
  BY <1>1, SchedConstants DEF Prios
<1>5. \A i \in 1..n : i < pos => prio[q[i]] <= prio[t]
  <2> SUFFICES ASSUME NEW i \in 1..n, i < pos PROVE prio[q[i]] <= prio[t]
    BY Zenon
  <2>1. i \notin lower
    BY <1>1, <1>2, <1>3
  <2> QED
    BY <1>4, <2>1
<1>6. pos <= n => prio[q[pos]] > prio[t]
  BY <1>1, <1>2
<1> HIDE DEF pos, first, lower
<1>7. /\ s1 \in Seq(Pids) /\ Len(s1) = pos - 1
      /\ \A i \in 1..(pos - 1) : s1[i] = q[i]
  <2>1. \A i \in 1..(pos - 1) : q[i] \in Pids
    BY <1>1, <1>3
  <2>2. /\ s1 \in Seq(Pids)
        /\ Len(s1) = IF 1 <= pos - 1 THEN (pos - 1) - 1 + 1 ELSE 0
        /\ \A i \in 1..((pos - 1) - 1 + 1) : s1[i] = q[1 + i - 1]
    BY <1>3, <2>1
  <2> HIDE DEF s1
  <2> QED
    BY <1>1, <1>3, <2>2
<1>8. /\ s2 \in Seq(Pids) /\ Len(s2) = n - pos + 1
      /\ \A i \in 1..(n - pos + 1) : s2[i] = q[pos + i - 1]
  <2>1. \A i \in pos..n : q[i] \in Pids
    BY <1>1, <1>3
  <2>2. /\ s2 \in Seq(Pids)
        /\ Len(s2) = IF pos <= n THEN n - pos + 1 ELSE 0
        /\ \A i \in 1..(n - pos + 1) : s2[i] = q[pos + i - 1]
    BY <1>1, <1>3, <2>1
  <2> HIDE DEF s2
  <2> QED
    BY <1>1, <1>3, <2>2
<1> HIDE DEF s1, s2
<1>9. InsertedAt(q, r, t, pos)
  <2> DEFINE h == s1 \o <<t>>
  <2>1. <<t>> \in Seq(Pids) /\ Len(<<t>>) = 1 /\ <<t>>[1] = t
    OBVIOUS
  <2>2. /\ h \in Seq(Pids) /\ Len(h) = pos
        /\ \A i \in 1..(pos - 1) : h[i] = q[i]
        /\ h[pos] = t
    <3>1. /\ h \in Seq(Pids) /\ Len(h) = (pos - 1) + 1
          /\ \A i \in 1..((pos - 1) + 1) :
               h[i] = IF i <= pos - 1 THEN s1[i] ELSE <<t>>[i - (pos - 1)]
      BY <1>7, <2>1
    <3> HIDE DEF h
    <3>2. (pos - 1) + 1 = pos /\ pos - (pos - 1) = 1
      BY <1>1, <1>3
    <3>3. Len(h) = pos /\ \A i \in 1..pos : h[i] = IF i <= pos - 1 THEN s1[i] ELSE <<t>>[i - (pos - 1)]
      BY <3>1, <3>2, Zenon
    <3>4. \A i \in 1..(pos - 1) : h[i] = q[i]
      <4> SUFFICES ASSUME NEW i \in 1..(pos - 1) PROVE h[i] = q[i]
        BY Zenon
      <4>1. i \in 1..pos /\ i <= pos - 1
        BY <1>1, <1>3
      <4>2. h[i] = s1[i]
        BY <3>3, <4>1, Zenon
      <4> QED
        BY <1>7, <4>2, Zenon
    <3>5. h[pos] = <<t>>[pos - (pos - 1)]
      <4>1. pos \in 1..pos /\ ~(pos <= pos - 1)
        BY <1>1, <1>3
      <4> QED
        BY <3>3, <4>1, Zenon
    <3> QED
      BY <2>1, <3>1, <3>2, <3>3, <3>4, <3>5, Zenon
  <2>3. r = h \o s2
    BY Zenon
  <2> HIDE DEF h, r
  <2>4. /\ r \in Seq(Pids) /\ Len(r) = pos + (n - pos + 1)
        /\ \A i \in 1..(pos + (n - pos + 1)) :
             r[i] = IF i <= pos THEN h[i] ELSE s2[i - pos]
    <3>1. /\ r \in Seq(Pids) /\ Len(r) = Len(h) + Len(s2)
          /\ \A i \in 1..(Len(h) + Len(s2)) :
               r[i] = IF i <= Len(h) THEN h[i] ELSE s2[i - Len(h)]
      <4>1. h \in Seq(Pids) /\ s2 \in Seq(Pids)
        BY <1>8, <2>2, Zenon
      <4> QED
        BY <2>3, <4>1
    <3> QED
      BY <1>8, <2>2, <3>1, Zenon
  <2>5. Len(r) = n + 1 /\ \A i \in 1..(n + 1) : r[i] = IF i <= pos THEN h[i] ELSE s2[i - pos]
    <3>1. pos + (n - pos + 1) = n + 1
      BY <1>1, <1>3
    <3> QED
      BY <2>4, <3>1, Zenon
  <2>6. \A i \in 1..n : i < pos => r[i] = q[i]
    BY <1>1, <1>3, <2>2, <2>5
  <2>7. r[pos] = t
    BY <1>1, <1>3, <2>2, <2>5
  <2>8. \A i \in 1..n : i >= pos => r[i + 1] = q[i]
    <3> SUFFICES ASSUME NEW i \in 1..n, i >= pos PROVE r[i + 1] = q[i]
      BY Zenon
    <3>1. /\ i + 1 \in 1..(n + 1) /\ ~(i + 1 <= pos)
          /\ (i + 1) - pos \in 1..(n - pos + 1)
          /\ pos + ((i + 1) - pos) - 1 = i
      BY <1>1, <1>3
    <3>2. r[i + 1] = s2[(i + 1) - pos]
      BY <2>5, <3>1, Zenon
    <3> QED
      BY <1>8, <3>1, <3>2, Zenon
  <2> QED
    BY <1>3, <2>4, <2>5, <2>6, <2>7, <2>8, Zenon DEF InsertedAt
<1>10. thread_add_to_list(prio, q, t) = r
  BY Zenon DEF thread_add_to_list, r, s1, s2, pos, first, lower
<1> QED
  BY <1>3, <1>5, <1>6, <1>9, <1>10, Zenon

(* What an insertion at p does to the members and their order.             *)
LEMMA InsertMembers ==
  ASSUME NEW q \in Seq(Pids), NEW t \in Pids, NEW p, NEW r, InsertedAt(q, r, t, p)
  PROVE  /\ Range(r) = Range(q) \cup {t}
         /\ IsInjective(q) /\ t \notin Range(q) => IsInjective(r)
         /\ r # <<>>
<1> DEFINE n == Len(q)
<1>1. /\ n \in Nat /\ DOMAIN q = 1..n /\ DOMAIN r = 1..(n + 1) /\ p \in 1..(n + 1)
      /\ \A i \in 1..n : i < p => r[i] = q[i]
      /\ r[p] = t
      /\ \A i \in 1..n : i >= p => r[i + 1] = q[i]
  BY DEF InsertedAt
<1>2. \A i \in 1..n : \E j \in 1..(n + 1) : r[j] = q[i]
  <2> SUFFICES ASSUME NEW i \in 1..n PROVE \E j \in 1..(n + 1) : r[j] = q[i]
    BY Zenon
  <2>1. i \in 1..(n + 1) /\ i + 1 \in 1..(n + 1) /\ (i < p \/ i >= p)
    BY <1>1
  <2> QED
    BY <1>1, <2>1, Zenon
<1>3. \A j \in 1..(n + 1) : j # p => \E i \in 1..n : /\ r[j] = q[i]
                                                      /\ i = IF j < p THEN j ELSE j - 1
  <2> SUFFICES ASSUME NEW j \in 1..(n + 1), j # p
               PROVE  \E i \in 1..n : r[j] = q[i] /\ i = IF j < p THEN j ELSE j - 1
    BY Zenon
  <2>1. CASE j < p
    BY <1>1, <2>1
  <2>2. CASE j > p
    <3>1. j - 1 \in 1..n /\ j - 1 >= p /\ (j - 1) + 1 = j /\ ~(j < p)
      BY <1>1, <2>2
    <3> QED
      BY <1>1, <3>1, Zenon
  <2> QED
    BY <1>1, <2>1, <2>2
<1>4. Range(r) = Range(q) \cup {t}
  <2>1. \A j \in 1..(n + 1) : r[j] = t \/ \E i \in 1..n : r[j] = q[i]
    BY <1>1, <1>3, Zenon
  <2>2. Range(r) \subseteq Range(q) \cup {t}
    BY <1>1, <2>1 DEF Range
  <2>3. Range(q) \subseteq Range(r)
    BY <1>1, <1>2 DEF Range
  <2>4. t \in Range(r)
    BY <1>1, Zenon DEF Range
  <2> QED
    BY <2>2, <2>3, <2>4, Zenon
<1>5. ASSUME IsInjective(q), t \notin Range(q) PROVE IsInjective(r)
  <2> SUFFICES ASSUME NEW a \in 1..(n + 1), NEW b \in 1..(n + 1), r[a] = r[b]
               PROVE  a = b
    BY <1>1, Zenon DEF IsInjective
  <2>1. \A i \in 1..n : q[i] # t
    BY <1>1, <1>5, Zenon DEF Range
  <2>2. CASE a = p \/ b = p
    BY <1>1, <1>3, <2>1, <2>2, Zenon
  <2>3. CASE a # p /\ b # p
    <3>1. PICK i \in 1..n : r[a] = q[i] /\ i = IF a < p THEN a ELSE a - 1
      BY <1>3, <2>3, Zenon
    <3>2. PICK j \in 1..n : r[b] = q[j] /\ j = IF b < p THEN b ELSE b - 1
      BY <1>3, <2>3, Zenon
    <3>3. i = j
      BY <1>1, <1>5, <3>1, <3>2, Zenon DEF IsInjective
    <3> QED
      BY <1>1, <2>3, <3>1, <3>2, <3>3
  <2> QED
    BY <2>2, <2>3, Zenon
<1>6. r # <<>>
  BY <1>1
<1> QED
  BY <1>4, <1>5, <1>6, Zenon

(* The list stays sorted.                                                  *)
LEMMA InsertSorted ==
  ASSUME NEW prio \in [Pids -> Prios], NEW q \in Seq(Pids), NEW t \in Pids,
         NEW p, NEW r, InsertedAt(q, r, t, p), Sorted(prio, q),
         \A i \in 1..Len(q) : i < p => prio[q[i]] <= prio[t],
         p <= Len(q) => prio[q[p]] > prio[t]
  PROVE  Sorted(prio, r)
<1> DEFINE n == Len(q)
<1>1. /\ n \in Nat /\ q \in [1..n -> Pids] /\ Len(r) = n + 1 /\ p \in 1..(n + 1)
      /\ \A i \in 1..n : i < p => r[i] = q[i]
      /\ r[p] = t
      /\ \A i \in 1..n : i >= p => r[i + 1] = q[i]
  BY DEF InsertedAt
<1>2. \A i \in 1..n : prio[q[i]] \in Nat /\ prio[t] \in Nat
  BY <1>1, SchedConstants DEF Prios
<1>3. \A i \in 1..n : i >= p => prio[t] <= prio[q[i]]
  <2> SUFFICES ASSUME NEW i \in 1..n, i >= p PROVE prio[t] <= prio[q[i]]
    BY Zenon
  <2>1. p \in 1..n /\ prio[q[p]] > prio[t]
    BY <1>1
  <2>2. prio[q[p]] <= prio[q[i]]
    BY <1>1, <1>2, <2>1 DEF Sorted
  <2> QED
    BY <1>2, <2>1, <2>2
<1> SUFFICES ASSUME NEW a \in 1..(n + 1), NEW b \in 1..(n + 1), a < b
             PROVE  prio[r[a]] <= prio[r[b]]
  BY <1>1, Zenon DEF Sorted
<1>4. CASE b < p
  <2>1. a \in 1..n /\ b \in 1..n /\ a < p
    BY <1>1, <1>4
  <2> QED
    BY <1>1, <1>4, <2>1, Zenon DEF Sorted
<1>5. CASE b = p
  <2>1. a \in 1..n /\ a < p
    BY <1>1, <1>5
  <2> QED
    BY <1>1, <1>5, <2>1, Zenon
<1>6. CASE b > p
  <2>1. b - 1 \in 1..n /\ b - 1 >= p /\ (b - 1) + 1 = b
    BY <1>1, <1>6
  <2>2. r[b] = q[b - 1]
    BY <1>1, <2>1, Zenon
  <2>3. CASE a < p
    <3>1. a \in 1..n /\ a < b - 1 /\ r[a] = q[a]
      BY <1>1, <2>1, <2>3
    <3> QED
      BY <2>1, <2>2, <3>1, Zenon DEF Sorted
  <2>4. CASE a = p
    BY <1>1, <1>3, <2>1, <2>2, <2>4, Zenon
  <2>5. CASE a > p
    <3>1. a - 1 \in 1..n /\ a - 1 >= p /\ (a - 1) + 1 = a /\ a - 1 < b - 1
      BY <1>1, <2>1, <2>5
    <3>2. r[a] = q[a - 1]
      BY <1>1, <3>1, Zenon
    <3> QED
      BY <2>1, <2>2, <3>1, <3>2, Zenon DEF Sorted
  <2> QED
    BY <1>1, <2>3, <2>4, <2>5
<1> QED
  BY <1>1, <1>4, <1>5, <1>6

(* The head of a sorted list is one of its most urgent threads, and the    *)
(* rest stays sorted.                                                      *)
LEMMA PopSorted ==
  ASSUME NEW prio \in [Pids -> Prios], NEW q \in Seq(Pids), q # <<>>,
         Sorted(prio, q)
  PROVE  /\ Sorted(prio, Tail(q))
         /\ \A t \in Range(q) : prio[Head(q)] <= prio[t]
<1> DEFINE n == Len(q)
           r == Tail(q)
<1>1. n \in Nat /\ n >= 1 /\ q \in [1..n -> Pids] /\ Head(q) = q[1]
  OBVIOUS
<1>2. Len(r) = n - 1 /\ \A i \in 1..(n - 1) : r[i] = q[i + 1]
  OBVIOUS
<1> HIDE DEF r
<1>3. Sorted(prio, r)
  <2> SUFFICES ASSUME NEW a \in 1..(n - 1), NEW b \in 1..(n - 1), a < b
               PROVE  prio[r[a]] <= prio[r[b]]
    BY <1>2, Zenon DEF Sorted
  <2>1. a + 1 \in 1..n /\ b + 1 \in 1..n /\ a + 1 < b + 1
    BY <1>1
  <2> QED
    BY <1>2, <2>1, Zenon DEF Sorted
<1>4. ASSUME NEW t \in Range(q) PROVE prio[Head(q)] <= prio[t]
  <2>1. PICK i \in 1..n : t = q[i]
    BY <1>1, Zenon DEF Range
  <2>2. prio[q[1]] \in Nat /\ 1 \in 1..n
    BY <1>1, SchedConstants DEF Prios
  <2>3. i = 1 \/ 1 < i
    BY <2>1
  <2> QED
    BY <1>1, <2>1, <2>2, <2>3 DEF Sorted
<1> QED
  BY <1>3, <1>4, Zenon DEF r
---------------------------------------------------------------------------
(* The active thread is of the highest priority in the windows ws, and in  *)
(* the windows before a sched_switch() unless that call will switch; or a  *)
(* switch has been requested and the next interrupt brings it about.       *)
Settled(ws) ==
  LET a == k.active
  IN  \/ k.request
      \/ Topmost(k, a)
      \/ /\ pc[a] \notin ws
         /\ pc[a] = "switch" => arg[a] < k.priority[a]
         /\ pc[a] = "wakeup" => k.priority[arg[a]] < k.priority[a]

(* The invariant of the core: ws are the windows of the module, unqueued   *)
(* those whose thread need not be the head of its run queue, settled those *)
(* whose thread is outranked by nobody.                                    *)
CpuInv(ws, unqueued, settled) ==
  /\ CpuTypeOK(ws)
  /\ Consistent(k)
  /\ k.active \in Pids
  /\ Runnable(k, Idle) /\ pc[Idle] = "app"
  /\ ~null_store
  /\ HeadOutside(unqueued)
  /\ Settled(settled)

(* Sensible choices of the three sets.                                     *)
WindowsOK(ws, unqueued, settled) ==
  /\ "app" \in ws /\ "app" \in settled
  /\ "switch" \notin unqueued /\ "wakeup" \notin unqueued
  /\ "switch" \notin settled /\ "wakeup" \notin settled
  /\ "yield_higher" \notin settled
  /\ settled \cap unqueued = {}

(* The same threads are blocked, for the same reasons, in s and s2.        *)
SameBlocked(s, s2) ==
  \A u \in Pids : \A st \in Blocked : s2[u] = st <=> s[u] = st

(* What no step of a fixed set of threads changes.                         *)
SameThreads == k'.threads = k.threads /\ k'.priority = k.priority

(* Without a request nobody but thread_flags_wake() makes one.             *)
NoNewRequest == k'.request => k.request

(* Idle and the constants.                                                 *)
LEMMA CpuConstants ==
  /\ Idle \in Pids /\ NULL \notin Pids /\ Pids \subseteq Nat
  /\ Prios \subseteq Nat /\ 0 \in Nat
  /\ Blocked \cap OnRunqueue = {} /\ Status = Blocked \cup OnRunqueue
<1>1. Idle \in Pids /\ NULL \notin Pids /\ Pids \subseteq Nat
  BY SchedConstants DEF Idle, Pids, NULL
<1>2. Prios \subseteq Nat
  BY SchedConstants DEF Prios
<1> QED
  BY <1>1, <1>2, Zenon DEF Blocked, OnRunqueue, Status

(* A step that preserves runnability and the statuses of the blocked.      *)
LEMMA BlockedStay ==
  ASSUME NEW k1, KInv(k1), NEW k2, KInv(k2),
         \A u \in Pids : Runnable(k2, u) <=> Runnable(k1, u),
         \A u \in Pids : k1.status[u] \in Blocked => k2.status[u] = k1.status[u]
  PROVE  SameBlocked(k1.status, k2.status)
<1> SUFFICES ASSUME NEW u \in Pids, NEW st \in Blocked
             PROVE  k2.status[u] = st <=> k1.status[u] = st
  BY Zenon DEF SameBlocked
<1>1. k1.status[u] \in Status /\ k2.status[u] \in Status
  BY Zenon DEF KInv, Kernel
<1> QED
  BY <1>1, CpuConstants, Zenon DEF Runnable

(* The start: all threads are created, thread_yield_higher() is next.      *)
LEMMA CpuInit ==
  ASSUME NEW ws, NEW unqueued, NEW settled, WindowsOK(ws, unqueued, settled),
         NEW n \in Pids, NEW prio \in [Pids -> Prios],
         k = AllCreated(n, prio), Quiet
  PROVE  /\ CpuInv(ws, unqueued, settled)
         /\ k.threads = 1..n /\ \A t \in 1..n : k.priority[t] = prio[t]
         /\ ~k.request
         /\ \A t \in 1..n : Runnable(k, t)
         /\ \A t \in Pids : t > n => k.status[t] = "STOPPED"
<1>1. PICK k0 : Fresh(k0, n, prio) /\ k = sched_run(k0)
  BY AllCreatedIsFresh, Zenon
<1>2. n \in Nat /\ Idle \in 1..n /\ 1..n \subseteq Pids
  BY SchedConstants DEF Pids, Idle
<1>3. KInv(k0) /\ Runnable(k0, Idle) /\ k0.bitcache # {}
  BY <1>1, <1>2, CpuConstants, RunnableBit, Zenon DEF Fresh
<1> DEFINE k2 == sched_run(k0)
<1>a. /\ KInv(k2) /\ k2.active \in Pids
      /\ IsHead(k2, k2.active) /\ Topmost(k2, k2.active) /\ k2.request = FALSE
      /\ k2.threads = k0.threads /\ k2.priority = k0.priority
      /\ \A u \in Pids : Runnable(k2, u) <=> Runnable(k0, u)
      /\ \A u \in Pids : k0.status[u] \in Blocked => k2.status[u] = k0.status[u]
  BY <1>3, SchedRun, Zenon
<1> HIDE DEF k2
<1>4. /\ KInv(k) /\ k.active \in Pids
      /\ IsHead(k, k.active) /\ Topmost(k, k.active) /\ k.request = FALSE
      /\ k.threads = k0.threads /\ k.priority = k0.priority
      /\ \A u \in Pids : Runnable(k, u) <=> Runnable(k0, u)
      /\ \A u \in Pids : k0.status[u] \in Blocked => k.status[u] = k0.status[u]
  BY <1>1, <1>a, Zenon DEF k2
<1>5. /\ pc = [t \in Pids |-> "app"] /\ arg = [t \in Pids |-> 0]
      /\ null_store = FALSE
  BY Zenon DEF Quiet
<1>6. CpuTypeOK(ws)
  BY <1>4, <1>5, CpuConstants, Zenon DEF CpuTypeOK, KInv, WindowsOK
<1>7. CpuInv(ws, unqueued, settled)
  BY <1>2, <1>3, <1>4, <1>5, <1>6, CpuConstants, Zenon
  DEF CpuInv, KInv, HeadOutside, Settled
<1>8. "STOPPED" \in Blocked
  BY Zenon DEF Blocked
<1> QED
  BY <1>1, <1>2, <1>4, <1>7, <1>8, Zenon DEF Fresh
---------------------------------------------------------------------------
(* The types after GoTo().                                                 *)
LEMMA GoToTypes ==
  ASSUME NEW ws, CpuTypeOK(ws), NEW k2 \in Kernel, NEW t \in Pids,
         NEW label \in ws, NEW a \in Nat, GoTo(t, k2, label, a),
         label = "switch" => a \in Prios, label = "wakeup" => a \in Pids
  PROVE  /\ CpuTypeOK(ws)' /\ k' = k2 /\ null_store' = null_store
         /\ pc'[t] = label /\ arg'[t] = a
         /\ \A u \in Pids : u # t => pc'[u] = pc[u] /\ arg'[u] = arg[u]
<1>1. /\ k' = k2 /\ null_store' = null_store
      /\ pc' = [pc EXCEPT ![t] = label] /\ arg' = [arg EXCEPT ![t] = a]
  BY Zenon DEF GoTo
<1>2. /\ pc'[t] = label /\ arg'[t] = a
      /\ \A u \in Pids : u # t => pc'[u] = pc[u] /\ arg'[u] = arg[u]
  BY <1>1, Zenon DEF CpuTypeOK
<1> QED
  BY <1>1, <1>2 DEF CpuTypeOK

(* sched_run() in a thread: the call goes on in window label when the      *)
(* thread has the CPU again.                                               *)
LEMMA RunStep ==
  ASSUME NEW ws, NEW unqueued, NEW settled, WindowsOK(ws, unqueued, settled),
         CpuInv(ws, unqueued, settled),
         NEW t \in Pids, NEW label \in ws \ {"switch", "wakeup"}, NEW a \in Nat,
         t = Idle => label = "app", GoTo(t, sched_run(k), label, a)
  PROVE  /\ CpuInv(ws, unqueued, settled)'
         /\ SameThreads /\ ~k'.request /\ SameBlocked(k.status, k'.status)
<1>1. KInv(k) /\ k.bitcache # {}
  BY CpuConstants, RunnableBit, Zenon DEF CpuInv, CpuTypeOK, KInv
<1> DEFINE k2 == sched_run(k)
<1>2. /\ KInv(k2) /\ k2.active \in Pids
      /\ IsHead(k2, k2.active) /\ Topmost(k2, k2.active) /\ k2.request = FALSE
      /\ k2.threads = k.threads /\ k2.priority = k.priority
      /\ \A u \in Pids : Runnable(k2, u) <=> Runnable(k, u)
      /\ \A u \in Pids : k.status[u] \in Blocked => k2.status[u] = k.status[u]
  BY <1>1, SchedRun, Zenon
<1> HIDE DEF k2
<1>3. SameBlocked(k.status, k2.status)
  BY <1>1, <1>2, BlockedStay, Zenon
<1>4. /\ CpuTypeOK(ws)' /\ k' = k2 /\ null_store' = null_store /\ pc'[t] = label
      /\ \A u \in Pids : u # t => pc'[u] = pc[u]
  BY <1>2, GoToTypes, SMTT(30) DEF CpuInv, k2, KInv
<1>5. pc'[Idle] = "app"
  BY <1>4, CpuConstants, Zenon DEF CpuInv
<1>6. CpuInv(ws, unqueued, settled)'
  BY <1>2, <1>4, <1>5, CpuConstants, Zenon DEF CpuInv, KInv, HeadOutside, Settled
<1> QED
  BY <1>2, <1>3, <1>4, <1>6, Zenon DEF SameThreads

(* The rest of thread_yield_higher() after its window.                     *)
LEMMA YieldHigherStep ==
  ASSUME NEW ws, NEW unqueued, NEW settled, WindowsOK(ws, unqueued, settled),
         CpuInv(ws, unqueued, settled), NEW t \in Pids, YieldHigher(t)
  PROVE  /\ CpuInv(ws, unqueued, settled)'
         /\ SameThreads /\ NoNewRequest /\ SameBlocked(k.status, k'.status)
<1>1. GoTo(t, sched_run(k), "app", 0)
  BY Zenon DEF YieldHigher
<1>2. "app" \in ws \ {"switch", "wakeup"} /\ 0 \in Nat
  BY Zenon DEF WindowsOK
<1> QED
  BY <1>1, <1>2, RunStep, Zenon DEF NoNewRequest

(* sched_switch(prio): either the active thread stays and is outranked by  *)
(* nobody more urgent than prio, or sched_run().                           *)
LEMMA SwitchStep ==
  ASSUME NEW ws, NEW unqueued, NEW settled, WindowsOK(ws, unqueued, settled),
         CpuInv(ws, unqueued, settled), NEW t \in Pids, k.active = t,
         NEW prio \in Prios,
         k.request \/ Topmost(k, t) \/ prio < k.priority[t],
         pc[t] \notin unqueued, GoTo(t, sched_switch(k, prio), "app", 0)
  PROVE  /\ CpuInv(ws, unqueued, settled)'
         /\ SameThreads /\ NoNewRequest /\ SameBlocked(k.status, k'.status)
<1>1. "app" \in ws \ {"switch", "wakeup"} /\ 0 \in Nat
  BY Zenon DEF WindowsOK
<1>2. CASE SwitchWanted(k, prio)
  <2>1. GoTo(t, sched_run(k), "app", 0)
    BY <1>2, Zenon DEF sched_switch
  <2> QED
    BY <1>1, <2>1, RunStep, Zenon DEF NoNewRequest
<1>3. CASE ~SwitchWanted(k, prio)
  <2>1. GoTo(t, k, "app", 0)
    BY <1>3, Zenon DEF sched_switch
  <2>2. /\ CpuTypeOK(ws)' /\ k' = k /\ null_store' = null_store /\ pc'[t] = "app"
        /\ \A u \in Pids : u # t => pc'[u] = pc[u]
    <3>1. CpuTypeOK(ws) /\ k \in Kernel
      BY Zenon DEF CpuInv, CpuTypeOK
    <3> QED
      BY <1>1, <2>1, <3>1, GoToTypes
  <2>3. k.request \/ Topmost(k, t)
    <3>1. k.priority[t] \in Nat /\ prio \in Nat
      BY CpuConstants, Zenon DEF CpuInv, CpuTypeOK, Kernel
    <3> QED
      BY <3>1, <1>3, Zenon DEF SwitchWanted
  <2>4. IsHead(k, t)
    BY CpuConstants, Zenon DEF CpuInv, HeadOutside
  <2>5. pc'[Idle] = "app"
    BY <2>2, CpuConstants, Zenon DEF CpuInv
  <2>6. CpuInv(ws, unqueued, settled)'
    BY <2>2, <2>3, <2>4, <2>5, Zenon DEF CpuInv, HeadOutside, Settled
  <2> QED
    BY <2>2, <2>6, Zenon DEF SameThreads, NoNewRequest, SameBlocked
<1> QED
  BY <1>2, <1>3, Zenon

(* ... after mutex_unlock() and others, with the priority of the woken.    *)
LEMMA SchedSwitchStep ==
  ASSUME NEW ws, NEW unqueued, NEW settled, WindowsOK(ws, unqueued, settled),
         CpuInv(ws, unqueued, settled), NEW t \in Pids, SchedSwitch(t)
  PROVE  /\ CpuInv(ws, unqueued, settled)'
         /\ SameThreads /\ NoNewRequest /\ SameBlocked(k.status, k'.status)
<1>1. k.active = t /\ pc[t] = "switch" /\ GoTo(t, sched_switch(k, arg[t]), "app", 0)
  BY Zenon DEF SchedSwitch
<1>2. arg[t] \in Prios /\ (k.request \/ Topmost(k, t) \/ arg[t] < k.priority[t])
  BY <1>1, Zenon DEF CpuInv, CpuTypeOK, Settled
<1>3. pc[t] \notin unqueued
  BY <1>1, Zenon DEF WindowsOK
<1> QED
  BY <1>1, <1>2, <1>3, SwitchStep, Zenon

(* ... at the end of thread_wakeup(), which reads the priority only then.  *)
LEMMA WakeupSwitchStep ==
  ASSUME NEW ws, NEW unqueued, NEW settled, WindowsOK(ws, unqueued, settled),
         CpuInv(ws, unqueued, settled), NEW t \in Pids, WakeupSwitch(t)
  PROVE  /\ CpuInv(ws, unqueued, settled)'
         /\ SameThreads /\ NoNewRequest /\ SameBlocked(k.status, k'.status)
<1> DEFINE prio == k.priority[arg[t]]
<1>1. k.active = t /\ pc[t] = "wakeup" /\ GoTo(t, sched_switch(k, prio), "app", 0)
  BY Zenon DEF WakeupSwitch
<1>2. prio \in Prios /\ (k.request \/ Topmost(k, t) \/ prio < k.priority[t])
  BY <1>1, Zenon DEF CpuInv, CpuTypeOK, Kernel, Settled
<1>3. pc[t] \notin unqueued
  BY <1>1, Zenon DEF WindowsOK
<1> HIDE DEF prio
<1> QED
  BY <1>1, <1>2, <1>3, SwitchStep, Zenon
---------------------------------------------------------------------------
(* A thread that runs application code blocks: sched_set_status() finds it *)
(* at the head of its run queue.                                           *)
LEMMA BlockStep ==
  ASSUME NEW ws, NEW unqueued, NEW settled, WindowsOK(ws, unqueued, settled),
         CpuInv(ws, unqueued, settled), NEW t \in Pids, InApp(t),
         NEW st \in Blocked, NEW label \in ws \cap unqueued, NEW a \in Nat,
         GoTo(t, sched_set_status(k, t, st), label, a)
  PROVE  /\ CpuInv(ws, unqueued, settled)'
         /\ SameThreads /\ k'.request = k.request
         /\ k'.status = [k.status EXCEPT ![t] = st] /\ k'.active = t
<1> DEFINE k2 == sched_set_status(k, t, st)
<1>1. KInv(k) /\ k.active = t /\ t # Idle /\ pc[t] = "app"
  BY Zenon DEF CpuInv, CpuTypeOK, KInv, InApp
<1>2. IsHead(k, t)
  BY <1>1, CpuConstants, Zenon DEF CpuInv, HeadOutside, WindowsOK
<1>3. Runnable(k, t)
  BY <1>1, <1>2, HeadRunnable, Zenon
<1>4. /\ KInv(k2) /\ k2.active = k.active /\ k2.request = k.request
      /\ k2.threads = k.threads /\ k2.priority = k.priority
      /\ k2.status = [k.status EXCEPT ![t] = st]
  BY <1>1, <1>2, <1>3, SetStatusLeave, SMTT(30)
<1> HIDE DEF k2
<1>5. label # "switch" /\ label # "wakeup" /\ label \notin settled /\ k2 \in Kernel
  BY <1>4, Zenon DEF WindowsOK, KInv
<1>6. GoTo(t, k2, label, a) /\ CpuTypeOK(ws)
  BY Zenon DEF k2, CpuInv
<1>7. /\ CpuTypeOK(ws)' /\ k' = k2 /\ null_store' = null_store /\ pc'[t] = label
      /\ \A u \in Pids : u # t => pc'[u] = pc[u]
  BY <1>5, <1>6, GoToTypes, SMTT(30)
<1>8. Runnable(k2, Idle) /\ pc'[Idle] = "app"
  BY <1>1, <1>4, <1>7, CpuConstants DEF CpuInv, Runnable, KInv, Kernel
<1>9. CpuInv(ws, unqueued, settled)'
  BY <1>1, <1>4, <1>5, <1>7, <1>8, Zenon DEF CpuInv, KInv, HeadOutside, Settled
<1> QED
  BY <1>1, <1>4, <1>7, <1>9, Zenon DEF SameThreads

(* Making p runnable leaves the active thread outranked by p at most.      *)
LEMMA WakeFacts ==
  ASSUME NEW ws, NEW unqueued, NEW settled, CpuInv(ws, unqueued, settled),
         NEW p \in k.threads, ~Runnable(k, p), NEW st \in OnRunqueue
  PROVE  LET k2 == sched_set_status(k, p, st)
         IN  /\ KInv(k2) /\ k2.active = k.active /\ k2.request = k.request
             /\ k2.threads = k.threads /\ k2.priority = k.priority
             /\ k2.status = [k.status EXCEPT ![p] = st]
             /\ k2.bitcache # {} /\ Runnable(k2, Idle)
             /\ \A u \in Pids : IsHead(k, u) => IsHead(k2, u)
             /\ \A u \in Pids : Topmost(k, u) /\ k.priority[u] <= k.priority[p]
                                  => Topmost(k2, u)
<1> DEFINE k2 == sched_set_status(k, p, st)
<1>1. KInv(k) /\ p \in Pids
  BY Zenon DEF CpuInv, CpuTypeOK, KInv, Kernel
<1>2. /\ KInv(k2) /\ k2.active = k.active /\ k2.request = k.request
      /\ k2.threads = k.threads /\ k2.priority = k.priority
      /\ k2.status = [k.status EXCEPT ![p] = st]
      /\ \A u \in Pids : IsHead(k, u) => IsHead(k2, u)
  BY <1>1, SetStatusEnter
<1> HIDE DEF k2
<1>3. \A u \in Pids : Runnable(k2, u) => Runnable(k, u) \/ u = p
  BY <1>1, <1>2, Zenon DEF Runnable, KInv, Kernel
<1>4. Runnable(k2, Idle)
  BY <1>1, <1>2, CpuConstants DEF CpuInv, Runnable, KInv, Kernel
<1>5. k2.bitcache # {}
  BY <1>2, <1>4, CpuConstants, RunnableBit, Zenon
<1>6. \A u \in Pids : Topmost(k, u) /\ k.priority[u] <= k.priority[p]
                        => Topmost(k2, u)
  BY <1>2, <1>3, Zenon DEF Topmost
<1> QED
  BY <1>2, <1>4, <1>5, <1>6, Zenon DEF k2

(* A thread makes p runnable and goes on to the sched_switch() or          *)
(* thread_yield_higher() that lets p run if it is more urgent.             *)
LEMMA WakeStep ==
  ASSUME NEW ws, NEW unqueued, NEW settled, WindowsOK(ws, unqueued, settled),
         CpuInv(ws, unqueued, settled), NEW t \in Pids, InApp(t),
         NEW p \in k.threads, ~Runnable(k, p), NEW st \in OnRunqueue,
         NEW label \in ws, NEW a \in Nat,
         \/ label = "switch" /\ a = k.priority[p]
         \/ label = "wakeup" /\ a = p
         \/ label = "yield_higher",
         GoTo(t, sched_set_status(k, p, st), label, a)
  PROVE  /\ CpuInv(ws, unqueued, settled)'
         /\ SameThreads /\ k'.request = k.request
         /\ k'.status = [k.status EXCEPT ![p] = st] /\ k'.active = t
<1> DEFINE k2 == sched_set_status(k, p, st)
<1>1. /\ k.active = t /\ t # Idle /\ pc[t] = "app" /\ p \in Pids
      /\ k.priority \in [Pids -> Prios] /\ CpuTypeOK(ws)
  <2>1. CpuTypeOK(ws) /\ k \in Kernel
    BY Zenon DEF CpuInv, CpuTypeOK
  <2> QED
    BY <2>1, Zenon DEF InApp, Kernel
<1>2. /\ KInv(k2) /\ k2.active = k.active /\ k2.request = k.request
      /\ k2.threads = k.threads /\ k2.priority = k.priority
      /\ k2.status = [k.status EXCEPT ![p] = st]
      /\ k2.bitcache # {} /\ Runnable(k2, Idle)
      /\ \A u \in Pids : IsHead(k, u) => IsHead(k2, u)
      /\ \A u \in Pids : Topmost(k, u) /\ k.priority[u] <= k.priority[p]
                           => Topmost(k2, u)
  BY WakeFacts, Zenon
<1> HIDE DEF k2
<1>3. GoTo(t, k2, label, a) /\ k2 \in Kernel
  BY <1>2, Zenon DEF k2, KInv
<1>4. label = "switch" => a \in Prios
  BY <1>1, Zenon
<1>5. label = "wakeup" => a \in Pids
  BY <1>1, Zenon
<1>6. /\ CpuTypeOK(ws)' /\ k' = k2 /\ null_store' = null_store
      /\ pc'[t] = label /\ arg'[t] = a
      /\ \A u \in Pids : u # t => pc'[u] = pc[u]
  BY <1>1, <1>3, <1>4, <1>5, GoToTypes, SMTT(30)
<1>7. IsHead(k2, t)
  BY <1>1, <1>2, CpuConstants, Zenon DEF CpuInv, HeadOutside, WindowsOK
<1>8. pc'[Idle] = "app"
  BY <1>1, <1>6, CpuConstants, Zenon DEF CpuInv
<1>9. Settled(settled)'
  <2>1. k.priority[p] \in Nat /\ k.priority[t] \in Nat
    BY <1>1, CpuConstants, Zenon
  <2>2. k.request \/ Topmost(k, t)
    BY <1>1, Zenon DEF CpuInv, Settled, WindowsOK
  <2>3. label \notin settled
    BY Zenon DEF WindowsOK
  <2>4. CASE label = "yield_higher"
    BY <1>1, <1>2, <1>6, <2>3, <2>4, Zenon DEF Settled
  <2>5. CASE label # "yield_higher" /\ (k.priority[p] < k.priority[t])
    BY <1>1, <1>2, <1>6, <2>3, <2>5, Zenon DEF Settled
  <2>6. CASE k.priority[t] <= k.priority[p] /\ Topmost(k, t)
    BY <1>1, <1>2, <1>6, <2>6, Zenon DEF Settled
  <2>7. CASE k.request
    BY <1>1, <1>2, <1>6, <2>7, Zenon DEF Settled
  <2>8. (k.priority[p] < k.priority[t]) \/ k.priority[t] <= k.priority[p]
    BY <2>1
  <2> QED
    BY <2>2, <2>4, <2>5, <2>6, <2>7, <2>8, ZenonT(30)
<1>10. CpuInv(ws, unqueued, settled)'
  BY <1>1, <1>2, <1>6, <1>7, <1>8, <1>9, Zenon DEF CpuInv, KInv, HeadOutside
<1> QED
  BY <1>1, <1>2, <1>6, <1>10, Zenon DEF SameThreads

(* thread_flags_wake(), and msg_send_int(): p becomes runnable and a       *)
(* switch is requested.                                                    *)
Requested(p) == [sched_set_status(k, p, "PENDING") EXCEPT !.request = TRUE]

(* It leaves the run queues consistent and every head where it was.        *)
LEMMA RequestedFacts ==
  ASSUME NEW ws, NEW unqueued, NEW settled, CpuInv(ws, unqueued, settled),
         NEW p \in k.threads, ~Runnable(k, p)
  PROVE  LET k2 == Requested(p)
         IN  /\ KInv(k2) /\ k2.active = k.active /\ k2.request = TRUE
             /\ k2.threads = k.threads /\ k2.priority = k.priority
             /\ k2.status = [k.status EXCEPT ![p] = "PENDING"]
             /\ k2.bitcache # {} /\ Runnable(k2, Idle)
             /\ \A u \in Pids : IsHead(k, u) => IsHead(k2, u)
<1> DEFINE k1 == sched_set_status(k, p, "PENDING")
           k2 == [k1 EXCEPT !.request = TRUE]
<1>1. "PENDING" \in OnRunqueue
  BY Zenon DEF OnRunqueue
<1>2. /\ KInv(k1) /\ k1.active = k.active
      /\ k1.threads = k.threads /\ k1.priority = k.priority
      /\ k1.status = [k.status EXCEPT ![p] = "PENDING"]
      /\ k1.bitcache # {} /\ Runnable(k1, Idle)
      /\ \A u \in Pids : IsHead(k, u) => IsHead(k1, u)
  BY <1>1, WakeFacts, Zenon
<1> HIDE DEF k1
<1>3. /\ KInv(k2) /\ k2.active = k1.active /\ k2.threads = k1.threads
      /\ k2.priority = k1.priority /\ k2.bitcache = k1.bitcache
      /\ k2.status = k1.status /\ k2.rq = k1.rq /\ k2.request = TRUE
  BY <1>2, Request, Zenon
<1> HIDE DEF k2
<1>4. Runnable(k2, Idle) /\ \A u \in Pids : IsHead(k, u) => IsHead(k2, u)
  BY <1>2, <1>3, SMTT(30) DEF Runnable, IsHead
<1> QED
  BY <1>2, <1>3, <1>4, Zenon DEF k1, k2, Requested

(* A thread that calls it goes on in the application or to a               *)
(* thread_yield_higher().                                                  *)
LEMMA RequestedStep ==
  ASSUME NEW ws, NEW unqueued, NEW settled, WindowsOK(ws, unqueued, settled),
         CpuInv(ws, unqueued, settled), NEW t \in Pids, InApp(t),
         NEW p \in k.threads, ~Runnable(k, p),
         NEW label \in ws \ {"switch", "wakeup"}, NEW a \in Nat,
         GoTo(t, Requested(p), label, a)
  PROVE  /\ CpuInv(ws, unqueued, settled)'
         /\ SameThreads /\ k'.request = TRUE
         /\ k'.status = [k.status EXCEPT ![p] = "PENDING"] /\ k'.active = t
<1> DEFINE k2 == Requested(p)
<1>1. k.active = t /\ t # Idle /\ pc[t] = "app" /\ CpuTypeOK(ws)
  BY Zenon DEF CpuInv, InApp
<1>2. /\ KInv(k2) /\ k2.active = k.active /\ k2.request = TRUE
      /\ k2.threads = k.threads /\ k2.priority = k.priority
      /\ k2.status = [k.status EXCEPT ![p] = "PENDING"]
      /\ k2.bitcache # {} /\ Runnable(k2, Idle)
      /\ \A u \in Pids : IsHead(k, u) => IsHead(k2, u)
  BY RequestedFacts, Zenon
<1> HIDE DEF k2
<1>3. GoTo(t, k2, label, a) /\ k2 \in Kernel
  BY <1>2, Zenon DEF k2, KInv
<1>4. /\ CpuTypeOK(ws)' /\ k' = k2 /\ null_store' = null_store /\ pc'[t] = label
      /\ \A u \in Pids : u # t => pc'[u] = pc[u]
  BY <1>1, <1>3, GoToTypes, SMTT(30)
<1>5. IsHead(k2, t)
  BY <1>1, <1>2, CpuConstants, Zenon DEF CpuInv, HeadOutside, WindowsOK
<1>6. pc'[Idle] = "app"
  BY <1>1, <1>4, CpuConstants, Zenon DEF CpuInv
<1>7. CpuInv(ws, unqueued, settled)'
  BY <1>1, <1>2, <1>4, <1>5, <1>6, Zenon DEF CpuInv, KInv, HeadOutside, Settled
<1> QED
  BY <1>1, <1>2, <1>4, <1>7, Zenon DEF SameThreads

(* The rest of a call that leaves the scheduler alone, from a window in    *)
(* which nobody outranks the thread.                                       *)
LEMMA RestStep ==
  ASSUME NEW ws, NEW unqueued, NEW settled, WindowsOK(ws, unqueued, settled),
         CpuInv(ws, unqueued, settled), NEW t \in Pids, k.active = t,
         pc[t] \in settled, NEW label \in ws \ {"switch", "wakeup"}, NEW a \in Nat,
         t = Idle => label = "app", GoTo(t, k, label, a)
  PROVE  CpuInv(ws, unqueued, settled)' /\ k' = k
<1>1. CpuTypeOK(ws) /\ k \in Kernel
  BY Zenon DEF CpuInv, CpuTypeOK
<1>2. /\ CpuTypeOK(ws)' /\ k' = k /\ null_store' = null_store /\ pc'[t] = label
      /\ \A u \in Pids : u # t => pc'[u] = pc[u]
  BY <1>1, GoToTypes
<1>3. IsHead(k, t) /\ (k.request \/ Topmost(k, t))
  BY CpuConstants, Zenon DEF CpuInv, HeadOutside, Settled, WindowsOK
<1>4. pc'[Idle] = "app"
  BY <1>2, CpuConstants, Zenon DEF CpuInv
<1> QED
  BY <1>2, <1>3, <1>4, Zenon DEF CpuInv, HeadOutside, Settled
---------------------------------------------------------------------------
(* An interrupt handler that returns to state k1 of the scheduler, with    *)
(* the active thread where it was.                                         *)
LEMMA HandlerReturns ==
  ASSUME NEW ws, NEW unqueued, NEW settled, CpuInv(ws, unqueued, settled),
         NEW k2, KInv(k2), k2.active \in Pids, Runnable(k2, Idle),
         k2.priority = k.priority,
         \/ IsHead(k2, k2.active) /\ Topmost(k2, k2.active)
         \/ /\ k2.active = k.active /\ k2.request = k.request
            /\ \A u \in Pids : IsHead(k, u) => IsHead(k2, u)
            /\ Topmost(k, k.active) => Topmost(k2, k.active),
         k' = k2, UNCHANGED <<pc, arg, null_store>>
  PROVE  CpuInv(ws, unqueued, settled)'
<1>1. CpuTypeOK(ws)'
  BY Zenon DEF CpuInv, CpuTypeOK, KInv
<1>2. k2.active # NULL /\ k.active # NULL /\ k.active \in Pids
  BY CpuConstants, Zenon DEF CpuInv
<1>3. CASE IsHead(k2, k2.active) /\ Topmost(k2, k2.active)
  BY <1>1, <1>3, Zenon DEF CpuInv, KInv, HeadOutside, Settled
<1>4. CASE /\ k2.active = k.active /\ k2.request = k.request
           /\ \A u \in Pids : IsHead(k, u) => IsHead(k2, u)
           /\ Topmost(k, k.active) => Topmost(k2, k.active)
  <2>1. HeadOutside(unqueued)'
    BY <1>2, <1>4, Zenon DEF CpuInv, HeadOutside
  <2>2. Settled(settled)'
    BY <1>4, Zenon DEF CpuInv, Settled
  <2> QED
    BY <1>1, <2>1, <2>2, Zenon DEF CpuInv, KInv
<1> QED
  BY <1>3, <1>4, Zenon

(* One that has made p runnable and calls sched_switch().                  *)
LEMMA IsrWakeStep ==
  ASSUME NEW ws, NEW unqueued, NEW settled, WindowsOK(ws, unqueued, settled),
         CpuInv(ws, unqueued, settled),
         NEW p \in k.threads, ~Runnable(k, p), NEW st \in OnRunqueue,
         IsrSwitch(sched_set_status(k, p, st), k.priority[p]),
         UNCHANGED <<pc, arg>>
  PROVE  /\ CpuInv(ws, unqueued, settled)'
         /\ SameThreads /\ NoNewRequest
         /\ SameBlocked([k.status EXCEPT ![p] = st], k'.status)
<1> DEFINE k1 == sched_set_status(k, p, st)
           prio == k.priority[p]
           k2 == cortexm_isr_end(sched_switch_isr(k1, prio))
<1>1. /\ k.active \in Pids /\ k.active # NULL /\ k \in Kernel
      /\ prio \in Prios /\ k.priority \in [Pids -> Prios]
  BY CpuConstants, Zenon DEF CpuInv, CpuTypeOK, Kernel
<1>2. /\ KInv(k1) /\ k1.active = k.active /\ k1.request = k.request
      /\ k1.threads = k.threads /\ k1.priority = k.priority
      /\ k1.status = [k.status EXCEPT ![p] = st]
      /\ k1.bitcache # {} /\ Runnable(k1, Idle)
      /\ \A u \in Pids : IsHead(k, u) => IsHead(k1, u)
      /\ \A u \in Pids : Topmost(k, u) /\ k.priority[u] <= k.priority[p]
                           => Topmost(k1, u)
  BY WakeFacts, Zenon
<1>3. IsrSwitch(k1, prio)
  BY Zenon
<1> HIDE DEF k1, prio
<1>4. k' = k2 /\ null_store' = null_store
  BY <1>1, <1>2, <1>3, Zenon DEF IsrSwitch
<1>5. /\ KInv(k2) /\ k2.active \in Pids
      /\ k2.threads = k1.threads /\ k2.priority = k1.priority
      /\ \A u \in Pids : Runnable(k2, u) <=> Runnable(k1, u)
      /\ \A u \in Pids : k1.status[u] \in Blocked => k2.status[u] = k1.status[u]
      /\ \/ IsHead(k2, k2.active) /\ Topmost(k2, k2.active) /\ ~k2.request
         \/ ~k1.request /\ ~SwitchWanted(k1, prio) /\ k2 = k1
  BY <1>1, <1>2, IsrEnd, Zenon
<1> HIDE DEF k2
<1>6. SameBlocked(k1.status, k2.status)
  BY <1>2, <1>5, BlockedStay, Zenon
<1>7. ~SwitchWanted(k1, prio) => k.priority[k.active] <= prio
  <2>1. k.priority[k.active] \in Nat /\ prio \in Nat
    BY <1>1, CpuConstants, Zenon
  <2> QED
    BY <2>1, <1>2, SMTT(30) DEF SwitchWanted
<1>8. \/ IsHead(k2, k2.active) /\ Topmost(k2, k2.active)
      \/ /\ k2.active = k.active /\ k2.request = k.request
         /\ \A u \in Pids : IsHead(k, u) => IsHead(k2, u)
         /\ Topmost(k, k.active) => Topmost(k2, k.active)
  BY <1>1, <1>2, <1>5, <1>7, Zenon DEF prio
<1>9. Runnable(k2, Idle) /\ k2.priority = k.priority
  BY <1>2, <1>5, CpuConstants, Zenon
<1>10. CpuInv(ws, unqueued, settled)'
  BY <1>4, <1>5, <1>8, <1>9, HandlerReturns, Zenon
<1> QED
  BY <1>2, <1>4, <1>5, <1>6, <1>10, Zenon DEF SameThreads, NoNewRequest

(* One that ends with the requests it has found or made.                   *)
LEMMA IsrReturnStep ==
  ASSUME NEW ws, NEW unqueued, NEW settled, WindowsOK(ws, unqueued, settled),
         CpuInv(ws, unqueued, settled), k' = cortexm_isr_end(k),
         UNCHANGED <<pc, arg, null_store>>
  PROVE  /\ CpuInv(ws, unqueued, settled)'
         /\ SameThreads /\ NoNewRequest /\ SameBlocked(k.status, k'.status)
<1> DEFINE k2 == cortexm_isr_end(k)
<1>1. KInv(k) /\ k.active \in Pids /\ Runnable(k, Idle)
  BY Zenon DEF CpuInv, CpuTypeOK, KInv
<1>2. k.bitcache # {}
  BY <1>1, CpuConstants, RunnableBit, Zenon
<1>3. /\ KInv(k2) /\ k2.active \in Pids
      /\ k2.threads = k.threads /\ k2.priority = k.priority
      /\ \A u \in Pids : Runnable(k2, u) <=> Runnable(k, u)
      /\ \A u \in Pids : k.status[u] \in Blocked => k2.status[u] = k.status[u]
      /\ \/ IsHead(k2, k2.active) /\ Topmost(k2, k2.active) /\ ~k2.request
         \/ ~k.request /\ k2 = k
  BY <1>1, <1>2, IsrReturn, Zenon
<1>4. k' = k2
  BY Zenon
<1> HIDE DEF k2
<1>5. SameBlocked(k.status, k2.status)
  BY <1>1, <1>3, BlockedStay, Zenon
<1>6. CpuInv(ws, unqueued, settled)'
  BY <1>1, <1>3, <1>4, CpuConstants, HandlerReturns, Zenon
<1> QED
  BY <1>3, <1>4, <1>5, <1>6, Zenon DEF SameThreads, NoNewRequest

(* One that has called thread_flags_wake() or msg_send_int().              *)
LEMMA IsrRequestedStep ==
  ASSUME NEW ws, NEW unqueued, NEW settled, WindowsOK(ws, unqueued, settled),
         CpuInv(ws, unqueued, settled), NEW p \in k.threads, ~Runnable(k, p),
         k' = cortexm_isr_end(Requested(p)), UNCHANGED <<pc, arg, null_store>>
  PROVE  /\ CpuInv(ws, unqueued, settled)'
         /\ SameThreads /\ NoNewRequest
         /\ SameBlocked([k.status EXCEPT ![p] = "PENDING"], k'.status)
<1> DEFINE k1 == Requested(p)
           k2 == cortexm_isr_end(k1)
<1>1. /\ KInv(k1) /\ k1.active = k.active /\ k1.request = TRUE
      /\ k1.threads = k.threads /\ k1.priority = k.priority
      /\ k1.status = [k.status EXCEPT ![p] = "PENDING"]
      /\ k1.bitcache # {} /\ Runnable(k1, Idle)
  BY RequestedFacts, Zenon
<1>2. k' = k2 /\ k.active \in Pids
  BY Zenon DEF CpuInv
<1> HIDE DEF k1
<1>3. /\ KInv(k2) /\ k2.active \in Pids
      /\ k2.threads = k1.threads /\ k2.priority = k1.priority
      /\ \A u \in Pids : Runnable(k2, u) <=> Runnable(k1, u)
      /\ \A u \in Pids : k1.status[u] \in Blocked => k2.status[u] = k1.status[u]
      /\ \/ IsHead(k2, k2.active) /\ Topmost(k2, k2.active) /\ ~k2.request
         \/ ~k1.request /\ k2 = k1
  BY <1>1, <1>2, IsrReturn, Zenon
<1> HIDE DEF k2
<1>4. SameBlocked(k1.status, k2.status)
  BY <1>1, <1>3, BlockedStay, Zenon
<1>5. Runnable(k2, Idle) /\ k2.priority = k.priority
  BY <1>1, <1>3, CpuConstants, Zenon
<1>6. CpuInv(ws, unqueued, settled)'
  BY <1>1, <1>2, <1>3, <1>5, HandlerReturns, Zenon
<1> QED
  BY <1>1, <1>2, <1>3, <1>4, <1>6, Zenon DEF SameThreads, NoNewRequest
---------------------------------------------------------------------------
(* thread_sleep() and thread_wakeup(), from a thread or an interrupt.      *)
LEMMA SleepStep ==
  ASSUME NEW ws, NEW unqueued, NEW settled, WindowsOK(ws, unqueued, settled),
         "yield_higher" \in ws \cap unqueued,
         CpuInv(ws, unqueued, settled), NEW t \in Pids, ThreadSleep(t)
  PROVE  /\ CpuInv(ws, unqueued, settled)'
         /\ SameThreads /\ k'.request = k.request
         /\ k'.status = [k.status EXCEPT ![t] = "SLEEPING"]
<1>1. "SLEEPING" \in Blocked /\ 0 \in Nat
  BY Zenon DEF Blocked
<1>2. InApp(t) /\ GoTo(t, sched_set_status(k, t, "SLEEPING"), "yield_higher", 0)
  BY Zenon DEF ThreadSleep
<1> QED
  BY <1>1, <1>2, BlockStep

(* thread_wakeup() of a thread that sleeps.                                *)
LEMMA WakeupStep ==
  ASSUME NEW ws, NEW unqueued, NEW settled, WindowsOK(ws, unqueued, settled),
         "wakeup" \in ws,
         CpuInv(ws, unqueued, settled), NEW t \in Pids, NEW p \in Pids,
         ThreadWakeup(t, p)
  PROVE  /\ CpuInv(ws, unqueued, settled)'
         /\ SameThreads /\ k'.request = k.request
         /\ k'.status = [k.status EXCEPT ![p] = "RUNNING"]
         /\ k.status[p] = "SLEEPING"
<1>1. "RUNNING" \in OnRunqueue /\ "SLEEPING" \notin OnRunqueue /\ p \in Nat
  BY CpuConstants, Zenon DEF OnRunqueue
<1>2. /\ InApp(t) /\ p \in k.threads /\ k.status[p] = "SLEEPING"
      /\ GoTo(t, sched_set_status(k, p, "RUNNING"), "wakeup", p)
  BY Zenon DEF ThreadWakeup, Sleeping
<1>3. ~Runnable(k, p)
  BY <1>1, <1>2, Zenon DEF Runnable
<1> QED
  BY <1>1, <1>2, <1>3, WakeStep

(* ... by an interrupt handler.                                            *)
LEMMA IsrWakeupStep ==
  ASSUME NEW ws, NEW unqueued, NEW settled, WindowsOK(ws, unqueued, settled),
         CpuInv(ws, unqueued, settled), NEW p \in Pids, IsrWakeup(p)
  PROVE  /\ CpuInv(ws, unqueued, settled)'
         /\ SameThreads /\ NoNewRequest
         /\ SameBlocked([k.status EXCEPT ![p] = "RUNNING"], k'.status)
         /\ k.status[p] = "SLEEPING"
<1>1. "RUNNING" \in OnRunqueue /\ "SLEEPING" \notin OnRunqueue
  BY Zenon DEF OnRunqueue
<1>2. /\ p \in k.threads /\ k.status[p] = "SLEEPING"
      /\ IsrSwitch(sched_set_status(k, p, "RUNNING"), k.priority[p])
      /\ UNCHANGED <<pc, arg>>
  BY Zenon DEF IsrWakeup, Sleeping
<1>3. ~Runnable(k, p)
  BY <1>1, <1>2, Zenon DEF Runnable
<1> QED
  BY <1>1, <1>2, <1>3, IsrWakeStep, Zenon

(* A thread makes p runnable and blocks itself in the same critical        *)
(* section.                                                                *)
LEMMA WakeBlockStep ==
  ASSUME NEW ws, NEW unqueued, NEW settled, WindowsOK(ws, unqueued, settled),
         CpuInv(ws, unqueued, settled), NEW t \in Pids, InApp(t),
         NEW p \in k.threads, ~Runnable(k, p), NEW st \in Blocked,
         NEW label \in ws \cap unqueued, NEW a \in Nat,
         GoTo(t, sched_set_status(sched_set_status(k, p, "PENDING"), t, st), label, a)
  PROVE  /\ CpuInv(ws, unqueued, settled)'
         /\ SameThreads /\ k'.request = k.request
         /\ k'.status = [[k.status EXCEPT ![p] = "PENDING"] EXCEPT ![t] = st]
<1> DEFINE k1 == sched_set_status(k, p, "PENDING")
           k2 == sched_set_status(k1, t, st)
<1>1. KInv(k) /\ k.active = t /\ t # Idle /\ pc[t] = "app" /\ "PENDING" \in OnRunqueue
  BY Zenon DEF CpuInv, CpuTypeOK, KInv, InApp, OnRunqueue
<1>2. IsHead(k, t)
  BY <1>1, CpuConstants, Zenon DEF CpuInv, HeadOutside, WindowsOK
<1>3. /\ KInv(k1) /\ k1.active = k.active /\ k1.request = k.request
      /\ k1.threads = k.threads /\ k1.priority = k.priority
      /\ k1.status = [k.status EXCEPT ![p] = "PENDING"]
      /\ Runnable(k1, Idle) /\ IsHead(k1, t)
  BY <1>1, <1>2, WakeFacts, Zenon
<1>4. GoTo(t, k2, label, a) /\ CpuTypeOK(ws)
  BY Zenon DEF CpuInv
<1> HIDE DEF k1
<1>5. Runnable(k1, t)
  BY <1>3, HeadRunnable, Zenon
<1>6. /\ KInv(k2) /\ k2.active = k1.active /\ k2.request = k1.request
      /\ k2.threads = k1.threads /\ k2.priority = k1.priority
      /\ k2.status = [k1.status EXCEPT ![t] = st]
  <2>1. KInv(k1) /\ Runnable(k1, t) /\ IsHead(k1, t)
    BY <1>3, <1>5, Zenon
  <2> QED
    BY <2>1, SetStatusLeave
<1> HIDE DEF k2
<1>7. label # "switch" /\ label # "wakeup" /\ label \notin settled /\ k2 \in Kernel
  BY <1>6, Zenon DEF WindowsOK, KInv
<1>8. /\ CpuTypeOK(ws)' /\ k' = k2 /\ null_store' = null_store /\ pc'[t] = label
      /\ \A u \in Pids : u # t => pc'[u] = pc[u]
  BY <1>4, <1>7, GoToTypes, SMTT(30)
<1>9. Runnable(k2, Idle) /\ pc'[Idle] = "app"
  <2>1. k1.status \in [Pids -> Status] /\ Idle \in Pids
    BY <1>3, CpuConstants, SchedConstants, Zenon DEF KInv, Kernel, Idle, Pids
  <2>2. k2.status[Idle] = k1.status[Idle]
    BY <1>1, <1>6, <2>1, Zenon
  <2>3. pc'[Idle] = pc[Idle]
    BY <1>1, <1>8, <2>1, Zenon
  <2> QED
    BY <1>3, <2>2, <2>3, Zenon DEF CpuInv, Runnable
<1>10. CpuInv(ws, unqueued, settled)'
  BY <1>1, <1>3, <1>6, <1>7, <1>8, <1>9, Zenon DEF CpuInv, KInv, HeadOutside, Settled
<1> QED
  BY <1>3, <1>6, <1>8, <1>10, Zenon DEF SameThreads

(* thread_yield() in a call whose thread need not be the head of its run   *)
(* queue: it may have been woken meanwhile.                                *)
LEMMA YieldStep ==
  ASSUME NEW ws, NEW unqueued, NEW settled, WindowsOK(ws, unqueued, settled),
         CpuInv(ws, unqueued, settled), NEW t \in Pids, k.active = t,
         pc[t] \in unqueued, NEW label \in ws \cap unqueued, NEW a \in Nat,
         GoTo(t, thread_yield(k), label, a)
  PROVE  /\ CpuInv(ws, unqueued, settled)'
         /\ SameThreads /\ k'.request = k.request /\ k'.status = k.status
<1> DEFINE k2 == thread_yield(k)
<1>1. KInv(k) /\ k.active \in Pids /\ pc[Idle] = "app" /\ "app" \notin unqueued
  BY Zenon DEF CpuInv, CpuTypeOK, KInv, WindowsOK
<1>2. /\ KInv(k2) /\ k2.active = k.active /\ k2.request = k.request
      /\ k2.threads = k.threads /\ k2.priority = k.priority
      /\ k2.status = k.status
  BY <1>1, Yield, Zenon
<1>3. GoTo(t, k2, label, a) /\ CpuTypeOK(ws)
  BY Zenon DEF CpuInv
<1> HIDE DEF k2
<1>4. label # "switch" /\ label # "wakeup" /\ label \notin settled /\ k2 \in Kernel
  BY <1>2, Zenon DEF WindowsOK, KInv
<1>5. /\ CpuTypeOK(ws)' /\ k' = k2 /\ null_store' = null_store /\ pc'[t] = label
      /\ \A u \in Pids : u # t => pc'[u] = pc[u]
  BY <1>3, <1>4, GoToTypes
<1>6. Runnable(k2, Idle) /\ pc'[Idle] = "app"
  BY <1>1, <1>2, <1>5, CpuConstants, Zenon DEF CpuInv, Runnable
<1>7. CpuInv(ws, unqueued, settled)'
  BY <1>1, <1>2, <1>4, <1>5, <1>6, Zenon DEF CpuInv, KInv, HeadOutside, Settled
<1> QED
  BY <1>2, <1>5, <1>7, Zenon DEF SameThreads
============================================================================
