----------------------------- MODULE MboxProofs -----------------------------
(***************************************************************************)
(* What Mbox.cfg checks of core/mbox.c on a mailbox with one place, for    *)
(* any number of threads and places and any width of unsigned int.         *)
(***************************************************************************)
EXTENDS Mbox, CpuProofs

Unqueued == {"yield_higher", "mbox_wait", "mbox_yield"}
AtEase   == {"app", "mbox_woken"}
Waiting  == {"mbox_wait", "mbox_yield", "mbox_woken"}

IsBlocked(t) == k.status[t] = "MBOX_BLOCKED"

(* The scheduler's part of the invariant.                                  *)
CoreInv ==
  /\ CpuInv(MboxWindows, Unqueued, AtEase)
  /\ ~k.request
  /\ k.threads = Pids /\ k.priority = Prio

(* The lists.                                                              *)
ListInv ==
  /\ readers \in Seq(Pids) /\ writers \in Seq(Pids)
  /\ BlockedAreListed
  /\ \A t \in Pids : In(t, 1) => t \in Writers

(* Every place of the queue has been written; or it is still in its first  *)
(* round, and those before write_count have.                               *)
Filled  == \A j \in 0..(Size - 1) : msg_array[j] \in Message
Filling ==
  /\ cib.read_count <= cib.write_count /\ cib.write_count < Size
  /\ \A j \in 0..(cib.write_count - 1) : msg_array[j] \in Message

(* The queue.                                                              *)
QueueInv ==
  /\ cib \in CibType /\ cib.mask = (Size - 1) % 2^W
  /\ msg_array \in [0..(Size - 1) -> Message \cup {NoMsg}]
  /\ sent \in [Writers -> 0..(Numbers - 1)] /\ got \in [Writers -> 0..(Numbers - 1)]
  /\ slipped \in BOOLEAN
  /\ Filled \/ Filling
  /\ Size = 0 => cib_avail(cib) = 0

(* Those who wait: a reader that is no longer in the list has its message; *)
(* a writer waits only once the queue has been full, and leaves the list   *)
(* only when a message has been taken.                                     *)
MailInv ==
  /\ wait_data \in [Pids -> Message \cup {NoMsg}]
  /\ \A t \in Pids : In(t, 0) /\ t \notin Range(readers) => wait_data[t] \in Message
  /\ \A t \in Pids : In(t, 1) => Filled /\ (t \in Range(writers) \/ Size # 0)
  /\ OnlySlipsHarm

(* The inductive invariant.                                                *)
MboxInv == CoreInv /\ ListInv /\ QueueInv /\ MailInv

(* Only a reader that has left the list has a message in its buffer.       *)
BufferInv ==
  \A t \in Pids : /\ wait_data[t] # NoMsg => In(t, 0) /\ t \notin Range(readers)
                  /\ In(t, 0) => t \in Readers

(* What is inductive beside it.                                            *)
OrderInv == BufferInv /\ NoLossNoReordering

(* What a buffer or a place may hold.                                      *)
Letter == Message \cup {NoMsg}
---------------------------------------------------------------------------
(* The windows of this module are a sensible choice.                       *)
LEMMA MboxSets ==
  /\ WindowsOK(MboxWindows, Unqueued, AtEase)
  /\ "MBOX_BLOCKED" \in Blocked /\ "SLEEPING" \in Blocked
  /\ "PENDING" \in OnRunqueue
  /\ NoMsg \notin Message
<1>1. WindowsOK(MboxWindows, Unqueued, AtEase)
  BY Zenon DEF WindowsOK, MboxWindows, Unqueued, AtEase
<1>2. NoMsg \notin Message
  BY MboxConstants DEF NoMsg, Message
<1> QED
  BY <1>1, <1>2, Zenon DEF Blocked, OnRunqueue

(* The size of the mailbox leaves room in an unsigned int.                 *)
LEMMA Widths ==
  /\ 2^W \in Nat /\ 2^(W - 1) \in Nat /\ Size \in Nat /\ Numbers \in Nat \ {0}
  /\ 2^W = 2 * 2^(W - 1) /\ 2 * Size <= 2^(W - 1) /\ 2^(W - 1) >= 2
  /\ Size # 0 => 2^W % Size = 0
<1>1. W - 2 \in 0..(W - 2) /\ Numbers \in Nat \ {0}
  BY CibConstants, MboxConstants
<1>2. 2^(W - 2) \in Nat \ {0}
  BY <1>1, PowersOfTwo, Zenon
<1>3. Size \in Nat /\ Size <= 2^(W - 2) /\ (Size # 0 => 2^W % Size = 0)
  <2>1. CASE Size = 0
    BY <1>2, <2>1
  <2>2. CASE Size # 0
    <3>1. PICK i \in 0..(W - 2) : Size = 2^i
      BY <2>2, MboxConstants, Zenon
    <3> QED
      BY <3>1, PowersOfTwo, Zenon
  <2> QED
    BY <2>1, <2>2, Zenon
<1> QED
  BY <1>1, <1>2, <1>3, PowersOfTwo

(* Counters that wrap around at n: cib_put_unsafe().                       *)
LEMMA PutCounts ==
  ASSUME NEW n \in Nat, n > 1, NEW r \in 0..(n - 1), NEW w \in 0..(n - 1)
  PROVE  /\ (w + 1) % n \in 0..(n - 1) /\ (w - r) % n \in 0..(n - 1)
         /\ ((w - r) % n) < n - 1 => (((w + 1) % n) - r) % n = ((w - r) % n) + 1
         /\ w < n - 1 => (w + 1) % n = w + 1
         /\ r <= w => (w - r) % n = w - r
  OBVIOUS

(* Counters that wrap around at n: cib_get_unsafe().                       *)
LEMMA GetCounts ==
  ASSUME NEW n \in Nat, n > 1, NEW r \in 0..(n - 1), NEW w \in 0..(n - 1),
         ((w - r) % n) # 0
  PROVE  /\ (r + 1) % n \in 0..(n - 1)
         /\ (w - ((r + 1) % n)) % n = ((w - r) % n) - 1
         /\ r < n - 1 => (r + 1) % n = r + 1
  OBVIOUS

(* The index of a counter.                                                 *)
LEMMA IndexIs ==
  ASSUME NEW size \in Nat, size # 0, NEW x \in Nat
  PROVE  x % size \in 0..(size - 1) /\ (x < size => x % size = x)
  OBVIOUS

(* Division with remainder.                                                *)
LEMMA Quotient ==
  ASSUME NEW x \in Nat, NEW d \in Nat, d > 0
  PROVE  x % d \in 0..(d - 1) /\ \E q \in Nat : x = q * d + (x % d)
  OBVIOUS

(* Below d, what is added to a multiple of d is the remainder.             *)
LEMMA Remainder ==
  ASSUME NEW d \in Nat, d > 0, NEW q \in Nat, NEW r \in 0..(d - 1)
  PROVE  (q * d + r) % d = r
  OBVIOUS

(* Fewer than size places on is another place.                             *)
LEMMA Apart ==
  ASSUME NEW x \in Nat, NEW size \in Nat, NEW d \in 1..(size - 1)
  PROVE  (x + d) % size # x % size
<1> DEFINE r == x % size
<1>1. size > 0 /\ d \in Nat
  OBVIOUS
<1>2. PICK q \in Nat : x = q * size + r
  BY <1>1, Quotient
<1>3. r \in 0..(size - 1)
  BY <1>1, Quotient
<1> HIDE DEF r
<1>4. CASE r + d < size
  <2>1. x + d = q * size + (r + d) /\ r + d \in 0..(size - 1)
    BY <1>2, <1>3, <1>4
  <2>2. (q * size + (r + d)) % size = r + d
    BY <1>1, <2>1, Remainder, Zenon
  <2> QED
    BY <1>3, <2>1, <2>2 DEF r
<1>5. CASE r + d >= size
  <2>1. x + d = (q + 1) * size + (r + d - size) /\ r + d - size \in 0..(size - 1)
        /\ q + 1 \in Nat
    BY <1>2, <1>3, <1>5
  <2>2. ((q + 1) * size + (r + d - size)) % size = r + d - size
    BY <1>1, <2>1, Remainder, Zenon
  <2> QED
    BY <1>3, <2>1, <2>2 DEF r
<1> QED
  BY <1>3, <1>4, <1>5

(* Once around a counter is the same place.                                *)
LEMMA Around ==
  ASSUME NEW x \in Nat, NEW size \in Nat, size > 0, NEW n \in Nat, n % size = 0
  PROVE  (x + n) % size = x % size
<1> DEFINE r == x % size
<1>1. PICK q \in Nat : x = q * size + r
  BY Quotient
<1>2. PICK p \in Nat : n = p * size
  BY Quotient
<1>3. r \in 0..(size - 1)
  BY Quotient
<1> HIDE DEF r
<1>4. x + n = (q + p) * size + r /\ q + p \in Nat
  BY <1>1, <1>2, <1>3
<1>5. (x + n) % size = r
  BY <1>3, <1>4, Remainder
<1> QED
  BY <1>5 DEF r

(* cib_full() without the conversions.                                     *)
LEMMA FullIs ==
  ASSUME QueueInv
  PROVE  /\ cib_avail(cib) \in 0..(2^W - 1)
         /\ Size # 0 => cib.mask = Size - 1
         /\ cib_avail(cib) <= Size => (cib_full(cib) <=> cib_avail(cib) = Size)
         /\ ~cib_full(cib) => Size # 0
<1> DEFINE n == 2^W
           h == 2^(W - 1)
           x == (cib.write_count - cib.read_count) % n
<1>1. /\ n \in Nat /\ h \in Nat /\ Size \in Nat /\ n = 2 * h /\ 2 * Size <= h /\ h >= 2
  BY Widths, Zenon
<1>2. cib.write_count \in 0..(n - 1) /\ cib.read_count \in 0..(n - 1)
      /\ cib.mask = (Size - 1) % n
  BY Zenon DEF QueueInv, CibType, UInt
<1>3. cib_avail(cib) = x
  BY Zenon DEF cib_avail
<1>4. cib_full(cib) <=> (IF x >= h THEN x - n ELSE x)
                          > (IF cib.mask >= h THEN cib.mask - n ELSE cib.mask)
  BY <1>3, Zenon DEF cib_full, Signed
<1>5. Size = 0 => x = 0
  BY <1>3, Zenon DEF QueueInv
<1> HIDE DEF n, h
<1>6. x \in 0..(n - 1)
  BY <1>1, <1>2
<1> HIDE DEF x
<1>7. (Size # 0 => cib.mask = Size - 1) /\ (Size = 0 => cib.mask = n - 1)
  BY <1>1, <1>2
<1>8. x <= Size => (cib_full(cib) <=> x = Size)
  BY <1>1, <1>4, <1>5, <1>6, <1>7
<1>9. ~cib_full(cib) => Size # 0
  BY <1>1, <1>4, <1>5, <1>6, <1>7
<1> QED
  BY <1>3, <1>6, <1>7, <1>8, <1>9, Zenon DEF n

(* A full queue has been written all over.                                 *)
LEMMA FullIsFilled ==
  ASSUME QueueInv, cib_full(cib)
  PROVE  Filled
<1> SUFFICES ASSUME Filling PROVE FALSE
  BY Zenon DEF QueueInv
<1> DEFINE n == 2^W
           r == cib.read_count
           w == cib.write_count
<1>1. n \in Nat /\ n > 1 /\ Size \in Nat
  BY Widths
<1>2. r \in 0..(n - 1) /\ w \in 0..(n - 1) /\ r <= w /\ w < Size
  BY Zenon DEF QueueInv, CibType, UInt, Filling
<1>3. cib_avail(cib) = (w - r) % n
  BY Zenon DEF cib_avail
<1> HIDE DEF n, r, w
<1>4. cib_avail(cib) = w - r
  BY <1>1, <1>2, <1>3, PutCounts, Zenon
<1>5. cib_avail(cib) <= Size /\ cib_avail(cib) # Size
  BY <1>1, <1>2, <1>4
<1> QED
  BY <1>5, FullIs, Zenon

(* A message of s is one.                                                  *)
LEMMA MailIsMessage ==
  ASSUME QueueInv, NEW s \in Writers, Count(s)
  PROVE  /\ Mail(s) \in Message
         /\ sent' \in [Writers -> 0..(Numbers - 1)]
<1>1. sent \in [Writers -> 0..(Numbers - 1)] /\ slipped \in BOOLEAN
      /\ Numbers \in Nat \ {0}
  BY Widths, Zenon DEF QueueInv
<1>2. NextNum(s) \in 0..(Numbers - 1)
  <2>1. sent[s] + 1 \in Nat
    BY <1>1
  <2>2. (sent[s] + 1) % Numbers \in 0..(Numbers - 1)
    BY <1>1, <2>1
  <2> QED
    BY <1>1, <2>2 DEF NextNum
<1>3. Mail(s) \in Message
  BY <1>2, Zenon DEF Mail, Message
<1>4. sent' \in [Writers -> 0..(Numbers - 1)]
  BY <1>1, <1>2, Zenon DEF Count
<1> QED
  BY <1>3, <1>4, Zenon

(* "copy msg into queue"                                                   *)
LEMMA StoreKeeps ==
  ASSUME QueueInv, NEW s \in Writers, Store(s), Size # 0,
         got' = got, slipped' \in BOOLEAN
  PROVE  /\ QueueInv'
         /\ Filled => Filled'
         /\ (cib_avail(cib) <= Size /\ ~cib_full(cib)) => cib_avail(cib)' <= Size
<1> DEFINE n == 2^W
           r == cib.read_count
           w == cib.write_count
           i == PutIndex(cib)
           m == Mail(s)
<1>1. n \in Nat /\ n > 1 /\ Size \in Nat /\ Size < n - 1
  BY Widths
<1>2. /\ r \in 0..(n - 1) /\ w \in 0..(n - 1) /\ cib \in CibType
      /\ cib_avail(cib) = (w - r) % n
      /\ msg_array \in [0..(Size - 1) -> Message \cup {NoMsg}]
  BY Zenon DEF QueueInv, CibType, UInt, cib_avail
<1>3. cib.mask = Size - 1 /\ cib.mask # n - 1
  BY <1>1, FullIs
<1>4. i = w % Size
  BY <1>1, <1>3 DEF PutIndex, And
<1>5. /\ cib' = [cib EXCEPT !.write_count = (w + 1) % n]
      /\ msg_array' = [msg_array EXCEPT ![i] = m] /\ Count(s)
  BY Zenon DEF Store, AfterPut
<1>6. m \in Message /\ sent' \in [Writers -> 0..(Numbers - 1)]
  BY <1>5, MailIsMessage, Zenon
<1>7. i \in 0..(Size - 1) /\ (w < Size => i = w)
  <2>1. w \in Nat
    BY <1>1, <1>2
  <2> HIDE DEF w, i
  <2> QED
    BY <1>1, <1>4, <2>1, IndexIs, Zenon
<1>8. (w + 1) % n \in 0..(n - 1)
  <2> HIDE DEF w, n
  <2> QED
    BY <1>1, <1>2, PutCounts, Zenon
<1>9. /\ cib' \in CibType /\ cib'.write_count = (w + 1) % n
      /\ cib'.read_count = r /\ cib'.mask = cib.mask
  BY <1>2, <1>5, <1>8, Zenon DEF CibType, UInt
<1>10. cib_avail(cib)' = (((w + 1) % n) - r) % n
  BY <1>9, Zenon DEF cib_avail
<1> HIDE DEF n, i, m
<1>11. /\ msg_array' \in [0..(Size - 1) -> Message \cup {NoMsg}]
       /\ \A j \in 0..(Size - 1) : msg_array'[j] = IF j = i THEN m ELSE msg_array[j]
  BY <1>2, <1>5, <1>6, <1>7, Zenon
<1>12. Filled => Filled'
  BY <1>6, <1>11, Zenon DEF Filled
<1>13. Filled' \/ Filling'
  <2> SUFFICES ASSUME Filling, ~Filled PROVE Filled' \/ Filling'
    BY <1>12, Zenon DEF QueueInv
  <2>1. r <= w /\ w < Size /\ i = w /\ \A j \in 0..(w - 1) : msg_array[j] \in Message
    BY <1>7, Zenon DEF Filling
  <2>2. cib'.write_count = w + 1
    <3> HIDE DEF w, r
    <3> QED
      BY <1>1, <1>2, <1>9, <2>1, PutCounts
  <2>3. \A j \in 0..w : msg_array'[j] \in Message
    BY <1>1, <1>2, <1>6, <1>11, <2>1, SMTT(30)
  <2>4. CASE w + 1 < Size
    BY <1>2, <1>9, <2>1, <2>2, <2>3, <2>4 DEF Filling
  <2>5. CASE w + 1 = Size
    BY <2>3, <2>5, <1>2 DEF Filled
  <2> QED
    BY <1>1, <1>2, <2>1, <2>4, <2>5
<1>14. (cib_avail(cib) <= Size /\ ~cib_full(cib)) => cib_avail(cib)' <= Size
  <2> SUFFICES ASSUME cib_avail(cib) <= Size, ~cib_full(cib)
               PROVE  cib_avail(cib)' <= Size
    BY Zenon
  <2>1. cib_avail(cib) \in Nat /\ cib_avail(cib) < Size
    BY <1>1, FullIs
  <2> HIDE DEF w, r
  <2>2. cib_avail(cib)' = cib_avail(cib) + 1
    <3>1. ((w - r) % n) < n - 1
      BY <1>1, <1>2, <2>1
    <3>2. (((w + 1) % n) - r) % n = ((w - r) % n) + 1
      BY <1>1, <1>2, <3>1, PutCounts, Zenon
    <3> QED
      BY <1>2, <1>10, <3>2, Zenon
  <2> QED
    BY <1>1, <2>1, <2>2
<1>15. QueueInv'
  BY <1>6, <1>9, <1>11, <1>13, Zenon DEF QueueInv
<1> QED
  BY <1>12, <1>14, <1>15, Zenon

(* "copy msg from queue"                                                   *)
LEMMA FetchKeeps ==
  ASSUME QueueInv, cib_avail(cib) # 0, Take(msg_array[GetIndex(cib)]),
         cib' = AfterGet(cib), UNCHANGED <<msg_array, sent, slipped>>
  PROVE  /\ QueueInv' /\ Size # 0 /\ msg_array[GetIndex(cib)] \in Message
         /\ Filled => Filled'
         /\ cib_avail(cib)' = cib_avail(cib) - 1 /\ cib_avail(cib) \in Nat
<1> DEFINE n == 2^W
           r == cib.read_count
           w == cib.write_count
           i == GetIndex(cib)
           m == msg_array[i]
<1>1. n \in Nat /\ n > 1 /\ Size \in Nat /\ Size < n - 1 /\ Numbers \in Nat \ {0}
  BY Widths
<1>2. /\ r \in 0..(n - 1) /\ w \in 0..(n - 1) /\ cib \in CibType
      /\ cib_avail(cib) = (w - r) % n /\ Size # 0
      /\ msg_array \in [0..(Size - 1) -> Message \cup {NoMsg}]
  BY Zenon DEF QueueInv, CibType, UInt, cib_avail
<1>3. cib.mask = Size - 1 /\ cib.mask # n - 1
  BY <1>1, <1>2, FullIs
<1>4. i = r % Size
  BY <1>1, <1>3 DEF GetIndex, And
<1>5. /\ cib' = [cib EXCEPT !.read_count = (r + 1) % n]
      /\ got' = [got EXCEPT ![m.from] = IF slipped THEN 0 ELSE m.num]
  BY Zenon DEF Take, AfterGet
<1>6. i \in 0..(Size - 1) /\ (r < Size => i = r)
  <2>1. r \in Nat
    BY <1>1, <1>2
  <2> HIDE DEF r, i
  <2> QED
    BY <1>1, <1>2, <1>4, <2>1, IndexIs, Zenon
<1>7. (r + 1) % n \in 0..(n - 1) /\ (w - ((r + 1) % n)) % n = cib_avail(cib) - 1
  <2> HIDE DEF r, w, n
  <2> QED
    BY <1>1, <1>2, GetCounts, Zenon
<1>8. /\ cib' \in CibType /\ cib'.read_count = (r + 1) % n
      /\ cib'.write_count = w /\ cib'.mask = cib.mask
  BY <1>2, <1>5, <1>7, Zenon DEF CibType, UInt
<1>9. cib_avail(cib)' = cib_avail(cib) - 1
  BY <1>7, <1>8, Zenon DEF cib_avail
<1>10. Filling => r < w
  <2> SUFFICES ASSUME Filling, r = w PROVE FALSE
    BY <1>2 DEF Filling
  <2> HIDE DEF r, w, n
  <2>1. cib_avail(cib) = w - r
    BY <1>1, <1>2, PutCounts
  <2> QED
    BY <1>2, <2>1
<1>11. m \in Message
  <2>1. CASE Filled
    BY <1>6, <2>1, Zenon DEF Filled
  <2>2. CASE Filling
    <3>1. w < Size /\ \A j \in 0..(w - 1) : msg_array[j] \in Message
      BY <2>2, Zenon DEF Filling
    <3> HIDE DEF r, w, i
    <3>2. i = r /\ r \in 0..(w - 1)
      BY <1>1, <1>2, <1>6, <1>10, <2>2, <3>1
    <3> QED
      BY <3>1, <3>2, Zenon
  <2> QED
    BY <2>1, <2>2, Zenon DEF QueueInv
<1> HIDE DEF m, i
<1>12. got' \in [Writers -> 0..(Numbers - 1)]
  <2>1. got \in [Writers -> 0..(Numbers - 1)] /\ m.num \in 0..(Numbers - 1)
        /\ 0 \in 0..(Numbers - 1)
    BY <1>1, <1>11 DEF QueueInv, Message
  <2> QED
    BY <1>5, <2>1, Zenon
<1>13. Filled => Filled'
  BY Zenon DEF Filled
<1>14. Filling => Filling'
  <2> SUFFICES ASSUME Filling PROVE Filling'
    BY Zenon
  <2>1. r < w /\ w < Size /\ \A j \in 0..(w - 1) : msg_array[j] \in Message
    BY <1>10, Zenon DEF Filling
  <2>2. r < n - 1
    BY <1>1, <1>2, <2>1
  <2>3. cib'.read_count = r + 1
    <3> HIDE DEF w, r, n
    <3> QED
      BY <1>1, <1>2, <1>8, <2>2, GetCounts, Zenon
  <2> QED
    BY <1>2, <1>8, <2>1, <2>3 DEF Filling
<1>15. QueueInv'
  BY <1>2, <1>8, <1>12, <1>13, <1>14, Zenon DEF QueueInv
<1>16. cib_avail(cib) \in Nat
  BY <1>1, FullIs
<1> QED
  BY <1>2, <1>9, <1>11, <1>13, <1>15, <1>16, Zenon DEF m, i
---------------------------------------------------------------------------
(* Everybody is where it was with regard to the mailbox.                   *)
PlacesKept  == \A u \in Pids : \A b \in {0, 1} : In(u, b)' <=> In(u, b)
BlockedKept == \A u \in Pids : IsBlocked(u)' <=> IsBlocked(u)

(* The thread that has the CPU outside the yields is in no list.           *)
LEMMA ActiveIsAwake ==
  ASSUME MboxInv, NEW t \in Pids, k.active = t, pc[t] \notin Unqueued
  PROVE  /\ Runnable(k, t) /\ ~IsBlocked(t)
         /\ t \notin Range(readers) /\ t \notin Range(writers)
<1>1. KInv(k) /\ IsHead(k, t)
  BY CpuConstants, Zenon DEF MboxInv, CoreInv, CpuInv, CpuTypeOK, KInv, HeadOutside
<1>2. Runnable(k, t)
  BY <1>1, HeadRunnable, Zenon
<1>3. ~IsBlocked(t)
  BY <1>2, Zenon DEF Runnable, OnRunqueue, IsBlocked
<1> QED
  BY <1>2, <1>3, Zenon DEF MboxInv, ListInv, BlockedAreListed, IsBlocked

(* Where GoTo() leaves the threads.                                        *)
LEMMA GoToPlaces ==
  ASSUME MboxInv, NEW t \in Pids, NEW k2, NEW label, NEW a, GoTo(t, k2, label, a)
  PROVE  /\ pc'[t] = label /\ arg'[t] = a
         /\ \A u \in Pids : \A b \in {0, 1} : u # t => (In(u, b)' <=> In(u, b))
         /\ label \notin Waiting => \A b \in {0, 1} : ~In(t, b)'
<1>1. pc \in [Pids -> MboxWindows] /\ arg \in [Pids -> Nat]
  BY Zenon DEF MboxInv, CoreInv, CpuInv, CpuTypeOK
<1>2. pc' = [pc EXCEPT ![t] = label] /\ arg' = [arg EXCEPT ![t] = a]
  BY Zenon DEF GoTo
<1>3. /\ pc'[t] = label /\ arg'[t] = a
      /\ \A u \in Pids : u # t => pc'[u] = pc[u] /\ arg'[u] = arg[u]
  BY <1>1, <1>2, Zenon
<1> QED
  BY <1>3, Zenon DEF In, Waiting

(* A call of another function is no call of this module.                   *)
LEMMA OutsideCalls ==
  ASSUME MboxInv, NEW t \in Pids, NEW k2, NEW label, NEW a, GoTo(t, k2, label, a),
         pc[t] \notin Waiting, label \notin Waiting
  PROVE  PlacesKept
<1>1. \A b \in {0, 1} : ~In(t, b)
  BY Zenon DEF In, Waiting
<1>2. /\ \A u \in Pids : \A b \in {0, 1} : u # t => (In(u, b)' <=> In(u, b))
      /\ \A b \in {0, 1} : ~In(t, b)'
  BY GoToPlaces, Zenon
<1> QED
  BY <1>1, <1>2, Zenon DEF PlacesKept

(* A step that leaves the mailbox alone.                                   *)
LEMMA Frame ==
  ASSUME MboxInv, CoreInv', UNCHANGED mboxVars, BlockedKept, PlacesKept
  PROVE  MboxInv'
<1>1. /\ cib' = cib /\ msg_array' = msg_array /\ readers' = readers
      /\ writers' = writers /\ wait_data' = wait_data /\ sent' = sent
      /\ got' = got /\ slipped' = slipped
  BY Zenon DEF mboxVars
<1>2. ListInv'
  <2>1. \A t \in Pids : t \in Range(readers) => In(t, 0)'
    BY Zenon DEF MboxInv, ListInv, BlockedAreListed, PlacesKept
  <2>2. \A t \in Pids : t \in Range(writers) => In(t, 1)'
    BY Zenon DEF MboxInv, ListInv, BlockedAreListed, PlacesKept
  <2>3. Range(readers) \subseteq Pids /\ Range(writers) \subseteq Pids
    BY DEF MboxInv, ListInv, Range
  <2>4. \A t \in Pids : IsBlocked(t)' <=> t \in Range(readers) \cup Range(writers)
    BY Zenon DEF MboxInv, ListInv, BlockedAreListed, BlockedKept, IsBlocked
  <2>5. BlockedAreListed'
    BY <1>1, <2>1, <2>2, <2>3, <2>4, Zenon DEF MboxInv, ListInv, BlockedAreListed, IsBlocked
  <2>6. \A t \in Pids : In(t, 1)' => t \in Writers
    BY Zenon DEF MboxInv, ListInv, PlacesKept
  <2> QED
    BY <1>1, <2>5, <2>6, Zenon DEF MboxInv, ListInv
<1>3. QueueInv'
  BY <1>1, Zenon DEF MboxInv, QueueInv, Filled, Filling, cib_avail
<1>4. MailInv'
  <2>1. OnlySlipsHarm'
    BY <1>1, Zenon DEF MboxInv, MailInv, OnlySlipsHarm, NoReaderWaitsInVain, cib_avail
  <2>2. \A t \in Pids : In(t, 0)' /\ t \notin Range(readers) => wait_data[t] \in Message
    BY Zenon DEF MboxInv, MailInv, PlacesKept
  <2>3. \A t \in Pids : In(t, 1)' => Filled' /\ (t \in Range(writers) \/ Size # 0)
    BY <1>1, Zenon DEF MboxInv, MailInv, PlacesKept, Filled
  <2> QED
    BY <1>1, <2>1, <2>2, <2>3, Zenon DEF MboxInv, MailInv
<1> QED
  BY <1>2, <1>3, <1>4, Zenon DEF MboxInv

(* Threads that sleep, wake up and yield elsewhere.                        *)
LEMMA CpuStepKeeps ==
  ASSUME MboxInv, UNCHANGED mboxVars, NEW t \in Pids,
         YieldHigher(t) \/ SchedSwitch(t) \/ ThreadSleep(t) \/ IsrWakeup(t)
  PROVE  MboxInv' /\ PlacesKept
<1> DEFINE ws == MboxWindows
<1>1. /\ CpuInv(ws, Unqueued, AtEase) /\ ~k.request /\ k.threads = Pids /\ k.priority = Prio
      /\ k.status \in [Pids -> Status]
  BY Zenon DEF MboxInv, CoreInv, CpuInv, CpuTypeOK, Kernel
<1>2. /\ "app" \notin Waiting /\ "yield_higher" \notin Waiting /\ "switch" \notin Waiting
      /\ "yield_higher" \in ws \cap Unqueued
  BY Zenon DEF Waiting, MboxWindows, Unqueued
<1>3. ASSUME CpuInv(ws, Unqueued, AtEase)', SameThreads, NoNewRequest
      PROVE  CoreInv'
  BY <1>1, <1>3, Zenon DEF CoreInv, SameThreads, NoNewRequest
<1>4. ASSUME SameBlocked(k.status, k'.status) PROVE BlockedKept
  BY <1>4, MboxSets, Zenon DEF SameBlocked, BlockedKept, IsBlocked
<1>5. CASE YieldHigher(t)
  <2>1. /\ CpuInv(ws, Unqueued, AtEase)' /\ SameThreads /\ NoNewRequest
        /\ SameBlocked(k.status, k'.status)
    BY <1>1, <1>5, MboxSets, YieldHigherStep, Zenon
  <2>2. GoTo(t, sched_run(k), "app", 0) /\ pc[t] \notin Waiting
    BY <1>2, <1>5, Zenon DEF YieldHigher
  <2>3. PlacesKept
    BY <1>2, <2>2, OutsideCalls, Zenon
  <2> QED
    BY <1>3, <1>4, <2>1, <2>3, Frame, Zenon
<1>6. CASE SchedSwitch(t)
  <2>1. /\ CpuInv(ws, Unqueued, AtEase)' /\ SameThreads /\ NoNewRequest
        /\ SameBlocked(k.status, k'.status)
    BY <1>1, <1>6, MboxSets, SchedSwitchStep, Zenon
  <2>2. GoTo(t, sched_switch(k, arg[t]), "app", 0) /\ pc[t] \notin Waiting
    BY <1>2, <1>6, Zenon DEF SchedSwitch
  <2>3. PlacesKept
    BY <1>2, <2>2, OutsideCalls, Zenon
  <2> QED
    BY <1>3, <1>4, <2>1, <2>3, Frame, Zenon
<1>7. CASE ThreadSleep(t)
  <2>1. /\ CpuInv(ws, Unqueued, AtEase)' /\ SameThreads /\ k'.request = k.request
        /\ k'.status = [k.status EXCEPT ![t] = "SLEEPING"]
    BY <1>1, <1>2, <1>7, MboxSets, SleepStep, Zenon
  <2>2. /\ GoTo(t, sched_set_status(k, t, "SLEEPING"), "yield_higher", 0)
        /\ pc[t] \notin Waiting /\ k.active = t /\ pc[t] = "app"
    BY <1>2, <1>7, Zenon DEF ThreadSleep, InApp
  <2>3. ~IsBlocked(t)
    BY <2>2, ActiveIsAwake, Zenon DEF Unqueued
  <2>4. BlockedKept
    BY <1>1, <2>1, <2>3, Zenon DEF IsBlocked, BlockedKept
  <2>5. NoNewRequest
    BY <2>1, Zenon DEF NoNewRequest
  <2>6. PlacesKept
    BY <1>2, <2>2, OutsideCalls, Zenon
  <2> QED
    BY <1>3, <2>1, <2>4, <2>5, <2>6, Frame, Zenon
<1>8. CASE IsrWakeup(t)
  <2>1. /\ CpuInv(ws, Unqueued, AtEase)' /\ SameThreads /\ NoNewRequest
        /\ SameBlocked([k.status EXCEPT ![t] = "RUNNING"], k'.status)
        /\ k.status[t] = "SLEEPING"
    BY <1>1, <1>8, MboxSets, IsrWakeupStep, Zenon
  <2>2. \A u \in Pids : [k.status EXCEPT ![t] = "RUNNING"][u] = "MBOX_BLOCKED"
                          <=> k.status[u] = "MBOX_BLOCKED"
    BY <1>1, <2>1, Zenon
  <2>3. BlockedKept
    BY <2>1, <2>2, MboxSets, Zenon DEF SameBlocked, IsBlocked, BlockedKept
  <2>4. pc' = pc /\ arg' = arg
    BY <1>8, Zenon DEF IsrWakeup
  <2>5. PlacesKept
    BY <2>4, Zenon DEF PlacesKept, In
  <2> QED
    BY <1>3, <2>1, <2>3, <2>5, Frame, Zenon
<1> QED
  BY <1>5, <1>6, <1>7, <1>8, Zenon

(* The yield of _wait().                                                   *)
LEMMA WaitStepKeeps ==
  ASSUME MboxInv, NEW t \in Pids, WaitYield(t) \/ WaitSwitch(t)
  PROVE  MboxInv' /\ PlacesKept
<1> DEFINE ws == MboxWindows
<1>1. /\ CpuInv(ws, Unqueued, AtEase) /\ ~k.request /\ k.threads = Pids /\ k.priority = Prio
      /\ arg[t] \in Nat /\ pc[Idle] = "app"
  BY Zenon DEF MboxInv, CoreInv, CpuInv, CpuTypeOK
<1>2. /\ k.active = t /\ pc[t] \in {"mbox_wait", "mbox_yield"} /\ UNCHANGED mboxVars
      /\ t # Idle
  BY <1>1, Zenon DEF WaitYield, WaitSwitch
<1>3. ASSUME NEW k2, NEW label, label \in Waiting, GoTo(t, k2, label, arg[t])
      PROVE  PlacesKept
  <2>1. /\ pc'[t] = label /\ arg'[t] = arg[t]
        /\ \A u \in Pids : \A b \in {0, 1} : u # t => (In(u, b)' <=> In(u, b))
    BY <1>3, GoToPlaces, Zenon
  <2>2. \A b \in {0, 1} : In(t, b)' <=> In(t, b)
    BY <1>2, <1>3, <2>1, Zenon DEF In, Waiting
  <2> QED
    BY <2>1, <2>2, Zenon DEF PlacesKept
<1>4. CASE WaitYield(t)
  <2>1. GoTo(t, thread_yield(k), "mbox_yield", arg[t]) /\ pc[t] \in Unqueued
        /\ "mbox_yield" \in ws \cap Unqueued /\ "mbox_yield" \in Waiting
    BY <1>4, Zenon DEF WaitYield, Unqueued, MboxWindows, Waiting
  <2>2. /\ CpuInv(ws, Unqueued, AtEase)' /\ SameThreads
        /\ k'.request = k.request /\ k'.status = k.status
    BY <1>1, <1>2, <2>1, MboxSets, YieldStep
  <2>3. CoreInv' /\ BlockedKept
    BY <1>1, <2>2, Zenon DEF CoreInv, SameThreads, BlockedKept, IsBlocked
  <2> QED
    BY <1>2, <1>3, <2>1, <2>3, Frame, Zenon
<1>5. CASE WaitSwitch(t)
  <2>1. GoTo(t, sched_run(k), "mbox_woken", arg[t])
        /\ "mbox_woken" \in ws \ {"switch", "wakeup"} /\ "mbox_woken" \in Waiting
    BY <1>5, Zenon DEF WaitSwitch, MboxWindows, Waiting
  <2>2. /\ CpuInv(ws, Unqueued, AtEase)' /\ SameThreads /\ ~k'.request
        /\ SameBlocked(k.status, k'.status)
    BY <1>1, <1>2, <2>1, MboxSets, RunStep, Zenon
  <2>3. CoreInv' /\ BlockedKept
    BY <1>1, <2>2, MboxSets, Zenon DEF CoreInv, SameThreads, SameBlocked, BlockedKept, IsBlocked
  <2> QED
    BY <1>2, <1>3, <2>1, <2>3, Frame, Zenon
<1> QED
  BY <1>4, <1>5, Zenon
---------------------------------------------------------------------------
(* Those in the lists.                                                     *)
LEMMA ListsAre ==
  ASSUME MboxInv
  PROVE  /\ readers \in Seq(Pids) /\ IsInjective(readers) /\ Range(readers) \subseteq Pids
         /\ writers \in Seq(Pids) /\ IsInjective(writers) /\ Range(writers) \subseteq Pids
         /\ Range(readers) \cap Range(writers) = {}
         /\ \A u \in Pids : IsBlocked(u) <=> u \in Range(readers) \/ u \in Range(writers)
         /\ \A u \in Pids : u \in Range(readers) => In(u, 0) /\ ~In(u, 1)
         /\ \A u \in Pids : u \in Range(writers) => In(u, 1) /\ ~In(u, 0)
<1>1. Range(readers) \subseteq Pids /\ Range(writers) \subseteq Pids
  BY DEF MboxInv, ListInv, Range
<1>2. \A u \in Pids : ~(In(u, 0) /\ In(u, 1))
  BY DEF In
<1> QED
  BY <1>1, <1>2, Zenon DEF MboxInv, ListInv, BlockedAreListed, IsBlocked

(* ListInv in these terms.                                                 *)
LEMMA ListsFollow ==
  ASSUME readers' \in Seq(Pids), IsInjective(readers)', Range(readers)' \subseteq Pids,
         writers' \in Seq(Pids), IsInjective(writers)', Range(writers)' \subseteq Pids,
         Range(readers)' \cap Range(writers)' = {},
         \A u \in Pids : IsBlocked(u)' <=> u \in Range(readers)' \/ u \in Range(writers)',
         \A u \in Pids : u \in Range(readers)' => In(u, 0)',
         \A u \in Pids : u \in Range(writers)' => In(u, 1)',
         \A u \in Pids : In(u, 1)' => u \in Writers
  PROVE  ListInv'
  BY Zenon DEF ListInv, BlockedAreListed, IsBlocked

(* The head of a list is blocked, and exists.                              *)
LEMMA HeadSleeps ==
  ASSUME MboxInv, NEW l, l = readers \/ l = writers, l # <<>>
  PROVE  /\ Head(l) \in Pids /\ Head(l) \in Range(l) /\ Head(l) \in k.threads
         /\ ~Runnable(k, Head(l))
         /\ Tail(l) \in Seq(Pids) /\ IsInjective(Tail(l))
         /\ Range(Tail(l)) = Range(l) \ {Head(l)}
<1>1. l \in Seq(Pids) /\ IsInjective(l) /\ Range(l) \subseteq Pids
      /\ \A u \in Range(l) : IsBlocked(u)
  BY ListsAre, Zenon
<1>2. /\ Head(l) \in Range(l) /\ Tail(l) \in Seq(Pids) /\ IsInjective(Tail(l))
      /\ Range(Tail(l)) = Range(l) \ {Head(l)}
  BY <1>1, PopMembers, Zenon DEF clist_lpop
<1>3. k.threads = Pids
  BY Zenon DEF MboxInv, CoreInv
<1> QED
  BY <1>1, <1>2, <1>3, Zenon DEF IsBlocked, Runnable, OnRunqueue

(* _mbox_put() gives its message to the first reader.                      *)
LEMMA HandKeeps ==
  ASSUME MboxInv, CoreInv', readers # <<>>, NEW s \in Writers,
         HandTo(Head(readers), s), PlacesKept,
         \A u \in Pids : IsBlocked(u)' <=> IsBlocked(u) /\ u # Head(readers)
  PROVE  MboxInv'
<1> DEFINE r == Head(readers)
           l == Tail(readers)
           m == Mail(s)
<1>1. /\ wait_data' = [wait_data EXCEPT ![r] = m] /\ readers' = l /\ Count(s)
      /\ cib' = cib /\ msg_array' = msg_array /\ writers' = writers
      /\ got' = got /\ slipped' = slipped
  BY Zenon DEF HandTo
<1>2. /\ r \in Pids /\ r \in Range(readers) /\ l \in Seq(Pids) /\ IsInjective(l)
      /\ Range(l) = Range(readers) \ {r}
  BY HeadSleeps, Zenon
<1>3. m \in Message /\ sent' \in [Writers -> 0..(Numbers - 1)]
  BY <1>1, MailIsMessage, Zenon DEF MboxInv
<1>4. \A u \in Pids : IsBlocked(u)' <=> IsBlocked(u) /\ u # r
  BY Zenon
<1> HIDE DEF r, l, m
<1>5. Range(readers)' = Range(readers) \ {r} /\ Range(writers)' = Range(writers)
  BY <1>1, <1>2, Zenon
<1>6. ListInv'
  <2>1. \A u \in Pids : In(u, 1)' => u \in Writers
    BY Zenon DEF MboxInv, ListInv, PlacesKept
  <2>2. \A u \in Pids : /\ u \in Range(readers)' => In(u, 0)'
                        /\ u \in Range(writers)' => In(u, 1)'
    BY <1>5, ListsAre, Zenon DEF PlacesKept
  <2>3. \A u \in Pids : IsBlocked(u)' <=> u \in Range(readers)' \/ u \in Range(writers)'
    BY <1>2, <1>4, <1>5, ListsAre, Zenon
  <2>4. /\ readers' \in Seq(Pids) /\ IsInjective(readers)' /\ Range(readers)' \subseteq Pids
        /\ writers' \in Seq(Pids) /\ IsInjective(writers)' /\ Range(writers)' \subseteq Pids
        /\ Range(readers)' \cap Range(writers)' = {}
    BY <1>1, <1>2, <1>5, ListsAre, Zenon
  <2> QED
    BY <2>1, <2>2, <2>3, <2>4, ListsFollow, Zenon
<1>7. QueueInv'
  BY <1>1, <1>3, Zenon DEF MboxInv, QueueInv, Filled, Filling, cib_avail
<1>8. MailInv'
  <2>1. wait_data \in [Pids -> Message \cup {NoMsg}]
    BY Zenon DEF MboxInv, MailInv
  <2>2. /\ wait_data' \in [Pids -> Message \cup {NoMsg}]
        /\ wait_data'[r] = m /\ \A u \in Pids : u # r => wait_data'[u] = wait_data[u]
    BY <1>1, <1>2, <1>3, <2>1, Zenon
  <2>3. \A u \in Pids : In(u, 0)' /\ u \notin Range(readers)' => wait_data'[u] \in Message
    BY <1>3, <1>5, <2>2, Zenon DEF MboxInv, MailInv, PlacesKept
  <2>4. \A u \in Pids : In(u, 1)' => Filled' /\ (u \in Range(writers)' \/ Size # 0)
    BY <1>1, <1>5, Zenon DEF MboxInv, MailInv, PlacesKept, Filled
  <2>5. OnlySlipsHarm'
    BY <1>1, Zenon DEF MboxInv, MailInv, OnlySlipsHarm, NoReaderWaitsInVain, cib_avail
  <2> QED
    BY <2>2, <2>3, <2>4, <2>5, Zenon DEF MailInv
<1> QED
  BY <1>6, <1>7, <1>8, Zenon DEF MboxInv

(* mbox_put() with a reader waiting                                        *)
LEMMA PutHandOverKeeps ==
  ASSUME MboxInv, NEW t \in Pids, t \in Writers, PutHandOver(t)
  PROVE  MboxInv'
<1> DEFINE ws == MboxWindows
           r == Head(readers)
           prio == k.priority[r]
<1>1. /\ CpuInv(ws, Unqueued, AtEase) /\ ~k.request /\ k.threads = Pids /\ k.priority = Prio
      /\ k.status \in [Pids -> Status] /\ k.priority \in [Pids -> Prios]
  BY Zenon DEF MboxInv, CoreInv, CpuInv, CpuTypeOK, Kernel
<1>2. /\ InApp(t) /\ readers # <<>> /\ HandTo(r, t)
      /\ GoTo(t, sched_set_status(k, r, "PENDING"), "switch", prio)
  BY Zenon DEF PutHandOver
<1>3. r \in Pids /\ r \in k.threads /\ ~Runnable(k, r)
  BY <1>2, HeadSleeps, Zenon
<1>4. prio \in Nat /\ "switch" \in ws /\ prio = k.priority[r]
  BY <1>1, <1>3, CpuConstants, Zenon DEF MboxWindows
<1> HIDE DEF r, prio
<1>5. /\ CpuInv(ws, Unqueued, AtEase)' /\ SameThreads /\ k'.request = k.request
      /\ k'.status = [k.status EXCEPT ![r] = "PENDING"]
  BY <1>1, <1>2, <1>3, <1>4, MboxSets, WakeStep, SMTT(30)
<1>6. CoreInv' /\ \A u \in Pids : IsBlocked(u)' <=> IsBlocked(u) /\ u # r
  BY <1>1, <1>3, <1>5, Zenon DEF CoreInv, SameThreads, IsBlocked
<1>7. PlacesKept
  BY <1>2, OutsideCalls DEF InApp, Waiting
<1> QED
  BY <1>2, <1>6, <1>7, HandKeeps, Zenon DEF r

(* A message goes into a place that is free.                               *)
LEMMA StoreFreeKeeps ==
  ASSUME MboxInv, NEW s \in Writers, Store(s), readers = <<>>, ~cib_full(cib),
         UNCHANGED <<cpuVars, readers, writers, wait_data, got, slipped>>
  PROVE  MboxInv'
<1>1. /\ k' = k /\ pc' = pc /\ arg' = arg /\ null_store' = null_store
      /\ readers' = readers /\ writers' = writers /\ wait_data' = wait_data
      /\ got' = got /\ slipped' = slipped
  BY Zenon DEF cpuVars
<1>2. CoreInv'
  BY <1>1, Zenon DEF MboxInv, CoreInv, CpuInv, CpuTypeOK, HeadOutside, Settled
<1>3. ListInv'
  BY <1>1, Zenon DEF MboxInv, ListInv, BlockedAreListed, In
<1>4. QueueInv /\ slipped' \in BOOLEAN
  BY <1>1, Zenon DEF MboxInv, QueueInv
<1>5. Size # 0
  BY <1>4, FullIs, Zenon
<1>6. /\ QueueInv' /\ (Filled => Filled')
      /\ cib_avail(cib) <= Size => cib_avail(cib)' <= Size
  BY <1>1, <1>4, <1>5, StoreKeeps, Zenon
<1>7. OnlySlipsHarm'
  BY <1>1, <1>6 DEF MboxInv, MailInv, OnlySlipsHarm, NoReaderWaitsInVain
<1>8. \A t \in Pids : In(t, 1)' => Filled' /\ (t \in Range(writers)' \/ Size # 0)
  BY <1>1, <1>6, Zenon DEF MboxInv, MailInv, In
<1>9. MailInv'
  BY <1>1, <1>7, <1>8, Zenon DEF MboxInv, MailInv, In
<1> QED
  BY <1>2, <1>3, <1>6, <1>9, Zenon DEF MboxInv

(* mbox_try_put() in an interrupt handler                                  *)
LEMMA IsrPutKeeps ==
  ASSUME MboxInv, NULL \in Writers, IsrPut
  PROVE  MboxInv'
<1> DEFINE ws == MboxWindows
           r == Head(readers)
<1>1. /\ CpuInv(ws, Unqueued, AtEase) /\ ~k.request /\ k.threads = Pids /\ k.priority = Prio
      /\ k.status \in [Pids -> Status]
  BY Zenon DEF MboxInv, CoreInv, CpuInv, CpuTypeOK, Kernel
<1>2. CASE readers # <<>>
  <2>1. /\ IsrSwitch(sched_set_status(k, r, "PENDING"), k.priority[r])
        /\ HandTo(r, NULL) /\ pc' = pc /\ arg' = arg
    BY <1>2, Zenon DEF IsrPut
  <2>2. r \in Pids /\ r \in k.threads /\ ~Runnable(k, r)
    BY <1>2, HeadSleeps, Zenon
  <2> HIDE DEF r
  <2>3. /\ CpuInv(ws, Unqueued, AtEase)' /\ SameThreads /\ NoNewRequest
        /\ SameBlocked([k.status EXCEPT ![r] = "PENDING"], k'.status)
    BY <1>1, <2>1, <2>2, MboxSets, IsrWakeStep, Zenon
  <2>4. CoreInv'
    BY <1>1, <2>3, Zenon DEF CoreInv, SameThreads, NoNewRequest
  <2>5. \A u \in Pids : [k.status EXCEPT ![r] = "PENDING"][u] = "MBOX_BLOCKED"
                          <=> k.status[u] = "MBOX_BLOCKED" /\ u # r
    BY <1>1, <2>2, Zenon
  <2>6. \A u \in Pids : IsBlocked(u)' <=> IsBlocked(u) /\ u # r
    BY <2>3, <2>5, MboxSets, Zenon DEF SameBlocked, IsBlocked
  <2>7. PlacesKept
    BY <2>1, Zenon DEF PlacesKept, In
  <2> QED
    BY <1>2, <2>1, <2>4, <2>6, <2>7, HandKeeps, Zenon DEF r
<1>3. CASE readers = <<>>
  <2>1. /\ ~cib_full(cib) /\ Store(NULL)
        /\ UNCHANGED <<cpuVars, readers, writers, wait_data, got, slipped>>
    BY <1>3, Zenon DEF IsrPut
  <2> QED
    BY <1>3, <2>1, StoreFreeKeeps, Zenon
<1> QED
  BY <1>2, <1>3, Zenon
---------------------------------------------------------------------------
(* thread_add_to_list() of a thread that is in no list.                    *)
LEMMA JoinList ==
  ASSUME NEW q \in Seq(Pids), IsInjective(q), NEW t \in Pids, t \notin Range(q)
  PROVE  LET r == thread_add_to_list(Prio, q, t)
         IN  /\ r \in Seq(Pids) /\ IsInjective(r) /\ Range(r) = Range(q) \cup {t}
             /\ r # <<>>
<1> DEFINE r == thread_add_to_list(Prio, q, t)
<1>1. PICK p \in 1..(Len(q) + 1) : InsertedAt(q, r, t, p)
  BY MboxConstants, AddToList, Zenon
<1> HIDE DEF r
<1>2. r \in Seq(Pids)
  BY <1>1, Zenon DEF InsertedAt
<1>3. Range(r) = Range(q) \cup {t} /\ IsInjective(r) /\ r # <<>>
  BY <1>1, InsertMembers, Zenon
<1> QED
  BY <1>2, <1>3, Zenon DEF r

(* _wait(): the scheduler's part.                                          *)
LEMMA WaitBegins ==
  ASSUME MboxInv, NEW t \in Pids, InApp(t), NEW a \in {0, 1},
         GoTo(t, sched_set_status(k, t, "MBOX_BLOCKED"), "mbox_wait", a)
  PROVE  /\ CoreInv' /\ In(t, a)' /\ \A b \in {0, 1} : b # a => ~In(t, b)'
         /\ \A b \in {0, 1} : ~In(t, b)
         /\ \A u \in Pids : \A b \in {0, 1} : u # t => (In(u, b)' <=> In(u, b))
         /\ \A u \in Pids : IsBlocked(u)' <=> IsBlocked(u) \/ u = t
         /\ t \notin Range(readers) /\ t \notin Range(writers) /\ k.priority = Prio
<1> DEFINE ws == MboxWindows
<1>1. /\ CpuInv(ws, Unqueued, AtEase) /\ ~k.request /\ k.threads = Pids /\ k.priority = Prio
      /\ k.status \in [Pids -> Status]
  BY Zenon DEF MboxInv, CoreInv, CpuInv, CpuTypeOK, Kernel
<1>2. "mbox_wait" \in ws \cap Unqueued /\ a \in Nat
  BY DEF MboxWindows, Unqueued
<1>3. /\ CpuInv(ws, Unqueued, AtEase)' /\ SameThreads /\ k'.request = k.request
      /\ k'.status = [k.status EXCEPT ![t] = "MBOX_BLOCKED"]
  BY <1>1, <1>2, MboxSets, BlockStep, SMTT(30)
<1>4. CoreInv' /\ \A u \in Pids : IsBlocked(u)' <=> IsBlocked(u) \/ u = t
  BY <1>1, <1>3, Zenon DEF CoreInv, SameThreads, IsBlocked
<1>5. /\ pc'[t] = "mbox_wait" /\ arg'[t] = a
      /\ \A u \in Pids : \A b \in {0, 1} : u # t => (In(u, b)' <=> In(u, b))
  BY GoToPlaces, Zenon
<1>6. In(t, a)' /\ \A b \in {0, 1} : b # a => ~In(t, b)'
  BY <1>5, Zenon DEF In
<1>7. \A b \in {0, 1} : ~In(t, b)
  BY Zenon DEF InApp, In
<1>8. t \notin Range(readers) /\ t \notin Range(writers)
  BY ActiveIsAwake, Zenon DEF InApp, Unqueued
<1> QED
  BY <1>1, <1>4, <1>5, <1>6, <1>7, <1>8, Zenon

(* mbox_put() blocks                                                       *)
LEMMA PutBlockKeeps ==
  ASSUME MboxInv, NEW t \in Pids, t \in Writers, PutBlock(t)
  PROVE  MboxInv'
<1> DEFINE l == thread_add_to_list(Prio, writers, t)
<1>1. /\ InApp(t) /\ cib_full(cib)
      /\ GoTo(t, sched_set_status(k, t, "MBOX_BLOCKED"), "mbox_wait", 1)
      /\ cib' = cib /\ msg_array' = msg_array /\ readers' = readers
      /\ wait_data' = wait_data /\ sent' = sent /\ got' = got /\ slipped' = slipped
      /\ writers' = thread_add_to_list(k.priority, writers, t)
  BY Zenon DEF PutBlock
<1>2. /\ CoreInv' /\ In(t, 1)' /\ ~In(t, 0)' /\ ~In(t, 0) /\ ~In(t, 1)
      /\ \A u \in Pids : \A b \in {0, 1} : u # t => (In(u, b)' <=> In(u, b))
      /\ \A u \in Pids : IsBlocked(u)' <=> IsBlocked(u) \/ u = t
      /\ t \notin Range(readers) /\ t \notin Range(writers) /\ k.priority = Prio
  BY <1>1, WaitBegins
<1>3. /\ l \in Seq(Pids) /\ IsInjective(l) /\ Range(l) = Range(writers) \cup {t}
      /\ writers' = l
  BY <1>1, <1>2, ListsAre, JoinList, Zenon
<1> HIDE DEF l
<1>4. Range(readers)' = Range(readers) /\ Range(writers)' = Range(writers) \cup {t}
  BY <1>1, <1>3, Zenon
<1>5. ListInv'
  <2>1. \A u \in Pids : In(u, 1)' => u \in Writers
    BY <1>2, Zenon DEF MboxInv, ListInv
  <2>2. \A u \in Pids : /\ u \in Range(readers)' => In(u, 0)'
                        /\ u \in Range(writers)' => In(u, 1)'
    BY <1>2, <1>4, ListsAre, Zenon
  <2>3. \A u \in Pids : IsBlocked(u)' <=> u \in Range(readers)' \/ u \in Range(writers)'
    BY <1>2, <1>4, ListsAre, Zenon
  <2>4. /\ readers' \in Seq(Pids) /\ IsInjective(readers)' /\ Range(readers)' \subseteq Pids
        /\ writers' \in Seq(Pids) /\ IsInjective(writers)' /\ Range(writers)' \subseteq Pids
        /\ Range(readers)' \cap Range(writers)' = {}
    BY <1>1, <1>2, <1>3, <1>4, ListsAre, Zenon
  <2> QED
    BY <2>1, <2>2, <2>3, <2>4, ListsFollow, Zenon
<1>6. QueueInv' /\ Filled'
  <2>1. Filled
    BY <1>1, FullIsFilled, Zenon DEF MboxInv
  <2> QED
    BY <1>1, <2>1, Zenon DEF MboxInv, QueueInv, Filled, Filling, cib_avail
<1>7. MailInv'
  <2>1. \A u \in Pids : In(u, 0)' /\ u \notin Range(readers)' => wait_data'[u] \in Message
    BY <1>1, <1>2, <1>4, Zenon DEF MboxInv, MailInv
  <2>2. \A u \in Pids : In(u, 1)' => Filled' /\ (u \in Range(writers)' \/ Size # 0)
    BY <1>2, <1>4, <1>6, Zenon DEF MboxInv, MailInv
  <2>3. OnlySlipsHarm'
    BY <1>1, Zenon DEF MboxInv, MailInv, OnlySlipsHarm, NoReaderWaitsInVain, cib_avail
  <2> QED
    BY <1>1, <2>1, <2>2, <2>3, Zenon DEF MboxInv, MailInv
<1> QED
  BY <1>2, <1>5, <1>6, <1>7, Zenon DEF MboxInv

(* mbox_get() blocks                                                       *)
LEMMA GetBlockKeeps ==
  ASSUME MboxInv, NEW t \in Pids, GetBlock(t)
  PROVE  MboxInv'
<1> DEFINE l == thread_add_to_list(Prio, readers, t)
<1>1. /\ InApp(t) /\ cib_avail(cib) = 0
      /\ GoTo(t, sched_set_status(k, t, "MBOX_BLOCKED"), "mbox_wait", 0)
      /\ cib' = cib /\ msg_array' = msg_array /\ writers' = writers
      /\ wait_data' = wait_data /\ sent' = sent /\ got' = got /\ slipped' = slipped
      /\ readers' = thread_add_to_list(k.priority, readers, t)
  BY Zenon DEF GetBlock
<1>2. /\ CoreInv' /\ In(t, 0)' /\ ~In(t, 1)' /\ ~In(t, 0) /\ ~In(t, 1)
      /\ \A u \in Pids : \A b \in {0, 1} : u # t => (In(u, b)' <=> In(u, b))
      /\ \A u \in Pids : IsBlocked(u)' <=> IsBlocked(u) \/ u = t
      /\ t \notin Range(readers) /\ t \notin Range(writers) /\ k.priority = Prio
  BY <1>1, WaitBegins
<1>3. /\ l \in Seq(Pids) /\ IsInjective(l) /\ Range(l) = Range(readers) \cup {t}
      /\ readers' = l
  BY <1>1, <1>2, ListsAre, JoinList, Zenon
<1> HIDE DEF l
<1>4. Range(writers)' = Range(writers) /\ Range(readers)' = Range(readers) \cup {t}
  BY <1>1, <1>3, Zenon
<1>5. ListInv'
  <2>1. \A u \in Pids : In(u, 1)' => u \in Writers
    BY <1>2, Zenon DEF MboxInv, ListInv
  <2>2. \A u \in Pids : /\ u \in Range(readers)' => In(u, 0)'
                        /\ u \in Range(writers)' => In(u, 1)'
    BY <1>2, <1>4, ListsAre, Zenon
  <2>3. \A u \in Pids : IsBlocked(u)' <=> u \in Range(readers)' \/ u \in Range(writers)'
    BY <1>2, <1>4, ListsAre, Zenon
  <2>4. /\ readers' \in Seq(Pids) /\ IsInjective(readers)' /\ Range(readers)' \subseteq Pids
        /\ writers' \in Seq(Pids) /\ IsInjective(writers)' /\ Range(writers)' \subseteq Pids
        /\ Range(readers)' \cap Range(writers)' = {}
    BY <1>1, <1>2, <1>3, <1>4, ListsAre, Zenon
  <2> QED
    BY <2>1, <2>2, <2>3, <2>4, ListsFollow, Zenon
<1>6. QueueInv'
  BY <1>1, Zenon DEF MboxInv, QueueInv, Filled, Filling, cib_avail
<1>7. MailInv'
  <2>1. \A u \in Pids : In(u, 0)' /\ u \notin Range(readers)' => wait_data'[u] \in Message
    BY <1>1, <1>2, <1>4, Zenon DEF MboxInv, MailInv
  <2>2. \A u \in Pids : In(u, 1)' => Filled' /\ (u \in Range(writers)' \/ Size # 0)
    BY <1>1, <1>2, <1>4, Zenon DEF MboxInv, MailInv, Filled
  <2>3. OnlySlipsHarm'
    BY <1>1, Widths, Zenon DEF MboxInv, MailInv, OnlySlipsHarm, NoReaderWaitsInVain, cib_avail
  <2> QED
    BY <1>1, <2>1, <2>2, <2>3, Zenon DEF MboxInv, MailInv
<1> QED
  BY <1>2, <1>5, <1>6, <1>7, Zenon DEF MboxInv
---------------------------------------------------------------------------
(* The end of _wait(): the scheduler's and the lists' part.                *)
LEMMA WaitEnds ==
  ASSUME MboxInv, NEW t \in Pids, k.active = t, pc[t] = "mbox_woken",
         GoTo(t, k, "app", 0), readers' = readers, writers' = writers
  PROVE  /\ CoreInv' /\ ListInv' /\ ~In(t, 0)' /\ ~In(t, 1)'
         /\ \A u \in Pids : \A b \in {0, 1} : u # t => (In(u, b)' <=> In(u, b))
         /\ t \notin Range(readers) /\ t \notin Range(writers)
<1> DEFINE ws == MboxWindows
<1>1. /\ CpuInv(ws, Unqueued, AtEase) /\ ~k.request /\ k.threads = Pids /\ k.priority = Prio
  BY Zenon DEF MboxInv, CoreInv
<1>2. "app" \in ws \ {"switch", "wakeup"} /\ pc[t] \in AtEase /\ 0 \in Nat
      /\ pc[t] \notin Unqueued /\ "app" \notin Waiting
  BY Zenon DEF MboxWindows, AtEase, Unqueued, Waiting
<1>3. CpuInv(ws, Unqueued, AtEase)' /\ k' = k
  BY <1>1, <1>2, MboxSets, RestStep, Zenon
<1>4. CoreInv' /\ \A u \in Pids : IsBlocked(u)' <=> IsBlocked(u)
  BY <1>1, <1>3, Zenon DEF CoreInv, IsBlocked
<1>5. /\ \A u \in Pids : \A b \in {0, 1} : u # t => (In(u, b)' <=> In(u, b))
      /\ \A b \in {0, 1} : ~In(t, b)'
  BY <1>2, GoToPlaces, Zenon
<1>6. t \notin Range(readers) /\ t \notin Range(writers)
  BY <1>2, ActiveIsAwake, Zenon
<1>7. Range(readers)' = Range(readers) /\ Range(writers)' = Range(writers)
  BY Zenon
<1>8. ListInv'
  <2>1. \A u \in Pids : In(u, 1)' => u \in Writers
    BY <1>5, Zenon DEF MboxInv, ListInv
  <2>2. \A u \in Pids : /\ u \in Range(readers)' => In(u, 0)'
                        /\ u \in Range(writers)' => In(u, 1)'
    BY <1>5, <1>6, <1>7, ListsAre, Zenon
  <2>3. \A u \in Pids : IsBlocked(u)' <=> u \in Range(readers)' \/ u \in Range(writers)'
    BY <1>4, <1>7, ListsAre, Zenon
  <2>4. /\ readers' \in Seq(Pids) /\ IsInjective(readers)' /\ Range(readers)' \subseteq Pids
        /\ writers' \in Seq(Pids) /\ IsInjective(writers)' /\ Range(writers)' \subseteq Pids
        /\ Range(readers)' \cap Range(writers)' = {}
    BY <1>7, ListsAre, Zenon
  <2> QED
    BY <2>1, <2>2, <2>3, <2>4, ListsFollow, Zenon
<1> QED
  BY <1>4, <1>5, <1>6, <1>8, Zenon

(* mbox_put() stores its message without looking again.                    *)
LEMMA PutAfterWaitKeeps ==
  ASSUME MboxInv, NEW t \in Pids, PutAfterWait(t)
  PROVE  MboxInv'
<1>1. /\ k.active = t /\ pc[t] = "mbox_woken" /\ arg[t] = 1
      /\ GoTo(t, k, "app", 0) /\ Store(t)
      /\ slipped' = (slipped \/ cib_full(cib) \/ readers # <<>>)
      /\ readers' = readers /\ writers' = writers /\ wait_data' = wait_data /\ got' = got
  BY Zenon DEF PutAfterWait
<1>2. /\ CoreInv' /\ ListInv' /\ ~In(t, 0)' /\ ~In(t, 1)'
      /\ \A u \in Pids : \A b \in {0, 1} : u # t => (In(u, b)' <=> In(u, b))
      /\ t \notin Range(readers) /\ t \notin Range(writers)
  BY <1>1, WaitEnds, Zenon
<1>3. In(t, 1)
  BY <1>1, Zenon DEF In
<1>4. t \in Writers /\ Size # 0 /\ QueueInv
  BY <1>2, <1>3, Zenon DEF MboxInv, ListInv, MailInv
<1>5. slipped' \in BOOLEAN /\ (~slipped' => ~slipped /\ ~cib_full(cib) /\ readers = <<>>)
  <2>1. slipped \in BOOLEAN
    BY Zenon DEF MboxInv, QueueInv
  <2> QED
    BY <1>1, <2>1, Zenon
<1>6. /\ QueueInv' /\ (Filled => Filled')
      /\ (cib_avail(cib) <= Size /\ ~cib_full(cib)) => cib_avail(cib)' <= Size
  BY <1>1, <1>4, <1>5, StoreKeeps, Zenon
<1>7. MailInv'
  <2>1. \A u \in Pids : In(u, 0)' /\ u \notin Range(readers)' => wait_data'[u] \in Message
    BY <1>1, <1>2, Zenon DEF MboxInv, MailInv
  <2>2. \A u \in Pids : In(u, 1)' => Filled' /\ (u \in Range(writers)' \/ Size # 0)
    BY <1>2, <1>4, <1>6, Zenon DEF MboxInv, MailInv
  <2>3. OnlySlipsHarm'
    BY <1>1, <1>5, <1>6, Zenon DEF MboxInv, MailInv, OnlySlipsHarm, NoReaderWaitsInVain
  <2> QED
    BY <1>1, <2>1, <2>2, <2>3, Zenon DEF MboxInv, MailInv
<1> QED
  BY <1>2, <1>6, <1>7, Zenon DEF MboxInv

(* "sender has copied message"                                             *)
LEMMA GetAfterWaitKeeps ==
  ASSUME MboxInv, NEW t \in Pids, GetAfterWait(t)
  PROVE  MboxInv'
<1> DEFINE m == wait_data[t]
<1>1. /\ k.active = t /\ pc[t] = "mbox_woken" /\ arg[t] = 0
      /\ GoTo(t, k, "app", 0)
      /\ got' = [got EXCEPT ![m.from] = IF slipped THEN 0 ELSE m.num]
      /\ wait_data' = [wait_data EXCEPT ![t] = NoMsg]
      /\ cib' = cib /\ msg_array' = msg_array
      /\ readers' = readers /\ writers' = writers /\ sent' = sent /\ slipped' = slipped
  BY Zenon DEF GetAfterWait, Take
<1>2. /\ CoreInv' /\ ListInv' /\ ~In(t, 0)' /\ ~In(t, 1)'
      /\ \A u \in Pids : \A b \in {0, 1} : u # t => (In(u, b)' <=> In(u, b))
      /\ t \notin Range(readers) /\ t \notin Range(writers)
  BY <1>1, WaitEnds, Zenon
<1>3. In(t, 0)
  BY <1>1, Zenon DEF In
<1>4. m \in Message /\ got \in [Writers -> 0..(Numbers - 1)] /\ Numbers \in Nat \ {0}
  BY <1>2, <1>3, Widths, Zenon DEF MboxInv, MailInv, QueueInv
<1>5. got' \in [Writers -> 0..(Numbers - 1)]
  <2>1. m.num \in 0..(Numbers - 1) /\ 0 \in 0..(Numbers - 1)
    BY <1>4 DEF Message
  <2> HIDE DEF m
  <2> QED
    BY <1>1, <1>4, <2>1, Zenon
<1>6. QueueInv'
  BY <1>1, <1>5, Zenon DEF MboxInv, QueueInv, Filled, Filling, cib_avail
<1>7. MailInv'
  <2>1. wait_data \in [Pids -> Message \cup {NoMsg}]
    BY Zenon DEF MboxInv, MailInv
  <2>2. /\ wait_data' \in [Pids -> Message \cup {NoMsg}]
        /\ \A u \in Pids : u # t => wait_data'[u] = wait_data[u]
    BY <1>1, <2>1, Zenon
  <2>3. \A u \in Pids : In(u, 0)' /\ u \notin Range(readers)' => wait_data'[u] \in Message
    BY <1>1, <1>2, <2>2, Zenon DEF MboxInv, MailInv
  <2>4. \A u \in Pids : In(u, 1)' => Filled' /\ (u \in Range(writers)' \/ Size # 0)
    BY <1>1, <1>2, Zenon DEF MboxInv, MailInv, Filled
  <2>5. OnlySlipsHarm'
    BY <1>1, Zenon DEF MboxInv, MailInv, OnlySlipsHarm, NoReaderWaitsInVain, cib_avail
  <2> QED
    BY <2>2, <2>3, <2>4, <2>5, Zenon DEF MailInv
<1> QED
  BY <1>2, <1>6, <1>7, Zenon DEF MboxInv

(* _mbox_get() takes a message from the queue and wakes the first writer.  *)
LEMMA GetQueuedKeeps ==
  ASSUME MboxInv, NEW t \in Pids, GetQueued(t)
  PROVE  MboxInv'
<1> DEFINE ws == MboxWindows
           w == Head(writers)
           l == Tail(writers)
           prio == k.priority[w]
<1>1. /\ InApp(t) /\ cib_avail(cib) # 0 /\ Take(msg_array[GetIndex(cib)])
      /\ cib' = AfterGet(cib) /\ msg_array' = msg_array /\ readers' = readers
      /\ wait_data' = wait_data /\ sent' = sent /\ slipped' = slipped
      /\ IF writers = <<>>
         THEN UNCHANGED <<cpuVars, writers>>
         ELSE /\ GoTo(t, sched_set_status(k, w, "PENDING"), "switch", prio)
              /\ writers' = l
  BY Zenon DEF GetQueued
<1>2. /\ QueueInv' /\ Size # 0 /\ (Filled => Filled')
      /\ cib_avail(cib)' = cib_avail(cib) - 1 /\ cib_avail(cib) \in Nat
  BY <1>1, FetchKeeps, Zenon DEF MboxInv
<1>3. OnlySlipsHarm'
  <2>1. Size \in Nat
    BY Widths, Zenon
  <2>2. readers # <<>> /\ ~slipped => FALSE
    BY <1>1, Zenon DEF MboxInv, MailInv, OnlySlipsHarm, NoReaderWaitsInVain
  <2>3. ~slipped => cib_avail(cib) <= Size
    BY Zenon DEF MboxInv, MailInv, OnlySlipsHarm
  <2> QED
    BY <1>1, <1>2, <2>1, <2>2, <2>3 DEF OnlySlipsHarm, NoReaderWaitsInVain
<1>4. ASSUME PlacesKept PROVE MailInv'
  <2>1. \A u \in Pids : In(u, 0)' /\ u \notin Range(readers)' => wait_data'[u] \in Message
    BY <1>1, <1>4, Zenon DEF MboxInv, MailInv, PlacesKept
  <2>2. \A u \in Pids : In(u, 1)' => Filled' /\ Size # 0
    BY <1>2, <1>4, Zenon DEF MboxInv, MailInv, PlacesKept
  <2> QED
    BY <1>1, <1>3, <2>1, <2>2, Zenon DEF MboxInv, MailInv
<1>5. CASE writers = <<>>
  <2>1. /\ k' = k /\ pc' = pc /\ arg' = arg /\ null_store' = null_store
        /\ writers' = writers
    BY <1>1, <1>5, Zenon DEF cpuVars
  <2>2. CoreInv'
    BY <2>1, Zenon DEF MboxInv, CoreInv, CpuInv, CpuTypeOK, HeadOutside, Settled
  <2>3. PlacesKept /\ ListInv'
    BY <1>1, <2>1, Zenon DEF MboxInv, ListInv, BlockedAreListed, In, PlacesKept
  <2> QED
    BY <1>2, <1>4, <2>2, <2>3, Zenon DEF MboxInv
<1>6. CASE writers # <<>>
  <2>1. /\ CpuInv(ws, Unqueued, AtEase) /\ ~k.request /\ k.threads = Pids /\ k.priority = Prio
        /\ k.status \in [Pids -> Status] /\ k.priority \in [Pids -> Prios]
    BY Zenon DEF MboxInv, CoreInv, CpuInv, CpuTypeOK, Kernel
  <2>2. GoTo(t, sched_set_status(k, w, "PENDING"), "switch", prio) /\ writers' = l
    BY <1>1, <1>6, Zenon
  <2>3. /\ w \in Pids /\ w \in Range(writers) /\ w \in k.threads /\ ~Runnable(k, w)
        /\ l \in Seq(Pids) /\ IsInjective(l) /\ Range(l) = Range(writers) \ {w}
    BY <1>6, HeadSleeps, Zenon
  <2>4. prio \in Nat /\ "switch" \in ws /\ prio = k.priority[w]
    BY <2>1, <2>3, CpuConstants, Zenon DEF MboxWindows
  <2> HIDE DEF w, l, prio
  <2>5. /\ CpuInv(ws, Unqueued, AtEase)' /\ SameThreads /\ k'.request = k.request
        /\ k'.status = [k.status EXCEPT ![w] = "PENDING"]
    BY <1>1, <2>1, <2>2, <2>3, <2>4, MboxSets, WakeStep, SMTT(30)
  <2>6. CoreInv' /\ \A u \in Pids : IsBlocked(u)' <=> IsBlocked(u) /\ u # w
    BY <2>1, <2>3, <2>5, Zenon DEF CoreInv, SameThreads, IsBlocked
  <2>7. PlacesKept
    BY <1>1, <2>2, OutsideCalls DEF InApp, Waiting
  <2>8. Range(readers)' = Range(readers) /\ Range(writers)' = Range(writers) \ {w}
    BY <1>1, <2>2, <2>3, Zenon
  <2>9. ListInv'
    <3>1. \A u \in Pids : In(u, 1)' => u \in Writers
      BY <2>7, Zenon DEF MboxInv, ListInv, PlacesKept
    <3>2. \A u \in Pids : /\ u \in Range(readers)' => In(u, 0)'
                          /\ u \in Range(writers)' => In(u, 1)'
      BY <2>7, <2>8, ListsAre, Zenon DEF PlacesKept
    <3>3. \A u \in Pids : IsBlocked(u)' <=> u \in Range(readers)' \/ u \in Range(writers)'
      BY <2>3, <2>6, <2>8, ListsAre, Zenon
    <3>4. /\ readers' \in Seq(Pids) /\ IsInjective(readers)' /\ Range(readers)' \subseteq Pids
          /\ writers' \in Seq(Pids) /\ IsInjective(writers)' /\ Range(writers)' \subseteq Pids
          /\ Range(readers)' \cap Range(writers)' = {}
      BY <1>1, <2>2, <2>3, <2>8, ListsAre, Zenon
    <3> QED
      BY <3>1, <3>2, <3>3, <3>4, ListsFollow, Zenon
  <2> QED
    BY <1>2, <1>4, <2>6, <2>7, <2>9, Zenon DEF MboxInv
<1> QED
  BY <1>5, <1>6, Zenon
---------------------------------------------------------------------------
(* Every step preserves the invariant.                                     *)
LEMMA MboxStep ==
  ASSUME MboxInv, [Next]_vars
  PROVE  MboxInv'
<1>1. CASE UNCHANGED vars
  <2>1. /\ k' = k /\ pc' = pc /\ arg' = arg /\ null_store' = null_store
        /\ UNCHANGED mboxVars
    BY <1>1, Zenon DEF vars, cpuVars
  <2>2. CoreInv'
    BY <2>1, Zenon DEF MboxInv, CoreInv, CpuInv, CpuTypeOK, HeadOutside, Settled
  <2>3. BlockedKept /\ PlacesKept
    BY <2>1, Zenon DEF BlockedKept, IsBlocked, PlacesKept, In
  <2> QED
    BY <2>1, <2>2, <2>3, Frame, Zenon
<1>2. ASSUME NEW t \in Pids, KernelStep(t) PROVE MboxInv'
  BY <1>2, CpuStepKeeps, WaitStepKeeps, GetAfterWaitKeeps, PutAfterWaitKeeps, Zenon DEF KernelStep
<1>3. ASSUME NEW t \in Writers \ {NULL}, Put(t) PROVE MboxInv'
  <2>1. t \in Pids /\ t \in Writers
    BY MboxConstants, Zenon
  <2>2. CASE PutQueue(t)
    BY <2>1, <2>2, StoreFreeKeeps, Zenon DEF PutQueue
  <2> QED
    BY <1>3, <2>1, <2>2, PutHandOverKeeps, PutBlockKeeps, Zenon DEF Put
<1>4. ASSUME NEW t \in Readers, Get(t) PROVE MboxInv'
  <2>1. t \in Pids
    BY MboxConstants, Zenon
  <2> QED
    BY <1>4, <2>1, GetQueuedKeeps, GetBlockKeeps, Zenon DEF Get
<1>5. CASE NULL \in Writers /\ IsrPut
  BY <1>5, IsrPutKeeps, Zenon
<1>6. ASSUME NEW t \in Pids, ThreadSleep(t) \/ IsrWakeup(t), UNCHANGED mboxVars
      PROVE  MboxInv'
  BY <1>6, CpuStepKeeps, Zenon
<1> QED
  BY <1>1, <1>2, <1>3, <1>4, <1>5, <1>6, Zenon DEF Next

(* MBOX_INIT, with nobody in a call.                                       *)
LEMMA MboxInit ==
  ASSUME Init
  PROVE  MboxInv /\ cib_avail(cib) = 0 /\ \A t \in Pids : ~In(t, 0)
<1>1. /\ k = AllCreated(MaxPid, Prio) /\ Quiet /\ Prio \in [Pids -> Prios]
      /\ cib = CIB_INIT(Size) /\ msg_array = [i \in 0..(Size - 1) |-> NoMsg]
      /\ readers = <<>> /\ writers = <<>> /\ wait_data = [t \in Pids |-> NoMsg]
      /\ sent = [s \in Writers |-> 0] /\ got = [s \in Writers |-> 0] /\ slipped = FALSE
  BY MboxConstants, Zenon DEF Init
<1>2. MaxPid \in Pids /\ Pids = 1..MaxPid
  BY SchedConstants DEF Pids
<1>3. /\ CpuInv(MboxWindows, Unqueued, AtEase) /\ ~k.request
      /\ k.threads = 1..MaxPid /\ \A t \in 1..MaxPid : k.priority[t] = Prio[t]
      /\ \A t \in 1..MaxPid : Runnable(k, t)
  BY <1>1, <1>2, MboxSets, CpuInit, Zenon
<1>4. CoreInv
  <2>1. k.priority \in [Pids -> Prios]
    BY <1>3, Zenon DEF CpuInv, CpuTypeOK, Kernel
  <2>2. k.priority = Prio
    BY <1>1, <1>2, <1>3, <2>1, SMTT(30)
  <2> QED
    BY <1>2, <1>3, <2>2, Zenon DEF CoreInv
<1>5. \A t \in Pids : pc[t] = "app" /\ ~IsBlocked(t)
  BY <1>1, <1>2, <1>3, Zenon DEF Quiet, IsBlocked, Runnable, OnRunqueue
<1>6. \A t \in Pids : ~In(t, 0) /\ ~In(t, 1)
  BY <1>5, Zenon DEF In
<1>7. DOMAIN <<>> = {} /\ <<>> \in Seq(Pids)
  OBVIOUS
<1>8. Range(<<>>) = {} /\ IsInjective(<<>>)
  BY <1>7, Zenon DEF Range, IsInjective
<1>9. ListInv
  BY <1>1, <1>5, <1>6, <1>7, <1>8, Zenon DEF ListInv, BlockedAreListed, IsBlocked
<1> DEFINE n == 2^W
<1>10. n \in Nat /\ n > 1 /\ Size \in Nat /\ Size < n /\ Numbers \in Nat \ {0}
  BY Widths
<1>11. /\ cib = [read_count |-> 0, write_count |-> 0, mask |-> (Size - 1) % n]
       /\ UInt = 0..(n - 1) /\ cib_avail(cib) = (cib.write_count - cib.read_count) % n
  BY <1>1, Zenon DEF CIB_INIT, UInt, cib_avail
<1>12. cib.mask = (Size - 1) % 2^W
  BY <1>11, Zenon
<1> HIDE DEF n
<1>13. (Size - 1) % n \in 0..(n - 1) /\ 0 \in 0..(n - 1) /\ (0 - 0) % n = 0
  BY <1>10
<1>14. cib \in CibType /\ cib_avail(cib) = 0
  BY <1>11, <1>13, Zenon DEF CibType
<1>15. Filled \/ Filling
  BY <1>10, <1>11 DEF Filled, Filling
<1>16. QueueInv
  <2>1. /\ sent \in [Writers -> 0..(Numbers - 1)] /\ got \in [Writers -> 0..(Numbers - 1)]
        /\ msg_array \in [0..(Size - 1) -> Message \cup {NoMsg}]
    BY <1>1, <1>10
  <2>2. slipped \in BOOLEAN
    BY <1>1, Zenon
  <2> QED
    BY <1>12, <1>14, <1>15, <2>1, <2>2, Zenon DEF QueueInv
<1>17. MailInv
  BY <1>1, <1>6, <1>10, <1>14 DEF MailInv, OnlySlipsHarm, NoReaderWaitsInVain
<1> QED
  BY <1>4, <1>6, <1>9, <1>14, <1>16, <1>17, Zenon DEF MboxInv

(* MboxInv is an invariant.                                                *)
LEMMA MboxInvariant == Spec => []MboxInv
<1>1. Init => MboxInv
  BY MboxInit, Zenon
<1>2. MboxInv /\ [Next]_vars => MboxInv'
  BY MboxStep, Zenon
<1> QED
  BY <1>1, <1>2, PTL DEF Spec
---------------------------------------------------------------------------
(* core/mbox.c keeps the scheduler's structures and its own lists intact,  *)
(* and no mbox_get() returns without a message.                            *)
THEOREM Intact == Spec => []MboxIntact
<1>1. MboxInv => MboxIntact
  <2> SUFFICES ASSUME MboxInv PROVE MboxIntact
    BY Zenon
  <2>1. TypeOK
    BY Zenon DEF MboxInv, CoreInv, CpuInv, ListInv, QueueInv, MailInv, TypeOK
  <2>2. SchedulerIntact
    BY Zenon DEF MboxInv, CoreInv, CpuInv, SchedulerIntact, RunqueueConsistent, Unqueued
  <2>3. HighestPriorityRuns
    BY Zenon DEF MboxInv, CoreInv, CpuInv, HighestPriorityRuns, Settled, AtEase
  <2>4. BlockedAreListed
    BY Zenon DEF MboxInv, ListInv
  <2>5. WokenWithMessage
    <3> SUFFICES ASSUME NEW t \in Pids, k.active = t, pc[t] = "mbox_woken", arg[t] = 0
                 PROVE  wait_data[t] # NoMsg
      BY Zenon DEF WokenWithMessage
    <3>1. t \notin Range(readers) /\ In(t, 0)
      BY ActiveIsAwake, Zenon DEF Unqueued, In
    <3> QED
      BY <3>1, MboxSets, Zenon DEF MboxInv, MailInv
  <2> QED
    BY <2>1, <2>2, <2>3, <2>4, <2>5, Zenon DEF MboxIntact
<1> QED
  BY <1>1, MboxInvariant, PTL

(* Until a mbox_put() has slipped, the queue never holds more messages     *)
(* than it has places, and no reader waits while it holds one.             *)
THEOREM SlipsHarm == Spec => []OnlySlipsHarm
<1>1. MboxInv => OnlySlipsHarm
  BY Zenon DEF MboxInv, MailInv
<1> QED
  BY <1>1, MboxInvariant, PTL
---------------------------------------------------------------------------
(* Another message at the end.                                             *)
LEMMA PutSuccessive ==
  ASSUME NEW q \in Seq(Letter), NEW m \in Letter, NEW s, NEW n, Successive(q, s, n),
         m.from = s => m.num = (n + 1) % Numbers
  PROVE  Successive(Append(q, m), s, IF m.from = s THEN m.num ELSE n)
<1> DEFINE l     == Len(q) + 1
           p     == Append(q, m)
           Mine  == {i \in 1..Len(q) : q[i].from = s}
           Mine2 == {i \in 1..Len(p) : p[i].from = s}
<1>1. /\ Len(p) = l /\ p[l] = m /\ \A i \in 1..Len(q) : p[i] = q[i]
      /\ Len(q) \in Nat
  OBVIOUS
<1>2. /\ \A i, j \in Mine :
           (i < j /\ \A h \in Mine : h <= i \/ j <= h) => q[j].num = (q[i].num + 1) % Numbers
      /\ \A i \in Mine : (\A h \in Mine : h <= i) => q[i].num = n
  BY Zenon DEF Successive
<1> HIDE DEF p
<1>3. /\ \A i \in Mine : i \in Mine2 /\ i \in 1..Len(q) /\ i < l /\ p[i] = q[i]
      /\ \A i \in Mine2 : i \in Mine \/ (i = l /\ m.from = s)
      /\ m.from = s => l \in Mine2
  BY <1>1
<1> HIDE DEF Mine, Mine2
<1>4. ASSUME NEW i \in Mine2, NEW j \in Mine2, i < j, \A h \in Mine2 : h <= i \/ j <= h
      PROVE  p[j].num = (p[i].num + 1) % Numbers
  <2>1. i \in Mine
    BY <1>1, <1>3, <1>4
  <2>2. CASE j \in Mine
    BY <1>2, <1>3, <1>4, <2>1, <2>2, Zenon
  <2>3. CASE j = l /\ m.from = s
    <3>1. \A h \in Mine : h <= i
      BY <1>1, <1>3, <1>4, <2>3
    <3>2. p[i].num = n /\ p[j] = m
      BY <1>1, <1>2, <1>3, <2>1, <2>3, <3>1, Zenon
    <3> QED
      BY <2>3, <3>2, Zenon
  <2> QED
    BY <1>3, <2>2, <2>3, Zenon
<1>5. ASSUME NEW i \in Mine2, \A h \in Mine2 : h <= i
      PROVE  p[i].num = IF m.from = s THEN m.num ELSE n
  <2>1. CASE m.from = s
    <3>1. i = l
      BY <1>1, <1>3, <1>5, <2>1
    <3> QED
      BY <1>1, <2>1, <3>1, Zenon
  <2>2. CASE m.from # s
    BY <1>2, <1>3, <1>5, <2>2, Zenon
  <2> QED
    BY <2>1, <2>2, Zenon
<1> QED
  BY <1>4, <1>5, Zenon DEF Successive, Mine2, p

(* The message behind the last one got is got.                             *)
LEMMA GetSuccessive ==
  ASSUME NEW x \in Seq(Letter), x # <<>>, NEW e \in Letter, NEW e2 \in Letter, NEW s, NEW n,
         e.from = s, e2 = (IF Head(x).from = s THEN Head(x) ELSE e),
         Successive(<<e>> \o x, s, n)
  PROVE  Successive(<<e2>> \o Tail(x), s, n)
<1> DEFINE q     == <<e>> \o x
           p     == <<e2>> \o Tail(x)
           Mine  == {i \in 1..Len(q) : q[i].from = s}
           Mine2 == {i \in 1..Len(p) : p[i].from = s}
           first == IF Head(x).from = s THEN 2 ELSE 1
           up(i) == IF i = 1 THEN first ELSE i + 1
<1>1. /\ q \in Seq(Letter) /\ p \in Seq(Letter) /\ Len(q) = Len(p) + 1 /\ Len(q) >= 2
      /\ q[1] = e /\ q[2] = Head(x) /\ p[1] = e2
  OBVIOUS
<1>2. \A i \in 2..Len(p) : p[i] = q[i + 1]
  OBVIOUS
<1>3. /\ \A i, j \in Mine :
           (i < j /\ \A h \in Mine : h <= i \/ j <= h) => q[j].num = (q[i].num + 1) % Numbers
      /\ \A i \in Mine : (\A h \in Mine : h <= i) => q[i].num = n
  BY Zenon DEF Successive
<1> HIDE DEF p, q
<1>4. \A i \in Mine2 : i \in Nat /\ up(i) \in Mine /\ p[i] = q[up(i)]
  BY <1>1, <1>2
<1>5. \A h \in Mine : h = 1 \/ \E i \in Mine2 : h = up(i)
  <2> SUFFICES ASSUME NEW h \in Mine, h # 1 PROVE \E i \in Mine2 : h = up(i)
    OBVIOUS
  <2>1. h \in 2..Len(q) /\ q[h].from = s
    BY <1>1
  <2>2. CASE h = 2
    <3>1. first = 2 /\ p[1].from = s
      BY <1>1, <2>1, <2>2
    <3> QED
      BY <1>1, <2>2, <3>1
  <2>3. CASE h > 2
    <3>1. h - 1 \in 2..Len(p) /\ p[h - 1] = q[h]
      BY <1>1, <1>2, <2>1, <2>3
    <3>2. h - 1 \in Mine2 /\ up(h - 1) = h
      BY <2>1, <2>3, <3>1
    <3> QED
      BY <3>2, Zenon
  <2> QED
    BY <2>1, <2>2, <2>3
<1>6. /\ \A i, j \in Mine2 : (i < j => up(i) < up(j)) /\ (i <= j => up(i) <= up(j))
      /\ \A i \in Mine2 : 1 <= up(i)
  BY <1>1
<1> HIDE DEF Mine, Mine2, up, first
<1>7. ASSUME NEW i \in Mine2, NEW j \in Mine2, i < j, \A h \in Mine2 : h <= i \/ j <= h
      PROVE  p[j].num = (p[i].num + 1) % Numbers
  <2>1. \A h \in Mine : h <= up(i) \/ up(j) <= h
    BY <1>5, <1>6, <1>7, Zenon
  <2>2. /\ up(i) \in Mine /\ up(j) \in Mine /\ up(i) < up(j)
        /\ p[i] = q[up(i)] /\ p[j] = q[up(j)]
    BY <1>4, <1>6, <1>7, Zenon
  <2>3. q[up(j)].num = (q[up(i)].num + 1) % Numbers
    BY <1>3, <2>1, <2>2, Zenon
  <2> QED
    BY <2>2, <2>3, Zenon
<1>8. ASSUME NEW i \in Mine2, \A h \in Mine2 : h <= i
      PROVE  p[i].num = n
  <2>1. \A h \in Mine : h <= up(i)
    BY <1>5, <1>6, <1>8, Zenon
  <2> QED
    BY <1>3, <1>4, <2>1, Zenon
<1> QED
  BY <1>7, <1>8, Zenon DEF Successive, Mine2, p
---------------------------------------------------------------------------
(* The places of a cib c with the array a that hold messages, in order.    *)
Places(c, a) == [i \in 1..cib_avail(c) |-> a[And(c.read_count + i - 1, c.mask)]]

(* Masking the counter is counting places modulo the size of the array.    *)
LEMMA PlacesAre ==
  ASSUME NEW c \in CibType, NEW a \in [0..(Size - 1) -> Letter],
         Size # 0, c.mask = Size - 1, cib_avail(c) \in Nat
  PROVE  /\ Places(c, a) \in Seq(Letter) /\ Len(Places(c, a)) = cib_avail(c)
         /\ \A i \in 1..cib_avail(c) :
              Places(c, a)[i] = a[(c.read_count + (i - 1)) % Size]
<1> DEFINE n == cib_avail(c)
<1>1. /\ Size \in Nat \ {0} /\ c.read_count \in Nat /\ c.mask # 2^W - 1 /\ c.mask + 1 = Size
  BY Widths DEF CibType, UInt
<1>2. n \in Nat
  OBVIOUS
<1> HIDE DEF n
<1>3. \A i \in 1..n : And(c.read_count + i - 1, c.mask) = (c.read_count + (i - 1)) % Size
  BY <1>1, <1>2 DEF And
<1>4. \A i \in 1..n : (c.read_count + (i - 1)) % Size \in 0..(Size - 1)
  BY <1>1, <1>2
<1>5. Places(c, a) = [i \in 1..n |-> a[(c.read_count + (i - 1)) % Size]]
  BY <1>3, Zenon DEF Places, n
<1>6. \A i \in 1..n : a[(c.read_count + (i - 1)) % Size] \in Letter
  BY <1>4, Zenon
<1> QED
  BY <1>2, <1>5, <1>6 DEF n

(* The queue is empty or as above.                                         *)
LEMMA QueuedIs ==
  ASSUME QueueInv
  PROVE  /\ Queued = Places(cib, msg_array)
         /\ Queued \in Seq(Letter) /\ Len(Queued) = cib_avail(cib) /\ cib_avail(cib) \in Nat
         /\ cib \in CibType /\ msg_array \in [0..(Size - 1) -> Letter]
         /\ Size # 0 => cib.mask = Size - 1
<1>1. /\ cib \in CibType /\ msg_array \in [0..(Size - 1) -> Letter]
      /\ Size = 0 => cib_avail(cib) = 0
  BY Zenon DEF QueueInv, Letter
<1>2. cib_avail(cib) \in Nat /\ (Size # 0 => cib.mask = Size - 1)
  BY FullIs, Widths
<1>3. Queued = Places(cib, msg_array)
  BY Zenon DEF Queued, Places
<1>4. Size = 0 => Queued = <<>>
  BY <1>1 DEF Queued
<1> QED
  BY <1>1, <1>2, <1>3, <1>4, PlacesAre

(* A message that is stored in a free place is the last in the queue.      *)
LEMMA StoreAppends ==
  ASSUME QueueInv, NEW s \in Writers, Store(s), ~cib_full(cib), cib_avail(cib) <= Size,
         got' = got, slipped' \in BOOLEAN
  PROVE  Queued' = Append(Queued, Mail(s))
<1> DEFINE n == 2^W
           r == cib.read_count
           w == cib.write_count
           v == cib_avail(cib)
           m == Mail(s)
           z == Size
<1>1. /\ n \in Nat /\ n > 1 /\ z \in Nat /\ z # 0 /\ z < n - 1 /\ n % z = 0
  BY Widths, FullIs
<1>2. /\ cib \in CibType /\ msg_array \in [0..(z - 1) -> Letter] /\ cib.mask = z - 1
      /\ Queued = Places(cib, msg_array)
  BY <1>1, QueuedIs, Zenon
<1>3. r \in 0..(n - 1) /\ w \in 0..(n - 1) /\ v = (w - r) % n
  BY <1>2, Zenon DEF CibType, UInt, cib_avail
<1>4. v \in Nat /\ v < z
  BY <1>1, FullIs
<1>5. QueueInv'
  BY <1>1, StoreKeeps, Zenon
<1>6. /\ cib' = [cib EXCEPT !.write_count = (w + 1) % n]
      /\ msg_array' = [msg_array EXCEPT ![PutIndex(cib)] = m] /\ Count(s)
  BY Zenon DEF Store, AfterPut
<1>7. m \in Letter
  BY <1>6, MailIsMessage, Zenon DEF Letter
<1>8. PutIndex(cib) = w % z
  BY <1>1, <1>2 DEF PutIndex, And
<1>9. /\ cib' \in CibType /\ msg_array' \in [0..(z - 1) -> Letter] /\ cib'.read_count = r
      /\ cib'.write_count = (w + 1) % n /\ cib'.mask = z - 1
      /\ Queued' = Places(cib', msg_array')
  BY <1>2, <1>5, <1>6, Zenon DEF QueueInv, Letter, CibType, Queued, Places
<1>10. cib_avail(cib') = (((w + 1) % n) - r) % n
  BY <1>9, Zenon DEF cib_avail
<1> HIDE DEF n, r, w, v, m, z
<1>11. cib_avail(cib') = v + 1
  <2>1. ((w - r) % n) < n - 1
    BY <1>1, <1>3, <1>4
  <2> QED
    BY <1>1, <1>3, <1>10, <2>1, PutCounts, Zenon
<1>12. w % z = (r + v) % z
  <2>1. CASE r <= w
    <3>1. v = w - r
      BY <1>1, <1>3, <2>1, PutCounts, Zenon
    <3> QED
      BY <1>3, <3>1
  <2>2. CASE w < r
    <3>1. v = w - r + n
      BY <1>1, <1>3, <2>2
    <3>2. r + v = w + n /\ w \in Nat /\ z > 0
      BY <1>1, <1>3, <3>1
    <3>3. (w + n) % z = w % z
      BY <1>1, <3>2, Around, Zenon
    <3> QED
      BY <3>2, <3>3, Zenon
  <2> QED
    BY <1>3, <2>1, <2>2
<1>13. \A i \in 1..v : (r + (i - 1)) % z # w % z
  <2> SUFFICES ASSUME NEW i \in 1..v PROVE (r + (i - 1)) % z # (r + v) % z
    BY <1>12, Zenon
  <2> DEFINE x == r + (i - 1)
             d == v - i + 1
  <2>1. x \in Nat /\ d \in 1..(z - 1) /\ r + v = x + d
    BY <1>1, <1>3, <1>4
  <2> HIDE DEF x, d
  <2>2. (x + d) % z # x % z
    BY <1>1, <2>1, Apart, Zenon
  <2> QED
    BY <2>1, <2>2, Zenon DEF x
<1>14. \A y \in Nat : y % z \in 0..(z - 1)
  BY <1>1, IndexIs, Zenon
<1>15. /\ \A i \in 1..v : msg_array'[(r + (i - 1)) % z] = msg_array[(r + (i - 1)) % z]
       /\ msg_array'[(r + v) % z] = m
  <2>1. \A i \in 1..v : r + (i - 1) \in Nat
    BY <1>3, <1>4
  <2>2. r + v \in Nat /\ w \in Nat
    BY <1>3, <1>4
  <2> QED
    BY <1>2, <1>6, <1>7, <1>8, <1>12, <1>13, <1>14, <2>1, <2>2, Zenon
<1>16. /\ Queued \in Seq(Letter) /\ Len(Queued) = v
       /\ \A i \in 1..v : Queued[i] = msg_array[(r + (i - 1)) % z]
  BY <1>1, <1>2, <1>4, PlacesAre, Zenon DEF v, r, z
<1>17. /\ Queued' \in Seq(Letter) /\ Len(Queued') = v + 1
       /\ \A i \in 1..(v + 1) : Queued'[i] = msg_array'[(r + (i - 1)) % z]
  <2>1. v + 1 \in Nat
    BY <1>4
  <2> QED
    BY <1>1, <1>9, <1>11, <2>1, PlacesAre DEF z
<1>18. /\ \A i \in 1..v : Queued'[i] = Queued[i]
       /\ Queued'[v + 1] = m
  BY <1>4, <1>3, <1>15, <1>16, <1>17
<1> QED
  BY <1>4, <1>7, <1>16, <1>17, <1>18 DEF m

(* The message that is fetched was the first in the queue.                 *)
LEMMA FetchTails ==
  ASSUME QueueInv, cib_avail(cib) # 0, Take(msg_array[GetIndex(cib)]),
         cib' = AfterGet(cib), UNCHANGED <<msg_array, sent, slipped>>
  PROVE  /\ Queued # <<>> /\ Head(Queued) = msg_array[GetIndex(cib)]
         /\ Queued' = Tail(Queued)
<1> DEFINE n == 2^W
           r == cib.read_count
           r2 == (r + 1) % n
           v == cib_avail(cib)
           z == Size
<1>1. /\ QueueInv' /\ z # 0 /\ cib_avail(cib)' = v - 1 /\ v \in Nat /\ v # 0
  BY FetchKeeps, Zenon
<1>2. n \in Nat /\ n > 1 /\ z \in Nat /\ z < n - 1 /\ n % z = 0
  BY <1>1, Widths
<1>3. /\ cib \in CibType /\ msg_array \in [0..(z - 1) -> Letter] /\ cib.mask = z - 1
      /\ Queued = Places(cib, msg_array)
  BY <1>1, QueuedIs, Zenon
<1>4. r \in 0..(n - 1)
  BY <1>3, Zenon DEF CibType, UInt
<1>5. /\ cib' \in CibType /\ cib'.read_count = r2 /\ cib'.mask = z - 1
      /\ Queued' = Places(cib', msg_array) /\ cib_avail(cib') = v - 1
  BY <1>1, <1>3, Zenon DEF QueueInv, CibType, AfterGet, Queued, Places, cib_avail
<1>6. GetIndex(cib) = r % z
  BY <1>2, <1>3 DEF GetIndex, And
<1> HIDE DEF n, r, v, z, r2
<1>7. /\ Queued \in Seq(Letter) /\ Len(Queued) = v
      /\ \A i \in 1..v : Queued[i] = msg_array[(r + (i - 1)) % z]
  BY <1>1, <1>3, PlacesAre, Zenon DEF v, r, z
<1>8. /\ Queued' \in Seq(Letter) /\ Len(Queued') = v - 1
      /\ \A i \in 1..(v - 1) : Queued'[i] = msg_array[(r2 + (i - 1)) % z]
  <2>1. v - 1 \in Nat
    BY <1>1
  <2> QED
    BY <1>1, <1>3, <1>5, <2>1, PlacesAre, Zenon DEF z
<1>9. \A i \in 1..(v - 1) : (r2 + (i - 1)) % z = (r + i) % z
  <2>1. CASE r < n - 1
    <3>1. r2 = r + 1
      BY <1>2, <1>4, <2>1 DEF r2
    <3>2. \A i \in 1..(v - 1) : r2 + (i - 1) = r + i
      BY <1>1, <1>4, <3>1
    <3> QED
      BY <3>2, Zenon
  <2>2. CASE r = n - 1
    <3>1. r2 = 0
      BY <1>2, <2>2 DEF r2
    <3>2. \A i \in 1..(v - 1) : r2 + (i - 1) \in Nat /\ (r2 + (i - 1)) + n = r + i
      BY <1>1, <1>2, <2>2, <3>1
    <3>3. z \in Nat /\ z > 0
      BY <1>1, <1>2
    <3>4. \A x \in Nat : (x + n) % z = x % z
      BY <1>2, <3>3, Around, Zenon
    <3> QED
      BY <3>2, <3>4, Zenon
  <2> QED
    BY <1>2, <1>4, <2>1, <2>2
<1>10. Queued # <<>> /\ Head(Queued) = msg_array[GetIndex(cib)]
  <2>1. Queued[1] = msg_array[r % z]
    BY <1>1, <1>4, <1>7
  <2> QED
    BY <1>1, <1>6, <1>7, <2>1
<1>11. \A i \in 1..(v - 1) : Queued'[i] = Queued[i + 1]
  <2> SUFFICES ASSUME NEW i \in 1..(v - 1) PROVE Queued'[i] = Queued[i + 1]
    BY Zenon
  <2>1. i + 1 \in 1..v /\ (i + 1) - 1 = i
    BY <1>1
  <2>2. Queued[i + 1] = msg_array[(r + i) % z]
    BY <1>7, <2>1
  <2> QED
    BY <1>8, <1>9, <2>2, Zenon
<1> QED
  BY <1>1, <1>7, <1>8, <1>10, <1>11
---------------------------------------------------------------------------
(* What is in transit.                                                     *)
LEMMA TransitIs ==
  ASSUME MboxInv, NEW r \in Pids
  PROVE  /\ InTransit(r) \in Seq(Letter) /\ Queued \in Seq(Letter)
         /\ wait_data[r] = NoMsg => InTransit(r) = Queued
         /\ wait_data[r] # NoMsg => InTransit(r) = <<wait_data[r]>> \o Queued
<1>1. Queued \in Seq(Letter)
  BY QueuedIs, Zenon DEF MboxInv
<1>2. wait_data[r] \in Letter
  BY Zenon DEF MboxInv, MailInv, Letter
<1> QED
  BY <1>1, <1>2 DEF InTransit

(* One more message of s is in transit.                                    *)
LEMMA PutOrder ==
  ASSUME QueueInv, NoLossNoReordering, ~slipped, NEW r \in Readers, Readers = {r},
         NEW s \in Writers, Count(s), got' = got,
         InTransit(r) \in Seq(Letter), InTransit(r)' = Append(InTransit(r), Mail(s))
  PROVE  NoLossNoReordering'
<1> DEFINE m == Mail(s)
           x == InTransit(r)
           e(u) == [from |-> u, num |-> got[u]]
<1>1. /\ m \in Letter /\ m.from = s /\ m.num = (sent[s] + 1) % Numbers
      /\ sent \in [Writers -> 0..(Numbers - 1)] /\ sent' = [sent EXCEPT ![s] = m.num]
      /\ got \in [Writers -> 0..(Numbers - 1)]
  BY MailIsMessage, Zenon DEF Letter, Mail, NextNum, Count, QueueInv
<1> HIDE DEF m
<1>2. SUFFICES ASSUME NEW u \in Writers
               PROVE  Successive(<<e(u)>> \o Append(x, m), u, sent'[u])
  BY Zenon DEF NoLossNoReordering, m
<1>3. e(u) \in Letter
  BY <1>1, Zenon DEF Letter, Message
<1>4. Successive(<<e(u)>> \o x, u, sent[u])
  BY Zenon DEF NoLossNoReordering
<1> HIDE DEF x, e
<1>5. /\ <<e(u)>> \o x \in Seq(Letter)
      /\ <<e(u)>> \o Append(x, m) = Append(<<e(u)>> \o x, m)
  BY <1>1, <1>3 DEF x
<1>6. m.from = u => m.num = (sent[u] + 1) % Numbers
  BY <1>1, Zenon
<1>7. Successive(Append(<<e(u)>> \o x, m), u, IF m.from = u THEN m.num ELSE sent[u])
  BY <1>1, <1>4, <1>5, <1>6, PutSuccessive, Zenon
<1>8. sent'[u] = IF m.from = u THEN m.num ELSE sent[u]
  BY <1>1, Zenon
<1> QED
  BY <1>5, <1>7, <1>8, Zenon

(* The first message in transit arrives.                                   *)
LEMMA GetOrder ==
  ASSUME QueueInv, NoLossNoReordering, ~slipped, NEW r \in Readers, Readers = {r},
         InTransit(r) \in Seq(Letter), InTransit(r) # <<>>, Head(InTransit(r)) \in Message,
         Take(Head(InTransit(r))), sent' = sent, InTransit(r)' = Tail(InTransit(r))
  PROVE  NoLossNoReordering'
<1> DEFINE x == InTransit(r)
           m == Head(x)
           e(u)  == [from |-> u, num |-> got[u]]
           e2(u) == [from |-> u, num |-> got'[u]]
<1>1. /\ m \in Message /\ m.from \in Writers /\ m.num \in 0..(Numbers - 1)
      /\ m = [from |-> m.from, num |-> m.num]
      /\ got \in [Writers -> 0..(Numbers - 1)] /\ got' = [got EXCEPT ![m.from] = m.num]
  BY Zenon DEF Take, Message, QueueInv
<1>2. SUFFICES ASSUME NEW u \in Writers
               PROVE  Successive(<<e2(u)>> \o Tail(x), u, sent[u])
  BY Zenon DEF NoLossNoReordering
<1>3. Successive(<<e(u)>> \o x, u, sent[u])
  BY Zenon DEF NoLossNoReordering
<1>4. e(u) \in Letter /\ e(u).from = u
  BY <1>1, Zenon DEF Letter, Message
<1>5. e2(u) = IF m.from = u THEN m ELSE e(u)
  <2> HIDE DEF m
  <2>1. CASE m.from = u
    <3>1. got'[u] = m.num
      BY <1>1, <2>1, Zenon
    <3> QED
      BY <1>1, <2>1, <3>1, Zenon
  <2>2. CASE m.from # u
    <3>1. got'[u] = got[u]
      BY <1>1, <2>2, Zenon
    <3> QED
      BY <2>2, <3>1, Zenon
  <2> QED
    BY <2>1, <2>2, Zenon
<1>6. e2(u) \in Letter
  BY <1>1, <1>4, <1>5, Zenon DEF Letter
<1>7. x \in Seq(Letter) /\ x # <<>>
  BY Zenon
<1> HIDE DEF x, e, e2
<1> QED
  BY <1>3, <1>4, <1>5, <1>6, <1>7, GetSuccessive, Zenon

(* Nothing moves.                                                          *)
LEMMA KeepOrder ==
  ASSUME NoLossNoReordering, cib' = cib, msg_array' = msg_array, wait_data' = wait_data,
         got' = got, sent' = sent, slipped' = slipped
  PROVE  NoLossNoReordering'
<1>1. \A r \in Readers : InTransit(r)' = InTransit(r)
  BY Zenon DEF InTransit, Queued, cib_avail
<1> QED
  BY <1>1, Zenon DEF NoLossNoReordering

(* No buffer is touched.                                                   *)
LEMMA KeepBuffers ==
  ASSUME BufferInv, wait_data' = wait_data, readers' = readers,
         \A u \in Pids : In(u, 0)' <=> In(u, 0)
  PROVE  BufferInv'
  BY Zenon DEF BufferInv

(* mbox_put() hands its message to the reader.                             *)
LEMMA HandOrder ==
  ASSUME MboxInv, OrderInv, readers # <<>>, NEW s \in Writers,
         HandTo(Head(readers), s), PlacesKept
  PROVE  OrderInv'
<1> DEFINE h == Head(readers)
           m == Mail(s)
<1>1. /\ wait_data' = [wait_data EXCEPT ![h] = m] /\ readers' = Tail(readers) /\ Count(s)
      /\ cib' = cib /\ msg_array' = msg_array /\ got' = got /\ slipped' = slipped
  BY Zenon DEF HandTo
<1>2. /\ h \in Pids /\ h \in Range(readers) /\ Range(Tail(readers)) = Range(readers) \ {h}
  BY HeadSleeps, Zenon
<1>3. m \in Message /\ m # NoMsg
  BY <1>1, MailIsMessage, MboxSets, Zenon DEF MboxInv
<1>4. /\ wait_data \in [Pids -> Message \cup {NoMsg}] /\ In(h, 0)
      /\ wait_data[h] = NoMsg /\ h \in Readers
  BY <1>2, ListsAre, Zenon DEF MboxInv, MailInv, OrderInv, BufferInv
<1> HIDE DEF h, m
<1>5. wait_data'[h] = m /\ \A u \in Pids : u # h => wait_data'[u] = wait_data[u]
  BY <1>1, <1>2, <1>4, Zenon
<1>6. Range(readers)' = Range(readers) \ {h}
  BY <1>1, <1>2, Zenon
<1>7. BufferInv'
  BY <1>2, <1>4, <1>5, <1>6, Zenon DEF OrderInv, BufferInv, PlacesKept
<1>8. NoLossNoReordering'
  <2> SUFFICES ASSUME ~slipped, NEW r \in Readers, Readers = {r}, r = h
               PROVE  NoLossNoReordering'
    BY <1>1, <1>4, Zenon DEF NoLossNoReordering
  <2>1. cib_avail(cib) = 0
    BY Zenon DEF MboxInv, MailInv, OnlySlipsHarm, NoReaderWaitsInVain
  <2>2. Queued = <<>>
    BY <2>1 DEF Queued
  <2>3. InTransit(r) = <<>> /\ InTransit(r) \in Seq(Letter)
    BY <1>2, <1>4, <2>2, TransitIs, Zenon
  <2>4. Queued' = Queued
    BY <1>1, Zenon DEF Queued, cib_avail
  <2>5. InTransit(r)' = <<m>> \o <<>>
    BY <1>3, <1>5, <2>2, <2>4, Zenon DEF InTransit
  <2>6. Append(<<>>, m) = <<m>> \o <<>>
    OBVIOUS
  <2>7. InTransit(r)' = Append(InTransit(r), Mail(s))
    BY <2>3, <2>5, <2>6, Zenon DEF m
  <2> QED
    BY <1>1, <2>3, <2>7, PutOrder, Zenon DEF MboxInv, OrderInv
<1> QED
  BY <1>7, <1>8, Zenon DEF OrderInv

(* mbox_put() stores its message, and has not slipped.                     *)
LEMMA StoreOrder ==
  ASSUME MboxInv, OrderInv, NEW s \in Writers, Store(s),
         slipped' \in BOOLEAN, ~slipped' => ~slipped /\ ~cib_full(cib),
         wait_data' = wait_data, readers' = readers, got' = got,
         \A u \in Pids : In(u, 0)' <=> In(u, 0)
  PROVE  OrderInv'
<1>1. BufferInv'
  BY KeepBuffers, Zenon DEF OrderInv
<1>2. NoLossNoReordering'
  <2> SUFFICES ASSUME ~slipped', NEW r \in Readers, Readers = {r} PROVE NoLossNoReordering'
    BY Zenon DEF NoLossNoReordering
  <2>1. QueueInv /\ cib_avail(cib) <= Size /\ ~slipped /\ ~cib_full(cib)
    BY Zenon DEF MboxInv, MailInv, OnlySlipsHarm
  <2>2. Queued' = Append(Queued, Mail(s))
    BY <2>1, StoreAppends, Zenon
  <2>3. r \in Pids /\ Count(s)
    BY MboxConstants, Zenon DEF Store
  <2>4. /\ InTransit(r) \in Seq(Letter) /\ Queued \in Seq(Letter)
        /\ wait_data[r] = NoMsg => InTransit(r) = Queued
        /\ wait_data[r] # NoMsg => InTransit(r) = <<wait_data[r]>> \o Queued
    BY <2>3, TransitIs, Zenon
  <2>5. Mail(s) \in Letter /\ wait_data[r] \in Letter
    BY <2>1, <2>3, MailIsMessage, Zenon DEF Letter, MboxInv, MailInv
  <2>6. InTransit(r)' = (IF wait_data[r] = NoMsg THEN <<>> ELSE <<wait_data[r]>>) \o Queued'
    BY Zenon DEF InTransit
  <2>7. /\ <<>> \o Append(Queued, Mail(s)) = Append(Queued, Mail(s))
        /\ <<wait_data[r]>> \o Append(Queued, Mail(s))
             = Append(<<wait_data[r]>> \o Queued, Mail(s))
    BY <2>4, <2>5
  <2>8. InTransit(r)' = Append(InTransit(r), Mail(s))
    BY <2>2, <2>4, <2>6, <2>7, Zenon
  <2> QED
    BY <2>1, <2>3, <2>4, <2>8, PutOrder, Zenon DEF OrderInv
<1> QED
  BY <1>1, <1>2, Zenon DEF OrderInv

(* mbox_put() blocks, or stores after it has waited.                       *)
LEMMA PutWaitOrder ==
  ASSUME MboxInv, OrderInv, NEW t \in Pids,
         \/ t \in Writers /\ PutBlock(t)
         \/ PutAfterWait(t)
  PROVE  OrderInv'
<1>1. CASE PutBlock(t)
  <2>1. /\ InApp(t)
        /\ GoTo(t, sched_set_status(k, t, "MBOX_BLOCKED"), "mbox_wait", 1)
        /\ cib' = cib /\ msg_array' = msg_array /\ readers' = readers
        /\ wait_data' = wait_data /\ sent' = sent /\ got' = got /\ slipped' = slipped
    BY <1>1, Zenon DEF PutBlock
  <2>2. /\ ~In(t, 0)' /\ ~In(t, 0)
        /\ \A u \in Pids : \A b \in {0, 1} : u # t => (In(u, b)' <=> In(u, b))
    BY <2>1, WaitBegins
  <2>3. \A u \in Pids : In(u, 0)' <=> In(u, 0)
    BY <2>2, Zenon
  <2> QED
    BY <2>1, <2>3, KeepBuffers, KeepOrder, Zenon DEF OrderInv
<1>2. CASE PutAfterWait(t)
  <2>1. /\ k.active = t /\ pc[t] = "mbox_woken" /\ arg[t] = 1
        /\ GoTo(t, k, "app", 0) /\ Store(t)
        /\ slipped' = (slipped \/ cib_full(cib) \/ readers # <<>>)
        /\ readers' = readers /\ writers' = writers /\ wait_data' = wait_data /\ got' = got
    BY <1>2, Zenon DEF PutAfterWait
  <2>2. /\ ~In(t, 0)'
        /\ \A u \in Pids : \A b \in {0, 1} : u # t => (In(u, b)' <=> In(u, b))
    BY <2>1, WaitEnds, Zenon
  <2>3. ~In(t, 0) /\ In(t, 1)
    BY <2>1 DEF In
  <2>4. t \in Writers
    BY <2>3, Zenon DEF MboxInv, ListInv
  <2>5. slipped' \in BOOLEAN /\ (~slipped' => ~slipped /\ ~cib_full(cib))
    <3>1. slipped \in BOOLEAN
      BY Zenon DEF MboxInv, QueueInv
    <3> QED
      BY <2>1, <3>1, Zenon
  <2>6. \A u \in Pids : In(u, 0)' <=> In(u, 0)
    BY <2>2, <2>3, Zenon
  <2> QED
    BY <2>1, <2>4, <2>5, <2>6, StoreOrder, Zenon
<1> QED
  BY <1>1, <1>2, Zenon

(* mbox_get() blocks                                                       *)
LEMMA GetBlockOrder ==
  ASSUME MboxInv, OrderInv, NEW t \in Pids, t \in Readers, GetBlock(t)
  PROVE  OrderInv'
<1>1. /\ InApp(t)
      /\ GoTo(t, sched_set_status(k, t, "MBOX_BLOCKED"), "mbox_wait", 0)
      /\ cib' = cib /\ msg_array' = msg_array
      /\ wait_data' = wait_data /\ sent' = sent /\ got' = got /\ slipped' = slipped
      /\ readers' = thread_add_to_list(k.priority, readers, t)
  BY Zenon DEF GetBlock
<1>2. /\ ~In(t, 0) /\ t \notin Range(readers) /\ k.priority = Prio
      /\ \A u \in Pids : \A b \in {0, 1} : u # t => (In(u, b)' <=> In(u, b))
  BY <1>1, WaitBegins
<1>3. Range(readers)' = Range(readers) \cup {t}
  BY <1>1, <1>2, ListsAre, JoinList, Zenon
<1>4. BufferInv'
  BY <1>1, <1>2, <1>3, Zenon DEF OrderInv, BufferInv
<1> QED
  BY <1>1, <1>4, KeepOrder, Zenon DEF OrderInv

(* mbox_get() takes the first message of the queue.                        *)
LEMMA GetQueuedOrder ==
  ASSUME MboxInv, OrderInv, NEW t \in Pids, t \in Readers, GetQueued(t)
  PROVE  OrderInv'
<1> DEFINE w == Head(writers)
<1>1. /\ InApp(t) /\ cib_avail(cib) # 0 /\ Take(msg_array[GetIndex(cib)])
      /\ cib' = AfterGet(cib) /\ msg_array' = msg_array /\ readers' = readers
      /\ wait_data' = wait_data /\ sent' = sent /\ slipped' = slipped
      /\ \/ UNCHANGED cpuVars
         \/ GoTo(t, sched_set_status(k, w, "PENDING"), "switch", k.priority[w])
  BY Zenon DEF GetQueued
<1>2. PlacesKept
  <2>1. CASE UNCHANGED cpuVars
    BY <2>1, Zenon DEF PlacesKept, In, cpuVars
  <2>2. CASE GoTo(t, sched_set_status(k, w, "PENDING"), "switch", k.priority[w])
    BY <1>1, <2>2, OutsideCalls DEF InApp, Waiting
  <2> QED
    BY <1>1, <2>1, <2>2, Zenon
<1>3. BufferInv'
  BY <1>1, <1>2, KeepBuffers, Zenon DEF OrderInv, PlacesKept
<1>4. NoLossNoReordering'
  <2> SUFFICES ASSUME ~slipped, Readers = {t} PROVE NoLossNoReordering'
    BY <1>1, Zenon DEF NoLossNoReordering
  <2>1. wait_data[t] = NoMsg
    BY <1>1, Zenon DEF OrderInv, BufferInv, InApp, In
  <2>2. InTransit(t) = Queued /\ Queued \in Seq(Letter)
    BY <2>1, TransitIs, Zenon
  <2>3. /\ Queued # <<>> /\ Head(Queued) = msg_array[GetIndex(cib)]
        /\ Queued' = Tail(Queued)
    BY <1>1, FetchTails, Zenon DEF MboxInv
  <2>4. msg_array[GetIndex(cib)] \in Message /\ QueueInv
    BY <1>1, FetchKeeps, Zenon DEF MboxInv
  <2>5. InTransit(t)' = <<>> \o Queued'
    BY <1>1, <2>1, Zenon DEF InTransit
  <2>6. InTransit(t)' = Tail(InTransit(t))
    BY <2>2, <2>3, <2>5
  <2> QED
    BY <1>1, <2>2, <2>3, <2>4, <2>6, GetOrder, Zenon DEF OrderInv
<1> QED
  BY <1>3, <1>4, Zenon DEF OrderInv

(* mbox_get() returns with the message it was handed.                      *)
LEMMA GetAfterWaitOrder ==
  ASSUME MboxInv, OrderInv, NEW t \in Pids, GetAfterWait(t)
  PROVE  OrderInv'
<1> DEFINE m == wait_data[t]
<1>1. /\ k.active = t /\ pc[t] = "mbox_woken" /\ arg[t] = 0
      /\ GoTo(t, k, "app", 0) /\ Take(m)
      /\ wait_data' = [wait_data EXCEPT ![t] = NoMsg]
      /\ cib' = cib /\ msg_array' = msg_array
      /\ readers' = readers /\ writers' = writers /\ sent' = sent /\ slipped' = slipped
  BY Zenon DEF GetAfterWait
<1>2. /\ ~In(t, 0)' /\ t \notin Range(readers)
      /\ \A u \in Pids : \A b \in {0, 1} : u # t => (In(u, b)' <=> In(u, b))
  BY <1>1, WaitEnds, Zenon
<1>3. In(t, 0) /\ t \in Readers
  BY <1>1, Zenon DEF In, OrderInv, BufferInv
<1>4. wait_data \in [Pids -> Message \cup {NoMsg}] /\ m \in Message /\ m # NoMsg
  BY <1>2, <1>3, MboxSets, Zenon DEF MboxInv, MailInv
<1>5. wait_data'[t] = NoMsg /\ \A u \in Pids : u # t => wait_data'[u] = wait_data[u]
  BY <1>1, <1>4, Zenon
<1>6. BufferInv'
  BY <1>1, <1>2, <1>5, Zenon DEF OrderInv, BufferInv
<1>7. NoLossNoReordering'
  <2> SUFFICES ASSUME ~slipped, Readers = {t} PROVE NoLossNoReordering'
    BY <1>1, <1>3, Zenon DEF NoLossNoReordering
  <2>1. /\ InTransit(t) = <<m>> \o Queued /\ Queued \in Seq(Letter)
        /\ InTransit(t) \in Seq(Letter)
    BY <1>4, TransitIs, Zenon
  <2>2. Queued' = Queued
    BY <1>1, Zenon DEF Queued, cib_avail
  <2>3. InTransit(t)' = <<>> \o Queued
    BY <1>5, <2>2, Zenon DEF InTransit
  <2> HIDE DEF m
  <2>4. /\ InTransit(t) # <<>> /\ Head(InTransit(t)) = m
        /\ InTransit(t)' = Tail(InTransit(t))
    BY <1>4, <2>1, <2>3
  <2> QED
    BY <1>1, <1>3, <1>4, <2>1, <2>4, GetOrder, Zenon DEF MboxInv, OrderInv
<1> QED
  BY <1>6, <1>7, Zenon DEF OrderInv

(* A step that leaves the mailbox alone, and everybody's place in it.      *)
LEMMA FrameOrder ==
  ASSUME OrderInv, UNCHANGED mboxVars, PlacesKept
  PROVE  OrderInv'
<1>1. /\ cib' = cib /\ msg_array' = msg_array /\ readers' = readers
      /\ wait_data' = wait_data /\ sent' = sent /\ got' = got /\ slipped' = slipped
  BY Zenon DEF mboxVars
<1> QED
  BY <1>1, KeepBuffers, KeepOrder, Zenon DEF OrderInv, PlacesKept

(* Every step keeps the messages in transit in order.                      *)
LEMMA OrderStep ==
  ASSUME MboxInv, OrderInv, [Next]_vars
  PROVE  OrderInv'
<1>1. CASE UNCHANGED vars
  <2>1. pc' = pc /\ arg' = arg /\ UNCHANGED mboxVars
    BY <1>1, Zenon DEF vars, cpuVars
  <2>2. PlacesKept
    BY <2>1, Zenon DEF PlacesKept, In
  <2> QED
    BY <2>1, <2>2, FrameOrder, Zenon
<1>2. ASSUME NEW t \in Pids, KernelStep(t) PROVE OrderInv'
  <2>1. CASE WaitYield(t) \/ WaitSwitch(t)
    <3>1. UNCHANGED mboxVars
      BY <2>1, Zenon DEF WaitYield, WaitSwitch
    <3> QED
      BY <2>1, <3>1, WaitStepKeeps, FrameOrder, Zenon
  <2>2. CASE (YieldHigher(t) \/ SchedSwitch(t)) /\ UNCHANGED mboxVars
    BY <2>2, CpuStepKeeps, FrameOrder, Zenon
  <2> QED
    BY <1>2, <2>1, <2>2, GetAfterWaitOrder, PutWaitOrder, Zenon DEF KernelStep
<1>3. ASSUME NEW s \in Writers, Store(s), ~cib_full(cib),
             UNCHANGED <<cpuVars, readers, writers, wait_data, got, slipped>>
      PROVE  OrderInv'
  <2>1. /\ readers' = readers /\ wait_data' = wait_data /\ got' = got /\ slipped' = slipped
        /\ \A u \in Pids : In(u, 0)' <=> In(u, 0)
    BY <1>3, Zenon DEF cpuVars, In
  <2>2. slipped' \in BOOLEAN
    BY <2>1, Zenon DEF MboxInv, QueueInv
  <2>3. ~slipped' => ~slipped
    BY <2>1
  <2> QED
    BY <1>3, <2>1, <2>2, <2>3, StoreOrder, Zenon
<1>4. ASSUME NEW t \in Writers \ {NULL}, Put(t) PROVE OrderInv'
  <2>1. t \in Pids /\ t \in Writers
    BY MboxConstants, Zenon
  <2>2. CASE PutHandOver(t)
    <3>1. /\ InApp(t) /\ readers # <<>> /\ HandTo(Head(readers), t)
          /\ \E k2, a : GoTo(t, k2, "switch", a)
      BY <2>2, Zenon DEF PutHandOver
    <3>2. PlacesKept
      BY <2>1, <3>1, OutsideCalls DEF InApp, Waiting
    <3> QED
      BY <2>1, <3>1, <3>2, HandOrder, Zenon
  <2>3. CASE PutQueue(t)
    BY <1>3, <2>1, <2>3, Zenon DEF PutQueue
  <2> QED
    BY <1>4, <2>1, <2>2, <2>3, PutWaitOrder, Zenon DEF Put
<1>5. ASSUME NEW t \in Readers, Get(t) PROVE OrderInv'
  <2>1. t \in Pids
    BY MboxConstants, Zenon
  <2> QED
    BY <1>5, <2>1, GetQueuedOrder, GetBlockOrder, Zenon DEF Get
<1>6. CASE NULL \in Writers /\ IsrPut
  <2>1. CASE readers # <<>>
    <3>1. HandTo(Head(readers), NULL) /\ pc' = pc /\ arg' = arg
      BY <1>6, <2>1, Zenon DEF IsrPut
    <3>2. PlacesKept
      BY <3>1, Zenon DEF PlacesKept, In
    <3> QED
      BY <1>6, <2>1, <3>1, <3>2, HandOrder, Zenon
  <2>2. CASE readers = <<>>
    <3>1. /\ ~cib_full(cib) /\ Store(NULL)
          /\ UNCHANGED <<cpuVars, readers, writers, wait_data, got, slipped>>
      BY <1>6, <2>2, Zenon DEF IsrPut
    <3> QED
      BY <1>3, <1>6, <3>1, Zenon
  <2> QED
    BY <2>1, <2>2, Zenon
<1>7. ASSUME NEW t \in Pids, ThreadSleep(t) \/ IsrWakeup(t), UNCHANGED mboxVars
      PROVE  OrderInv'
  BY <1>7, CpuStepKeeps, FrameOrder, Zenon
<1> QED
  BY <1>1, <1>2, <1>4, <1>5, <1>6, <1>7, Zenon DEF Next

(* MBOX_INIT: nothing is in transit.                                       *)
LEMMA OrderInit ==
  ASSUME Init
  PROVE  OrderInv
<1>1. cib_avail(cib) = 0 /\ \A t \in Pids : ~In(t, 0)
  BY MboxInit, Zenon
<1>2. /\ wait_data = [t \in Pids |-> NoMsg] /\ slipped = FALSE
      /\ sent = [s \in Writers |-> 0] /\ got = [s \in Writers |-> 0]
  BY Zenon DEF Init
<1>3. BufferInv
  BY <1>1, <1>2, Zenon DEF BufferInv
<1>4. Queued = <<>>
  BY <1>1 DEF Queued
<1>5. \A r \in Readers : InTransit(r) = <<>>
  BY <1>2, <1>4, MboxConstants DEF InTransit
<1>6. \A s \in Writers : Successive(<<[from |-> s, num |-> got[s]]>> \o <<>>, s, sent[s])
  <2> SUFFICES ASSUME NEW s \in Writers
               PROVE  Successive(<<[from |-> s, num |-> got[s]]>> \o <<>>, s, sent[s])
    BY Zenon
  <2> DEFINE e == [from |-> s, num |-> got[s]]
             q == <<e>> \o <<>>
  <2>1. e.num = sent[s]
    BY <1>2, Zenon
  <2> HIDE DEF e
  <2>2. Len(q) = 1 /\ q[1] = e
    OBVIOUS
  <2> HIDE DEF q
  <2>3. Successive(q, s, sent[s])
    BY <2>1, <2>2 DEF Successive
  <2> QED
    BY <2>3, Zenon DEF q, e
<1>7. NoLossNoReordering
  BY <1>5, <1>6, Zenon DEF NoLossNoReordering
<1> QED
  BY <1>3, <1>7, Zenon DEF OrderInv

(* Until a mbox_put() has slipped, no message is lost, doubled or          *)
(* overtaken by another of its sender, whether it is handed to the reader  *)
(* or goes through the queue.                                              *)
THEOREM ArriveInOrder == Spec => []NoLossNoReordering
<1>1. Init => OrderInv
  BY OrderInit, Zenon
<1>2. MboxInv /\ OrderInv /\ [Next]_vars => OrderInv'
  BY OrderStep, Zenon
<1>3. OrderInv => NoLossNoReordering
  BY Zenon DEF OrderInv
<1> QED
  BY <1>1, <1>2, <1>3, MboxInvariant, PTL DEF Spec
============================================================================
