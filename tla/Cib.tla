-------------------------------- MODULE Cib --------------------------------
(***************************************************************************)
(* core/include/cib.h: the circular integer buffer, as operators on the    *)
(* record c = [read_count, write_count, mask] of unsigned integers of W    *)
(* bits.  An operator that moves a counter comes in two parts: the index   *)
(* it returns, and the cib it leaves.                                      *)
(***************************************************************************)
EXTENDS Integers

CONSTANT W        \* the width of unsigned int

ASSUME CibConstants == W \in Nat /\ W > 1

(* What the proofs use of powers of 2, which the provers know nothing of.  *)
ASSUME PowersOfTwo ==
  /\ 2^W = 2 * 2^(W - 1) /\ 2^(W - 1) = 2 * 2^(W - 2)
  /\ \A i \in 0..(W - 2) : 2^i \in Nat \ {0} /\ 2^i <= 2^(W - 2) /\ 2^W % 2^i = 0

UInt == 0..(2^W - 1)

CibType == [read_count : UInt, write_count : UInt, mask : UInt]

(* (int) x                                                                 *)
Signed(x) == IF x >= 2^(W - 1) THEN x - 2^W ELSE x

CIB_INIT(size) == [read_count |-> 0, write_count |-> 0, mask |-> (size - 1) % 2^W]

cib_avail(c) == (c.write_count - c.read_count) % 2^W

Mut_full_off_by_one(c) == Signed(cib_avail(c)) > Signed(c.mask) + 1

cib_full(c)  == Signed(cib_avail(c)) > Signed(c.mask)

(* x & mask, where mask + 1 is 0 or a power of 2                           *)
And(x, mask) == IF mask = 2^W - 1 THEN x ELSE x % (mask + 1)

GetIndex(c)     == And(c.read_count, c.mask)
PutIndex(c)     == And(c.write_count, c.mask)
AfterGet(c)     == [c EXCEPT !.read_count = (@ + 1) % 2^W]
AfterPut(c)     == [c EXCEPT !.write_count = (@ + 1) % 2^W]
============================================================================
