---------------------------- MODULE SizingCheck ----------------------------
(***************************************************************************)
(* Checks the size arithmetic of Sizing against reference definitions over *)
(* every input of a bounded range.  The variable `x` is the input under    *)
(* test; each state is one input, so an invariant is checked on all of     *)
(* them.                                                                   *)
(***************************************************************************)
EXTENDS Sizing

CONSTANTS Lo, Hi   \* the inputs checked are Lo .. Hi

ASSUME 0 <= Lo /\ Lo <= Hi /\ Hi < Mod

VARIABLE x

(* Walk the inputs in a cycle, one per state. *)
Init == x = Lo
Next == x' = IF x = Hi THEN Lo ELSE x + 1
Spec == Init /\ [][Next]_x

(* The smallest power of two not below n, or 0 when that does not fit in W *)
(* bits (and for n = 0): the value a correct round-up yields modulo 2^W.   *)
RefCeilPow2(n) ==
  IF n = 0 \/ n > Mod \div 2 THEN 0
  ELSE CHOOSE p \in {2^k : k \in 0 .. W - 1} : p >= n /\ (p = 1 \/ p \div 2 < n)

(* The number of elements the constructed ring can hold at once with the   *)
(* producer and consumer on different blocks: one slot of every block is   *)
(* never used, and one whole block is kept spare in the multi-block case   *)
(* (the reasoning of the constructor's comment).  A block of 0 slots, whose *)
(* sizeMask wraps to 2^W - 1, holds nothing.                               *)
GuaranteedCapacity(size) ==
  IF MultiBlock(size)
    THEN (MAX_BLOCK_SIZE - 1) * (InitialBlockCount(size) - 1)
    ELSE IF InitialLargest(size) = 0 THEN 0 ELSE InitialLargest(size) - 1

(* ceilToPow2 (the --x, the three smears, the sizeof(size_t) loop of wider *)
(* smears and ++x) rounds every W-bit input up to a power of two, wrapping *)
(* to 0 exactly when the result does not fit.                             *)
CeilMatchesReference == CeilToPow2(x) = RefCeilPow2(x)

(* The ReaderWriterQueue(size) constructor reserves room for at least      *)
(* `size` elements ("Constructs a queue that can hold at least `size`      *)
(* elements without further allocations").                                *)
CapacityCovers == GuaranteedCapacity(x) >= x

(* The same promise for every size whose size + 1 rounds up to a power of  *)
(* two that fits in W bits: there the layout of the constructor (one      *)
(* block, or the ring of MAX_BLOCK_SIZE blocks with a spare) suffices.     *)
CapacityCoversRepresentable == x < Mod \div 2 => CapacityCovers
=============================================================================
