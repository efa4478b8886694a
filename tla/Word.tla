-------------------------------- MODULE Word --------------------------------
(***************************************************************************)
(* size_t arithmetic on words of W bits, and the bit-smearing round-up to  *)
(* a power of two that both queues use: ceilToPow2 of ReaderWriterQueue,   *)
(* and the same smear inlined in the BlockingReaderWriterCircularBuffer    *)
(* constructor to compute its index mask.  Every + and - wraps modulo     *)
(* 2^W, as size_t arithmetic does.                                         *)
(***************************************************************************)
EXTENDS Naturals, Bitwise

CONSTANT W   \* bits in size_t (8 * sizeof(size_t)); a multiple of 8

ASSUME W \in {8, 16, 24, 32}

Mod == 2^W

(* size_t arithmetic.                                                      *)
Wrap(n) == n % Mod
Dec(n)  == Wrap(n + Mod - 1)

(* x |= x >> k *)
Smear(x, k) == x | shiftR(x, k)

(* for (i = 1; i < sizeof(size_t); i <<= 1) x |= x >> (i << 3);           *)
RECURSIVE WideSmear(_, _)
WideSmear(x, i) ==
  IF i < W \div 8 THEN WideSmear(Smear(x, i * 8), 2 * i) ELSE x

(* Mutant: the leading --x is forgotten, so powers of two are doubled.     *)
CeilToPow2NoDecrement(x) ==
  Wrap(WideSmear(Smear(Smear(Smear(x, 1), 2), 4), 1) + 1)

(* ceilToPow2: --x; smear the highest set bit downwards; ++x.              *)
CeilToPow2(x) ==
  Wrap(WideSmear(Smear(Smear(Smear(Dec(x), 1), 2), 4), 1) + 1)

(* BlockingReaderWriterCircularBuffer(capacity): --capacity; the same     *)
(* smears; mask = capacity (before the ++).                                *)
CircularMask(capacity) ==
  WideSmear(Smear(Smear(Smear(Dec(capacity), 1), 2), 4), 1)

(* static_cast<ssize_t>(n): the two's-complement reading of a size_t.      *)
SignedSize(n) == IF n < Mod \div 2 THEN n ELSE n - Mod
=============================================================================
