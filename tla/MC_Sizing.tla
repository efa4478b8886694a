----------------------------- MODULE MC_Sizing -----------------------------
EXTENDS SizingCheck

(* The largest W-bit value. *)
MaxWord == Mod - 1

(* The largest size whose size + 1 rounds up to a power of two in W bits.  *)
MaxRepresentableSize == Mod \div 2 - 1
=============================================================================
