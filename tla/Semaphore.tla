------------------------------ MODULE Semaphore ------------------------------
(***************************************************************************)
(* The contract of spsc_sema::LightweightSemaphore (atomicops.h), which    *)
(* both blocking queues use.  Its code is not among the sources; it is     *)
(* modelled from the contract the queues rely on:                          *)
(*   - signal increments the count;                                        *)
(*   - tryWait decrements iff the count is positive and says whether it    *)
(*     did;                                                                *)
(*   - wait() and wait(timeout) block; they decrement iff they return      *)
(*     true; wait(timeout) may return false (timeout) at any moment, and  *)
(*     wait() may return false spuriously (its callers loop, so such a    *)
(*     return is a stuttering step of the caller);                         *)
(*   - availableApprox reads the count.                                    *)
(* Each operation is one atomic step on `count`.  A blocking wait is a     *)
(* state of the caller (it is "waiting") from which Acquire or a timeout   *)
(* takes it out.                                                           *)
(***************************************************************************)
EXTENDS Integers

VARIABLE count

(* signal(): the count goes up by one (and a waiter, if any, may proceed). *)
Signal == count' = count + 1

(* The successful outcome of tryWait(), wait() or wait(timeout).           *)
Acquire == count > 0 /\ count' = count - 1

(* tryWait() returning false: there was nothing to take.                  *)
TryWaitFails == count <= 0 /\ UNCHANGED count

(* wait(timeout) returning false: whatever the count, nothing is taken.   *)
TimesOut == UNCHANGED count

(* availableApprox(): the count, read without synchronisation.            *)
AvailableApprox == IF count > 0 THEN count ELSE 0
====
