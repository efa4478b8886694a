----------------------------- MODULE SPSCQueue -----------------------------
(***************************************************************************)
(* What a single-producer single-consumer queue promises: each successful  *)
(* enqueue appends its value atomically, each successful dequeue (or pop)  *)
(* atomically removes the oldest value.  `removed` is the history of the   *)
(* values taken out, in order.  Failed calls, peeks and the internal steps *)
(* of an implementation are stuttering steps.                              *)
(***************************************************************************)
EXTENDS Sequences

CONSTANT Values

VARIABLES queue, removed

Init == queue = <<>> /\ removed = <<>>

Enqueue(v) ==
  /\ queue' = Append(queue, v)
  /\ UNCHANGED removed

Dequeue ==
  /\ queue # <<>>
  /\ queue' = Tail(queue)
  /\ removed' = Append(removed, Head(queue))

Next == (\E v \in Values : Enqueue(v)) \/ Dequeue

Spec == Init /\ [][Next]_<<queue, removed>>
=============================================================================
