-------------------- MODULE ReaderWriterQueueLifetime --------------------
(***************************************************************************)
(* A queue's whole life: the producer and the consumer, either of which   *)
(* may call size_approx() or max_capacity() between its own operations,   *)
(* and then ~ReaderWriterQueue once no call of either thread is in flight. *)
(***************************************************************************)
EXTENDS ReaderWriterQueueObservers, ReaderWriterQueueDestructor

LInit == OInit /\ dpc = "none" /\ db = nullptr /\ di = 0 /\ freed = {}

LNext ==
  \/ dpc = "none" /\ ONext /\ UNCHANGED dtorVars
  \/ opc = "none" /\ Destructor /\ UNCHANGED obsVars

LSpec == LInit /\ [][LNext]_<<allVars, dtorVars>>
====
