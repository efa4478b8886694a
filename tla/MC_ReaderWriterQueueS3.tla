-------------------- MODULE MC_ReaderWriterQueueS3 --------------------
(***************************************************************************)
(* Scenario S3 of the specification: a queue constructed with size 15 and  *)
(* MAX_BLOCK_SIZE 8, filled by enqueue.                                    *)
(***************************************************************************)
EXTENDS ReaderWriterQueue

(* Scenario S3 says the constructor builds two blocks of 8 and that the    *)
(* 17th enqueue is the first to allocate a new block: no enqueue call      *)
(* reaches make_block before 16 elements have been enqueued.               *)
S3FirstGrowthAt17 == ppc = "alloc" => sent >= 16
====
