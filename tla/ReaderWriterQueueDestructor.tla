------------------- MODULE ReaderWriterQueueDestructor -------------------
(***************************************************************************)
(* ~ReaderWriterQueue, run after any interleaving of the producer and the  *)
(* consumer, once neither has a call in flight (the code leaves that       *)
(* synchronisation to the user).  It walks the ring from frontBlock along  *)
(* next until it is back at frontBlock; in each block it destroys the      *)
(* elements from front up to tail, then frees the block.                   *)
(***************************************************************************)
EXTENDS ReaderWriterQueue

VARIABLES
  dpc,    \* "none" (queue in use), "elements", "done"
  db,     \* block: the block being destroyed
  di,     \* i: the next index of the element loop
  freed   \* the blocks std::free has been called on

dtorVars == <<dpc, db, di, freed>>
lifeVars == <<vars, dtorVars>>

DInit == Init /\ dpc = "none" /\ db = nullptr /\ di = 0 /\ freed = {}

(* Any step of the two threads while the queue is in use.                  *)
Use == dpc = "none" /\ Next /\ UNCHANGED dtorVars

(* fence; frontBlock_ = frontBlock; block = frontBlock_; the first block's *)
(* blockFront.                                                             *)
DestroyBegin ==
  /\ dpc = "none" /\ ppc = "idle" /\ cpc = "idle"
  /\ dpc' = "elements" /\ db' = frontBlock /\ di' = front[frontBlock]
  /\ UNCHANGED <<vars, freed>>

(* for (i = blockFront; i != blockTail; i = (i + 1) & sizeMask) ~T();     *)
DestroyElement ==
  /\ dpc = "elements" /\ di # tail[db]
  /\ live' = [live EXCEPT ![db][di] = FALSE]
  /\ di' = Succ(db, di)
  /\ UNCHANGED <<frontBlock, tailBlock, largestBlockSize, allocated, sizeMask,
                 front, localTail, tail, localFront, next, val,
                 prodVars, consVars, histVars, dpc, db, freed>>

(* Mutant: the walk ends after tailBlock, as if the blocks beyond it, all  *)
(* empty, needed no freeing.                                               *)
DestroyBlockStopsAtTail ==
  /\ dpc = "elements" /\ di = tail[db]
  /\ freed' = freed \cup {db}
  /\ db' = next[db]
  /\ di' = front[next[db]]
  /\ dpc' = IF db = tailBlock \/ next[db] = frontBlock THEN "done" ELSE "elements"
  /\ UNCHANGED vars

(* block->~Block(); std::free(rawBlock); block = nextBlock; loop while    *)
(* block != frontBlock_.                                                   *)
DestroyBlock ==
  /\ dpc = "elements" /\ di = tail[db]
  /\ freed' = freed \cup {db}
  /\ db' = next[db]
  /\ di' = front[next[db]]
  /\ dpc' = IF next[db] = frontBlock THEN "done" ELSE "elements"
  /\ UNCHANGED vars

Destructor == DestroyBegin \/ DestroyElement \/ DestroyBlock

DNext == Use \/ Destructor

DSpec == DInit /\ [][DNext]_lifeVars

-----------------------------------------------------------------------------
(* The destructor destroys every element still in the queue exactly once  *)
(* and frees every block make_block returned exactly once: each element   *)
(* it destroys is live, each block it frees is not yet freed, and when the *)
(* loop ends no element is live and no block is left.  That needs every   *)
(* allocated block to be on the ring through frontBlock, however the      *)
(* producer spliced in new blocks while the consumer moved frontBlock.    *)
DestructorReleasesAll ==
  /\ dpc = "elements" /\ di # tail[db] => live[db][di]
  /\ dpc = "elements" => db \notin freed
  /\ dpc = "done" =>
       /\ freed = allocated
       /\ \A b \in allocated, i \in Slots : ~live[b][i]
====
