------------------- MODULE ReaderWriterQueueObservers -------------------
(***************************************************************************)
(* size_approx() and max_capacity() of ReaderWriterQueue, "safe to call    *)
(* from both the producer and consumer threads".  Either thread may call   *)
(* one while it has no enqueue or dequeue in flight; the other thread goes *)
(* on meanwhile.  Both walk the ring once from the frontBlock they loaded, *)
(* one shared load per step: size_approx sums (tail - front) & sizeMask    *)
(* per block, max_capacity sums sizeMask.                                  *)
(***************************************************************************)
EXTENDS ReaderWriterQueue

LOCAL INSTANCE Functions

VARIABLES
  opc,      \* "none", or the next load: "readFront", "readTail", "readNext"
  okind,    \* the call in flight or last made: "size", "cap", "none"
  caller,   \* the thread making it: "producer" or "consumer"
  ofb,      \* frontBlock_: frontBlock as loaded when the call began
  ob,       \* block: the block being read
  obf,      \* blockFront, as loaded
  oresult,  \* result
  ostart,   \* history: the measured quantity when the call began
  oend      \* history: the measured quantity when the call returned

obsVars == <<opc, okind, caller, ofb, ob, obf, oresult, ostart, oend>>
allVars == <<vars, obsVars>>

(* The blocks on the ring through frontBlock; a block make_block returned  *)
(* but PLink has not yet linked in is not among them.                      *)
Ring ==
  LET R[k \in 0 .. MaxBlocks] ==
        IF k = 0 THEN {frontBlock} ELSE R[k - 1] \cup {next[b] : b \in R[k - 1]}
  IN R[MaxBlocks]

(* What each call measures: the elements stored in the ring's blocks       *)
(* (published or not yet reached by tailBlock), and the ring's capacity.   *)
Measure(k) ==
  IF k = "size" THEN SumFunctionOnSet([b \in Blocks |-> Occupancy(b)], Ring)
  ELSE SumFunctionOnSet(sizeMask, Ring)

OInit ==
  /\ Init
  /\ opc = "none" /\ okind = "none" /\ caller = "producer"
  /\ ofb = nullptr /\ ob = nullptr /\ obf = 0 /\ oresult = 0
  /\ ostart = 0 /\ oend = 0

(* A thread's queue operations, while it is not inside an observer.        *)
UseProducer ==
  /\ ~(opc # "none" /\ caller = "producer")
  /\ Producer /\ UNCHANGED obsVars
UseConsumer ==
  /\ ~(opc # "none" /\ caller = "consumer")
  /\ Consumer /\ UNCHANGED obsVars

(* result = 0; frontBlock_ = frontBlock.load(); block = frontBlock_.       *)
ObsBegin(k, who) ==
  /\ opc = "none"
  /\ IF who = "producer" THEN ppc = "idle" ELSE cpc = "idle"
  /\ okind' = k /\ caller' = who
  /\ ofb' = frontBlock /\ ob' = frontBlock /\ oresult' = 0
  /\ opc' = IF k = "size" THEN "readFront" ELSE "readNext"
  /\ ostart' = Measure(k)
  /\ UNCHANGED <<vars, obf, oend>>

(* size_approx: blockFront = block->front.load()                           *)
SizeReadFront ==
  /\ opc = "readFront"
  /\ obf' = front[ob]
  /\ opc' = "readTail"
  /\ UNCHANGED <<vars, okind, caller, ofb, ob, oresult, ostart, oend>>

(* Mutant: the difference of the indices is not masked.                    *)
SizeReadTailNoMask ==
  /\ opc = "readTail"
  /\ oresult' = oresult + tail[ob] - obf
  /\ opc' = "readNext"
  /\ UNCHANGED <<vars, okind, caller, ofb, ob, obf, ostart, oend>>

(* size_approx: blockTail = block->tail.load();                            *)
(* result += (blockTail - blockFront) & block->sizeMask                    *)
SizeReadTail ==
  /\ opc = "readTail"
  /\ oresult' = oresult + ((tail[ob] + sizeMask[ob] + 1 - obf) % (sizeMask[ob] + 1))
  /\ opc' = "readNext"
  /\ UNCHANGED <<vars, okind, caller, ofb, ob, obf, ostart, oend>>

(* The first load of the next iteration.                                  *)
NextLoad == IF okind = "size" THEN "readFront" ELSE "readNext"

(* Mutant: the loop condition reloads frontBlock instead of using the      *)
(* frontBlock_ the walk started from.                                      *)
ObsReadNextRereadsFront ==
  /\ opc = "readNext"
  /\ LET r == IF okind = "cap" THEN oresult + sizeMask[ob] ELSE oresult IN
     /\ oresult' = r
     /\ ob' = next[ob]
     /\ IF next[ob] = frontBlock
          THEN opc' = "none" /\ oend' = Measure(okind)
          ELSE opc' = NextLoad /\ UNCHANGED oend
  /\ UNCHANGED <<vars, okind, caller, ofb, obf, ostart>>

(* max_capacity adds block->sizeMask (fixed when the block is made); both  *)
(* then load block = block->next and loop while block != frontBlock_;     *)
(* on leaving the loop they return result.                                 *)
ObsReadNext ==
  /\ opc = "readNext"
  /\ LET r == IF okind = "cap" THEN oresult + sizeMask[ob] ELSE oresult IN
     /\ oresult' = r
     /\ ob' = next[ob]
     /\ IF next[ob] = ofb
          THEN opc' = "none" /\ oend' = Measure(okind)
          ELSE opc' = NextLoad /\ UNCHANGED oend
  /\ UNCHANGED <<vars, okind, caller, ofb, obf, ostart>>

Observer ==
  \/ \E k \in {"size", "cap"}, who \in {"producer", "consumer"} : ObsBegin(k, who)
  \/ SizeReadFront \/ SizeReadTail \/ ObsReadNext

ONext == UseProducer \/ UseConsumer \/ Observer

OSpec == OInit /\ [][ONext]_allVars

-----------------------------------------------------------------------------
ObserverTypeOK ==
  /\ TypeOK
  /\ opc \in {"none", "readFront", "readTail", "readNext"}
  /\ okind \in {"none", "size", "cap"} /\ caller \in {"producer", "consumer"}
  /\ opc # "none" => ob \in allocated /\ ofb \in allocated
  /\ oresult \in Nat

(* A size_approx call returns a count between the elements stored in the  *)
(* ring when it began and when it returned.  The other thread only adds    *)
(* (the caller is the consumer) or only removes (the caller is the         *)
(* producer), so that count moves one way during the call; a walk that     *)
(* counts a block twice, or misses one, leaves the interval.  The element *)
(* the producer has stored in the next block before publishing tailBlock  *)
(* is counted, as the code's walk does.                                    *)
SizeApproxWithinCall ==
  (opc = "none" /\ okind = "size") =>
     \/ ostart <= oresult /\ oresult <= oend
     \/ oend <= oresult /\ oresult <= ostart

(* A max_capacity call returns the ring's capacity at some moment of the   *)
(* call: between its value when the call began and when it returned,       *)
(* although the producer may splice blocks into the ring during the walk   *)
(* and the consumer may move frontBlock along it.                          *)
MaxCapacityWithinCall ==
  (opc = "none" /\ okind = "cap") => ostart <= oresult /\ oresult <= oend
====
