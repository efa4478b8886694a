------------------------------- MODULE Sizing -------------------------------
(***************************************************************************)
(* The initial block layout chosen by the ReaderWriterQueue constructor    *)
(* for a requested size, on size_t values of W bits (module Word).         *)
(***************************************************************************)
EXTENDS Word

CONSTANT MAX_BLOCK_SIZE  \* template parameter of ReaderWriterQueue

ASSUME MAX_BLOCK_SIZE \in {2, 4, 8, 16}

-----------------------------------------------------------------------------
(* The ReaderWriterQueue constructor's layout for a requested `size`.       *)

InitialLargest(size) == CeilToPow2(Wrap(size + 1))

MultiBlock(size) == InitialLargest(size) > MAX_BLOCK_SIZE * 2

(* Mutant: the count leaves out the spare block.                          *)
InitialBlockCountNoSpare(size) ==
  Wrap(size + MAX_BLOCK_SIZE - 2) \div (MAX_BLOCK_SIZE - 1)

InitialBlockCount(size) ==
  Wrap(size + MAX_BLOCK_SIZE * 2 - 3) \div (MAX_BLOCK_SIZE - 1)

(* The sizes of the blocks the constructor links into the ring, in order.  *)
InitialBlockSizes(size) ==
  IF MultiBlock(size)
    THEN [i \in 1 .. InitialBlockCount(size) |-> MAX_BLOCK_SIZE]
    ELSE <<InitialLargest(size)>>

InitialLargestBlockSize(size) ==
  IF MultiBlock(size) THEN MAX_BLOCK_SIZE ELSE InitialLargest(size)
=============================================================================
