--------------------------- MODULE AbstractBlocks ---------------------------
(***************************************************************************)
(* What a file of blocks promises its writers: a block changes only by a   *)
(* write to it, and the file grows by one block of zero bytes at a time.   *)
(***************************************************************************)
EXTENDS Integers, Sequences

CONSTANTS
    Data,   \* what can be written to a block
    Zero,   \* a block of zero bytes
    Max     \* bound: blocks of the file

VARIABLE blocks   \* block number n of the file is blocks[n + 1]

BInit == blocks = <<>>

\* A write behind the end leaves zeros in between.
Replaced(b, v) ==
    [i \in 1 .. IF b < Len(blocks) THEN Len(blocks) ELSE b + 1 |->
       IF i = b + 1 THEN v ELSE IF i <= Len(blocks) THEN blocks[i] ELSE Zero]

BWrite(b, v) == blocks' = Replaced(b, v)

BAppend == blocks' = Append(blocks, Zero)

BNext == BAppend \/ \E b \in 0 .. Max - 1, v \in Data : BWrite(b, v)

BSpec == BInit /\ [][BNext]_blocks
=============================================================================
