----------------------------- MODULE MCBufferMgr -----------------------------
(* BufferMgr on small pools.                                                 *)
EXTENDS BufferMgr, TLC

CONSTANTS b1, b2, b3

TwoTx == {1, 2}
TwoBlk == {b1, b2}
ThreeBlk == {b1, b2, b3}

Symmetry == Permutations(Blk)
=============================================================================
