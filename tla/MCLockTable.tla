----------------------------- MODULE MCLockTable -----------------------------
(* LockTable on small sets of transactions and blocks, and its refinement   *)
(* mapping to AbstractLocks.                                                 *)
EXTENDS LockTable, TLC

CONSTANTS t1, t2, t3, b1, b2

ThreeTx == {t1, t2, t3}
TwoTx == {t1, t2}
OneBlk == {b1}
TwoBlk == {b1, b2}
Hang == {"hang"}
Proceed == {"proceed"}
Both == {"hang", "proceed"}

Symmetry == Permutations(Tx) \cup Permutations(Blk)
=============================================================================
