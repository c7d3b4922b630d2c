----------------------------- MODULE MCFileMgr ------------------------------
(* An instance of FileMgr for TLC.                                         *)
EXTENDS FileMgr, TLC

CONSTANTS t1, t2, d1, d2

TwoThreads == {t1, t2}
TwoData == {d1, d2}
Symmetry == Permutations(TwoThreads)

\* The block before the first, those of a full file and the one behind.
Blocks == -1 .. 2
=============================================================================
