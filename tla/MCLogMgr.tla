------------------------------ MODULE MCLogMgr ------------------------------
(* Instances of LogMgr for TLC.                                            *)
EXTENDS LogMgr, TLC

CONSTANTS t1, t2

OneThread == {t1}
TwoThreads == {t1, t2}
ThreadSymmetry == Permutations(TwoThreads)

\* Blocks of five words: records of one word, of two bytes (which append
\* refuses) and of four words (which fill a block).
Words == {4, 6, 16}
ShortWords == {4, 8}
=============================================================================
