--------------------------- MODULE MCTransaction ----------------------------
(* An instance of Transaction for TLC.                                     *)
EXTENDS Transaction, TLC

CONSTANTS t1, t2, b1

TwoTx == {t1, t2}
OneBlock == {b1, Eof}
Symmetry == Permutations(TwoTx)
=============================================================================
