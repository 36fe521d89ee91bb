------------------------------- MODULE MCWal -------------------------------
(* Instances of Wal for TLC. *)
EXTENDS Wal, TLC

CONSTANTS t1, t2

MCTx == {t1, t2}
TxSymmetry == Permutations(MCTx)
=============================================================================
