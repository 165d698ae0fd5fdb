---------------------------- MODULE MCTransactions ----------------------------
(* Small instances of Transactions for TLC: the constants are in the .cfg     *)
(* files, the symmetry of their model values is here.                         *)
EXTENDS Transactions, TLC

Symmetry == Permutations(Conns) \cup Permutations(Txs) \cup Permutations(Items)
===============================================================================
