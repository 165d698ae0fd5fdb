----------------------------- MODULE MCInserters -----------------------------
(* Small instances of Inserters for TLC: the constants are in the .cfg files, *)
(* the symmetry of the keys is here.                                          *)
EXTENDS Inserters, TLC

Symmetry == Permutations(Keys)
==============================================================================
