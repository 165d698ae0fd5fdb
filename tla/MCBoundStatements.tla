-------------------------- MODULE MCBoundStatements --------------------------
(* Small instances of BoundStatements for TLC: the constants are in the .cfg  *)
(* files, the symmetry of the places and of the keys is here.                 *)
EXTENDS BoundStatements, TLC

Symmetry == Permutations(Slots) \cup Permutations(Keys)
==============================================================================
