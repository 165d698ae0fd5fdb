----------------------------- MODULE MCNullables -----------------------------
(* Small instances of Nullables for TLC: the constants are in the .cfg files. *)
EXTENDS Nullables
==============================================================================
