---------------------------- MODULE MCExpressions ----------------------------
(* Small instances of Expressions for TLC: which expressions there are, and   *)
(* the symmetry of the objects.                                               *)
EXTENDS Expressions, TLC

Binaries(L, ops, R) == {Binary(l, o, r) : l \in L, o \in ops, r \in R}

(* Operands, tests, joins of two tests, and some of three. *)
Equal    == Binaries(Operands, {"="}, Operands)
Tests    == Equal \cup {Unary(e, "IS_NULL") : e \in Operands}
Joined   == {"=", "AND", "OR"}
Both     == Binaries(Equal, {"AND"}, Equal)
Either   == Binaries(Equal, {"OR"}, Equal)
MCLevels ==
  <<Operands, Tests, Binaries(Tests, Joined, Tests),
    Binaries(Both, Joined, Equal) \cup Binaries(Equal, Joined, Either)>>

Symmetry == Permutations(Objects)
==============================================================================
