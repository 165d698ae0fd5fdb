------------------------------ MODULE ChangeSets ------------------------------
(***************************************************************************)
(* A store is a set of items; a change set says of each item whether it is *)
(* put in, taken out or left as it is.                                     *)
(***************************************************************************)

CONSTANT Items   \* the records a table may hold, told apart by identity only

Changes  == [Items -> {"same", "in", "out"}]
NoChange == [i \in Items |-> "same"]

(* One write: an inserted (or upserted) item, or a removed one. *)
Writes == [item : Items, to : {"in", "out"}]

Apply(S, d) == {i \in Items : d[i] = "in" \/ (d[i] = "same" /\ i \in S)}

ApplyWrite(S, w) == IF w.to = "in" THEN S \cup {w.item} ELSE S \ {w.item}

Record(d, w) == [d EXCEPT ![w.item] = w.to]
===============================================================================
