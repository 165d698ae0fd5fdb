------------------------------ MODULE Nullables ------------------------------
(***************************************************************************)
(* class nullable<T> (nullable.h): a buffer a T is constructed in and      *)
(* destroyed in by hand, and a flag that says whether there is one.  Fields*)
(* of the application's records are nullables; select.h assigns to them,   *)
(* binding.h and statement.h read them.  The copy constructor of T (that   *)
(* of std::string, say) may throw.  A constructor of nullable<T> that      *)
(* throws leaves no object and nothing in the buffer, so there is no       *)
(* action for it.                                                          *)
(***************************************************************************)

CONSTANTS
  Cells,     \* where nullable<T> objects may live
  Contents,  \* values of T
  Raw        \* "no T is alive in this buffer"

ASSUME RawAssumption == Raw \notin Contents

VARIABLES
  made,     \* the nullable<T> objects that exist
  flag,     \* of each: _has_value
  buffer,   \* of each: the T alive in _buffer
  spoilt    \* those an assignment of a T to which has thrown (history)

vars == <<made, flag, buffer, spoilt>>

(* What reading *d yields: if the flag is wrong, whatever the bytes are. *)
Read(d) == IF buffer[d] = Raw THEN Contents ELSE {buffer[d]}

(* Faulty variant: the T of the cell is forgotten instead of destroyed. *)
LeaveWithout(c) ==
  /\ flag' = [flag EXCEPT ![c] = FALSE]
  /\ UNCHANGED buffer

(* The T is destroyed, or there is none. *)
LeaveEmpty(c) ==
  /\ flag' = [flag EXCEPT ![c] = FALSE]
  /\ buffer' = [buffer EXCEPT ![c] = Raw]

(* A T is constructed in the buffer. *)
Hold(c, v) ==
  /\ flag' = [flag EXCEPT ![c] = TRUE]
  /\ buffer' = [buffer EXCEPT ![c] = v]

(* Faulty variant: an object without a value is copied as zero. *)
CopyAsZero(c, d) ==
  \/ flag[d] /\ \E v \in Read(d) : Hold(c, v)
  \/ ~flag[d] /\ Hold(c, 0)

Copy(c, d) ==
  \/ flag[d] /\ \E v \in Read(d) : Hold(c, v)
  \/ ~flag[d] /\ LeaveEmpty(c)

------------------------------------------------------------------------------
(* Constructors and destructor. *)

Make(c) ==
  /\ c \notin made
  /\ made' = made \cup {c}
  /\ LeaveEmpty(c)
  /\ UNCHANGED spoilt

MakeOf(c, v) ==
  /\ c \notin made
  /\ made' = made \cup {c}
  /\ Hold(c, v)
  /\ UNCHANGED spoilt

MakeFrom(c, d) ==
  /\ c \notin made /\ d \in made
  /\ made' = made \cup {c}
  /\ Copy(c, d)
  /\ UNCHANGED spoilt

(* d.and_then(transform): what transform makes of *d is v. *)
AndThen(c, d, v) ==
  /\ c \notin made /\ d \in made
  /\ made' = made \cup {c}
  /\ IF flag[d] THEN Hold(c, v) ELSE LeaveEmpty(c)
  /\ UNCHANGED spoilt

Destroy(c) ==
  /\ c \in made
  /\ made' = made \ {c}
  /\ LeaveEmpty(c)
  /\ spoilt' = spoilt \ {c}

------------------------------------------------------------------------------
(* Assignments: the old T is destroyed before the new one is constructed.   *)

(* operator =(const nullable &), of another object or of the constant null. *)
AssignFrom(c, d) ==
  /\ c \in made /\ d \in made \ {c}
  /\ Copy(c, d)
  /\ spoilt' = spoilt \ {c}
  /\ UNCHANGED made

AssignNull(c) ==
  /\ c \in made
  /\ LeaveEmpty(c)
  /\ spoilt' = spoilt \ {c}
  /\ UNCHANGED made

(* n = n: the flag is reset before it is asked for. *)
AssignSelf(c) ==
  /\ c \in made
  /\ LeaveEmpty(c)
  /\ spoilt' = spoilt \ {c}
  /\ UNCHANGED made

AssignFromThrows(c, d) ==
  /\ c \in made /\ d \in made \ {c}
  /\ flag[d]
  /\ LeaveEmpty(c)
  /\ spoilt' = spoilt \ {c}
  /\ UNCHANGED made

(* operator =(const T &). *)
Assign(c, v) ==
  /\ c \in made
  /\ Hold(c, v)
  /\ spoilt' = spoilt \ {c}
  /\ UNCHANGED made

(* The flag is not reset before the new T is constructed. *)
AssignThrows(c) ==
  /\ c \in made
  /\ buffer' = [buffer EXCEPT ![c] = Raw]
  /\ spoilt' = IF flag[c] THEN spoilt \cup {c} ELSE spoilt
  /\ UNCHANGED <<made, flag>>

------------------------------------------------------------------------------
Init ==
  /\ made = {}
  /\ flag = [c \in Cells |-> FALSE]
  /\ buffer = [c \in Cells |-> Raw]
  /\ spoilt = {}

Next ==
  \/ \E c \in Cells : \/ Make(c) \/ Destroy(c)
                      \/ AssignNull(c) \/ AssignSelf(c) \/ AssignThrows(c)
  \/ \E c \in Cells, v \in Contents : MakeOf(c, v) \/ Assign(c, v)
  \/ \E c, d \in Cells : MakeFrom(c, d) \/ AssignFrom(c, d) \/ AssignFromThrows(c, d)
  \/ \E c, d \in Cells, v \in Contents : AndThen(c, d, v)

Spec == Init /\ [][Next]_vars

------------------------------------------------------------------------------
(* Correctness. *)

(* Type invariant of the cells. *)
TypeOK ==
  /\ made \subseteq Cells
  /\ flag \in [Cells -> BOOLEAN]
  /\ buffer \in [Cells -> Contents \cup {Raw}]
  /\ spoilt \subseteq made

(* The flag tells whether a T is alive in the buffer, so every T is destroyed
   exactly once and none is read that is not there, whichever copies throw, but
   for objects in which an assignment of a T has thrown; and where there is no
   nullable<T>, there is no T left behind (nullable.h 95-113, 136-154). *)
FlagTellsTheTruth ==
  \A c \in Cells :
    /\ c \in made \ spoilt => (flag[c] <=> buffer[c] # Raw)
    /\ c \notin made => buffer[c] = Raw

(* NullableTests.cpp 90 has it that the nullable guards the lifetime of the object
   it contains, with no exception made for a copy that throws. *)
ContainedObjectLifetimeIsGuarded ==
  \A c \in made : flag[c] => buffer[c] # Raw
==============================================================================
