--------------------------- MODULE Nullables_proofs ---------------------------
(***************************************************************************)
(* Proofs about Nullables, for any number of objects and contents.         *)
(***************************************************************************)
EXTENDS Nullables, TLAPS

CellInv == TypeOK /\ FlagTellsTheTruth

(* What a step at c has to do for the invariant: say the truth about c. *)
LEMMA CellFrame ==
  ASSUME CellInv, NEW c \in Cells, NEW f \in BOOLEAN, NEW b \in Contents \cup {Raw},
         flag' = [flag EXCEPT ![c] = f], buffer' = [buffer EXCEPT ![c] = b],
         made' \subseteq Cells, spoilt' \subseteq made',
         made' \ {c} = made \ {c}, spoilt' \ {c} = spoilt \ {c},
         c \in made' \ spoilt' => (f <=> b # Raw),
         c \notin made' => b = Raw
  PROVE  CellInv'
<1>1. TypeOK'
  BY DEF CellInv, TypeOK
<1>2. ASSUME NEW d \in Cells \ {c}
      PROVE  /\ d \in made' <=> d \in made
             /\ d \in spoilt' <=> d \in spoilt
             /\ flag'[d] = flag[d] /\ buffer'[d] = buffer[d]
  BY DEF CellInv, TypeOK
<1>3. flag'[c] = f /\ buffer'[c] = b
  BY DEF CellInv, TypeOK
<1>4. FlagTellsTheTruth'
  BY <1>2, <1>3 DEF CellInv, FlagTellsTheTruth
<1> QED BY <1>1, <1>4 DEF CellInv

(* A copy leaves a true flag, whatever it has copied. *)
LEMMA CopyIsTrue ==
  ASSUME CellInv, NEW c \in Cells, NEW d \in Cells, Copy(c, d)
  PROVE  \E f \in BOOLEAN, b \in Contents \cup {Raw} :
           /\ flag' = [flag EXCEPT ![c] = f]
           /\ buffer' = [buffer EXCEPT ![c] = b]
           /\ f <=> b # Raw
<1>1. CASE ~flag[d]
  BY <1>1 DEF Copy, LeaveEmpty
<1>2. CASE flag[d]
  <2>1. PICK v \in Read(d) : Hold(c, v)
    BY <1>2 DEF Copy
  <2>2. v \in Contents /\ v # Raw
    BY <2>1, RawAssumption DEF Read, CellInv, TypeOK
  <2> QED BY <2>1, <2>2 DEF Hold
<1> QED BY <1>1, <1>2

LEMMA CellInit == Init => CellInv
  BY DEF Init, CellInv, TypeOK, FlagTellsTheTruth

LEMMA CellStep == CellInv /\ [Next]_vars => CellInv'
<1> SUFFICES ASSUME CellInv, [Next]_vars
             PROVE  CellInv'
  OBVIOUS
<1>1. made \subseteq Cells /\ spoilt \subseteq made
  BY DEF CellInv, TypeOK
<1>2. CASE UNCHANGED vars
  BY <1>2 DEF vars, CellInv, TypeOK, FlagTellsTheTruth
<1>3. ASSUME NEW c \in Cells,
             \/ Make(c) \/ Destroy(c) \/ AssignNull(c) \/ AssignSelf(c)
             \/ \E d \in Cells : AssignFromThrows(c, d)
      PROVE  CellInv'
  <2>1. /\ LeaveEmpty(c) /\ made' \subseteq Cells /\ spoilt' \subseteq made'
        /\ made' \ {c} = made \ {c} /\ spoilt' \ {c} = spoilt \ {c}
    BY <1>1, <1>3 DEF Make, Destroy, AssignNull, AssignSelf, AssignFromThrows
  <2> QED BY <2>1, CellFrame DEF LeaveEmpty
<1>4. ASSUME NEW c \in Cells, NEW v \in Contents, MakeOf(c, v) \/ Assign(c, v)
      PROVE  CellInv'
  <2>1. /\ Hold(c, v) /\ made' \subseteq Cells /\ spoilt' \subseteq made' /\ c \in made'
        /\ made' \ {c} = made \ {c} /\ spoilt' \ {c} = spoilt \ {c}
    BY <1>1, <1>4 DEF MakeOf, Assign
  <2> QED BY <2>1, RawAssumption, CellFrame DEF Hold
<1>5. ASSUME NEW c \in Cells, NEW d \in Cells, MakeFrom(c, d) \/ AssignFrom(c, d)
      PROVE  CellInv'
  <2>1. /\ Copy(c, d) /\ made' \subseteq Cells /\ spoilt' \subseteq made' /\ c \in made'
        /\ made' \ {c} = made \ {c} /\ spoilt' \ {c} = spoilt \ {c}
    BY <1>1, <1>5 DEF MakeFrom, AssignFrom
  <2> QED BY <2>1, CopyIsTrue, CellFrame
<1>6. ASSUME NEW c \in Cells, NEW d \in Cells, NEW v \in Contents, AndThen(c, d, v)
      PROVE  CellInv'
  <2>1. /\ Hold(c, v) \/ LeaveEmpty(c)
        /\ made' = made \cup {c} /\ spoilt' = spoilt /\ c \in made'
    BY <1>6 DEF AndThen
  <2>2. CASE Hold(c, v)
    BY <1>1, <2>1, <2>2, RawAssumption, CellFrame DEF Hold
  <2>3. CASE LeaveEmpty(c)
    BY <1>1, <2>1, <2>3, CellFrame DEF LeaveEmpty
  <2> QED BY <2>1, <2>2, <2>3
<1>7. ASSUME NEW c \in Cells, AssignThrows(c)
      PROVE  CellInv'
  <2>1. /\ flag' = [flag EXCEPT ![c] = flag[c]] /\ flag[c] \in BOOLEAN
        /\ buffer' = [buffer EXCEPT ![c] = Raw]
        /\ c \in made' /\ made' = made
        /\ spoilt' = IF flag[c] THEN spoilt \cup {c} ELSE spoilt
    BY <1>7 DEF AssignThrows, CellInv, TypeOK
  <2> QED BY <1>1, <2>1, CellFrame
<1> QED BY <1>2, <1>3, <1>4, <1>5, <1>6, <1>7 DEF Next

LEMMA CellInvariant == Spec => []CellInv
  BY CellInit, CellStep, PTL DEF Spec

(* Objects are where they can be, and an assignment that has thrown is remembered of
   none that is gone, so what is excepted of FlagTellsTheTruth is an existing object
   (nullable.h 95-113, 148-154). *)
THEOREM CellsTypeCorrect == Spec => []TypeOK
<1>1. CellInv => TypeOK
  BY DEF CellInv
<1> QED BY <1>1, CellInvariant, PTL

(* A flag never lies about an object in which no assignment of a T has thrown. *)
THEOREM FlagTellsTheTruthHolds == Spec => []FlagTellsTheTruth
<1>1. CellInv => FlagTellsTheTruth
  BY DEF CellInv
<1> QED BY <1>1, CellInvariant, PTL
===============================================================================
