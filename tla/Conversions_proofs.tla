-------------------------- MODULE Conversions_proofs --------------------------
(***************************************************************************)
(* Theorems about Conversions, for integers of any two widths.             *)
(***************************************************************************)
EXTENDS Conversions, SequenceTheorems, Recursion_proofs

(* Arithmetic of the low bits. *)
LEMMA LowRange ==
  ASSUME NEW h \in Nat \ {0}, NEW n \in Int
  PROVE  Low(n, h) \in 0 .. 2 * h - 1
<1> DEFINE m == 2 * h
<1>1. m \in Nat \ {0}
  OBVIOUS
<1> HIDE DEF m
<1>2. n % m \in 0 .. m - 1
  BY <1>1
<1> QED
  BY <1>2 DEF Low, m

LEMMA LowSame ==
  ASSUME NEW h \in Nat \ {0}, NEW n \in 0 .. 2 * h - 1
  PROVE  Low(n, h) = n
<1> DEFINE m == 2 * h
<1>1. m \in Nat \ {0} /\ n \in 0 .. m - 1
  OBVIOUS
<1> HIDE DEF m
<1>2. n % m = n
  BY <1>1
<1> QED
  BY <1>2 DEF Low, m

LEMMA LowOfNegative ==
  ASSUME NEW h \in Nat \ {0}, NEW n \in -(2 * h) .. -1
  PROVE  Low(n, h) = n + 2 * h
<1> DEFINE m == 2 * h
<1>1. m \in Nat \ {0} /\ n \in Int /\ n >= -m /\ n < 0
  OBVIOUS
<1> HIDE DEF m
<1>2. n % m = n + m
  BY <1>1
<1> QED
  BY <1>2 DEF Low, m

LEMMA WrapRange ==
  ASSUME NEW h \in Nat \ {0}, NEW n \in Int
  PROVE  Wrap(n, h) \in -h .. h - 1
  BY LowRange DEF Wrap

LEMMA WrapSame ==
  ASSUME NEW h \in Nat \ {0}, NEW n \in -h .. h - 1
  PROVE  Wrap(n, h) = n
<1>1. CASE n >= 0
  BY <1>1, LowSame DEF Wrap
<1>2. CASE n < 0
  BY <1>2, LowOfNegative DEF Wrap
<1> QED
  BY <1>1, <1>2

LEMMA LowOfWrap ==
  ASSUME NEW h \in Nat \ {0}, NEW n \in Int
  PROVE  Low(Wrap(n, h), h) = Low(n, h)
<1> DEFINE l == Low(n, h)
<1>1. l \in 0 .. 2 * h - 1
  BY LowRange
<1>2. CASE l < h
  BY <1>1, <1>2, LowSame DEF Wrap
<1>3. CASE l >= h
  <2>1. Wrap(n, h) = l - 2 * h /\ l - 2 * h \in -(2 * h) .. -1
    BY <1>1, <1>3 DEF Wrap
  <2> HIDE DEF l
  <2> QED
    BY <1>1, <2>1, LowOfNegative DEF l
<1> QED
  BY <1>1, <1>2, <1>3

LEMMA HalfPositive == \A type : Half(type) \in Nat \ {0}
  BY WidthsAssumption DEF Half

------------------------------------------------------------------------------
(* What a column holds of an integer is in the width of its type. *)
LEMMA StoredInWidth ==
  ASSUME NEW type \in IntegerTypes, NEW v \in ValuesOf(type)
  PROVE  Stored(type, v) \in -Half(type) .. Half(type) - 1
<1>1. CASE Unsigned(type)
  <2>1. Stored(type, v) = Wrap(v, Half(type))
    BY <1>1 DEF Stored, Unsigned
  <2>2. v \in 0 .. 2 * Half(type) - 1
    BY <1>1 DEF ValuesOf, Unsigned
  <2> QED
    BY <2>1, <2>2, HalfPositive, WrapRange
<1>2. CASE ~Unsigned(type)
  BY <1>2 DEF Stored, Unsigned, IntegerTypes, ValuesOf
<1> QED
  BY <1>1, <1>2

(* No NUL gets into a column. *)
LEMMA TextStored ==
  ASSUME NEW t \in Seq(Nat)
  PROVE  UpToNul(t) \in Seq(Nat \ {0})
<1> DEFINE nuls == {i \in DOMAIN t : t[i] = 0}
           IsFirst(i) == t[i] = 0 /\ \A j \in 1..i - 1 : t[j] # 0
           first == CHOOSE i \in DOMAIN t : IsFirst(i)
<1>1. Len(t) \in Nat /\ DOMAIN t = 1..Len(t) /\ \A i \in DOMAIN t : t[i] \in Nat
  OBVIOUS
<1>2. CASE nuls = {}
  <2>1. UpToNul(t) = t
    BY <1>2 DEF UpToNul
  <2> QED
    BY <1>1, <1>2, <2>1
<1>3. CASE nuls # {}
  <2>1. PICK n \in nuls : \A m \in nuls : n <= m
    <3>1. nuls \subseteq Nat
      BY <1>1
    <3> HIDE DEF nuls
    <3> QED
      BY <1>3, <3>1, LeastNumber
  <2>2. n \in DOMAIN t /\ IsFirst(n)
    BY <1>1, <2>1
  <2>3. first \in DOMAIN t /\ IsFirst(first)
    BY <2>2
  <2>4. UpToNul(t) = SubSeq(t, 1, first - 1)
    BY <1>3 DEF UpToNul
  <2> HIDE DEF first
  <2>5. \A i \in 1..first - 1 : t[i] \in Nat \ {0}
    BY <1>1, <2>3
  <2>6. first - 1 \in Int
    BY <1>1, <2>3
  <2> QED
    BY <2>4, <2>5, <2>6, SubSeqProperties
<1> QED
  BY <1>2, <1>3

(* A column holds what its affinity and its width admit, or NULL. *)
LEMMA StoredTyped ==
  ASSUME NEW type \in FieldTypes, NEW v \in ValuesOf(type)
  PROVE  Stored(type, v) = Null \/ Stored(type, v) \in StoredOf(type)
<1>1. CASE type = "text"
  <2>1. v \in Seq(Nat) /\ Stored(type, v) = UpToNul(v) /\ StoredOf(type) = Seq(Nat \ {0})
    BY <1>1 DEF ValuesOf, Stored, StoredOf, Unsigned
  <2> QED
    BY <2>1, TextStored
<1>2. CASE type = "real"
  BY <1>2 DEF ValuesOf, Stored, StoredOf, Unsigned
<1>3. CASE type \in IntegerTypes
  <2>1. StoredOf(type) = -Half(type) .. Half(type) - 1
    BY <1>3 DEF StoredOf, IntegerTypes
  <2> QED
    BY <1>3, <2>1, StoredInWidth
<1> QED
  BY <1>1, <1>2, <1>3 DEF FieldTypes

(* What is in the width of its type is read as one value of the type. *)
LEMMA FetchedInteger ==
  ASSUME NEW type \in IntegerTypes, NEW s \in -Half(type) .. Half(type) - 1
  PROVE  /\ Fetched(type, s) = IF Unsigned(type) THEN Low(s, Half(type)) ELSE s
         /\ Fetched(type, s) \in Int
<1>1. Half(type) \in Nat \ {0}
  BY HalfPositive
<1>2. s \in Int /\ s # Null
  BY <1>1, NoNumberAssumption
<1>3. Fetched(type, s) = IF Unsigned(type) THEN Low(Wrap(s, Half(type)), Half(type))
                                            ELSE Wrap(s, Half(type))
  BY <1>2 DEF Fetched, IntegerTypes, Unsigned
<1>4. Wrap(s, Half(type)) = s
  BY <1>1, WrapSame
<1> QED
  BY <1>1, <1>2, <1>3, <1>4, LowRange

(* A value that is bound and read back is what it was: unsigned values survive their
   way through signed columns; texts up to a NUL, and numbers (statement.h 114-159). *)
THEOREM RoundTrip ==
  ASSUME NEW type \in FieldTypes, NEW v \in ValuesOf(type), v # Null,
         Stored(type, v) # Null
  PROVE  Fetched(type, Stored(type, v)) = Kept(type, v)
<1>1. CASE type \in {"text", "real"}
  <2>1. PICK s : s = Stored(type, v)
    OBVIOUS
  <2>2. Fetched(type, s) = s
    BY <1>1, <2>1 DEF Fetched, Unsigned
  <2> QED
    BY <1>1, <2>1, <2>2 DEF Kept
<1>2. CASE type \in IntegerTypes
  <2>1. Half(type) \in Nat \ {0}
    BY HalfPositive
  <2>2. Kept(type, v) = v
    BY <1>2 DEF Kept, IntegerTypes
  <2>3. Fetched(type, Stored(type, v)) = IF Unsigned(type) THEN Low(Stored(type, v), Half(type))
                                                            ELSE Stored(type, v)
    BY <1>2, StoredInWidth, FetchedInteger
  <2>4. CASE Unsigned(type)
    <3>1. v \in 0 .. 2 * Half(type) - 1 /\ Stored(type, v) = Wrap(v, Half(type))
      BY <2>4 DEF ValuesOf, Stored, Unsigned
    <3> QED
      BY <2>1, <2>2, <2>3, <2>4, <3>1, LowOfWrap, LowSame
  <2>5. CASE ~Unsigned(type)
    BY <1>2, <2>2, <2>3, <2>5 DEF Stored, Unsigned, IntegerTypes
  <2> QED
    BY <2>4, <2>5
<1> QED
  BY <1>1, <1>2 DEF FieldTypes

(* Different values of an integer type are stored as different numbers: a condition
   or a key finds the ones that are equal in C++ (statement.h 114-124). *)
THEOREM EqualityKept ==
  ASSUME NEW type \in IntegerTypes, NEW v \in ValuesOf(type), NEW w \in ValuesOf(type)
  PROVE  Stored(type, v) = Stored(type, w) <=> v = w
<1>1. ASSUME NEW x \in ValuesOf(type) PROVE Fetched(type, Stored(type, x)) = x
  <2>1. Stored(type, x) \in Int /\ x \in Int
    BY StoredInWidth, HalfPositive DEF ValuesOf, IntegerTypes
  <2>2. Fetched(type, Stored(type, x)) = Kept(type, x)
    BY <2>1, RoundTrip, NoNumberAssumption DEF FieldTypes
  <2> QED
    BY <2>2 DEF Kept, IntegerTypes
<1> QED
  BY <1>1

(* Below the sign bit the order of what is stored is that of C++; it is where rows
   come in the order asked for (statement.h 117-124). *)
THEOREM OrderKept ==
  ASSUME NEW type \in IntegerTypes, NEW v \in ValuesOf(type), NEW w \in ValuesOf(type),
         BelowSignBit(type, v), BelowSignBit(type, w)
  PROVE  Stored(type, v) < Stored(type, w) <=> v < w
<1>1. ASSUME NEW x \in ValuesOf(type), BelowSignBit(type, x) PROVE Stored(type, x) = x
  <2>1. CASE Unsigned(type)
    <3>1. Stored(type, x) = Wrap(x, Half(type)) /\ x \in -Half(type) .. Half(type) - 1
      BY <1>1, <2>1, HalfPositive DEF Stored, ValuesOf, Unsigned, BelowSignBit
    <3> QED
      BY <3>1, HalfPositive, WrapSame
  <2>2. CASE ~Unsigned(type)
    BY <2>2 DEF Stored, Unsigned, IntegerTypes
  <2> QED
    BY <2>1, <2>2
<1> QED
  BY <1>1

(* An identity is told as it will be read, and while the rowid fits its type it finds
   the row again (binding.h 62-64, statement.h 143-153). *)
THEOREM IdentityTold ==
  ASSUME NEW type \in IntegerTypes, NEW rowid \in 0 .. Half(type) - 1
  PROVE  /\ IdentityOf(type, rowid) = Fetched(type, rowid)
         /\ IdentityOf(type, rowid) = rowid
         /\ Stored(type, rowid) = rowid
<1>1. Half(type) \in Nat \ {0}
  BY HalfPositive
<1>2. rowid \in -Half(type) .. Half(type) - 1 /\ rowid \in 0 .. 2 * Half(type) - 1
  BY <1>1
<1>3. Wrap(rowid, Half(type)) = rowid /\ Low(rowid, Half(type)) = rowid
  BY <1>1, <1>2, WrapSame, LowSame
<1>4. Fetched(type, rowid) = rowid
  BY <1>2, <1>3, FetchedInteger
<1>5. Stored(type, rowid) = rowid
  BY <1>3 DEF Stored, Unsigned, IntegerTypes
<1> QED
  BY <1>3, <1>4, <1>5 DEF IdentityOf
===============================================================================
