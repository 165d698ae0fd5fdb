----------------------------- MODULE Conversions -----------------------------
(***************************************************************************)
(* What statement::bind and field_accessor (statement.h) make of a value on *)
(* its way into a column and back.  SQLite knows signed integers of 64     *)
(* bits, reals, texts and NULL; the fields of records are integers of two  *)
(* widths, signed or not, doubles and std::strings.                        *)
(***************************************************************************)
EXTENDS Integers, Sequences

CONSTANTS
  Half32, Half64,  \* 2^31 and 2^63: what the sign bit counts for
  Null,            \* SQL NULL, and a nullable without a value
  NaN,             \* a double that is not a number
  Undefined        \* a std::string made from a null pointer

ASSUME WidthsAssumption == Half32 \in Nat \ {0} /\ Half64 \in Nat /\ 2 * Half32 <= Half64

ASSUME NoNumberAssumption == Null \notin Int /\ NaN \notin Int /\ Null # NaN

IntegerTypes == {"int32", "uint32", "int64", "uint64"}
FieldTypes   == IntegerTypes \cup {"real", "text"}

(* What columns are declared as: append_integer, append_text, append_real. *)
Affinity(type) ==
  CASE type = "text" -> "TEXT" [] type = "real" -> "REAL" [] OTHER -> "INTEGER"

Half(type) == IF type \in {"int32", "uint32"} THEN Half32 ELSE Half64

Unsigned(type) == type \in {"uint32", "uint64"}

(* The values of a C++ type; a text is a sequence of characters, 0 is NUL; of the
   doubles only that they are ordered matters. *)
ValuesOf(type) ==
  CASE type = "text"               -> Seq(Nat)
    [] type = "real"               -> Int \cup {NaN}
    [] type \in {"uint32", "uint64"} -> 0 .. 2 * Half(type) - 1
    [] OTHER                       -> -Half(type) .. Half(type) - 1

(* What a column that holds a type may have in it, besides NULL. *)
StoredOf(type) ==
  CASE type = "text" -> Seq(Nat \ {0})
    [] type = "real" -> Int
    [] OTHER         -> -Half(type) .. Half(type) - 1

(* The low bits of an integer, and what they are with the sign bit. *)
Low(n, half)  == n % (2 * half)
Wrap(n, half) == IF Low(n, half) < half THEN Low(n, half) ELSE Low(n, half) - 2 * half

(* sqlite3_bind_text with a length of -1: up to the first NUL. *)
UpToNul(t) ==
  LET IsFirst(i) == t[i] = 0 /\ \A j \in 1..i - 1 : t[j] # 0
  IN  IF \E i \in DOMAIN t : t[i] = 0
        THEN SubSeq(t, 1, (CHOOSE i \in DOMAIN t : IsFirst(i)) - 1)
        ELSE t

(* Faulty variant: an unsigned value is bound as it is, past its column's width. *)
StoredUnwrapped(type, v) ==
  CASE type = "text" -> UpToNul(v)
    [] type = "real" -> IF v = NaN THEN Null ELSE v
    [] OTHER         -> v

(* bind(index, value).  SQLite has no NaN, and takes one for NULL. *)
Stored(type, v) ==
  CASE type = "text"   -> UpToNul(v)
    [] type = "real"   -> IF v = NaN THEN Null ELSE v
    [] Unsigned(type)  -> Wrap(v, Half(type))
    [] OTHER           -> v

(* field_accessor::operator T, of a NULL too. *)
Fetched(type, s) ==
  IF s = Null THEN IF type = "text" THEN Undefined ELSE 0
  ELSE CASE type \in {"text", "real"} -> s
         [] Unsigned(type)           -> Low(Wrap(s, Half(type)), Half(type))
         [] OTHER                    -> Wrap(s, Half(type))

(* identity_binder: static_cast<U> of a rowid. *)
IdentityOf(type, rowid) ==
  IF Unsigned(type) THEN Low(rowid, Half(type)) ELSE Wrap(rowid, Half(type))

(* What becomes of a value that is stored and read back: a text loses what comes
   after a NUL, a NaN is no value at all, the rest stays as it is. *)
Kept(type, v) ==
  IF v = Null \/ type \notin {"text", "real"} THEN v ELSE Stored(type, v)

(* Values whose order in C++ is that of what is stored of them. *)
BelowSignBit(type, v) == Unsigned(type) => v < Half(type)

(* The order of values, in C++ and of what is stored; texts go by their characters,
   NULL comes first. *)
TextLess(s, t) ==
  \E n \in 0..Len(s) :
    /\ \A i \in 1..n : i \in DOMAIN t /\ s[i] = t[i]
    /\ n < Len(t) /\ (n = Len(s) \/ s[n + 1] < t[n + 1])

Less(affinity, x, y) ==
  /\ y # Null
  /\ x = Null \/ IF affinity = "TEXT" THEN TextLess(x, y) ELSE x < y
==============================================================================
