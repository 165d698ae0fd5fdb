----------------------------- MODULE Descriptions -----------------------------
(***************************************************************************)
(* What describe<T>(visitor) says of the application's record types, and   *)
(* what the visitors of the library make of it: lists of columns           *)
(* (visitor.h), names of columns and definitions of tables (format.h).     *)
(* Texts of SQL are kept as the structure they spell.                      *)
(***************************************************************************)
EXTENDS Conversions, SequencesExt, FiniteSets

CONSTANTS
  Types,     \* the record types
  Describe   \* of each, in the order describe() tells them:
             \*   fields   sequence of [tag, field, column, type, nullable]
             \*   keys     sequence of [kind, fields]
             \*   foreign  sequence of [referred, pairs], a pair being the field
             \*            of this type and the one of the type referred to

CONSTANTS
  Items,     \* of each type: the records to be inserted, without identities
  Queries,   \* a sequence of [from, where, joins, order]
  MaxRow,    \* bound on the rows of a table
  Refused    \* what a call that throws gives

Fields(T)   == Describe[T].fields
Identity(T) == SelectSeq(Fields(T), LAMBDA d : d.tag = "identity")

FieldsOf(T)  == {Fields(T)[i].field : i \in DOMAIN Fields(T)}
ColumnsOf(T) == {Fields(T)[i].column : i \in DOMAIN Fields(T)}

(* What is said of a field of a type. *)
Said ==
  [T \in Types |-> [f \in FieldsOf(T) |-> CHOOSE d \in ToSet(Fields(T)) : d.field = f]]

RegularFieldsOf(T) == {f \in FieldsOf(T) : Said[T][f].tag = "regular"}

(* Fields and columns are told once, and there is one identity at most, an
   integer; every field a key speaks of is described; a primary key is one of
   several columns and of a type without an identity; a type has a regular field
   and a key has one, since SQL has no empty lists. *)
ASSUME DescriptionsAssumption ==
  \A T \in Types :
    /\ Fields(T) \in Seq(ToSet(Fields(T)))
    /\ \E i \in DOMAIN Fields(T) : Fields(T)[i].tag = "regular"
    /\ \A i, j \in DOMAIN Fields(T) :
         /\ Fields(T)[i].tag \in {"regular", "identity"}
         /\ Fields(T)[i].type \in FieldTypes /\ Fields(T)[i].nullable \in BOOLEAN
         /\ i # j => /\ Fields(T)[i].field # Fields(T)[j].field
                     /\ Fields(T)[i].column # Fields(T)[j].column
                     /\ "regular" \in {Fields(T)[i].tag, Fields(T)[j].tag}
         /\ Fields(T)[i].tag = "identity" =>
              Fields(T)[i].type \in IntegerTypes /\ ~Fields(T)[i].nullable
    /\ \A k \in DOMAIN Describe[T].keys :
         /\ ToSet(Describe[T].keys[k].fields) \subseteq FieldsOf(T)
         /\ Describe[T].keys[k].fields # << >>
         /\ Describe[T].keys[k].kind = "PRIMARY KEY" =>
              Len(Describe[T].keys[k].fields) > 1 /\ Identity(T) = << >>

(* Records are of their types, and an identity can tell all rows of its table. *)
ASSUME ItemsAssumption ==
  \A T \in Types : \A item \in Items[T] :
    /\ DOMAIN item = RegularFieldsOf(T)
    /\ \A f \in DOMAIN item : item[f] \in ValuesOf(Said[T][f].type) \cup {Null}

ASSUME RowsAssumption ==
  /\ MaxRow \in Nat
  /\ \A T \in Types : \A i \in DOMAIN Fields(T) :
       Fields(T)[i].tag = "identity" => MaxRow < Half(Fields(T)[i].type)

(* Queries speak of fields of the types they select, compare them with values of
   their types, and join only fields of one type. *)
ASSUME QueriesAssumption ==
  \A i \in DOMAIN Queries :
    LET q == Queries[i]
        IsField(at, f) == at \in DOMAIN q.from /\ f \in FieldsOf(q.from[at])
        TypeAt(at, f)  == Said[q.from[at]][f].type
    IN  /\ q.from \in Seq(Types)
        /\ \A t \in q.where : /\ IsField(t.at, t.field)
                              /\ t.value \in ValuesOf(TypeAt(t.at, t.field)) \cup {Null}
        /\ \A j \in q.joins : /\ IsField(j.at, j.field) /\ IsField(j.with, j.other)
                              /\ TypeAt(j.at, j.field) = TypeAt(j.with, j.other)
        /\ q.order \in Seq(ToSet(q.order))
        /\ \A j \in DOMAIN q.order : IsField(q.order[j].at, q.order[j].field)

------------------------------------------------------------------------------
(* visitor.h: collect_all_field_names, collect_regular_field_names.         *)

AllColumns(T) == [i \in DOMAIN Fields(T) |-> Fields(T)[i].column]

(* A walk that passes the identity by, and counts what it meets. *)
Regular(T)    == {i \in DOMAIN Fields(T) : Fields(T)[i].tag = "regular"}
Ordinal(T, i) == Cardinality({j \in Regular(T) : j <= i})
Ordinals(T)   == {Ordinal(T, i) : i \in Regular(T)}
Met(T, n)     == Fields(T)[CHOOSE i \in Regular(T) : Ordinal(T, i) = n]

RegularColumns(T) == [n \in Ordinals(T) |-> Met(T, n).column]

------------------------------------------------------------------------------
(* format.h: columns and tables.                                            *)

(* format_column: the name described for the field pointed to. *)
FormatColumn(T, f) == Said[T][f].column

(* Faulty variant: TEXT columns are not restrained. *)
ColumnDefinitionLax(d) ==
  [name |-> d.column, affinity |-> Affinity(d.type),
   notNull |-> ~d.nullable /\ d.type # "text", rowid |-> d.tag = "identity"]

(* column_definition_format_visitor: NOT NULL for what is no nullable<T>, PRIMARY
   KEY ASC, which makes a column another name of the rowid, for the identity. *)
ColumnDefinition(d) ==
  [name |-> d.column, affinity |-> Affinity(d.type),
   notNull |-> ~d.nullable, rowid |-> d.tag = "identity"]

(* fields_collector: << &T::a << &T::b after unique or primary. *)
CollectFields(T, fs) == [i \in DOMAIN fs |-> FormatColumn(T, fs[i])]

(* fk_fields_collector and fk_pk_fields_collector take turns. *)
CollectPairs(T, R, pairs) ==
  [i \in DOMAIN pairs |-> <<FormatColumn(T, pairs[i][1]), FormatColumn(R, pairs[i][2])>>]

(* Faulty variant: a UNIQUE constraint is told and not kept. *)
KeyConstraintsPrimaryOnly(T) ==
  LET primary == SelectSeq(Describe[T].keys, LAMBDA k : k.kind = "PRIMARY KEY")
  IN  [k \in DOMAIN primary |-> CollectFields(T, primary[k].fields)]

(* UNIQUE(...) and PRIMARY KEY(...) of several columns restrain alike. *)
KeyConstraints(T) ==
  [k \in DOMAIN Describe[T].keys |-> CollectFields(T, Describe[T].keys[k].fields)]

ForeignKeys(T) ==
  [k \in DOMAIN Describe[T].foreign |->
     LET key == Describe[T].foreign[k]
     IN  [referred |-> key.referred, pairs |-> CollectPairs(T, key.referred, key.pairs)]]

FormatCreateTable(T) ==
  [columns |-> [i \in DOMAIN Fields(T) |-> ColumnDefinition(Fields(T)[i])],
   keys    |-> KeyConstraints(T),
   foreign |-> ForeignKeys(T)]

------------------------------------------------------------------------------
(* The application.                                                          *)

(* Values a field is compared with and set to. *)
ValuesFor(T, f) == IF f \in RegularFieldsOf(T) THEN {r[f] : r \in Items[T]} ELSE 1..MaxRow

IsEqual(f, value) == {[op |-> "==", at |-> 1, field |-> f, value |-> value]}
===============================================================================
