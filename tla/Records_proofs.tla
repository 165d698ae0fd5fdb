---------------------------- MODULE Records_proofs ----------------------------
(***************************************************************************)
(* Theorems about Records, for every set of record types, their            *)
(* descriptions, their items and any number of rows.                       *)
(***************************************************************************)
EXTENDS Records, Conversions_proofs, FiniteSetTheorems

------------------------------------------------------------------------------
(* Descriptions.                                                             *)

LEMMA AreSequences ==
  ASSUME NEW T \in Types
  PROVE  Len(Fields(T)) \in Nat /\ DOMAIN Fields(T) = 1..Len(Fields(T))
<1>1. PICK S : Fields(T) \in Seq(S)
  BY DescriptionsAssumption
<1> QED
  BY <1>1

(* A field has the description it was told with, and so has its column. *)
LEMMA SaidOnce ==
  ASSUME NEW T \in Types, NEW i \in DOMAIN Fields(T)
  PROVE  /\ Fields(T)[i].field \in FieldsOf(T)
         /\ Fields(T)[i].column \in ColumnsOf(T)
         /\ Said[T][Fields(T)[i].field] = Fields(T)[i]
<1> DEFINE f == Fields(T)[i].field
<1>1. f \in FieldsOf(T) /\ Fields(T)[i].column \in ColumnsOf(T)
  BY DEF FieldsOf, ColumnsOf
<1>2. Said[T][f] = CHOOSE d \in ToSet(Fields(T)) : d.field = f
  BY <1>1 DEF Said
<1>3. Fields(T)[i] \in ToSet(Fields(T))
  BY DEF ToSet
<1>4. ASSUME NEW d \in ToSet(Fields(T)), d.field = f PROVE d = Fields(T)[i]
  <2>1. PICK j \in DOMAIN Fields(T) : d = Fields(T)[j]
    BY DEF ToSet
  <2> QED
    BY <1>4, <2>1, DescriptionsAssumption
<1> QED
  BY <1>1, <1>2, <1>3, <1>4

LEMMA SaidOfField ==
  ASSUME NEW T \in Types, NEW f \in FieldsOf(T)
  PROVE  \E i \in DOMAIN Fields(T) : Fields(T)[i].field = f /\ Said[T][f] = Fields(T)[i]
  BY SaidOnce DEF FieldsOf

LEMMA Described ==
  ASSUME NEW T \in Types, NEW i \in DOMAIN Fields(T)
  PROVE  /\ Fields(T)[i].type \in FieldTypes
         /\ Fields(T)[i].nullable \in BOOLEAN
         /\ Fields(T)[i].tag \in {"regular", "identity"}
         /\ Fields(T)[i].tag = "identity" =>
              /\ Fields(T)[i].type \in IntegerTypes
              /\ ~Fields(T)[i].nullable
              /\ MaxRow < Half(Fields(T)[i].type)
  BY DescriptionsAssumption, RowsAssumption

(* A walk past the identity meets every other field once. *)
LEMMA OrdinalOnce ==
  ASSUME NEW T \in Types, NEW i \in Regular(T), NEW j \in Regular(T), i < j
  PROVE  Ordinal(T, i) # Ordinal(T, j)
<1> DEFINE upTo(k) == {m \in Regular(T) : m <= k}
<1>1. Regular(T) \subseteq 1..Len(Fields(T)) /\ Len(Fields(T)) \in Nat
  BY AreSequences DEF Regular
<1>2. IsFiniteSet(1..Len(Fields(T)))
  BY <1>1, FS_Interval
<1>3. IsFiniteSet(upTo(j))
  BY <1>1, <1>2, FS_Subset
<1>4. upTo(i) \subseteq upTo(j) /\ j \in upTo(j) /\ j \notin upTo(i)
  BY <1>1
<1> HIDE DEF upTo
<1>5. Cardinality(upTo(i)) < Cardinality(upTo(j))
  BY <1>3, <1>4, FS_Subset, FS_CardinalityType
<1>6. Cardinality(upTo(i)) \in Nat /\ Cardinality(upTo(j)) \in Nat
  BY <1>3, <1>4, FS_Subset, FS_CardinalityType
<1> QED
  BY <1>5, <1>6 DEF Ordinal, upTo

LEMMA MetOnce ==
  ASSUME NEW T \in Types, NEW i \in Regular(T)
  PROVE  /\ Ordinal(T, i) \in Ordinals(T)
         /\ Met(T, Ordinal(T, i)) = Fields(T)[i]
<1>1. Ordinal(T, i) \in Ordinals(T)
  BY DEF Ordinals
<1>2. ASSUME NEW j \in Regular(T), Ordinal(T, j) = Ordinal(T, i) PROVE j = i
  <2>1. i \in Int /\ j \in Int
    BY AreSequences DEF Regular
  <2> QED
    BY <1>2, <2>1, OrdinalOnce
<1> QED
  BY <1>1, <1>2 DEF Met

(* The lists of columns, and of parameters, have at a field's place what is its own. *)
LEMMA InRow ==
  ASSUME NEW T \in Types, NEW item, NEW n, NEW i \in DOMAIN Fields(T),
         schema[T] = FormatCreateTable(T)
  PROVE  Given(T, item, n)[Fields(T)[i].column] =
           IF Fields(T)[i].tag = "identity" THEN n
           ELSE Parameter(Fields(T)[i].type, item[Fields(T)[i].field])
<1> DEFINE c == Fields(T)[i].column
           columns == RegularColumns(T)
           values == BindFields(T, item)
<1>1. Given(T, item, n)[c] =
        IF \E k \in DOMAIN columns : columns[k] = c
          THEN values[CHOOSE k \in DOMAIN columns : columns[k] = c]
          ELSE IF \E k \in DOMAIN schema[T].columns :
                    schema[T].columns[k].name = c /\ schema[T].columns[k].rowid
               THEN n ELSE Null
  BY SaidOnce DEF Given, NewRow
<1>2. DOMAIN columns = Ordinals(T) /\ DOMAIN values = Ordinals(T)
  BY DEF RegularColumns, BindFields
<1>3. ASSUME NEW k \in Ordinals(T), columns[k] = c
      PROVE  i \in Regular(T) /\ k = Ordinal(T, i)
  <2>1. PICK j \in Regular(T) : k = Ordinal(T, j)
    BY DEF Ordinals
  <2>2. columns[k] = Fields(T)[j].column
    BY <2>1, MetOnce DEF RegularColumns
  <2>3. i = j
    BY <1>3, <2>2, DescriptionsAssumption DEF Regular
  <2> QED
    BY <2>1, <2>3
<1>4. CASE Fields(T)[i].tag = "identity"
  <2>1. ~ \E k \in DOMAIN columns : columns[k] = c
    BY <1>2, <1>3, <1>4 DEF Regular
  <2>2. /\ i \in DOMAIN schema[T].columns
        /\ schema[T].columns[i] = ColumnDefinition(Fields(T)[i])
    BY DEF FormatCreateTable
  <2>3. ColumnDefinition(Fields(T)[i]).rowid = (Fields(T)[i].tag = "identity")
    BY DEF ColumnDefinition
  <2>4. schema[T].columns[i].name = c
    BY <2>2 DEF ColumnDefinition
  <2>5. \E k \in DOMAIN schema[T].columns :
          schema[T].columns[k].name = c /\ schema[T].columns[k].rowid
    BY <1>4, <2>2, <2>3, <2>4
  <2> HIDE DEF c, columns, values
  <2> QED
    BY <1>1, <1>4, <2>1, <2>5 DEF c
<1>5. CASE Fields(T)[i].tag # "identity"
  <2>1. i \in Regular(T)
    BY <1>5, Described DEF Regular
  <2>2. /\ Ordinal(T, i) \in DOMAIN columns /\ columns[Ordinal(T, i)] = c
        /\ values[Ordinal(T, i)] = Parameter(Fields(T)[i].type, item[Fields(T)[i].field])
    BY <2>1, MetOnce DEF RegularColumns, BindFields
  <2>3. (CHOOSE k \in DOMAIN columns : columns[k] = c) = Ordinal(T, i)
    BY <1>2, <1>3, <2>2
  <2>4. \E k \in DOMAIN columns : columns[k] = c
    BY <2>2
  <2> HIDE DEF c, columns, values
  <2>5. Given(T, item, n)[c] = values[Ordinal(T, i)]
    BY <1>1, <2>3, <2>4
  <2> QED
    BY <1>5, <2>2, <2>5 DEF c
<1> QED
  BY <1>4, <1>5

------------------------------------------------------------------------------
(* Cells.                                                                    *)

Typed(d, s) == s = Null \/ s \in StoredOf(d.type)

(* A column that is NOT NULL is not NULL. *)
Kind(d, s) == d.nullable \/ s # Null

(* What != is in SQL. *)
Differs(x, y) == x # Null /\ y # Null /\ x # y

LEMMA ParameterTyped ==
  ASSUME NEW d, d.type \in FieldTypes, NEW v \in ValuesOf(d.type) \cup {Null}
  PROVE  Typed(d, Parameter(d.type, v))
  BY StoredTyped DEF Typed, Parameter

(* What a cell holds can be told from what is read of it, and from no value. *)
LEMMA FetchedOnce ==
  ASSUME NEW type \in FieldTypes, NEW s \in StoredOf(type), NEW t \in StoredOf(type),
         s # Null, t # Null
  PROVE  /\ Fetched(type, s) # Null
         /\ Fetched(type, s) = Fetched(type, t) <=> s = t
<1>1. CASE type \in {"text", "real"}
  BY <1>1 DEF Fetched, Unsigned
<1>2. CASE type \in IntegerTypes
  <2>1. s \in -Half(type) .. Half(type) - 1 /\ t \in -Half(type) .. Half(type) - 1
    BY <1>2 DEF StoredOf, IntegerTypes
  <2>2. /\ Fetched(type, s) = IF Unsigned(type) THEN Low(s, Half(type)) ELSE s
        /\ Fetched(type, t) = IF Unsigned(type) THEN Low(t, Half(type)) ELSE t
        /\ Fetched(type, s) \in Int
    BY <1>2, <2>1, FetchedInteger
  <2>3. Wrap(s, Half(type)) = s /\ Wrap(t, Half(type)) = t
    BY <2>1, HalfPositive, WrapSame
  <2> QED
    BY <2>2, <2>3, NoNumberAssumption DEF Wrap
<1> QED
  BY <1>1, <1>2 DEF FieldTypes

(* A parameter of no value says that nothing is kept. *)
LEMMA ParameterKept ==
  ASSUME NEW d, d.type \in FieldTypes, NEW v \in ValuesOf(d.type) \cup {Null}
  PROVE  /\ Parameter(d.type, v) = Null => Kept(d.type, v) = Null
         /\ Parameter(d.type, v) # Null =>
              Kept(d.type, v) = Fetched(d.type, Parameter(d.type, v))
<1> DEFINE type == d.type
<1>1. CASE v = Null
  BY <1>1 DEF Parameter, Kept
<1>2. CASE v # Null
  <2>1. v \in ValuesOf(type) /\ Parameter(type, v) = Stored(type, v)
    BY <1>2 DEF Parameter
  <2>2. CASE Stored(type, v) # Null
    BY <1>2, <2>1, <2>2, RoundTrip
  <2>3. CASE Stored(type, v) = Null
    <3>1. type \notin IntegerTypes
      BY <2>1, <2>3, StoredInWidth, HalfPositive, NoNumberAssumption
    <3>2. Kept(type, v) = Stored(type, v)
      BY <1>2, <3>1 DEF Kept, FieldTypes
    <3> QED
      BY <2>1, <2>3, <3>2
  <2> QED
    BY <2>2, <2>3
<1> QED
  BY <1>1, <1>2

LEMMA ReadParameter ==
  ASSUME NEW d, d.type \in FieldTypes, NEW v \in ValuesOf(d.type) \cup {Null},
         Kind(d, Parameter(d.type, v))
  PROVE  ReadValue(d, Parameter(d.type, v)) = Kept(d.type, v)
  BY ParameterKept DEF Kind, ReadValue

LEMMA ReadIsNull ==
  ASSUME NEW d, d.type \in FieldTypes, NEW s, Typed(d, s), Kind(d, s)
  PROVE  ReadValue(d, s) = Null <=> s = Null
  BY FetchedOnce DEF Typed, Kind, ReadValue

(* SQL's equality of cells is that of the values read of them ... *)
LEMMA EqualCells ==
  ASSUME NEW d, d.type \in FieldTypes, NEW s, Typed(d, s), Kind(d, s),
         NEW e, e.type = d.type, NEW t, Typed(e, t), Kind(e, t)
  PROVE  Equals(s, t) <=> Equals(ReadValue(d, s), ReadValue(e, t))
<1>1. CASE s = Null \/ t = Null
  BY <1>1, ReadIsNull DEF Equals
<1>2. CASE s # Null /\ t # Null
  <2>1. ReadValue(d, s) = Fetched(d.type, s) /\ ReadValue(e, t) = Fetched(d.type, t)
    BY <1>2 DEF ReadValue
  <2> QED
    BY <1>2, <2>1, FetchedOnce DEF Equals, Typed
<1> QED
  BY <1>1, <1>2

(* ... and that of a cell and a parameter is that with the value the parameter has. *)
LEMMA EqualParameter ==
  ASSUME NEW d, d.type \in FieldTypes, NEW s, Typed(d, s), Kind(d, s),
         NEW v \in ValuesOf(d.type) \cup {Null}
  PROVE  Equals(s, Parameter(d.type, v)) <=> Equals(ReadValue(d, s), Kept(d.type, v))
<1> DEFINE p == Parameter(d.type, v)
<1>1. CASE s = Null
  BY <1>1, ReadIsNull DEF Equals
<1>2. CASE s # Null /\ p = Null
  BY <1>2, ReadIsNull, ParameterKept DEF Equals
<1>3. CASE s # Null /\ p # Null
  <2>1. ReadValue(d, s) = Fetched(d.type, s) /\ Kept(d.type, v) = Fetched(d.type, p)
    BY <1>3, ParameterKept DEF ReadValue
  <2>2. s \in StoredOf(d.type) /\ p \in StoredOf(d.type)
    BY <1>3, ParameterTyped DEF Typed
  <2> QED
    BY <1>3, <2>1, <2>2, FetchedOnce DEF Equals
<1> QED
  BY <1>1, <1>2, <1>3

(* And so are they told apart. *)
LEMMA DifferParameter ==
  ASSUME NEW d, d.type \in FieldTypes, NEW s, Typed(d, s), Kind(d, s),
         NEW v \in ValuesOf(d.type) \cup {Null}
  PROVE  Differs(s, Parameter(d.type, v)) <=> Differs(ReadValue(d, s), Kept(d.type, v))
<1> DEFINE p == Parameter(d.type, v)
<1>1. CASE s = Null \/ p = Null
  BY <1>1, ReadIsNull, ParameterKept DEF Differs
<1>2. CASE s # Null /\ p # Null
  <2>1. ReadValue(d, s) = Fetched(d.type, s) /\ Kept(d.type, v) = Fetched(d.type, p)
    BY <1>2, ParameterKept DEF ReadValue
  <2>2. s \in StoredOf(d.type) /\ p \in StoredOf(d.type)
    BY <1>2, ParameterTyped DEF Typed
  <2> QED
    BY <1>2, <2>1, <2>2, FetchedOnce DEF Differs
<1> QED
  BY <1>1, <1>2

------------------------------------------------------------------------------
(* The invariant.                                                            *)

RowInv(T, r, row) ==
  /\ DOMAIN row = ColumnsOf(T)
  /\ \A i \in DOMAIN Fields(T) :
       LET d == Fields(T)[i]
       IN  Typed(d, row[d.column]) /\ (d.tag = "identity" => row[d.column] = r)

(* A table is what create_table has made of its type's description; its rows are
   acceptable under that, and each of their cells is of its column's type. *)
TableInv(T) ==
  /\ schema[T] = FormatCreateTable(T)
  /\ Accepted(FormatCreateTable(T), rows[T])
  /\ DOMAIN rows[T] \subseteq 1..MaxRow
  /\ \A r \in DOMAIN rows[T] : RowInv(T, r, rows[T][r])

Inv ==
  /\ DOMAIN schema \subseteq Types /\ DOMAIN rows = DOMAIN schema
  /\ \A T \in DOMAIN schema : TableInv(T)
  /\ lastRowid \in 0..MaxRow

(* What a table says of the columns it accepts. *)
LEMMA AcceptedKind ==
  ASSUME NEW T \in Types, NEW table, Accepted(FormatCreateTable(T), table),
         NEW r \in DOMAIN table, NEW i \in DOMAIN Fields(T)
  PROVE  Kind(Fields(T)[i], table[r][Fields(T)[i].column])
<1> DEFINE columns == FormatCreateTable(T).columns
<1>1. columns = [j \in DOMAIN Fields(T) |-> ColumnDefinition(Fields(T)[j])]
  BY DEF FormatCreateTable
<1>2. i \in DOMAIN columns /\ columns[i] = ColumnDefinition(Fields(T)[i])
  BY <1>1
<1>3. /\ columns[i].name = Fields(T)[i].column
      /\ columns[i].notNull = ~Fields(T)[i].nullable
  BY <1>2 DEF ColumnDefinition
<1>4. columns[i].notNull => table[r][columns[i].name] # Null
  <2> HIDE DEF columns
  <2> QED
    BY <1>2 DEF Accepted, columns
<1> QED
  BY <1>3, <1>4 DEF Kind

LEMMA AcceptedKeys ==
  ASSUME NEW T \in Types, NEW table, Accepted(FormatCreateTable(T), table),
         NEW r \in DOMAIN table, NEW q \in DOMAIN table, r # q,
         NEW k \in DOMAIN Describe[T].keys
  PROVE  \E f \in ToSet(Describe[T].keys[k].fields) :
           ~Equals(table[r][Said[T][f].column], table[q][Said[T][f].column])
<1> DEFINE fs == Describe[T].keys[k].fields
           keys == FormatCreateTable(T).keys
<1>1. k \in DOMAIN keys /\ keys[k] = [i \in DOMAIN fs |-> Said[T][fs[i]].column]
  BY DEF FormatCreateTable, KeyConstraints, CollectFields, FormatColumn
<1>2. ~Clash(table[r], table[q], FormatCreateTable(T).keys[k])
  BY <1>1 DEF Accepted
<1>3. PICK i \in DOMAIN fs : ~Equals(table[r][Said[T][fs[i]].column],
                                    table[q][Said[T][fs[i]].column])
  BY <1>1, <1>2 DEF Clash
<1> QED
  BY <1>3 DEF ToSet

(* What a statement that is executed does: one table gets other rows. *)
LEMMA ExecutedInv ==
  ASSUME Inv, NEW T \in DOMAIN schema, NEW table, Accepted(schema[T], table),
         rows' = [rows EXCEPT ![T] = table], UNCHANGED schema,
         DOMAIN table \subseteq 1..MaxRow, \A r \in DOMAIN table : RowInv(T, r, table[r]),
         lastRowid' \in 0..MaxRow
  PROVE  Inv'
<1>1. schema[T] = FormatCreateTable(T)
  BY DEF Inv, TableInv
<1>2. ASSUME NEW S \in DOMAIN schema PROVE TableInv(S)'
  <2>1. CASE S = T
    <3>1. rows'[S] = table /\ schema'[S] = schema[T]
      BY <2>1 DEF Inv
    <3> QED
      BY <1>1, <2>1, <3>1 DEF TableInv, RowInv, Typed, Accepted
  <2>2. CASE S # T
    <3>1. rows'[S] = rows[S] /\ schema'[S] = schema[S]
      BY <2>2 DEF Inv
    <3> QED
      BY <3>1 DEF Inv, TableInv, RowInv, Typed, Accepted
  <2> QED
    BY <2>1, <2>2
<1> QED
  BY <1>2 DEF Inv

LEMMA CreatedInv ==
  ASSUME Inv, NEW T \in Types, CreateTable(T)
  PROVE  Inv'
<1>1. /\ DOMAIN schema' = DOMAIN schema \cup {T} /\ DOMAIN rows' = DOMAIN schema'
      /\ T \notin DOMAIN schema
      /\ schema'[T] = FormatCreateTable(T) /\ rows'[T] = << >>
  BY DEF CreateTable, Known, Inv
<1>2. ASSUME NEW S \in DOMAIN schema' PROVE TableInv(S)'
  <2>1. CASE S = T
    BY <1>1, <2>1 DEF TableInv, Accepted
  <2>2. CASE S # T
    <3>1. S \in DOMAIN schema /\ rows'[S] = rows[S] /\ schema'[S] = schema[S]
      BY <1>1, <2>2 DEF CreateTable, Inv
    <3> QED
      BY <3>1 DEF Inv, TableInv, RowInv, Typed, Accepted
  <2> QED
    BY <2>1, <2>2
<1> QED
  BY <1>1, <1>2 DEF CreateTable, Inv

(* A call that throws, and a step that does nothing. *)
LEMMA UnchangedInv ==
  ASSUME Inv, UNCHANGED <<schema, rows, lastRowid>>
  PROVE  Inv'
  BY DEF Inv, TableInv, RowInv, Typed, Accepted

(* A row that is inserted is of its table's types. *)
LEMMA GivenInv ==
  ASSUME NEW T \in Types, NEW item \in Items[T], NEW n \in 1..MaxRow,
         schema[T] = FormatCreateTable(T)
  PROVE  RowInv(T, n, Given(T, item, n))
<1>1. DOMAIN Given(T, item, n) = ColumnsOf(T)
  BY DEF Given, NewRow
<1>2. ASSUME NEW i \in DOMAIN Fields(T)
      PROVE  LET d == Fields(T)[i]
                 s == Given(T, item, n)[d.column]
             IN  Typed(d, s) /\ (d.tag = "identity" => s = n)
  <2> DEFINE d == Fields(T)[i]
             s == Given(T, item, n)[d.column]
  <2>1. CASE d.tag = "identity"
    <3>1. s = n
      BY <2>1, InRow
    <3>2. d.type \in IntegerTypes /\ MaxRow < Half(d.type)
      BY <2>1, Described
    <3>3. n \in StoredOf(d.type)
      BY <3>2, HalfPositive, RowsAssumption DEF StoredOf, IntegerTypes
    <3> QED
      BY <3>1, <3>3 DEF Typed
  <2>2. CASE d.tag # "identity"
    <3>1. s = Parameter(d.type, item[d.field])
      BY <2>2, InRow
    <3>2. d.type \in FieldTypes /\ d.tag = "regular"
      BY <2>2, Described
    <3>3. d.field \in RegularFieldsOf(T) /\ Said[T][d.field] = d
      BY <3>2, SaidOnce DEF RegularFieldsOf
    <3>4. item[d.field] \in ValuesOf(d.type) \cup {Null}
      BY <3>3, ItemsAssumption
    <3> QED
      BY <2>2, <3>1, <3>2, <3>4, ParameterTyped
  <2> QED
    BY <2>1, <2>2
<1> QED
  BY <1>1, <1>2 DEF RowInv

(* An upserted row keeps its identity, and takes cells of the new one. *)
LEMMA ExcludedInv ==
  ASSUME Inv, NEW T \in DOMAIN schema, NEW item \in Items[T], NEW n \in 1..MaxRow + 1,
         NEW q \in DOMAIN rows[T]
  PROVE  /\ RowInv(T, q, Excluded(T, q, Given(T, item, n)))
         /\ \A i \in DOMAIN Fields(T) :
              Excluded(T, q, Given(T, item, n))[Fields(T)[i].column] =
                IF Fields(T)[i].tag = "identity" THEN q
                ELSE Parameter(Fields(T)[i].type, item[Fields(T)[i].field])
<1> DEFINE row == Given(T, item, n)
           new == Excluded(T, q, row)
<1>1. T \in Types /\ schema[T] = FormatCreateTable(T) /\ RowInv(T, q, rows[T][q])
  BY DEF Inv, TableInv
<1>2. DOMAIN new = ColumnsOf(T)
  BY DEF Excluded
<1>3. ASSUME NEW i \in DOMAIN Fields(T)
      PROVE  LET d == Fields(T)[i]
             IN  /\ Typed(d, new[d.column])
                 /\ new[d.column] = IF d.tag = "identity" THEN q
                                    ELSE Parameter(d.type, item[d.field])
  <2> DEFINE d == Fields(T)[i]
  <2>1. new[d.column] = IF d.column \in ToSet(RegularColumns(T))
                          THEN row[d.column] ELSE rows[T][q][d.column]
    BY <1>1, SaidOnce DEF Excluded
  <2>2. CASE d.tag = "identity"
    <3>1. d.column \notin ToSet(RegularColumns(T))
      <4> SUFFICES ASSUME NEW k \in Ordinals(T), RegularColumns(T)[k] = d.column
                   PROVE  FALSE
        BY DEF ToSet, RegularColumns
      <4>1. PICK j \in Regular(T) : k = Ordinal(T, j)
        BY DEF Ordinals
      <4>2. Fields(T)[j].column = d.column
        BY <1>1, <4>1, MetOnce DEF RegularColumns
      <4> QED
        BY <1>1, <2>2, <4>2, DescriptionsAssumption DEF Regular
    <3> QED
      BY <1>1, <2>1, <2>2, <3>1 DEF RowInv
  <2>3. CASE d.tag # "identity"
    <3>1. i \in Regular(T) /\ d.tag = "regular" /\ d.type \in FieldTypes
      BY <1>1, <2>3, Described DEF Regular
    <3>2. d.column \in ToSet(RegularColumns(T))
      <4>1. /\ Ordinal(T, i) \in DOMAIN RegularColumns(T)
            /\ RegularColumns(T)[Ordinal(T, i)] = d.column
        BY <1>1, <3>1, MetOnce DEF RegularColumns
      <4> QED
        BY <4>1 DEF ToSet
    <3>3. new[d.column] = Parameter(d.type, item[d.field])
      BY <1>1, <2>1, <2>3, <3>2, InRow
    <3>4. d.field \in RegularFieldsOf(T) /\ Said[T][d.field] = d
      BY <1>1, <3>1, SaidOnce DEF RegularFieldsOf
    <3>5. item[d.field] \in ValuesOf(d.type) \cup {Null}
      BY <1>1, <3>4, ItemsAssumption
    <3> QED
      BY <2>3, <3>1, <3>3, <3>5, ParameterTyped
  <2> QED
    BY <2>2, <2>3
<1> QED
  BY <1>2, <1>3 DEF RowInv

(* What a field is compared with, or set to, is of its type. *)
LEMMA ValuesTyped ==
  ASSUME NEW T \in Types, NEW f \in FieldsOf(T), NEW v \in ValuesFor(T, f)
  PROVE  v \in ValuesOf(Said[T][f].type) \cup {Null}
<1>1. CASE f \in RegularFieldsOf(T)
  <2>1. PICK item \in Items[T] : v = item[f]
    BY <1>1 DEF ValuesFor
  <2> QED
    BY <1>1, <2>1, ItemsAssumption
<1>2. CASE f \notin RegularFieldsOf(T)
  <2>1. PICK i \in DOMAIN Fields(T) : Said[T][f] = Fields(T)[i]
    BY SaidOfField
  <2>2. /\ Said[T][f].type \in IntegerTypes /\ MaxRow < Half(Said[T][f].type)
    BY <1>2, <2>1, Described DEF RegularFieldsOf
  <2>3. v \in 1..MaxRow
    BY <1>2 DEF ValuesFor
  <2>4. v \in 0 .. Half(Said[T][f].type) - 1
    BY <2>2, <2>3, HalfPositive, RowsAssumption
  <2> QED
    BY <2>2, <2>4, HalfPositive DEF ValuesOf, IntegerTypes
<1> QED
  BY <1>1, <1>2

(* An update sets one column, not the identity's. *)
NewCells(T, f, value, r) ==
  [rows[T][r] EXCEPT ![FormatColumn(T, f)] = Parameter(Said[T][f].type, value)]

LEMMA UpdatedRow ==
  ASSUME Inv, NEW T \in DOMAIN schema, NEW f \in RegularFieldsOf(T),
         NEW value \in ValuesFor(T, f) \cup {Null}, NEW r \in DOMAIN rows[T]
  PROVE  /\ RowInv(T, r, NewCells(T, f, value, r))
         /\ \A i \in DOMAIN Fields(T) :
              NewCells(T, f, value, r)[Fields(T)[i].column] =
                IF Fields(T)[i].field = f THEN Parameter(Fields(T)[i].type, value)
                                          ELSE rows[T][r][Fields(T)[i].column]
<1> DEFINE p == Parameter(Said[T][f].type, value)
           new == [rows[T][r] EXCEPT ![FormatColumn(T, f)] = p]
<1>1. T \in Types /\ RowInv(T, r, rows[T][r]) /\ f \in FieldsOf(T)
  BY DEF Inv, TableInv, RegularFieldsOf
<1>2. PICK k \in DOMAIN Fields(T) : Fields(T)[k].field = f /\ Said[T][f] = Fields(T)[k]
  BY <1>1, SaidOfField
<1>3. FormatColumn(T, f) = Fields(T)[k].column /\ Fields(T)[k].tag = "regular"
  BY <1>2 DEF FormatColumn, RegularFieldsOf
<1>4. DOMAIN new = ColumnsOf(T)
  BY <1>1 DEF RowInv
<1>5. ASSUME NEW i \in DOMAIN Fields(T)
      PROVE  new[Fields(T)[i].column] =
               IF i = k THEN p ELSE rows[T][r][Fields(T)[i].column]
  <2>1. Fields(T)[i].column \in DOMAIN rows[T][r]
    BY <1>1, SaidOnce DEF RowInv
  <2>2. i # k => Fields(T)[i].column # Fields(T)[k].column
    BY <1>1, DescriptionsAssumption
  <2> QED
    BY <1>3, <2>1, <2>2
<1>6. Fields(T)[k].type \in FieldTypes /\ Typed(Fields(T)[k], p)
  <2>1. value \in ValuesOf(Fields(T)[k].type) \cup {Null}
    BY <1>1, <1>2, ValuesTyped
  <2>2. Fields(T)[k].type \in FieldTypes
    BY <1>1, Described
  <2> QED
    BY <1>2, <2>1, <2>2, ParameterTyped
<1>7. \A i \in DOMAIN Fields(T) : Fields(T)[i].field = f <=> i = k
  BY <1>1, <1>2, DescriptionsAssumption
<1> HIDE DEF new, p
<1>8. RowInv(T, r, new)
  BY <1>1, <1>3, <1>4, <1>5, <1>6 DEF RowInv
<1> QED
  BY <1>2, <1>5, <1>7, <1>8 DEF new, p, NewCells

------------------------------------------------------------------------------
(* Steps.                                                                    *)

LEMMA InitInv == Init => Inv
  BY RowsAssumption DEF Init, Inv

LEMMA InsertInv ==
  ASSUME Inv, NEW T \in Types, NEW item \in Items[T], Insert(T, item)
  PROVE  Inv'
<1>1. PICK n \in 1..MaxRow :
        /\ lastRowid' = n
        /\ Execute(T, WithRow(T, n, Given(T, item, n)), BindIdentity(T, n))
  BY DEF Insert
<1> DEFINE table == WithRow(T, n, Given(T, item, n))
<1>2. /\ T \in DOMAIN schema /\ schema[T] = FormatCreateTable(T)
      /\ DOMAIN rows[T] \subseteq 1..MaxRow
      /\ \A r \in DOMAIN rows[T] : RowInv(T, r, rows[T][r])
  BY DEF Insert, Known, Inv, TableInv
<1>3. RowInv(T, n, Given(T, item, n))
  BY <1>2, GivenInv
<1>4. DOMAIN table \subseteq 1..MaxRow /\ \A r \in DOMAIN table : RowInv(T, r, table[r])
  BY <1>2, <1>3 DEF WithRow
<1>5. /\ Accepted(schema[T], table) /\ rows' = [rows EXCEPT ![T] = table]
      /\ UNCHANGED schema /\ lastRowid' \in 0..MaxRow
  BY <1>1, RowsAssumption DEF Execute
<1> HIDE DEF table
<1> QED
  BY <1>2, <1>4, <1>5, ExecutedInv

LEMMA UpsertInv ==
  ASSUME Inv, NEW T \in Types, NEW item \in Items[T], Upsert(T, item)
  PROVE  Inv'
<1>1. PICK n \in 1..MaxRow + 1 : \E q \in Clashing(T, Given(T, item, n)) :
        Execute(T, WithRow(T, q, Excluded(T, q, Given(T, item, n))), BindIdentity(T, lastRowid))
  BY DEF Upsert
<1>2. PICK q \in Clashing(T, Given(T, item, n)) :
        Execute(T, WithRow(T, q, Excluded(T, q, Given(T, item, n))), BindIdentity(T, lastRowid))
  BY <1>1
<1> DEFINE table == WithRow(T, q, Excluded(T, q, Given(T, item, n)))
<1>3. /\ T \in DOMAIN schema /\ q \in DOMAIN rows[T]
      /\ DOMAIN rows[T] \subseteq 1..MaxRow
      /\ \A r \in DOMAIN rows[T] : RowInv(T, r, rows[T][r])
  BY DEF Upsert, Known, Inv, TableInv, Clashing
<1>4. RowInv(T, q, Excluded(T, q, Given(T, item, n)))
  BY <1>3, ExcludedInv
<1>5. DOMAIN table \subseteq 1..MaxRow /\ \A r \in DOMAIN table : RowInv(T, r, table[r])
  BY <1>3, <1>4 DEF WithRow
<1>6. /\ Accepted(schema[T], table) /\ rows' = [rows EXCEPT ![T] = table]
      /\ UNCHANGED schema /\ lastRowid' \in 0..MaxRow
  BY <1>2 DEF Execute, Upsert, Inv
<1> HIDE DEF table
<1> QED
  BY <1>3, <1>5, <1>6, ExecutedInv

LEMMA UpdateInv ==
  ASSUME Inv, NEW T \in Types, NEW f \in RegularFieldsOf(T),
         NEW value \in ValuesFor(T, f) \cup {Null}, NEW where, Update(T, f, value, where)
  PROVE  Inv'
<1> DEFINE table == Updated(T, f, value, where)
<1>1. /\ T \in DOMAIN schema /\ DOMAIN rows[T] \subseteq 1..MaxRow
      /\ \A r \in DOMAIN rows[T] : RowInv(T, r, rows[T][r])
  BY DEF Update, Known, Inv, TableInv
<1>2. DOMAIN table \subseteq 1..MaxRow
  BY <1>1 DEF Updated
<1>3. ASSUME NEW r \in DOMAIN table PROVE RowInv(T, r, table[r])
  <2>1. r \in DOMAIN rows[T]
    BY DEF Updated
  <2>2. RowInv(T, r, NewCells(T, f, value, r))
    BY <1>1, <2>1, UpdatedRow
  <2> QED
    BY <1>1, <2>1, <2>2 DEF Updated, NewCells
<1>4. /\ Accepted(schema[T], table) /\ rows' = [rows EXCEPT ![T] = table]
      /\ UNCHANGED schema /\ lastRowid' \in 0..MaxRow
  BY DEF Update, Execute, Inv
<1> HIDE DEF table
<1> QED
  BY <1>1, <1>2, <1>3, <1>4, ExecutedInv

LEMMA RemoveInv ==
  ASSUME Inv, NEW T \in Types, NEW where, RemoveWhere(T, where)
  PROVE  Inv'
<1> DEFINE table == [r \in {q \in DOMAIN rows[T] : ~RowMatches(T, where, q)} |-> rows[T][r]]
<1>1. /\ T \in DOMAIN schema /\ DOMAIN rows[T] \subseteq 1..MaxRow
      /\ \A r \in DOMAIN rows[T] : RowInv(T, r, rows[T][r])
      /\ schema[T] = FormatCreateTable(T) /\ Accepted(FormatCreateTable(T), rows[T])
  BY DEF RemoveWhere, Known, Inv, TableInv
<1>2. DOMAIN table \subseteq DOMAIN rows[T] /\ \A r \in DOMAIN table : table[r] = rows[T][r]
  OBVIOUS
<1>3. rows' = [rows EXCEPT ![T] = table] /\ UNCHANGED <<schema, lastRowid>>
  BY DEF RemoveWhere
<1> HIDE DEF table
<1>4. Accepted(schema[T], table)
  BY <1>1, <1>2 DEF Accepted
<1>5. DOMAIN table \subseteq 1..MaxRow /\ \A r \in DOMAIN table : RowInv(T, r, table[r])
  BY <1>1, <1>2
<1> QED
  BY <1>1, <1>3, <1>4, <1>5, ExecutedInv DEF Inv

LEMMA StepInv == Inv /\ [Next]_vars => Inv'
<1> SUFFICES ASSUME Inv, [Next]_vars PROVE Inv'
  OBVIOUS
<1>1. CASE UNCHANGED vars
  BY <1>1, UnchangedInv DEF vars
<1>2. ASSUME NEW T \in Types, CreateTable(T) PROVE Inv'
  BY <1>2, CreatedInv
<1>3. CASE Throw
  BY <1>3, UnchangedInv DEF Throw
<1>4. ASSUME NEW T \in Types, NEW item \in Items[T], Insert(T, item) \/ Upsert(T, item)
      PROVE  Inv'
  BY <1>4, InsertInv, UpsertInv
<1>5. ASSUME NEW T \in Types, NEW where, RemoveWhere(T, where) PROVE Inv'
  BY <1>5, RemoveInv
<1>6. ASSUME NEW T \in Types, NEW where, NEW f \in RegularFieldsOf(T),
             NEW value \in ValuesFor(T, f) \cup {Null}, Update(T, f, value, where)
      PROVE  Inv'
  BY <1>6, UpdateInv
<1> QED
  BY <1>1, <1>2, <1>3, <1>4, <1>5, <1>6
  DEF Next, Changing, CreateTableAgain, NotPrepared, InsertThrows, UpsertThrows, UpdateThrows

(* The tables are what the descriptions say, and their rows are acceptable. *)
LEMMA InvHolds == Spec => []Inv
  BY InitInv, StepInv, PTL DEF Spec

------------------------------------------------------------------------------
(* A column holds what its type's conversion makes, within its width and without
   NULs, however its cells were bound (statement.h 107-133). *)
THEOREM TypesHold == Spec => []TypeOK
<1>1. Inv => TypeOK
  BY DEF Inv, TableInv, RowInv, Typed, TypeOK
<1> QED
  BY <1>1, InvHolds, PTL

(* What is NULL in a table is a field that can say so: no string is ever made from
   a null pointer (format.h 110-147, select.h 41-63). *)
THEOREM NullOnlyWhereNullableHolds == Spec => []NullOnlyWhereNullable
<1>1. Inv => NullOnlyWhereNullable
  <2> SUFFICES ASSUME Inv, NEW T \in DOMAIN rows, NEW r \in DOMAIN rows[T],
                      NEW i \in DOMAIN Fields(T)
               PROVE  Fields(T)[i].nullable \/ rows[T][r][Fields(T)[i].column] # Null
    BY DEF NullOnlyWhereNullable
  <2>1. T \in Types /\ Accepted(FormatCreateTable(T), rows[T])
    BY DEF Inv, TableInv
  <2> QED
    BY <2>1, AcceptedKind DEF Kind
<1> QED
  BY <1>1, InvHolds, PTL

(* Keys hold for every description, whatever is inserted, upserted, set or removed
   (format.h 152-166, 423-438, 464-473). *)
THEOREM KeysAreKeptHolds == Spec => []KeysAreKept
<1>1. Inv => KeysAreKept
  BY AcceptedKeys DEF Inv, TableInv, KeysAreKept
<1> QED
  BY <1>1, InvHolds, PTL

------------------------------------------------------------------------------
(* The refinement.                                                           *)

LEMMA SameFields ==
  /\ Abs!Said = Said
  /\ \A T : /\ Abs!FieldsOf(T) = FieldsOf(T)
            /\ Abs!RegularFieldsOf(T) = RegularFieldsOf(T)
<1>1. \A T : Abs!FieldsOf(T) = FieldsOf(T) /\ Abs!ToSet(Abs!Fields(T)) = ToSet(Fields(T))
  BY DEF FieldsOf, Fields, ToSet, Abs!FieldsOf, Abs!Fields, Abs!ToSet
<1>2. Abs!Said = Said
  BY <1>1 DEF Said, Abs!Said
<1> QED
  BY <1>1, <1>2 DEF RegularFieldsOf, Abs!RegularFieldsOf

LEMMA SameValues ==
  /\ \A type, v : Abs!Kept(type, v) = Kept(type, v)
  /\ \A type, n : Abs!IdentityOf(type, n) = IdentityOf(type, n)
<1>1. \A type : Abs!Half(type) = Half(type) /\ Abs!Unsigned(type) = Unsigned(type)
  BY DEF Half, Unsigned, Abs!Half, Abs!Unsigned
<1>2. \A n, h : Abs!Low(n, h) = Low(n, h)
  BY DEF Low, Abs!Low
<1>3. \A n, h : Abs!Wrap(n, h) = Wrap(n, h)
  BY <1>2 DEF Wrap, Abs!Wrap
<1>4. \A t : Abs!UpToNul(t) = UpToNul(t)
  BY DEF UpToNul, Abs!UpToNul
<1>5. \A type, v : Abs!Stored(type, v) = Stored(type, v)
  BY <1>1, <1>3, <1>4 DEF Stored, Abs!Stored
<1> QED
  BY <1>1, <1>2, <1>3, <1>5 DEF Kept, Abs!Kept, IdentityOf, Abs!IdentityOf

LEMMA SameInputs ==
  /\ \A T, n : Abs!IdentityFor(T, n) = BindIdentity(T, n)
  /\ \A T, f : Abs!ValuesFor(T, f) = ValuesFor(T, f)
  /\ \A f, v : Abs!IsEqual(f, v) = IsEqual(f, v)
<1>1. \A T : Abs!Identity(T) = Identity(T)
  BY DEF Identity, Abs!Identity, Fields, Abs!Fields
<1>2. \A T, n : Abs!IdentityFor(T, n) = BindIdentity(T, n)
  BY <1>1, SameValues DEF Abs!IdentityFor, BindIdentity
<1> QED
  BY <1>2, SameFields DEF ValuesFor, Abs!ValuesFor, IsEqual, Abs!IsEqual

LEMMA FieldRead ==
  ASSUME NEW T \in Types, NEW row, NEW i \in DOMAIN Fields(T)
  PROVE  AsRecord(T, row)[Fields(T)[i].field] =
           ReadValue(Fields(T)[i], row[Fields(T)[i].column])
  BY SaidOnce DEF AsRecord

(* Acceptable rows are legal records. *)
LEMMA AcceptedLegal ==
  ASSUME NEW T \in Types, NEW table, Accepted(FormatCreateTable(T), table),
         \A r \in DOMAIN table : RowInv(T, r, table[r])
  PROVE  Abs!Legal(T, [r \in DOMAIN table |-> AsRecord(T, table[r])])
<1> DEFINE records == [r \in DOMAIN table |-> AsRecord(T, table[r])]
<1>1. ASSUME NEW r \in DOMAIN table, NEW f \in FieldsOf(T)
      PROVE  /\ Said[T][f].type \in FieldTypes
             /\ Typed(Said[T][f], table[r][Said[T][f].column])
             /\ Kind(Said[T][f], table[r][Said[T][f].column])
             /\ records[r][f] = ReadValue(Said[T][f], table[r][Said[T][f].column])
  <2>1. PICK i \in DOMAIN Fields(T) : Fields(T)[i].field = f /\ Said[T][f] = Fields(T)[i]
    BY SaidOfField
  <2> QED
    BY <2>1, AcceptedKind, Described, FieldRead DEF RowInv
<1>2. ASSUME NEW r \in DOMAIN table, NEW f \in FieldsOf(T)
      PROVE  Said[T][f].nullable \/ records[r][f] # Null
  BY <1>1, ReadIsNull DEF Kind
<1>3. ASSUME NEW r \in DOMAIN table, NEW q \in DOMAIN table \ {r},
             NEW k \in DOMAIN Describe[T].keys
      PROVE  \E f \in ToSet(Describe[T].keys[k].fields) : ~Equals(records[r][f], records[q][f])
  <2>1. PICK f \in ToSet(Describe[T].keys[k].fields) :
          ~Equals(table[r][Said[T][f].column], table[q][Said[T][f].column])
    BY AcceptedKeys
  <2>2. f \in FieldsOf(T)
    BY DescriptionsAssumption
  <2>3. ~Equals(records[r][f], records[q][f])
    BY <1>1, <2>1, <2>2, EqualCells
  <2> QED
    BY <2>3
<1>4. /\ \A k : Abs!KeyFields(T, k) = ToSet(Describe[T].keys[k].fields)
      /\ \A x, y, fields : Abs!Clash(x, y, fields) <=> \A f \in fields : Equals(x[f], y[f])
  BY DEF ToSet, Abs!ToSet, Abs!KeyFields, Abs!Clash, Equals
<1>5. DOMAIN records = DOMAIN table
  OBVIOUS
<1> HIDE DEF records
<1> QED
  BY <1>2, <1>3, <1>4, <1>5, SameFields DEF Abs!Legal, records

(* One table gets other rows: its records become what these are read as. *)
LEMMA RowsBecome ==
  ASSUME Inv, NEW T \in DOMAIN schema, NEW table, Accepted(schema[T], table),
         rows' = [rows EXCEPT ![T] = table], \A r \in DOMAIN table : RowInv(T, r, table[r]),
         NEW records, records = [r \in DOMAIN table |-> AsRecord(T, table[r])],
         NEW given, result' = given
  PROVE  Abs!Becomes(T, records, given)
<1>1. T \in Types /\ schema[T] = FormatCreateTable(T) /\ T \in DOMAIN rows
  BY DEF Inv, TableInv
<1>2. Abs!Legal(T, records)
  BY <1>1, AcceptedLegal
<1>3. Store' = [S \in DOMAIN rows |-> IF S = T THEN records ELSE Store[S]]
  BY <1>1 DEF Store
<1>4. [Store EXCEPT ![T] = records] = [S \in DOMAIN rows |-> IF S = T THEN records ELSE Store[S]]
  BY <1>1 DEF Store
<1> QED
  BY <1>2, <1>3, <1>4 DEF Abs!Becomes

(* Conditions find the records that satisfy them. *)
LEMMA MatchesSatisfies ==
  ASSUME Inv, NEW T \in DOMAIN schema, NEW g \in FieldsOf(T), NEW v \in ValuesFor(T, g),
         NEW r \in DOMAIN rows[T]
  PROVE  RowMatches(T, IsEqual(g, v), r)
           <=> Abs!Satisfies(T, Abs!IsEqual(g, v), AsRecord(T, rows[T][r]))
<1> DEFINE d == Said[T][g]
           s == rows[T][r][d.column]
<1>1. T \in Types
  BY DEF Inv
<1>2. PICK i \in DOMAIN Fields(T) : Fields(T)[i].field = g /\ d = Fields(T)[i]
  BY <1>1, SaidOfField
<1>3. /\ d.type \in FieldTypes /\ Typed(d, s) /\ Kind(d, s)
      /\ AsRecord(T, rows[T][r])[g] = ReadValue(d, s)
  BY <1>1, <1>2, AcceptedKind, Described, FieldRead DEF Inv, TableInv, RowInv
<1>4. Equals(s, Parameter(d.type, v)) <=> Equals(ReadValue(d, s), Kept(d.type, v))
  BY <1>1, <1>3, ValuesTyped, EqualParameter
<1>5. RowMatches(T, IsEqual(g, v), r) <=> Equals(s, Parameter(d.type, v))
  BY DEF RowMatches, Matches, IsEqual, Cell, FormatColumn
<1>6. Abs!Satisfies(T, Abs!IsEqual(g, v), AsRecord(T, rows[T][r]))
        <=> Equals(AsRecord(T, rows[T][r])[g], Kept(d.type, v))
  <2> DEFINE x == AsRecord(T, rows[T][r])
             t == [op |-> "==", at |-> 1, field |-> g, value |-> v]
  <2>1. Abs!IsEqual(g, v) = {t}
    BY DEF Abs!IsEqual
  <2>2. Abs!Satisfies(T, {t}, x) <=> Equals(x[g], Abs!Kept(Abs!Said[T][g].type, v))
    BY DEF Abs!Satisfies, Abs!Finds, Abs!Holds, Abs!ComparesEmpty, Abs!Against, Equals
  <2> QED
    BY <2>1, <2>2, SameFields, SameValues
<1> QED
  BY <1>3, <1>4, <1>5, <1>6

LEMMA StoreTables ==
  ASSUME Inv
  PROVE  /\ DOMAIN Store = DOMAIN schema
         /\ \A T \in DOMAIN schema :
              Store[T] = [r \in DOMAIN rows[T] |-> AsRecord(T, rows[T][r])]
  BY DEF Inv, Store

(* A new row is read as the record that was given, under its identity. *)
LEMMA GivenRead ==
  ASSUME NEW T \in Types, NEW item \in Items[T], NEW n \in 1..MaxRow,
         schema[T] = FormatCreateTable(T),
         \A i \in DOMAIN Fields(T) :
           Kind(Fields(T)[i], Given(T, item, n)[Fields(T)[i].column])
  PROVE  AsRecord(T, Given(T, item, n)) = Abs!Identified(T, Abs!Keep(T, item), n)
<1> DEFINE row == Given(T, item, n)
           record == Abs!Identified(T, Abs!Keep(T, item), n)
<1>1. ASSUME NEW f \in FieldsOf(T)
      PROVE  ReadValue(Said[T][f], row[Said[T][f].column])
               = IF Said[T][f].tag = "identity" THEN IdentityOf(Said[T][f].type, n)
                                                 ELSE Abs!Keep(T, item)[f]
  <2>1. PICK i \in DOMAIN Fields(T) : Fields(T)[i].field = f /\ Said[T][f] = Fields(T)[i]
    BY SaidOfField
  <2> DEFINE d == Fields(T)[i]
  <2>2. CASE d.tag = "identity"
    <3>1. row[d.column] = n /\ d.type \in IntegerTypes /\ ~d.nullable /\ MaxRow < Half(d.type)
      BY <2>2, InRow, Described
    <3>2. ReadValue(d, n) = Fetched(d.type, n)
      BY <3>1 DEF ReadValue
    <3>3. n \in 0 .. Half(d.type) - 1
      BY <3>1, HalfPositive, RowsAssumption
    <3> QED
      BY <2>1, <2>2, <3>1, <3>2, <3>3, IdentityTold
  <2>3. CASE d.tag # "identity"
    <3>1. row[d.column] = Parameter(d.type, item[f]) /\ d.type \in FieldTypes /\ d.tag = "regular"
      BY <2>1, <2>3, InRow, Described
    <3>2. f \in DOMAIN item /\ item[f] \in ValuesOf(d.type) \cup {Null}
      BY <2>1, <3>1, ItemsAssumption DEF RegularFieldsOf
    <3>3. ReadValue(d, row[d.column]) = Kept(d.type, item[f])
      BY <3>1, <3>2, ReadParameter
    <3>4. Abs!Keep(T, item)[f] = Kept(d.type, item[f])
      BY <2>1, <3>2, SameFields, SameValues DEF Abs!Keep
    <3> QED
      BY <2>1, <2>3, <3>3, <3>4
  <2> QED
    BY <2>2, <2>3
<1>2. record = [f \in FieldsOf(T) |-> IF Said[T][f].tag = "identity"
                                        THEN IdentityOf(Said[T][f].type, n)
                                        ELSE Abs!Keep(T, item)[f]]
  BY SameFields, SameValues DEF Abs!Identified
<1> HIDE DEF row, record
<1> QED
  BY <1>1, <1>2 DEF AsRecord, row, record

LEMMA InsertSimulated ==
  ASSUME Inv, NEW T \in Types, NEW item \in Items[T], Insert(T, item)
  PROVE  Abs!AInsert(T, item)
<1>1. PICK n \in 1..MaxRow :
        /\ IsNext(T, n)
        /\ Execute(T, WithRow(T, n, Given(T, item, n)), BindIdentity(T, n))
  BY DEF Insert
<1> DEFINE row == Given(T, item, n)
           table == WithRow(T, n, row)
           records == [m \in DOMAIN Store[T] \cup {n} |->
                         IF m = n THEN Abs!Identified(T, Abs!Keep(T, item), n) ELSE Store[T][m]]
<1>2. /\ T \in DOMAIN schema /\ schema[T] = FormatCreateTable(T)
      /\ DOMAIN rows[T] \subseteq 1..MaxRow
      /\ \A r \in DOMAIN rows[T] : RowInv(T, r, rows[T][r])
  BY DEF Insert, Known, Inv, TableInv
<1>3. RowInv(T, n, row)
  BY <1>2, GivenInv
<1>4. \A r \in DOMAIN table : RowInv(T, r, table[r])
  BY <1>2, <1>3 DEF WithRow
<1>5. /\ Accepted(schema[T], table) /\ rows' = [rows EXCEPT ![T] = table]
      /\ result' = BindIdentity(T, n)
  BY <1>1 DEF Execute
<1>6. n \in DOMAIN table /\ table[n] = row
  BY DEF WithRow
<1>7. AsRecord(T, row) = Abs!Identified(T, Abs!Keep(T, item), n)
  BY <1>2, <1>5, <1>6, AcceptedKind, GivenRead
<1>8. n \notin DOMAIN rows[T]
  BY <1>1, <1>2 DEF IsNext
<1>9. records = [r \in DOMAIN table |-> AsRecord(T, table[r])]
  BY <1>2, <1>7, <1>8, StoreTables DEF WithRow
<1>10. Abs!IdentityFor(T, n) = BindIdentity(T, n)
  BY SameInputs
<1> HIDE DEF table, row, records
<1>11. Abs!Becomes(T, records, Abs!IdentityFor(T, n))
  BY <1>2, <1>4, <1>5, <1>9, <1>10, RowsBecome
<1>12. n \in 1..MaxRow \ DOMAIN Store[T] /\ T \in DOMAIN Store
  BY <1>2, <1>8, StoreTables
<1> QED
  BY <1>11, <1>12 DEF Abs!AInsert, Abs!Created, records

(* A row with which a new one clashes agrees with its record in the fields of a key. *)
LEMMA ClashingAgrees ==
  ASSUME Inv, NEW T \in DOMAIN schema, NEW item \in Items[T], NEW n \in 1..MaxRow + 1,
         IsNext(T, n), NEW q \in Clashing(T, Given(T, item, n))
  PROVE  \E k \in DOMAIN Describe[T].keys :
           \A f \in ToSet(Describe[T].keys[k].fields) :
             /\ f \in DOMAIN item
             /\ Equals(AsRecord(T, rows[T][q])[f], Abs!Keep(T, item)[f])
<1> DEFINE row == Given(T, item, n)
<1>1. /\ T \in Types /\ schema[T] = FormatCreateTable(T) /\ q \in DOMAIN rows[T]
      /\ RowInv(T, q, rows[T][q]) /\ Accepted(FormatCreateTable(T), rows[T])
  BY DEF Inv, TableInv, Clashing
<1>2. PICK k \in DOMAIN schema[T].keys : Clash(row, rows[T][q], schema[T].keys[k])
  BY DEF Clashing
<1> DEFINE fs == Describe[T].keys[k].fields
<1>3. /\ k \in DOMAIN Describe[T].keys
      /\ schema[T].keys[k] = [j \in DOMAIN fs |-> Said[T][fs[j]].column]
  <2>1. schema[T].keys = KeyConstraints(T)
    BY <1>1 DEF FormatCreateTable
  <2> QED
    BY <2>1 DEF KeyConstraints, CollectFields, FormatColumn
<1>4. ASSUME NEW f \in ToSet(fs)
      PROVE  f \in DOMAIN item /\ Equals(AsRecord(T, rows[T][q])[f], Abs!Keep(T, item)[f])
  <2>1. PICK j \in DOMAIN fs : f = fs[j]
    BY DEF ToSet
  <2>2. Equals(row[Said[T][f].column], rows[T][q][Said[T][f].column])
    BY <1>2, <1>3, <2>1 DEF Clash
  <2>3. f \in FieldsOf(T)
    BY <1>1, <1>3, DescriptionsAssumption
  <2>4. PICK i \in DOMAIN Fields(T) : Fields(T)[i].field = f /\ Said[T][f] = Fields(T)[i]
    BY <1>1, <2>3, SaidOfField
  <2> DEFINE d == Fields(T)[i]
  <2>5. d.tag # "identity"
    <3> SUFFICES ASSUME d.tag = "identity" PROVE FALSE
      OBVIOUS
    <3>1. row[d.column] = n /\ rows[T][q][d.column] = q
      BY <1>1, InRow DEF RowInv
    <3>2. q < n /\ q \in Int /\ n \in Int
      BY <1>1 DEF IsNext, Inv, TableInv
    <3> QED
      BY <2>2, <2>4, <3>1, <3>2 DEF Equals
  <2>6. /\ row[d.column] = Parameter(d.type, item[f]) /\ d.type \in FieldTypes
        /\ d.tag = "regular"
    BY <1>1, <2>4, <2>5, InRow, Described
  <2>7. f \in DOMAIN item /\ item[f] \in ValuesOf(d.type) \cup {Null}
    BY <1>1, <2>3, <2>4, <2>6, ItemsAssumption DEF RegularFieldsOf
  <2>8. Typed(d, rows[T][q][d.column]) /\ Kind(d, rows[T][q][d.column])
    BY <1>1, AcceptedKind DEF RowInv
  <2>9. Equals(rows[T][q][d.column], Parameter(d.type, item[f]))
    BY <2>2, <2>4, <2>6 DEF Equals
  <2>10. Equals(ReadValue(d, rows[T][q][d.column]), Kept(d.type, item[f]))
    BY <2>6, <2>7, <2>8, <2>9, EqualParameter
  <2>11. AsRecord(T, rows[T][q])[f] = ReadValue(d, rows[T][q][d.column])
    BY <1>1, <2>4, FieldRead
  <2>12. Abs!Keep(T, item)[f] = Kept(d.type, item[f])
    BY <2>4, <2>7, SameFields, SameValues DEF Abs!Keep
  <2> QED
    BY <2>7, <2>10, <2>11, <2>12
<1> QED
  BY <1>3, <1>4

LEMMA ExcludedRead ==
  ASSUME Inv, NEW T \in DOMAIN schema, NEW item \in Items[T], NEW n \in 1..MaxRow + 1,
         NEW q \in DOMAIN rows[T],
         \A i \in DOMAIN Fields(T) :
           Kind(Fields(T)[i], Excluded(T, q, Given(T, item, n))[Fields(T)[i].column])
  PROVE  AsRecord(T, Excluded(T, q, Given(T, item, n))) =
           [f \in FieldsOf(T) |-> IF f \in DOMAIN item THEN Abs!Keep(T, item)[f]
                                   ELSE AsRecord(T, rows[T][q])[f]]
<1> DEFINE row == Excluded(T, q, Given(T, item, n))
<1>1. T \in Types /\ RowInv(T, q, rows[T][q])
  BY DEF Inv, TableInv
<1>2. ASSUME NEW f \in FieldsOf(T)
      PROVE  ReadValue(Said[T][f], row[Said[T][f].column])
               = IF f \in DOMAIN item THEN Abs!Keep(T, item)[f] ELSE AsRecord(T, rows[T][q])[f]
  <2>1. PICK i \in DOMAIN Fields(T) : Fields(T)[i].field = f /\ Said[T][f] = Fields(T)[i]
    BY <1>1, SaidOfField
  <2> DEFINE d == Fields(T)[i]
  <2>2. CASE d.tag = "identity"
    <3>1. row[d.column] = q /\ rows[T][q][d.column] = q
      BY <1>1, <2>2, ExcludedInv DEF RowInv
    <3>2. f \notin DOMAIN item
      BY <1>1, <2>1, <2>2, ItemsAssumption DEF RegularFieldsOf
    <3>3. AsRecord(T, rows[T][q])[f] = ReadValue(d, rows[T][q][d.column])
      BY <1>1, <2>1, FieldRead
    <3> QED
      BY <2>1, <3>1, <3>2, <3>3
  <2>3. CASE d.tag # "identity"
    <3>1. row[d.column] = Parameter(d.type, item[f])
      BY <2>1, <2>3, ExcludedInv
    <3>2. d.type \in FieldTypes /\ d.tag = "regular"
      BY <1>1, <2>3, Described
    <3>3. f \in DOMAIN item /\ item[f] \in ValuesOf(d.type) \cup {Null}
      BY <1>1, <2>1, <3>2, ItemsAssumption DEF RegularFieldsOf
    <3>4. ReadValue(d, row[d.column]) = Kept(d.type, item[f])
      BY <3>1, <3>2, <3>3, ReadParameter
    <3>5. Abs!Keep(T, item)[f] = Kept(d.type, item[f])
      BY <2>1, <3>3, SameFields, SameValues DEF Abs!Keep
    <3> QED
      BY <2>1, <3>3, <3>4, <3>5
  <2> QED
    BY <2>2, <2>3
<1> HIDE DEF row
<1> QED
  BY <1>2 DEF AsRecord, row

LEMMA UpsertSimulated ==
  ASSUME Inv, NEW T \in Types, NEW item \in Items[T], Upsert(T, item)
  PROVE  Abs!AReplace(T, item)
<1>1. PICK n \in 1..MaxRow + 1 : \E q \in Clashing(T, Given(T, item, n)) :
        /\ IsNext(T, n)
        /\ Execute(T, WithRow(T, q, Excluded(T, q, Given(T, item, n))), BindIdentity(T, lastRowid))
  BY DEF Upsert
<1>2. PICK q \in Clashing(T, Given(T, item, n)) :
        /\ IsNext(T, n)
        /\ Execute(T, WithRow(T, q, Excluded(T, q, Given(T, item, n))), BindIdentity(T, lastRowid))
  BY <1>1
<1> DEFINE row == Excluded(T, q, Given(T, item, n))
           table == WithRow(T, q, row)
           records == [Store[T] EXCEPT ![q] = [f \in FieldsOf(T) |->
                         IF f \in DOMAIN item THEN Abs!Keep(T, item)[f] ELSE @[f]]]
<1>3. /\ T \in DOMAIN schema /\ schema[T] = FormatCreateTable(T) /\ q \in DOMAIN rows[T]
      /\ \A r \in DOMAIN rows[T] : RowInv(T, r, rows[T][r])
  BY DEF Upsert, Known, Inv, TableInv, Clashing
<1>4. RowInv(T, q, row)
  BY <1>3, ExcludedInv
<1>5. \A r \in DOMAIN table : RowInv(T, r, table[r])
  BY <1>3, <1>4 DEF WithRow
<1>6. /\ Accepted(schema[T], table) /\ rows' = [rows EXCEPT ![T] = table]
      /\ result' = BindIdentity(T, lastRowid)
  BY <1>2 DEF Execute
<1>7. q \in DOMAIN table /\ table[q] = row
  BY DEF WithRow
<1>8. AsRecord(T, row) = [f \in FieldsOf(T) |-> IF f \in DOMAIN item THEN Abs!Keep(T, item)[f]
                                                 ELSE AsRecord(T, rows[T][q])[f]]
  BY <1>3, <1>6, <1>7, AcceptedKind, ExcludedRead
<1>9. Store[T] = [r \in DOMAIN rows[T] |-> AsRecord(T, rows[T][r])]
  BY <1>3, StoreTables
<1>10. records = [r \in DOMAIN table |-> AsRecord(T, table[r])]
  <2>1. records = [r \in DOMAIN rows[T] |-> IF r = q THEN AsRecord(T, row)
                                              ELSE AsRecord(T, rows[T][r])]
    BY <1>3, <1>8, <1>9
  <2> QED
    BY <1>3, <2>1 DEF WithRow
<1>11. Abs!IdentityFor(T, lastRowid) = BindIdentity(T, lastRowid) /\ lastRowid \in 0..MaxRow
  BY SameInputs DEF Inv
<1>12. PICK k \in DOMAIN Describe[T].keys :
         \A f \in ToSet(Describe[T].keys[k].fields) :
           f \in DOMAIN item /\ Equals(Store[T][q][f], Abs!Keep(T, item)[f])
  BY <1>2, <1>3, <1>9, ClashingAgrees
<1>13. /\ Abs!KeyFields(T, k) \subseteq DOMAIN item
       /\ Abs!Clash(Store[T][q], Abs!Keep(T, item), Abs!KeyFields(T, k))
  BY <1>12 DEF Equals, Abs!KeyFields, Abs!Clash, ToSet, Abs!ToSet
<1> HIDE DEF table, row, records
<1>14. Abs!Becomes(T, records, Abs!IdentityFor(T, lastRowid))
  BY <1>3, <1>5, <1>6, <1>10, <1>11, RowsBecome
<1>15. q \in DOMAIN Store[T] /\ T \in DOMAIN Store
  BY <1>3, <1>9, StoreTables
<1> QED
  BY <1>11, <1>13, <1>14, <1>15, SameFields DEF Abs!AReplace, Abs!Created, records

LEMMA UpdateSimulated ==
  ASSUME Inv, NEW T \in Types, NEW f \in RegularFieldsOf(T),
         NEW value \in ValuesFor(T, f) \cup {Null},
         NEW g \in FieldsOf(T), NEW v \in ValuesFor(T, g),
         Update(T, f, value, IsEqual(g, v))
  PROVE  Abs!AUpdate(T, f, value, Abs!IsEqual(g, v))
<1> DEFINE where == IsEqual(g, v)
           table == Updated(T, f, value, where)
           records == [n \in DOMAIN Store[T] |->
                         IF Abs!Satisfies(T, Abs!IsEqual(g, v), Store[T][n])
                           THEN [Store[T][n] EXCEPT ![f] = Abs!Kept(Abs!Said[T][f].type, value)]
                           ELSE Store[T][n]]
<1>1. /\ T \in DOMAIN schema /\ schema[T] = FormatCreateTable(T)
      /\ \A r \in DOMAIN rows[T] : RowInv(T, r, rows[T][r])
  BY DEF Update, Known, Inv, TableInv
<1>2. \A r \in DOMAIN rows[T] : RowInv(T, r, NewCells(T, f, value, r))
  BY <1>1, UpdatedRow
<1>3. DOMAIN table = DOMAIN rows[T] /\ \A r \in DOMAIN rows[T] :
        table[r] = IF RowMatches(T, where, r)
                     THEN NewCells(T, f, value, r) ELSE rows[T][r]
  BY DEF Updated, NewCells
<1>4. \A r \in DOMAIN table : RowInv(T, r, table[r])
  BY <1>1, <1>2, <1>3
<1>5. /\ Accepted(schema[T], table) /\ rows' = [rows EXCEPT ![T] = table] /\ result' = << >>
  BY DEF Update, Execute
<1>6. Store[T] = [r \in DOMAIN rows[T] |-> AsRecord(T, rows[T][r])]
  BY <1>1, StoreTables
<1>7. ASSUME NEW r \in DOMAIN rows[T], RowMatches(T, where, r)
      PROVE  AsRecord(T, table[r]) = [AsRecord(T, rows[T][r]) EXCEPT ![f] = Kept(Said[T][f].type, value)]
  <2>1. table[r] = NewCells(T, f, value, r)
    BY <1>3, <1>7
  <2>2. ASSUME NEW h \in FieldsOf(T)
        PROVE  ReadValue(Said[T][h], table[r][Said[T][h].column])
                 = IF h = f THEN Kept(Said[T][f].type, value)
                   ELSE ReadValue(Said[T][h], rows[T][r][Said[T][h].column])
    <3>1. PICK i \in DOMAIN Fields(T) : Fields(T)[i].field = h /\ Said[T][h] = Fields(T)[i]
      BY SaidOfField
    <3> DEFINE d == Fields(T)[i]
    <3>2. NewCells(T, f, value, r)[d.column] = IF h = f THEN Parameter(d.type, value) ELSE rows[T][r][d.column]
      BY <1>1, <3>1, UpdatedRow
    <3>3. CASE h = f
      <4>1. d.type \in FieldTypes /\ value \in ValuesOf(d.type) \cup {Null}
        BY <3>1, <3>3, Described, ValuesTyped DEF RegularFieldsOf
      <4>2. Kind(d, table[r][d.column])
        BY <1>1, <1>3, <1>5, AcceptedKind
      <4>3. ReadValue(d, Parameter(d.type, value)) = Kept(d.type, value)
        BY <2>1, <3>2, <3>3, <4>1, <4>2, ReadParameter
      <4> QED
        BY <2>1, <3>1, <3>2, <3>3, <4>3
    <3>4. CASE h # f
      BY <2>1, <3>1, <3>2, <3>4
    <3> QED
      BY <3>3, <3>4
  <2>3. f \in FieldsOf(T)
    BY DEF RegularFieldsOf
  <2> HIDE DEF table
  <2> QED
    BY <2>2, <2>3 DEF AsRecord
<1>8. ASSUME NEW r \in DOMAIN rows[T]
      PROVE  RowMatches(T, where, r) <=> Abs!Satisfies(T, Abs!IsEqual(g, v), Store[T][r])
  BY <1>1, <1>6, MatchesSatisfies
<1>9. Abs!Kept(Abs!Said[T][f].type, value) = Kept(Said[T][f].type, value)
  BY SameFields, SameValues
<1>10. DOMAIN records = DOMAIN rows[T] /\ \A r \in DOMAIN rows[T] :
         records[r] = IF RowMatches(T, where, r)
                        THEN [Store[T][r] EXCEPT ![f] = Kept(Said[T][f].type, value)]
                        ELSE Store[T][r]
  BY <1>6, <1>8, <1>9
<1>11. records = [n \in DOMAIN rows[T] |-> records[n]]
  BY <1>6
<1> HIDE DEF table, records
<1>12. records = [r \in DOMAIN table |-> AsRecord(T, table[r])]
  <2>1. ASSUME NEW r \in DOMAIN rows[T]
        PROVE  records[r] = AsRecord(T, table[r])
    <3>1. Store[T][r] = AsRecord(T, rows[T][r])
      BY <1>6
    <3> HIDE DEF where
    <3>2. CASE RowMatches(T, where, r)
      BY <1>7, <1>10, <3>1, <3>2
    <3>3. CASE ~RowMatches(T, where, r)
      BY <1>3, <1>10, <3>1, <3>3
    <3> QED
      BY <3>2, <3>3
  <2> QED
    BY <1>3, <1>11, <2>1
<1>13. Abs!Becomes(T, records, << >>)
  BY <1>1, <1>4, <1>5, <1>12, RowsBecome
<1> QED
  BY <1>1, <1>13, StoreTables DEF Abs!AUpdate, Abs!Created, records

LEMMA RemoveSimulated ==
  ASSUME Inv, NEW T \in Types, NEW g \in FieldsOf(T), NEW v \in ValuesFor(T, g),
         RemoveWhere(T, IsEqual(g, v))
  PROVE  Abs!ARemove(T, Abs!IsEqual(g, v))
<1> DEFINE left == {q \in DOMAIN rows[T] : ~RowMatches(T, IsEqual(g, v), q)}
           table == [r \in left |-> rows[T][r]]
           records == [n \in {m \in DOMAIN Store[T] : ~Abs!Satisfies(T, Abs!IsEqual(g, v), Store[T][m])}
                         |-> Store[T][n]]
<1>1. T \in DOMAIN schema /\ T \in DOMAIN rows
  BY DEF RemoveWhere, Known, Inv
<1>2. rows' = [rows EXCEPT ![T] = table] /\ result' = << >>
  BY DEF RemoveWhere
<1>3. DOMAIN Store[T] = DOMAIN rows[T] /\ \A r \in DOMAIN rows[T] : Store[T][r] = AsRecord(T, rows[T][r])
  BY <1>1, StoreTables
<1>4. \A r \in DOMAIN rows[T] :
        RowMatches(T, IsEqual(g, v), r) <=> Abs!Satisfies(T, Abs!IsEqual(g, v), Store[T][r])
  BY <1>1, <1>3, MatchesSatisfies
<1>5. {m \in DOMAIN Store[T] : ~Abs!Satisfies(T, Abs!IsEqual(g, v), Store[T][m])} = left
  BY <1>3, <1>4
<1>6. records = [r \in left |-> AsRecord(T, rows[T][r])]
  BY <1>3, <1>5
<1>7. records = [r \in DOMAIN table |-> AsRecord(T, table[r])]
  BY <1>6
<1> HIDE DEF table, records
<1>8. Store' = [S \in DOMAIN rows |-> IF S = T THEN records ELSE Store[S]]
  BY <1>1, <1>2, <1>7 DEF Store
<1>9. [Store EXCEPT ![T] = records] = [S \in DOMAIN rows |-> IF S = T THEN records ELSE Store[S]]
  BY <1>1 DEF Store
<1> QED
  BY <1>1, <1>2, <1>8, <1>9, StoreTables DEF Abs!ARemove, Abs!Created, records

LEMMA CreateSimulated ==
  ASSUME Inv, NEW T \in Types, CreateTable(T)
  PROVE  Abs!ACreate(T)
<1>1. /\ DOMAIN rows' = DOMAIN rows \cup {T} /\ rows'[T] = << >> /\ T \notin DOMAIN rows
      /\ \A S \in DOMAIN rows : rows'[S] = rows[S]
      /\ result' = << >> /\ DOMAIN Store = DOMAIN rows
  BY StoreTables DEF CreateTable, Known, Inv
<1>2. ASSUME NEW table, table = << >>
      PROVE  [r \in DOMAIN table |-> AsRecord(T, table[r])] = << >>
  BY <1>2
<1>3. Store' = [S \in DOMAIN rows \cup {T} |-> IF S = T THEN << >> ELSE Store[S]]
  BY <1>1, <1>2 DEF Store
<1> QED
  BY <1>1, <1>3 DEF Abs!ACreate, Abs!Created

LEMMA NextSimulated == Inv /\ [Next]_vars => [Abs!ANext]_<<Store, result>>
<1> SUFFICES ASSUME Inv, [Next]_vars PROVE [Abs!ANext]_<<Store, result>>
  OBVIOUS
<1>1. CASE UNCHANGED vars
  BY <1>1 DEF vars, Store
<1>2. ASSUME NEW T \in Types, CreateTable(T) PROVE Abs!ANext
  BY <1>2, CreateSimulated DEF Abs!ANext
<1>3. CASE Throw
  <2>1. Abs!ARefused
    BY <1>3 DEF Throw, Store, Abs!ARefused
  <2> QED
    BY <2>1 DEF Abs!ANext
<1>4. ASSUME NEW T \in Types, NEW item \in Items[T], Insert(T, item) \/ Upsert(T, item)
      PROVE  Abs!ANext
  BY <1>4, InsertSimulated, UpsertSimulated DEF Abs!ANext
<1>5. ASSUME NEW T \in Types, NEW g \in FieldsOf(T), NEW v \in ValuesFor(T, g),
             RemoveWhere(T, IsEqual(g, v))
      PROVE  Abs!ANext
  <2>1. g \in Abs!FieldsOf(T) /\ v \in Abs!ValuesFor(T, g)
    BY SameFields, SameInputs
  <2> QED
    BY <1>5, <2>1, RemoveSimulated DEF Abs!ANext
<1>6. ASSUME NEW T \in Types, NEW g \in FieldsOf(T), NEW v \in ValuesFor(T, g),
             NEW f \in RegularFieldsOf(T), NEW value \in ValuesFor(T, f) \cup {Null},
             Update(T, f, value, IsEqual(g, v))
      PROVE  Abs!ANext
  <2>1. Abs!AUpdate(T, f, value, Abs!IsEqual(g, v))
    BY <1>6, UpdateSimulated
  <2>2. /\ g \in Abs!FieldsOf(T) /\ v \in Abs!ValuesFor(T, g)
        /\ f \in Abs!RegularFieldsOf(T) /\ value \in Abs!ValuesFor(T, f) \cup {Null}
    BY SameFields, SameInputs
  <2> QED
    BY <2>1, <2>2 DEF Abs!ANext
<1> QED
  BY <1>1, <1>2, <1>3, <1>4, <1>5, <1>6
  DEF Next, Changing, CreateTableAgain, NotPrepared, InsertThrows, UpsertThrows, UpdateThrows

(* What each call does to the columns of a table is, read field by field, what
   RecordStore says of it for the records, whatever the descriptions and the records:
   the lists of columns, of parameters and of fields agree by position, and a call
   that throws has changed nothing (database.h 155-168, 201-219, binding.h 31-76). *)
THEOREM RecordsImplementRecordStore == Spec => ImplementsRecordStore
<1>1. Init => Abs!AInit
  BY DEF Init, Abs!AInit, Store
<1> QED
  BY <1>1, NextSimulated, InvHolds, PTL DEF Spec, ImplementsRecordStore, Abs!ASpec
------------------------------------------------------------------------------
(* The order of results.                                                     *)

(* Below the sign bit a cell is read as what it holds. *)
LEMMA ReadAsStored ==
  ASSUME NEW d, d.type \in FieldTypes, NEW s, Typed(d, s), Kind(d, s),
         ReadValue(d, s) = Null \/ BelowSignBit(d.type, ReadValue(d, s))
  PROVE  ReadValue(d, s) = s
<1>1. CASE s = Null
  BY <1>1, ReadIsNull
<1>2. CASE s # Null
  <2>1. ReadValue(d, s) = Fetched(d.type, s) /\ ReadValue(d, s) # Null
    BY <1>2, ReadIsNull DEF ReadValue
  <2>2. CASE d.type \in {"text", "real"}
    BY <1>2, <2>1, <2>2 DEF Fetched, Unsigned
  <2>3. CASE d.type \in IntegerTypes
    <3>1. s \in -Half(d.type) .. Half(d.type) - 1 /\ Half(d.type) \in Nat \ {0}
      BY <1>2, <2>3, HalfPositive DEF Typed, StoredOf, IntegerTypes
    <3>2. Fetched(d.type, s) = IF Unsigned(d.type) THEN Low(s, Half(d.type)) ELSE s
      BY <2>3, <3>1, FetchedInteger
    <3>3. CASE Unsigned(d.type) /\ s < 0
      <4>1. Low(s, Half(d.type)) = s + 2 * Half(d.type)
        BY <3>1, <3>3, LowOfNegative
      <4> QED
        BY <2>1, <3>1, <3>2, <3>3, <4>1 DEF BelowSignBit
    <3>4. CASE Unsigned(d.type) /\ s >= 0
      BY <2>1, <3>1, <3>2, <3>4, LowSame
    <3> QED
      BY <2>1, <3>1, <3>2, <3>3, <3>4
  <2> QED
    BY <2>2, <2>3 DEF FieldTypes
<1> QED
  BY <1>1, <1>2

LEMMA SameOrder ==
  /\ \A affinity, x, y : Abs!Less(affinity, x, y) <=> Less(affinity, x, y)
  /\ \A type : Abs!Affinity(type) = Affinity(type)
<1>1. \A x, y : Abs!TextLess(x, y) <=> TextLess(x, y)
  BY DEF TextLess, Abs!TextLess
<1> QED
  BY <1>1 DEF Less, Abs!Less, Affinity, Abs!Affinity

(* A column is declared with the affinity of its field's type. *)
LEMMA DeclaredOnce ==
  ASSUME NEW T \in Types, schema[T] = FormatCreateTable(T), NEW i \in DOMAIN Fields(T)
  PROVE  DeclaredAs(T, Fields(T)[i].column) = Affinity(Fields(T)[i].type)
<1> DEFINE columns == schema[T].columns
<1>1. /\ DOMAIN columns = DOMAIN Fields(T)
      /\ \A j \in DOMAIN Fields(T) : columns[j] = ColumnDefinition(Fields(T)[j])
  BY DEF FormatCreateTable
<1> HIDE DEF columns
<1>2. ASSUME NEW j \in DOMAIN Fields(T)
      PROVE  /\ columns[j].name = Fields(T)[j].column
             /\ columns[j].affinity = Affinity(Fields(T)[j].type)
  <2>1. columns[j] = ColumnDefinition(Fields(T)[j])
    BY <1>1
  <2> QED
    BY <2>1 DEF ColumnDefinition
<1>3. ASSUME NEW j \in DOMAIN Fields(T), columns[j].name = Fields(T)[i].column
      PROVE  j = i
  <2>1. Fields(T)[j].column = Fields(T)[i].column
    BY <1>2, <1>3
  <2> QED
    BY <2>1, DescriptionsAssumption
<1>4. (CHOOSE j \in DOMAIN columns : columns[j].name = Fields(T)[i].column) = i
  BY <1>1, <1>2, <1>3
<1> QED
  BY <1>1, <1>2, <1>4 DEF DeclaredAs, columns

(* What ORDER BY compares of a row is what C++ compares of its record. *)
LEMMA ComparedAsRead ==
  ASSUME Inv, NEW T \in DOMAIN schema, NEW f \in FieldsOf(T), NEW r \in DOMAIN rows[T],
         NEW x, x = Store[T][r][f], x = Null \/ BelowSignBit(Said[T][f].type, x)
  PROVE  /\ rows[T][r][FormatColumn(T, f)] = x
         /\ DeclaredAs(T, FormatColumn(T, f)) = Affinity(Said[T][f].type)
<1>1. T \in Types /\ schema[T] = FormatCreateTable(T)
  BY DEF Inv, TableInv
<1>2. PICK i \in DOMAIN Fields(T) : Fields(T)[i].field = f /\ Said[T][f] = Fields(T)[i]
  BY <1>1, SaidOfField
<1> DEFINE d == Fields(T)[i]
           s == rows[T][r][d.column]
<1>3. /\ d.type \in FieldTypes /\ Typed(d, s) /\ Kind(d, s)
      /\ AsRecord(T, rows[T][r])[f] = ReadValue(d, s)
  BY <1>1, <1>2, AcceptedKind, Described, FieldRead DEF Inv, TableInv, RowInv
<1>4. x = ReadValue(d, s)
  BY <1>3, StoreTables
<1>5. ReadValue(d, s) = s
  <2> HIDE DEF d, s
  <2>1. ReadValue(d, s) = Null \/ BelowSignBit(d.type, ReadValue(d, s))
    BY <1>2, <1>4 DEF d
  <2> QED
    BY <1>3, <2>1, ReadAsStored
<1> QED
  BY <1>1, <1>2, <1>4, <1>5, DeclaredOnce DEF FormatColumn

(* Whatever the records and the order asked for, results come as C++ would order
   them by the fields named, first by the first, each in its own direction, unless an
   unsigned value among them has its highest bit set (format.h 381-408). *)
THEOREM OrderedAsAskedHolds == Spec => []OrderedAsAsked
<1>1. Inv => OrderedAsAsked
  <2> SUFFICES ASSUME Inv, NEW i \in DOMAIN Queries, Asked(i)
               PROVE  LET q == Queries[i]
                          Comparable(p) ==
                            \A j \in DOMAIN q.order :
                              LET by == q.order[j]
                                  x == Abs!Chosen(q.from, p)[by.at][by.field]
                              IN  x = Null \/ BelowSignBit(Said[q.from[by.at]][by.field].type, x)
                      IN  \A p, r \in {c \in Combinations(q.from) : Selects(q, c) /\ Comparable(c)} :
                            Before(q.from, FormatOrder(q.from, q.order), p, r) <=> Abs!Precedes(q, p, r)
    BY DEF OrderedAsAsked
  <2> DEFINE q == Queries[i]
             order == q.order
             type(j) == q.from[order[j].at]
             value(p, j) == Abs!Chosen(q.from, p)[order[j].at][order[j].field]
             by == FormatOrder(q.from, order)
             cell(p, j) == rows[q.from[by[j].alias]][p[by[j].alias]][by[j].column]
             comparable(p) == \A j \in DOMAIN order :
               value(p, j) = Null \/ BelowSignBit(Said[type(j)][order[j].field].type, value(p, j))
  <2>1. /\ Len(order) \in Nat /\ DOMAIN order = 1..Len(order)
        /\ \A j \in DOMAIN order : order[j].at \in DOMAIN q.from /\ order[j].field \in FieldsOf(type(j))
    BY QueriesAssumption
  <2>2. /\ DOMAIN by = DOMAIN order
        /\ \A j \in DOMAIN order : /\ by[j].alias = order[j].at
                                   /\ by[j].column = FormatColumn(type(j), order[j].field)
                                   /\ by[j].ascending = order[j].ascending
    BY DEF FormatOrder
  <2> HIDE DEF by
  <2>3. ASSUME NEW p \in Combinations(q.from), comparable(p), NEW j \in DOMAIN order
        PROVE  /\ cell(p, j) = value(p, j)
               /\ DeclaredAs(q.from[by[j].alias], by[j].column)
                    = Affinity(Said[type(j)][order[j].field].type)
    <3>1. type(j) \in DOMAIN schema /\ p[order[j].at] \in DOMAIN rows[type(j)]
      BY <2>1 DEF Asked, Known, Combinations
    <3>2. value(p, j) = Store[type(j)][p[order[j].at]][order[j].field]
      BY <2>1 DEF Abs!Chosen
    <3>3. /\ order[j].field \in FieldsOf(type(j))
          /\ \/ value(p, j) = Null
             \/ BelowSignBit(Said[type(j)][order[j].field].type, value(p, j))
      BY <2>1, <2>3
    <3>4. /\ rows[type(j)][p[order[j].at]][FormatColumn(type(j), order[j].field)] = value(p, j)
          /\ DeclaredAs(type(j), FormatColumn(type(j), order[j].field))
               = Affinity(Said[type(j)][order[j].field].type)
      <4> HIDE DEF value, type, order, q
      <4> QED
        BY <3>1, <3>2, <3>3, ComparedAsRead
    <3> QED
      BY <2>2, <3>4
  <2>4. ASSUME NEW p \in Combinations(q.from), NEW r \in Combinations(q.from),
               comparable(p), comparable(r)
        PROVE  Before(q.from, by, p, r) <=> Abs!Precedes(q, p, r)
    <3> DEFINE As(j) == Affinity(Said[type(j)][order[j].field].type)
    <3>1. Before(q.from, by, p, r) <=>
            \E j \in DOMAIN by :
              /\ \A k \in 1..j - 1 : cell(p, k) = cell(r, k)
              /\ IF by[j].ascending
                   THEN Less(DeclaredAs(q.from[by[j].alias], by[j].column), cell(p, j), cell(r, j))
                   ELSE Less(DeclaredAs(q.from[by[j].alias], by[j].column), cell(r, j), cell(p, j))
      BY DEF Before
    <3>2. Abs!Precedes(q, p, r) <=>
            \E j \in DOMAIN order :
              /\ \A k \in 1..j - 1 : value(p, k) = value(r, k)
              /\ IF order[j].ascending THEN Less(As(j), value(p, j), value(r, j))
                                        ELSE Less(As(j), value(r, j), value(p, j))
      BY SameOrder, SameFields DEF Abs!Precedes
    <3>3. \A j \in DOMAIN order :
            /\ cell(p, j) = value(p, j) /\ cell(r, j) = value(r, j)
            /\ DeclaredAs(q.from[by[j].alias], by[j].column) = As(j)
            /\ by[j].ascending = order[j].ascending
      BY <2>2, <2>3, <2>4
    <3>4. \A j \in DOMAIN order : 1..j - 1 \subseteq DOMAIN order
      BY <2>1
    <3> HIDE DEF cell, value, As, order
    <3> QED
      BY <2>2, <3>1, <3>2, <3>3, <3>4
  <2> QED
    BY <2>4 DEF by
<1> QED
  BY <1>1, InvHolds, PTL
------------------------------------------------------------------------------
(* Tuples.                                                                   *)

(* A reader of a tuple starts where the one before has ended. *)
LEMMA Starts ==
  ASSUME NEW from \in Seq(Types), NEW k \in DOMAIN from
  PROVE  /\ Start(from, k) \in Nat
         /\ Start(from, k) = IF k = 1 THEN 0 ELSE Start(from, k - 1) + Len(Fields(from[k - 1]))
<1> DEFINE S == DOMAIN from
           After(f, j) == IF j = 1 THEN 0 ELSE f[j - 1] + Len(Fields(from[j - 1]))
           G == [a \in [S -> Nat] \X S |-> After(a[1], a[2])]
           rank == [j \in S |-> j]
           start[j \in S] == IF j = 1 THEN 0 ELSE start[j - 1] + Len(Fields(from[j - 1]))
<1>1. S = 1..Len(from) /\ Len(from) \in Nat /\ \A j \in S : from[j] \in Types
  OBVIOUS
<1>2. ASSUME NEW f \in [S -> Nat], NEW j \in S PROVE After(f, j) \in Nat
  BY <1>1, AreSequences
<1>3. G \in [[S -> Nat] \X S -> Nat] /\ rank \in [S -> 0..Len(from)]
  BY <1>1, <1>2
<1>4. \A f, g \in [S -> Nat] : \A j \in S :
        (\A i \in S : rank[i] < rank[j] => f[i] = g[i]) => G[<<f, j>>] = G[<<g, j>>]
  <2> SUFFICES ASSUME NEW f \in [S -> Nat], NEW g \in [S -> Nat], NEW j \in S,
                      \A i \in S : rank[i] < rank[j] => f[i] = g[i]
               PROVE  After(f, j) = After(g, j)
    OBVIOUS
  <2>1. j # 1 => j - 1 \in S /\ rank[j - 1] < rank[j]
    BY <1>1
  <2> QED
    BY <2>1
<1>5. PICK f \in [S -> Nat] : \A j \in S : f[j] = G[<<f, j>>]
  <2>1. PICK V : V = Nat
    OBVIOUS
  <2>2. Ranked(rank, S) /\ V # {} /\ IsStep(G, S, V, rank)
    BY <1>1, <1>3, <1>4, <2>1 DEF Ranked, IsStep
  <2> HIDE DEF G, rank, S
  <2>3. \E f \in [S -> V] : \A j \in S : f[j] = G[<<f, j>>]
    BY <2>2, BoundedRecursion
  <2> QED
    BY <2>1, <2>3
<1>6. f = [j \in S |-> After(f, j)]
  BY <1>5
<1>7. start = [j \in S |-> After(start, j)]
  BY <1>6
<1>8. \A j \in S : Start(from, j) = start[j]
  BY DEF Start
<1> HIDE DEF start
<1>9. \A j \in S : start[j] = After(start, j)
  BY <1>7
<1> DEFINE H == {j \in S : start[j] \in Nat}
<1>10. ASSUME NEW j \in S, \A i \in S : i < j => i \in H
       PROVE  j \in H
  <2>1. j # 1 => j - 1 \in S /\ j - 1 < j
    BY <1>1
  <2>2. j # 1 => start[j - 1] \in Nat /\ Len(Fields(from[j - 1])) \in Nat
    BY <1>1, <1>10, <2>1, AreSequences
  <2>3. start[j] = IF j = 1 THEN 0 ELSE start[j - 1] + Len(Fields(from[j - 1]))
    BY <1>9
  <2>4. start[j] \in Nat
    BY <2>2, <2>3
  <2> QED
    BY <2>4
<1>11. S \subseteq H
  <2> HIDE DEF H, S
  <2>1. S \subseteq Nat
    BY <1>1
  <2> QED
    BY <1>10, <2>1, StrongInduction
<1>12. start[k] \in Nat
  BY <1>11
<1>13. k # 1 => k - 1 \in S
  BY <1>1
<1>14. start[k] = IF k = 1 THEN 0 ELSE start[k - 1] + Len(Fields(from[k - 1]))
  BY <1>9
<1> HIDE DEF S
<1> QED
  BY <1>8, <1>12, <1>13, <1>14 DEF S

(* Sequences are put one after another. *)
LEMMA Flattened ==
  ASSUME NEW E, NEW seqs \in Seq(Seq(E)), seqs # << >>
  PROVE  \E flat \in [DOMAIN seqs -> Seq(E)] :
           /\ FlattenSeq(seqs) = flat[Len(seqs)]
           /\ \A i \in DOMAIN seqs :
                flat[i] = IF i = 1 THEN seqs[i] ELSE flat[i - 1] \o seqs[i]
<1>0. PICK n \in Nat \ {0} : n = Len(seqs) /\ DOMAIN seqs = 1..n
  OBVIOUS
<1> DEFINE S == 1..n
           After(f, j) == IF j = 1 THEN seqs[j] ELSE f[j - 1] \o seqs[j]
           G == [a \in [S -> Seq(E)] \X S |-> After(a[1], a[2])]
           rank == [j \in S |-> j]
           flatten[i \in S] == IF i = 1 THEN seqs[i] ELSE flatten[i - 1] \o seqs[i]
<1>1. \A i \in S : i # 1 => i - 1 \in S
  OBVIOUS
<1>2. ASSUME NEW f \in [S -> Seq(E)], NEW j \in S PROVE After(f, j) \in Seq(E)
  <2>1. seqs[j] \in Seq(E)
    BY <1>0
  <2>2. ASSUME j # 1 PROVE f[j - 1] \in Seq(E)
    BY <1>1, <2>2
  <2> QED
    BY <2>1, <2>2
<1>3. G \in [[S -> Seq(E)] \X S -> Seq(E)]
  BY <1>2
<1>4. \A f, g \in [S -> Seq(E)] : \A j \in S :
        (\A i \in S : rank[i] < rank[j] => f[i] = g[i]) => G[<<f, j>>] = G[<<g, j>>]
  <2> SUFFICES ASSUME NEW f \in [S -> Seq(E)], NEW g \in [S -> Seq(E)], NEW j \in S,
                      \A i \in S : rank[i] < rank[j] => f[i] = g[i]
               PROVE  After(f, j) = After(g, j)
    OBVIOUS
  <2>1. j # 1 => j - 1 \in S /\ rank[j - 1] < rank[j]
    OBVIOUS
  <2> QED
    BY <2>1
<1>5. PICK f \in [S -> Seq(E)] : \A j \in S : f[j] = G[<<f, j>>]
  <2>1. << >> \in Seq(E) /\ rank \in [S -> 0..n]
    OBVIOUS
  <2>2. PICK V : V = Seq(E)
    OBVIOUS
  <2>3. Ranked(rank, S) /\ V # {} /\ IsStep(G, S, V, rank)
    BY <1>3, <1>4, <2>1, <2>2 DEF Ranked, IsStep
  <2> HIDE DEF G, rank, S
  <2>4. \E f \in [S -> V] : \A j \in S : f[j] = G[<<f, j>>]
    BY <2>3, BoundedRecursion
  <2> QED
    BY <2>2, <2>4
<1>6. f = [i \in S |-> After(f, i)]
  BY <1>5
<1>7. flatten = [i \in S |-> After(flatten, i)]
  BY <1>6
<1>9. FlattenSeq(seqs) = flatten[n]
  BY <1>0 DEF FlattenSeq
<1> HIDE DEF flatten
<1>10. \A i \in S : flatten[i] = After(flatten, i)
  BY <1>7
<1> DEFINE H == {i \in S : flatten[i] \in Seq(E)}
<1>11. ASSUME NEW i \in S, \A j \in S : j < i => j \in H
       PROVE  i \in H
  <2>1. i # 1 => i - 1 \in S /\ i - 1 < i
    OBVIOUS
  <2>2. i # 1 => flatten[i - 1] \in Seq(E)
    BY <1>11, <2>1
  <2>3. seqs[i] \in Seq(E)
    BY <1>0
  <2>4. flatten[i] = After(flatten, i)
    BY <1>10
  <2> HIDE DEF flatten
  <2>5. flatten[i] \in Seq(E)
    BY <2>2, <2>3, <2>4
  <2> QED
    BY <2>5
<1>12. S \subseteq H
  <2>1. S \subseteq Nat
    OBVIOUS
  <2> HIDE DEF H, S
  <2> QED
    BY <1>11, <2>1, StrongInduction
<1>13. flatten \in [S -> Seq(E)]
  BY <1>7, <1>12
<1> HIDE DEF S
<1> QED
  BY <1>0, <1>9, <1>10, <1>13 DEF S

(* The select list has the columns of the tables one table after another. *)
LEMMA Listed ==
  ASSUME NEW from \in Seq(Types), NEW k \in DOMAIN from, NEW i \in DOMAIN Fields(from[k])
  PROVE  /\ Start(from, k) + i \in DOMAIN SelectList(from)
         /\ SelectList(from)[Start(from, k) + i] = <<k, Fields(from[k])[i].column>>
<1>0. PICK U : \A T \in Types : ColumnsOf(T) \subseteq U
  <2>1. \A T \in Types : ColumnsOf(T) \subseteq UNION {ColumnsOf(S) : S \in Types}
    OBVIOUS
  <2> QED
    BY <2>1
<1> DEFINE E == (DOMAIN from) \X U
           list(j) == [m \in DOMAIN AllColumns(from[j]) |-> <<j, AllColumns(from[j])[m]>>]
           seqs == [j \in DOMAIN from |-> list(j)]
<1>1. PICK n \in Nat \ {0} : n = Len(from) /\ DOMAIN from = 1..n
  OBVIOUS
<1>2. ASSUME NEW j \in 1..n
      PROVE  /\ list(j) \in Seq(E) /\ Len(list(j)) = Len(Fields(from[j]))
             /\ \A m \in DOMAIN Fields(from[j]) :
                  list(j)[m] = <<j, Fields(from[j])[m].column>>
  <2>1. PICK l \in Nat : /\ l = Len(Fields(from[j])) /\ DOMAIN Fields(from[j]) = 1..l
                         /\ from[j] \in Types
    BY <1>1, AreSequences
  <2>2. list(j) = [m \in 1..l |-> <<j, Fields(from[j])[m].column>>]
    BY <2>1 DEF AllColumns
  <2>3. ASSUME NEW m \in 1..l PROVE <<j, Fields(from[j])[m].column>> \in E
    <3>1. Fields(from[j])[m].column \in ColumnsOf(from[j])
      BY <2>1 DEF ColumnsOf
    <3>2. Fields(from[j])[m].column \in U /\ j \in DOMAIN from
      BY <1>0, <1>1, <2>1, <3>1
    <3> QED
      BY <3>2
  <2> HIDE DEF E, list
  <2> QED
    BY <2>1, <2>2, <2>3
<1>3. seqs \in Seq(Seq(E)) /\ seqs # << >> /\ DOMAIN seqs = 1..n /\ Len(seqs) = n
  <2> HIDE DEF E, list
  <2> QED
    BY <1>1, <1>2
<1>4. PICK flat \in [1..n -> Seq(E)] :
        /\ FlattenSeq(seqs) = flat[n]
        /\ \A j \in 1..n : flat[j] = IF j = 1 THEN seqs[j] ELSE flat[j - 1] \o seqs[j]
  <2> HIDE DEF E, seqs
  <2>1. PICK flat \in [DOMAIN seqs -> Seq(E)] :
          /\ FlattenSeq(seqs) = flat[Len(seqs)]
          /\ \A j \in DOMAIN seqs :
               flat[j] = IF j = 1 THEN seqs[j] ELSE flat[j - 1] \o seqs[j]
    BY <1>3, Flattened
  <2> QED
    BY <1>3, <2>1
<1>5. SelectList(from) = flat[n]
  BY <1>4 DEF SelectList
<1>6. \A j \in 1..n : flat[j] = IF j = 1 THEN list(j) ELSE flat[j - 1] \o list(j)
  BY <1>1, <1>4
<1> DEFINE At(m, j, q) == /\ Start(from, j) + q \in 1..Len(flat[m])
                          /\ flat[m][Start(from, j) + q] = <<j, Fields(from[j])[q].column>>
           Holds(m) == /\ Len(flat[m]) = Start(from, m) + Len(Fields(from[m]))
                       /\ \A j \in 1..m : \A q \in DOMAIN Fields(from[j]) : At(m, j, q)
           H == {m \in 1..n : Holds(m)}
<1> HIDE DEF E, list, seqs
<1>7. ASSUME NEW m \in 1..n, \A j \in 1..n : j < m => j \in H
      PROVE  m \in H
  <2>1. PICK l \in Nat : l = Len(Fields(from[m])) /\ DOMAIN Fields(from[m]) = 1..l
    BY <1>1, AreSequences
  <2>2. /\ list(m) \in Seq(E) /\ Len(list(m)) = l
        /\ \A q \in 1..l : list(m)[q] = <<m, Fields(from[m])[q].column>>
    BY <1>2, <2>1
  <2>3. CASE m = 1
    <3>1. flat[m] = list(m) /\ Start(from, m) = 0
      BY <1>1, <1>6, <2>3, Starts
    <3>2. 1..m = {m}
      BY <2>3
    <3>3. Len(flat[m]) = l /\ \A q \in 1..l : At(m, m, q)
      BY <2>2, <3>1
    <3> HIDE DEF At
    <3>4. Len(flat[m]) = Start(from, m) + Len(Fields(from[m]))
      BY <2>1, <3>1, <3>3
    <3>5. Holds(m)
      BY <2>1, <3>2, <3>3, <3>4
    <3> HIDE DEF Holds
    <3> QED
      BY <3>5
  <2>4. CASE m # 1
    <3>1. m - 1 \in 1..n /\ m - 1 < m
      BY <2>4
    <3>2. Holds(m - 1)
      <4>1. m - 1 \in H
        BY <1>7, <3>1
      <4> HIDE DEF Holds
      <4> QED
        BY <4>1
    <3>3. PICK a : a = flat[m - 1]
      OBVIOUS
    <3>4. PICK b : b = list(m)
      OBVIOUS
    <3>5. flat[m] = a \o b /\ a \in Seq(E) /\ b \in Seq(E) /\ Len(b) = l
      BY <1>6, <2>2, <2>4, <3>1, <3>3, <3>4
    <3>6. Len(a) = Start(from, m) /\ Len(a) \in Nat
      BY <1>1, <2>4, <3>1, <3>2, <3>3, <3>5, Starts
    <3>7. /\ Len(a \o b) = Len(a) + l
          /\ \A q \in 1..Len(a) : (a \o b)[q] = a[q]
          /\ \A q \in 1..l : (a \o b)[Len(a) + q] = b[q]
      <4>1. /\ Len(a \o b) = Len(a) + Len(b)
            /\ \A q \in 1..Len(a) + Len(b) :
                 (a \o b)[q] = IF q <= Len(a) THEN a[q] ELSE b[q - Len(a)]
        BY <3>5, ConcatProperties
      <4>2. PICK la \in Nat : la = Len(a)
        BY <3>6
      <4>3. /\ \A q \in 1..la : q \in 1..la + l /\ q <= la
            /\ \A q \in 1..l : la + q \in 1..la + l /\ ~(la + q <= la) /\ la + q - la = q
        OBVIOUS
      <4> QED
        BY <3>5, <4>1, <4>2, <4>3
    <3>8. Len(flat[m]) = Start(from, m) + l
      BY <3>5, <3>6, <3>7
    <3>9. ASSUME NEW j \in 1..m - 1, NEW q \in DOMAIN Fields(from[j]) PROVE At(m, j, q)
      <4>1. At(m - 1, j, q)
        BY <3>2, <3>9
      <4>2. PICK p : p = Start(from, j) + q
        OBVIOUS
      <4>3. p \in 1..Len(a) /\ a[p] = <<j, Fields(from[j])[q].column>>
        BY <3>3, <4>1, <4>2
      <4>4. (a \o b)[p] = a[p]
        BY <3>7, <4>3
      <4>5. p \in 1..Len(a) + l
        BY <2>1, <3>6, <4>3
      <4>6. flat[m] = a \o b /\ Len(flat[m]) = Len(a) + l
        BY <3>5, <3>7
      <4>7. p \in 1..Len(flat[m]) /\ flat[m][p] = <<j, Fields(from[j])[q].column>>
        BY <4>3, <4>4, <4>5, <4>6
      <4> QED
        BY <4>2, <4>7
    <3>10. ASSUME NEW q \in DOMAIN Fields(from[m]) PROVE At(m, m, q)
      <4>1. q \in 1..l /\ (a \o b)[Len(a) + q] = <<m, Fields(from[m])[q].column>>
        BY <2>1, <2>2, <3>4, <3>7
      <4>2. Start(from, m) + q \in 1..Len(flat[m])
        BY <3>6, <3>8, <4>1
      <4> QED
        BY <3>5, <3>6, <4>1, <4>2
    <3>11. Holds(m)
      <4>1. \A j \in 1..m : j = m \/ j \in 1..m - 1
        OBVIOUS
      <4> HIDE DEF At
      <4> QED
        BY <2>1, <3>8, <3>9, <3>10, <4>1
    <3> HIDE DEF Holds
    <3> QED
      BY <3>11
  <2> QED
    BY <2>3, <2>4
<1>8. n \in H
  <2>1. PICK S : S = 1..n
    OBVIOUS
  <2>2. S \subseteq Nat /\ n \in S /\ \A m \in S : (\A j \in S : j < m => j \in H) => m \in H
    <3> HIDE DEF H
    <3> QED
      BY <1>7, <2>1
  <2> HIDE DEF H
  <2> QED
    BY <2>2, StrongInduction
<1>9. Holds(n)
  <2> HIDE DEF Holds
  <2> QED
    BY <1>8
<1> QED
  BY <1>1, <1>4, <1>5, <1>9

(* What is read of the rows of a combination is their records. *)
LEMMA ReadAsChosen ==
  ASSUME Inv, NEW from \in Seq(Types), \A k \in DOMAIN from : from[k] \in DOMAIN schema,
         NEW p \in Combinations(from)
  PROVE  ReadField(from, Values(from, p)) = Abs!Chosen(from, p)
<1> DEFINE values == Values(from, p)
<1>1. ASSUME NEW k \in DOMAIN from, NEW f \in FieldsOf(from[k])
      PROVE  ReadField(from, values)[k][f] = AsRecord(from[k], rows[from[k]][p[k]])[f]
  <2> DEFINE T == from[k]
  <2>1. T \in Types
    OBVIOUS
  <2>2. PICK i \in DOMAIN Fields(T) : Fields(T)[i].field = f /\ Said[T][f] = Fields(T)[i]
    BY <2>1, SaidOfField
  <2>3. (CHOOSE j \in DOMAIN Fields(T) : Fields(T)[j].field = f) = i
    <3>1. ASSUME NEW j \in DOMAIN Fields(T), Fields(T)[j].field = f PROVE j = i
      <4> HIDE DEF T
      <4>1. j # i => Fields(T)[j].field # Fields(T)[i].field
        BY <2>1, DescriptionsAssumption
      <4> QED
        BY <2>2, <3>1, <4>1
    <3> QED
      BY <2>2, <3>1
  <2>4. ReadField(from, values)[k][f] = ReadValue(Fields(T)[i], values[Start(from, k) + i])
    BY <2>3 DEF ReadField
  <2>5. values[Start(from, k) + i] = rows[T][p[k]][Fields(T)[i].column]
    <3>1. PICK n : n = Start(from, k) + i
      OBVIOUS
    <3>2. /\ n \in DOMAIN SelectList(from)
          /\ SelectList(from)[n] = <<k, Fields(T)[i].column>>
      BY <3>1, Listed
    <3> QED
      BY <3>1, <3>2 DEF Values
  <2> QED
    BY <2>1, <2>2, <2>4, <2>5, FieldRead
<1>2. ASSUME NEW k \in DOMAIN from
      PROVE  ReadField(from, values)[k] = Abs!Chosen(from, p)[k]
  <2> DEFINE T == from[k]
  <2>1. Abs!Chosen(from, p)[k] = AsRecord(T, rows[T][p[k]])
    BY StoreTables DEF Abs!Chosen, Combinations
  <2>2. ReadField(from, values)[k]
          = [f \in FieldsOf(T) |-> ReadField(from, values)[k][f]]
    BY DEF ReadField
  <2>3. AsRecord(T, rows[T][p[k]])
          = [f \in FieldsOf(T) |-> AsRecord(T, rows[T][p[k]])[f]]
    BY DEF AsRecord
  <2> QED
    BY <1>1, <2>1, <2>2, <2>3
<1>3. ReadField(from, values) = [k \in DOMAIN from |-> ReadField(from, values)[k]]
  BY DEF ReadField
<1>4. Abs!Chosen(from, p) = [k \in DOMAIN from |-> Abs!Chosen(from, p)[k]]
  BY DEF Abs!Chosen
<1> QED
  BY <1>2, <1>3, <1>4

(* A cell of a row of a combination, and its field. *)
LEMMA CellRead ==
  ASSUME Inv, NEW from \in Seq(Types), \A k \in DOMAIN from : from[k] \in DOMAIN schema,
         NEW p \in Combinations(from), NEW k \in DOMAIN from, NEW f \in FieldsOf(from[k])
  PROVE  LET d == Said[from[k]][f]
             s == Cell(from, p, k, f)
         IN  /\ d.type \in FieldTypes /\ Typed(d, s) /\ Kind(d, s)
             /\ Abs!Chosen(from, p)[k][f] = ReadValue(d, s)
<1> DEFINE T == from[k]
<1>1. T \in Types /\ T \in DOMAIN schema /\ p[k] \in DOMAIN rows[T]
  BY DEF Combinations
<1>2. PICK i \in DOMAIN Fields(T) : Fields(T)[i].field = f /\ Said[T][f] = Fields(T)[i]
  BY <1>1, SaidOfField
<1> DEFINE d == Fields(T)[i]
           s == rows[T][p[k]][d.column]
<1>3. /\ d.type \in FieldTypes /\ Typed(d, s) /\ Kind(d, s)
      /\ AsRecord(T, rows[T][p[k]])[f] = ReadValue(d, s)
  BY <1>1, <1>2, AcceptedKind, Described, FieldRead DEF Inv, TableInv, RowInv
<1>4. Cell(from, p, k, f) = s
  BY <1>2 DEF Cell, FormatColumn
<1>5. Abs!Chosen(from, p)[k] = AsRecord(T, rows[T][p[k]])
  BY <1>1, StoreTables DEF Abs!Chosen
<1> QED
  BY <1>2, <1>3, <1>4, <1>5

(* SQL's conditions on rows are C++'s on their records, where nothing empty is compared. *)
LEMMA SelectsSelected ==
  ASSUME Inv, NEW n \in DOMAIN Queries, Asked(n), NEW p \in Combinations(Queries[n].from)
  PROVE  Selects(Queries[n], p) <=> Abs!Selected(Queries[n], p)
<1> DEFINE q == Queries[n]
           from == q.from
           r == Abs!Chosen(from, p)
           D(t) == Said[from[t.at]][t.field]
           Tests(t) ==
             LET x == Cell(from, p, t.at, t.field)
                 y == Parameter(D(t).type, t.value)
             IN  IF t.op = "==" THEN Equals(x, y) ELSE Differs(x, y)
           Says(t) ==
             LET x == r[t.at][t.field]
                 y == Kept(D(t).type, t.value)
             IN  IF t.op = "==" THEN Equals(x, y) ELSE Differs(x, y)
           Joined(j) == Equals(Cell(from, p, j.at, j.field), Cell(from, p, j.with, j.other))
           SaidSame(j) == Equals(r[j.at][j.field], r[j.with][j.other])
<1>1. /\ from \in Seq(Types)
      /\ \A t \in q.where : /\ t.at \in DOMAIN from /\ t.field \in FieldsOf(from[t.at])
                            /\ t.value \in ValuesOf(D(t).type) \cup {Null}
      /\ \A j \in q.joins :
           /\ j.at \in DOMAIN from /\ j.field \in FieldsOf(from[j.at])
           /\ j.with \in DOMAIN from /\ j.other \in FieldsOf(from[j.with])
           /\ Said[from[j.at]][j.field].type = Said[from[j.with]][j.other].type
  BY QueriesAssumption
<1>2. \A k \in DOMAIN from : from[k] \in DOMAIN schema
  BY DEF Asked, Known
<1>3. Selects(q, p) <=> (\A t \in q.where : Tests(t)) /\ (\A j \in q.joins : Joined(j))
  BY DEF Selects, Matches, Differs
<1>4. Abs!Selected(q, p) <=> (\A t \in q.where : Says(t)) /\ (\A j \in q.joins : SaidSame(j))
  BY SameFields, SameValues
  DEF Abs!Selected, Abs!Finds, Abs!Holds, Abs!ComparesEmpty, Abs!Against, Equals, Differs
<1>5. ASSUME NEW t \in q.where PROVE Tests(t) <=> Says(t)
  <2> DEFINE s == Cell(from, p, t.at, t.field)
             d == D(t)
             v == t.value
  <2>1. /\ d.type \in FieldTypes /\ Typed(d, s) /\ Kind(d, s)
        /\ r[t.at][t.field] = ReadValue(d, s)
    BY <1>1, <1>2, CellRead
  <2>2. v \in ValuesOf(d.type) \cup {Null}
    BY <1>1
  <2>3. /\ Tests(t) <=> IF t.op = "==" THEN Equals(s, Parameter(d.type, v))
                                        ELSE Differs(s, Parameter(d.type, v))
        /\ Says(t) <=> IF t.op = "==" THEN Equals(ReadValue(d, s), Kept(d.type, v))
                                       ELSE Differs(ReadValue(d, s), Kept(d.type, v))
    BY <2>1
  <2> HIDE DEF s, d, v, Tests, Says
  <2>4. /\ Equals(s, Parameter(d.type, v)) <=> Equals(ReadValue(d, s), Kept(d.type, v))
        /\ Differs(s, Parameter(d.type, v)) <=> Differs(ReadValue(d, s), Kept(d.type, v))
    BY <2>1, <2>2, EqualParameter, DifferParameter
  <2> QED
    BY <2>3, <2>4
<1>6. ASSUME NEW j \in q.joins PROVE Joined(j) <=> SaidSame(j)
  <2> DEFINE s == Cell(from, p, j.at, j.field)
             t == Cell(from, p, j.with, j.other)
             d == Said[from[j.at]][j.field]
             e == Said[from[j.with]][j.other]
  <2>1. /\ d.type \in FieldTypes /\ Typed(d, s) /\ Kind(d, s)
        /\ r[j.at][j.field] = ReadValue(d, s)
    BY <1>1, <1>2, CellRead
  <2>2. /\ Typed(e, t) /\ Kind(e, t)
        /\ r[j.with][j.other] = ReadValue(e, t)
    BY <1>1, <1>2, CellRead
  <2>3. e.type = d.type
    BY <1>1
  <2>4. /\ Joined(j) <=> Equals(s, t)
        /\ SaidSame(j) <=> Equals(ReadValue(d, s), ReadValue(e, t))
    BY <2>1, <2>2
  <2> HIDE DEF s, t, d, e, Joined, SaidSame
  <2> QED
    BY <2>1, <2>2, <2>3, <2>4, EqualCells
<1> HIDE DEF Tests, Says, Joined, SaidSame
<1> QED
  BY <1>3, <1>4, <1>5, <1>6

(* A number of 64 bits is counted as it is. *)
LEMMA CountedAsIs ==
  ASSUME NEW n \in ValuesOf("uint64")
  PROVE  Fetched("uint64", n) = n
<1>1. Half("uint64") \in Nat \ {0}
  BY HalfPositive
<1>2. n \in 0 .. 2 * Half("uint64") - 1 /\ n \in Int /\ n # Null
  BY <1>1, NoNumberAssumption DEF ValuesOf
<1>3. Fetched("uint64", n) = Low(Wrap(n, Half("uint64")), Half("uint64"))
  BY <1>2 DEF Fetched, Unsigned
<1> QED
  BY <1>1, <1>2, <1>3, LowOfWrap, LowSame

(* What a query gives, whatever the descriptions: of each combination of rows that
   satisfies its condition as C++ has it, and of no other, but for those where it
   compares a nullable without a value, which it never finds, the records with every
   field from its own column, although columns and fields meet by their positions
   only, in a list and in walks that are written apart (select.h 33-76, 107-133,
   format.h 242-323, nullable.h 194-196). *)
THEOREM ReadsTheRecordsHolds == Spec => []ReadsTheRecords
<1>1. Inv => ReadsTheRecords
  <2> SUFFICES ASSUME Inv, NEW i \in DOMAIN Queries, Asked(i)
               PROVE  LET q == Queries[i]
                          all == Combinations(q.from)
                          n   == Cardinality({p \in all : Abs!Selected(q, p)})
                      IN  /\ \A p \in all :
                               /\ Selects(q, p) <=> Abs!Selected(q, p)
                               /\ ReadField(q.from, Values(q.from, p)) = Abs!Chosen(q.from, p)
                          /\ n \in ValuesOf("uint64") => Count(q) = n
    BY DEF ReadsTheRecords
  <2> DEFINE q == Queries[i]
             all == Combinations(q.from)
             n == Cardinality({p \in all : Abs!Selected(q, p)})
  <2>1. ASSUME NEW p \in all PROVE Selects(q, p) <=> Abs!Selected(q, p)
    BY SelectsSelected
  <2>2. ASSUME NEW p \in all
        PROVE  ReadField(q.from, Values(q.from, p)) = Abs!Chosen(q.from, p)
    <3>1. q.from \in Seq(Types) /\ \A k \in DOMAIN q.from : q.from[k] \in DOMAIN schema
      BY QueriesAssumption DEF Asked, Known
    <3> QED
      BY <3>1, ReadAsChosen
  <2>3. Count(q) = Fetched("uint64", n)
    <3>1. {p \in all : Selects(q, p)} = {p \in all : Abs!Selected(q, p)}
      BY <2>1
    <3> QED
      BY <3>1 DEF Count
  <2>4. n \in ValuesOf("uint64") => Count(q) = n
    <3> HIDE DEF n
    <3> QED
      BY <2>3, CountedAsIs
  <2> QED
    BY <2>1, <2>2, <2>4
<1> QED
  BY <1>1, InvHolds, PTL
===============================================================================
