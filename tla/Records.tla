------------------------------- MODULE Records -------------------------------
(***************************************************************************)
(* The tables behind the record types, and the statements a transaction    *)
(* makes for them (database.h, select.h, update.h, remove.h): which column *)
(* each of the lists in a statement's text names, which parameter and      *)
(* which field each walk over a description meets, and what SQLite does    *)
(* with the result.  Statements run one at a time; locks, failures and     *)
(* reuse of statements are in Transactions, Inserters, BoundStatements.    *)
(***************************************************************************)
EXTENDS Descriptions

VARIABLES
  schema,     \* of each type with a table: its definition
  rows,       \* of each type with a table: what each rowid in use holds in each column
  lastRowid,  \* sqlite3_last_insert_rowid
  result      \* what the last call has given: <<the identity>>, << >>, or Refused

vars == <<schema, rows, lastRowid, result>>
------------------------------------------------------------------------------
(* SQLite.                                                                   *)

Known(T) == T \in DOMAIN schema

(* Equality in SQL: NULL equals nothing. *)
Equals(x, y) == x # Null /\ x = y

Clash(x, y, columns) == \A i \in DOMAIN columns : Equals(x[columns[i]], y[columns[i]])

(* What a table may hold under its definition. *)
Accepted(def, table) ==
  \A r \in DOMAIN table :
    /\ \A i \in DOMAIN def.columns :
         def.columns[i].notNull => table[r][def.columns[i].name] # Null
    /\ \A q \in DOMAIN table \ {r}, k \in DOMAIN def.keys :
         ~Clash(table[r], table[q], def.keys[k])

(* The rowid of the next row: one more than the greatest. *)
IsNext(T, n) ==
  /\ \A r \in DOMAIN rows[T] : r < n
  /\ n = 1 \/ n - 1 \in DOMAIN rows[T]

(* INSERT INTO ... (columns) VALUES (values). *)
NewRow(T, rowid, columns, values) ==
  [c \in ColumnsOf(T) |->
     IF \E i \in DOMAIN columns : columns[i] = c
       THEN values[CHOOSE i \in DOMAIN columns : columns[i] = c]
       ELSE IF \E i \in DOMAIN schema[T].columns :
                 schema[T].columns[i].name = c /\ schema[T].columns[i].rowid
            THEN rowid ELSE Null]

WithRow(T, r, row) ==
  [q \in DOMAIN rows[T] \cup {r} |-> IF q = r THEN row ELSE rows[T][q]]

(* A statement is executed and returns, or throws and has done nothing. *)
Execute(T, table, given) ==
  /\ Accepted(schema[T], table)
  /\ rows' = [rows EXCEPT ![T] = table]
  /\ result' = given
  /\ UNCHANGED schema

Throw == result' = Refused /\ UNCHANGED <<schema, rows, lastRowid>>

------------------------------------------------------------------------------
(* transaction::create_table.                                                *)

CreateTable(T) ==
  /\ ~Known(T)
  /\ schema' = [S \in DOMAIN schema \cup {T} |->
                  IF S = T THEN FormatCreateTable(T) ELSE schema[S]]
  /\ rows' = [S \in DOMAIN rows \cup {T} |-> IF S = T THEN << >> ELSE rows[S]]
  /\ result' = << >>
  /\ UNCHANGED lastRowid

(* "table already exists". *)
CreateTableAgain(T) == Known(T) /\ Throw

(* Whatever statement is made for a table that is not there, it is not prepared. *)
NotPrepared(T) == ~Known(T) /\ Throw

------------------------------------------------------------------------------
(* transaction::insert and upsert, inserter::operator().                     *)

(* bind(index, nullable) binds nothing for no value, which leaves NULL. *)
Parameter(type, value) == IF value = Null THEN Null ELSE Stored(type, value)

(* Faulty variant: the walk of the binder does not pass the identity by. *)
BindEveryField(T, item) ==
  [i \in DOMAIN Fields(T) |->
     LET d == Fields(T)[i]
     IN  IF d.tag = "identity" THEN 0 ELSE Parameter(d.type, item[d.field])]

(* field_binder: the parameters from 1 on, one per field that is no identity. *)
BindFields(T, item) ==
  [n \in Ordinals(T) |-> Parameter(Met(T, n).type, item[Met(T, n).field])]

(* identity_binder: the item's identity becomes the last rowid of the connection. *)
BindIdentity(T, rowid) == [i \in DOMAIN Identity(T) |-> IdentityOf(Identity(T)[i].type, rowid)]

Given(T, item, r) == NewRow(T, r, RegularColumns(T), BindFields(T, item))

(* Rows with which the new one clashes. *)
Clashing(T, row) ==
  {q \in DOMAIN rows[T] : \E k \in DOMAIN schema[T].keys :
                            Clash(row, rows[T][q], schema[T].keys[k])}

Insert(T, item) ==
  /\ Known(T)
  /\ \E n \in 1..MaxRow :
       /\ IsNext(T, n)
       /\ lastRowid' = n
       /\ Execute(T, WithRow(T, n, Given(T, item, n)), BindIdentity(T, n))

InsertThrows(T, item) ==
  /\ Known(T)
  /\ \E n \in 1..MaxRow + 1 :
       IsNext(T, n) /\ ~Accepted(schema[T], WithRow(T, n, Given(T, item, n)))
  /\ Throw

(* ON CONFLICT DO UPDATE SET column=EXCLUDED.column of each regular column; where
   there is no conflict, upsert() is insert(). *)
Excluded(T, q, row) ==
  [c \in ColumnsOf(T) |-> IF c \in ToSet(RegularColumns(T)) THEN row[c] ELSE rows[T][q][c]]

Upsert(T, item) ==
  /\ Known(T)
  /\ \E n \in 1..MaxRow + 1 : \E q \in Clashing(T, Given(T, item, n)) :
       /\ IsNext(T, n)
       /\ Execute(T, WithRow(T, q, Excluded(T, q, Given(T, item, n))),
                     BindIdentity(T, lastRowid))
  /\ UNCHANGED lastRowid

UpsertThrows(T, item) ==
  /\ Known(T)
  /\ \E n \in 1..MaxRow + 1 : \E q \in Clashing(T, Given(T, item, n)) :
       /\ IsNext(T, n)
       /\ ~Accepted(schema[T], WithRow(T, q, Excluded(T, q, Given(T, item, n))))
  /\ Throw

------------------------------------------------------------------------------
(* Conditions: columns by format_column, parameters by bind_parameters.      *)

Cell(from, p, at, f) == rows[from[at]][p[at]][FormatColumn(from[at], f)]

Matches(from, where, joins, p) ==
  /\ \A t \in where :
       LET x == Cell(from, p, t.at, t.field)
           y == Parameter(Said[from[t.at]][t.field].type, t.value)
       IN  IF t.op = "==" THEN Equals(x, y) ELSE x # Null /\ y # Null /\ x # y
  /\ \A j \in joins : Equals(Cell(from, p, j.at, j.field), Cell(from, p, j.with, j.other))

RowMatches(T, where, r) == Matches(<<T>>, where, {}, <<r>>)

------------------------------------------------------------------------------
(* transaction::update and remove.                                           *)

Updated(T, f, value, where) ==
  [r \in DOMAIN rows[T] |->
     IF RowMatches(T, where, r)
       THEN [rows[T][r] EXCEPT ![FormatColumn(T, f)] = Parameter(Said[T][f].type, value)]
       ELSE rows[T][r]]

Update(T, f, value, where) ==
  /\ Known(T)
  /\ Execute(T, Updated(T, f, value, where), << >>)
  /\ UNCHANGED lastRowid

UpdateThrows(T, f, value, where) ==
  /\ Known(T)
  /\ ~Accepted(schema[T], Updated(T, f, value, where))
  /\ Throw

(* No row of another table goes along: create_connection leaves the enforcement of
   foreign keys off, as SQLite has it. *)
RemoveWhere(T, where) ==
  /\ Known(T)
  /\ rows' = [rows EXCEPT ![T] =
       [r \in {q \in DOMAIN rows[T] : ~RowMatches(T, where, q)} |-> rows[T][r]]]
  /\ result' = << >>
  /\ UNCHANGED <<schema, lastRowid>>

------------------------------------------------------------------------------
(* transaction::select and count, select_builder and reader, for records and *)
(* tuples.  They change nothing, so they are operators and no actions.       *)

(* format_select_list: all columns of all tables, with the alias of the table. *)
SelectList(from) ==
  FlattenSeq([k \in DOMAIN from |->
                [i \in DOMAIN AllColumns(from[k]) |-> <<k, AllColumns(from[k])[i]>>]])

(* format_table_source: one row of each table, in every combination. *)
Combinations(from) ==
  {p \in [DOMAIN from -> UNION {DOMAIN rows[from[k]] : k \in DOMAIN from}] :
     \A k \in DOMAIN from : p[k] \in DOMAIN rows[from[k]]}

(* Faulty variant: the direction of the first column holds for all of them. *)
FormatOrderOnce(from, order) ==
  [i \in DOMAIN order |->
     [alias |-> order[i].at, column |-> FormatColumn(from[order[i].at], order[i].field),
      ascending |-> order[1].ascending]]

(* format_order: the columns in the order given, each with its direction. *)
FormatOrder(from, order) ==
  [i \in DOMAIN order |->
     [alias |-> order[i].at, column |-> FormatColumn(from[order[i].at], order[i].field),
      ascending |-> order[i].ascending]]

(* ORDER BY: a column is compared by the affinity it was declared with. *)
DeclaredAs(T, c) ==
  LET i == CHOOSE j \in DOMAIN schema[T].columns : schema[T].columns[j].name = c
  IN  schema[T].columns[i].affinity

Before(from, by, p, q) ==
  LET As(i)    == DeclaredAs(from[by[i].alias], by[i].column)
      Of(r, i) == rows[from[by[i].alias]][r[by[i].alias]][by[i].column]
  IN  \E i \in DOMAIN by :
        /\ \A j \in 1..i - 1 : Of(p, j) = Of(q, j)
        /\ IF by[i].ascending THEN Less(As(i), Of(p, i), Of(q, i))
                              ELSE Less(As(i), Of(q, i), Of(p, i))

(* record_reader: a field from a column, NULL as no value if it can hold none. *)
ReadValue(d, s) == IF d.nullable /\ s = Null THEN Null ELSE Fetched(d.type, s)

(* Faulty variant: every reader of a tuple starts from the first column. *)
StartAtFirst(from, k) == 0

(* read_field of a tuple: each reader goes on from the index of the one before. *)
Start(from, k) ==
  LET start[j \in DOMAIN from] ==
        IF j = 1 THEN 0 ELSE start[j - 1] + Len(Fields(from[j - 1]))
  IN  start[k]

ReadField(from, values) ==
  [k \in DOMAIN from |->
     [f \in FieldsOf(from[k]) |->
        LET i == CHOOSE j \in DOMAIN Fields(from[k]) : Fields(from[k])[j].field = f
        IN  ReadValue(Fields(from[k])[i], values[Start(from, k) + i])]]

Values(from, p) ==
  [i \in DOMAIN SelectList(from) |->
     LET column == SelectList(from)[i] IN rows[from[column[1]]][p[column[1]]][column[2]]]

Selects(q, p) == Matches(q.from, q.where, q.joins, p)

(* SELECT COUNT, fetched as an unsigned integer of 64 bits. *)
Count(q) == Fetched("uint64", Cardinality({p \in Combinations(q.from) : Selects(q, p)}))

------------------------------------------------------------------------------
Init ==
  /\ schema = << >>
  /\ rows = << >>
  /\ lastRowid = 0
  /\ result = << >>

Changing(T, g, v) ==
  \/ RemoveWhere(T, IsEqual(g, v))
  \/ \E f \in RegularFieldsOf(T) : \E value \in ValuesFor(T, f) \cup {Null} :
       Update(T, f, value, IsEqual(g, v)) \/ UpdateThrows(T, f, value, IsEqual(g, v))

Next ==
  \/ \E T \in Types :
       \/ CreateTable(T) \/ CreateTableAgain(T) \/ NotPrepared(T)
       \/ \E item \in Items[T] :
            \/ Insert(T, item) \/ InsertThrows(T, item)
            \/ Upsert(T, item) \/ UpsertThrows(T, item)
       \/ \E g \in FieldsOf(T) : \E v \in ValuesFor(T, g) : Changing(T, g, v)

Spec == Init /\ [][Next]_vars

------------------------------------------------------------------------------
(* Correctness. *)

(* Type invariant of the tables and of the columns' contents. *)
TypeOK ==
  /\ DOMAIN schema \subseteq Types /\ DOMAIN rows = DOMAIN schema
  /\ \A T \in DOMAIN schema :
       /\ schema[T] = FormatCreateTable(T)
       /\ DOMAIN rows[T] \subseteq 1..MaxRow
       /\ \A r \in DOMAIN rows[T], i \in DOMAIN Fields(T) :
            LET s == rows[T][r][Fields(T)[i].column]
            IN  s = Null \/ s \in StoredOf(Fields(T)[i].type)
  /\ lastRowid \in 0..MaxRow

(* A field that is no nullable<T> never has a NULL to read, which for a std::string
   would be a null pointer, whatever is inserted, upserted or set, nullables without
   a value and NaNs included (format.h 110-147, select.h 41-54). *)
NullOnlyWhereNullable ==
  \A T \in DOMAIN rows : \A r \in DOMAIN rows[T], i \in DOMAIN Fields(T) :
    Fields(T)[i].nullable \/ rows[T][r][Fields(T)[i].column] # Null

(* No two records agree in all the fields that unique or primary have been given,
   except through a nullable without a value (format.h 157-171, 423-436, 464-473). *)
KeysAreKept ==
  \A T \in DOMAIN rows : \A r, q \in DOMAIN rows[T], k \in DOMAIN Describe[T].keys :
    r # q => \E f \in ToSet(Describe[T].keys[k].fields) :
               ~Equals(rows[T][r][Said[T][f].column], rows[T][q][Said[T][f].column])

(* What is in the tables, as records. *)
AsRecord(T, row) == [f \in FieldsOf(T) |-> ReadValue(Said[T][f], row[Said[T][f].column])]

Store == [T \in DOMAIN rows |-> [r \in DOMAIN rows[T] |-> AsRecord(T, rows[T][r])]]

Abs == INSTANCE RecordStore WITH store <- Store, answer <- result

(* The queries that can be made: of tables that are there. *)
Asked(i) == \A k \in DOMAIN Queries[i].from : Known(Queries[i].from[k])

(* Records implements RecordStore: what insert, upsert, update and remove leave in
   the tables is what they were given, field by field, although columns, parameters
   and fields are paired by position only, in walks written apart, and a call that
   throws has done nothing (database.h 155-168, 201-219, binding.h 31-76). *)
ImplementsRecordStore == Abs!ASpec

(* What is read, alone or in a tuple, is the record with all its fields in place,
   and every one for which the condition holds by C++'s equality, and no other, but
   for those where it compares a nullable without a value: C++ holds two of these
   equal (nullable.h 194-196) and one of them different from any value, and no test
   of such a field or against such a parameter finds anything.  As many are counted,
   if that is a number of 64 bits (select.h 33-76, 107-133, format.h 242-323). *)
ReadsTheRecords ==
  \A i \in DOMAIN Queries : Asked(i) =>
    LET q == Queries[i]
        all == Combinations(q.from)
        n   == Cardinality({p \in all : Abs!Selected(q, p)})
    IN  /\ \A p \in all :
             /\ Selects(q, p) <=> Abs!Selected(q, p)
             /\ ReadField(q.from, Values(q.from, p)) = Abs!Chosen(q.from, p)
        /\ n \in ValuesOf("uint64") => Count(q) = n

(* Records come in the order asked for, as C++ orders their fields, if no unsigned
   value among them has its highest bit set (format.h 381-408, statement.h 118, 124). *)
OrderedAsAsked ==
  \A i \in DOMAIN Queries : Asked(i) =>
    LET q == Queries[i]
        Comparable(p) ==
          \A j \in DOMAIN q.order :
            LET by == q.order[j]
                x == Abs!Chosen(q.from, p)[by.at][by.field]
            IN  x = Null \/ BelowSignBit(Said[q.from[by.at]][by.field].type, x)
    IN  \A p, r \in {c \in Combinations(q.from) : Selects(q, c) /\ Comparable(c)} :
          Before(q.from, FormatOrder(q.from, q.order), p, r) <=> Abs!Precedes(q, p, r)

(* README.md 127-128 says of a foreign_key_cascade: once a company gets deleted, all
   its employees will be deleted as well. *)
EmployeesGoWithTheirCompany ==
  [][\A T \in DOMAIN rows : \A k \in DOMAIN Describe[T].foreign :
       LET key == Describe[T].foreign[k]
           R == key.referred
       IN  R \in DOMAIN rows =>
           \A p \in DOMAIN rows[R] \ DOMAIN rows'[R], r \in DOMAIN rows[T] :
             (\A i \in DOMAIN key.pairs :
                Equals(rows[T][r][Said[T][key.pairs[i][1]].column],
                       rows[R][p][Said[R][key.pairs[i][2]].column]))
             => r \notin DOMAIN rows'[T]]_vars
==============================================================================
