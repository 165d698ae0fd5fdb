----------------------------- MODULE RecordStore -----------------------------
(***************************************************************************)
(* What tables promise to an application that sees them through its own    *)
(* record types: it puts records in, and has them back, one by one or      *)
(* joined, with the values it has put in and the identities it was told.   *)
(* No columns, no parameters, no SQL.                                      *)
(***************************************************************************)
EXTENDS Descriptions

VARIABLES
  store,     \* of each type with a table: its records, under a number nobody sees
  answer     \* what the last call has given: <<the identity>>, << >>, or Refused

(* A record as it will be read back. *)
Keep(T, record) == [f \in DOMAIN record |-> Kept(Said[T][f].type, record[f])]

(* The identity a record stored under a number shows, if its type has one. *)
IdentityFor(T, n) == [i \in DOMAIN Identity(T) |-> IdentityOf(Identity(T)[i].type, n)]

(* The record with the number it is stored under as its identity, if it has one. *)
Identified(T, record, n) ==
  [f \in FieldsOf(T) |-> IF Said[T][f].tag = "identity"
                           THEN IdentityOf(Said[T][f].type, n) ELSE record[f]]

(* Records that a key does not tell apart: the same in all its fields, none empty. *)
Clash(x, y, fields) == \A f \in fields : x[f] = y[f] /\ x[f] # Null

KeyFields(T, k) == ToSet(Describe[T].keys[k].fields)

Legal(T, records) ==
  \A n \in DOMAIN records :
    /\ \A f \in FieldsOf(T) : Said[T][f].nullable \/ records[n][f] # Null
    /\ \A m \in DOMAIN records \ {n}, k \in DOMAIN Describe[T].keys :
         ~Clash(records[n], records[m], KeyFields(T, k))

(* A condition: tests of fields against values, and of fields against each other,
   with the equality of C++, for which two nullables without a value are equal. *)
Against(from, t) == Kept(Said[from[t.at]][t.field].type, t.value)

Holds(from, where, joins, r) ==
  /\ \A t \in where : (r[t.at][t.field] = Against(from, t)) <=> (t.op = "==")
  /\ \A j \in joins : r[j.at][j.field] = r[j.with][j.other]

(* One of its tests is about a nullable that has no value, or is kept without one. *)
ComparesEmpty(from, where, joins, r) ==
  \/ \E t \in where : Null \in {r[t.at][t.field], Against(from, t)}
  \/ \E j \in joins : Null \in {r[j.at][j.field], r[j.with][j.other]}

(* A condition finds what it holds for, but nothing by comparing what is empty. *)
Finds(from, where, joins, r) ==
  Holds(from, where, joins, r) /\ ~ComparesEmpty(from, where, joins, r)

Satisfies(T, where, record) == Finds(<<T>>, where, {}, <<record>>)

(* A record of each type, by their numbers, and what a condition finds. *)
Chosen(from, n) == [k \in DOMAIN from |-> store[from[k]][n[k]]]

Selected(q, n) == Finds(q.from, q.where, q.joins, Chosen(q.from, n))

(* The order asked for, by the fields as C++ compares them. *)
Precedes(q, n, m) ==
  LET By(i)    == Affinity(Said[q.from[q.order[i].at]][q.order[i].field].type)
      Of(r, i) == Chosen(q.from, r)[q.order[i].at][q.order[i].field]
  IN  \E i \in DOMAIN q.order :
        /\ \A j \in 1..i - 1 : Of(n, j) = Of(m, j)
        /\ IF q.order[i].ascending THEN Less(By(i), Of(n, i), Of(m, i))
                                   ELSE Less(By(i), Of(m, i), Of(n, i))

------------------------------------------------------------------------------
Created(T) == T \in DOMAIN store

ARefused == answer' = Refused /\ UNCHANGED store

Becomes(T, records, given) ==
  /\ answer' = given
  /\ store' = [store EXCEPT ![T] = records]
  /\ Legal(T, records)

ACreate(T) ==
  /\ ~Created(T)
  /\ store' = [S \in DOMAIN store \cup {T} |-> IF S = T THEN << >> ELSE store[S]]
  /\ answer' = << >>

(* A new record, under a number not in use; the application's gets its identity. *)
AInsert(T, record) ==
  /\ Created(T)
  /\ \E n \in 1..MaxRow \ DOMAIN store[T] :
       Becomes(T, [m \in DOMAIN store[T] \cup {n} |->
                     IF m = n THEN Identified(T, Keep(T, record), n) ELSE store[T][m]],
                  IdentityFor(T, n))

(* A record with a key of this one takes its values; the identity the application
   gets is not said to be that record's. *)
AReplace(T, record) ==
  /\ Created(T)
  /\ \E n \in DOMAIN store[T], m \in 0..MaxRow :
       /\ \E k \in DOMAIN Describe[T].keys :
            /\ KeyFields(T, k) \subseteq DOMAIN record
            /\ Clash(store[T][n], Keep(T, record), KeyFields(T, k))
       /\ Becomes(T, [store[T] EXCEPT ![n] = [f \in FieldsOf(T) |->
                        IF f \in DOMAIN record THEN Keep(T, record)[f] ELSE @[f]]],
                     IdentityFor(T, m))

AUpdate(T, f, value, where) ==
  /\ Created(T)
  /\ Becomes(T, [n \in DOMAIN store[T] |->
                   IF Satisfies(T, where, store[T][n])
                     THEN [store[T][n] EXCEPT ![f] = Kept(Said[T][f].type, value)]
                     ELSE store[T][n]],
                << >>)

ARemove(T, where) ==
  /\ Created(T)
  /\ store' = [store EXCEPT ![T] =
       [n \in {m \in DOMAIN store[T] : ~Satisfies(T, where, store[T][m])} |-> store[T][n]]]
  /\ answer' = << >>

------------------------------------------------------------------------------
AInit == store = << >> /\ answer = << >>

ANext ==
  \/ ARefused
  \/ \E T \in Types :
       \/ ACreate(T)
       \/ \E record \in Items[T] : AInsert(T, record) \/ AReplace(T, record)
       \/ \E g \in FieldsOf(T) : \E v \in ValuesFor(T, g) :
            \/ ARemove(T, IsEqual(g, v))
            \/ \E f \in RegularFieldsOf(T) : \E value \in ValuesFor(T, f) \cup {Null} :
                 AUpdate(T, f, value, IsEqual(g, v))

ASpec == AInit /\ [][ANext]_<<store, answer>>
==============================================================================
