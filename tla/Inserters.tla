------------------------------ MODULE Inserters ------------------------------
(***************************************************************************)
(* inserter (insert.h), as transaction::insert and transaction::upsert     *)
(* return it: objects kept by the application and called with one item     *)
(* after another, on one connection, for one table                         *)
(*     ID INTEGER PRIMARY KEY, k UNIQUE, v nullable                        *)
(* with id described as the identity.  A call can fail in any of the ways  *)
(* statement::execute reports, and the object may be called again after.   *)
(***************************************************************************)
EXTENDS StatementHandle

CONSTANTS
  Slots,      \* inserter objects
  Upserters,  \* those that transaction::upsert has made
  Keys, Vals, \* contents of the columns k and v
  NoRow,      \* "no row with this rowid"
  MaxRow      \* bound on the rowids

ASSUME ColumnsAssumption ==
  /\ Upserters \subseteq Slots
  /\ Params = {1, 2}
  /\ Keys \subseteq Values /\ Vals \subseteq Values
  /\ MaxRow \in Nat

Items  == [k : Keys, v : Vals \cup {Null}]   \* regular fields of an item
Rowids == 1..MaxRow

ASSUME NoRowAssumption == NoRow \notin Items

VARIABLES
  made,       \* the inserter objects that exist
  handle,     \* of each: its statement
  threw,      \* of each: whether a call of it has thrown (history)
  rows,       \* the table: what each rowid holds
  lastRowid,  \* sqlite3_last_insert_rowid of the connection
  id          \* the identity field of the item inserted last

vars == <<made, handle, threw, rows, lastRowid, id>>

(* SQLite gives a new row the rowid after the greatest in use. *)
IsNextRowid(r) == r \in Rowids /\ \A q \in Rowids : q >= r => rows[q] = NoRow
                  /\ (r > 1 => rows[r - 1] # NoRow)

Matches(r, key) == rows[r] # NoRow /\ rows[r].k = key
KeyInUse(key)   == \E r \in Rowids : Matches(r, key)

------------------------------------------------------------------------------
(* transaction::insert, transaction::upsert.                                *)

(* create_insert_statement prepares "INSERT INTO T (k,v) VALUES (?,?)"; if it
   cannot be prepared the object is made all the same. *)
Make(s) ==
  /\ s \notin made
  /\ made' = made \cup {s}
  /\ \E h \in {Prepared, Unprepared} : handle' = [handle EXCEPT ![s] = h]
  /\ threw' = [threw EXCEPT ![s] = FALSE]
  /\ UNCHANGED <<rows, lastRowid, id>>

Drop(s) ==
  /\ s \in made
  /\ made' = made \ {s}
  /\ handle' = [handle EXCEPT ![s] = Unprepared]
  /\ threw' = [threw EXCEPT ![s] = FALSE]
  /\ UNCHANGED <<rows, lastRowid, id>>

------------------------------------------------------------------------------
(* inserter::operator(): bind_fields, execute, bind_identity, reset.        *)

(* bind_fields: the regular fields in the order they are described in. *)
BindFields(s, item) == BindNullable(Bind(handle[s], 1, item.k), 2, item.v)

(* What the statement is executed with. *)
Row(s, item) == LET h == BindFields(s, item) IN [k |-> h.bound[1], v |-> h.bound[2]]

Callable(s) == s \in made /\ handle[s].state # "null"

(* execute() throws: the call ends there, neither the identity is read nor the
   statement reset. *)
Throws(s, item, state) ==
  /\ handle' = [handle EXCEPT ![s] = Step(BindFields(s, item), state)]
  /\ threw' = [threw EXCEPT ![s] = TRUE]
  /\ UNCHANGED <<made, rows, lastRowid, id>>

(* There is no statement: SQLITE_MISUSE. *)
CallUnprepared(s, item) ==
  /\ s \in made /\ handle[s].state = "null"
  /\ Throws(s, item, "null")

(* SQLITE_BUSY: another connection is about to write. *)
CallBusy(s, item) ==
  /\ Callable(s)
  /\ Throws(s, item, "stalled")

(* SQLITE_BUSY from the commit of a write outside a transaction. *)
CallUndone(s, item) ==
  /\ Callable(s)
  /\ Throws(s, item, "halted")

(* SQLITE_CONSTRAINT: the key is taken, and this is no upsert. *)
CallClashes(s, item) ==
  /\ Callable(s)
  /\ s \notin Upserters
  /\ KeyInUse(Row(s, item).k)
  /\ Throws(s, item, "halted")

(* bind_identity: the identity field takes the rowid of the last insertion. *)
BindIdentity == id' = lastRowid'

(* The statement as execute() has left it. *)
Executed(s, item) == Step(BindFields(s, item), "halted")

(* Faulty variant: the statement is not reset. *)
ReturnsUnreset(s, item) ==
  /\ BindIdentity
  /\ handle' = [handle EXCEPT ![s] = Executed(s, item)]
  /\ UNCHANGED <<made, threw>>

(* Faulty variant: the identity is read before the statement is executed. *)
ReturnsEarlyId(s, item) ==
  /\ handle' = [handle EXCEPT ![s] = Reset(Executed(s, item))]
  /\ id' = lastRowid
  /\ UNCHANGED <<made, threw>>

(* execute() returns: bind_identity, then reset. *)
Returns(s, item) ==
  /\ BindIdentity
  /\ handle' = [handle EXCEPT ![s] = Reset(Executed(s, item))]
  /\ UNCHANGED <<made, threw>>

CallInserts(s, item) ==
  /\ Callable(s)
  /\ ~KeyInUse(Row(s, item).k)
  /\ \E r \in Rowids :
       /\ IsNextRowid(r)
       /\ rows' = [rows EXCEPT ![r] = Row(s, item)]
       /\ lastRowid' = r
  /\ Returns(s, item)

(* ON CONFLICT DO UPDATE SET k=EXCLUDED.k,v=EXCLUDED.v. *)
CallUpdates(s, item) ==
  /\ Callable(s)
  /\ s \in Upserters
  /\ \E r \in Rowids :
       /\ Matches(r, Row(s, item).k)
       /\ rows' = [rows EXCEPT ![r] = Row(s, item)]
  /\ UNCHANGED lastRowid
  /\ Returns(s, item)

------------------------------------------------------------------------------
(* The rest of the world: a remover of this connection, and another         *)
(* connection, which does not change this one's last rowid.                 *)

RemoveRow(r) ==
  /\ rows[r] # NoRow
  /\ rows' = [rows EXCEPT ![r] = NoRow]
  /\ UNCHANGED <<made, handle, threw, lastRowid, id>>

ForeignInsert(row) ==
  /\ ~KeyInUse(row.k)
  /\ \E r \in Rowids : IsNextRowid(r) /\ rows' = [rows EXCEPT ![r] = row]
  /\ UNCHANGED <<made, handle, threw, lastRowid, id>>

------------------------------------------------------------------------------
Init ==
  /\ made = {}
  /\ handle = [s \in Slots |-> Unprepared]
  /\ threw = [s \in Slots |-> FALSE]
  /\ rows = [r \in Rowids |-> NoRow]
  /\ lastRowid = 0
  /\ id = 0

Call(s, item) ==
  \/ CallUnprepared(s, item) \/ CallBusy(s, item) \/ CallUndone(s, item)
  \/ CallClashes(s, item) \/ CallInserts(s, item) \/ CallUpdates(s, item)

Next ==
  \/ \E s \in Slots : Make(s) \/ Drop(s)
  \/ \E s \in Slots, item \in Items : Call(s, item)
  \/ \E r \in Rowids : RemoveRow(r)
  \/ \E row \in Items : ForeignInsert(row)

Spec == Init /\ [][Next]_vars

------------------------------------------------------------------------------
(* Correctness. *)

(* Type invariant of the inserters and the table. *)
TypeOK ==
  /\ made \subseteq Slots
  /\ handle \in [Slots -> Handles]
  /\ threw \in [Slots -> BOOLEAN]
  /\ rows \in [Rowids -> Items \cup {NoRow}]
  /\ lastRowid \in 0..MaxRow
  /\ id \in 0..MaxRow

(* An inserter none of whose calls has thrown is ready to bind and carries nothing
   of the items it has inserted (insert.h 48-56): only then does a nullable
   without a value, which is not bound at all, become NULL (statement.h 107-112). *)
CleanUnlessThrown ==
  \A s \in made : ~threw[s] => handle[s] \in {Prepared, Unprepared}

Succeeds(s, item) == CallInserts(s, item) \/ CallUpdates(s, item)

(* A call that returns has stored the item it was given, every field of it, if
   the object has not thrown before (insert.h 50-55, binding.h 38-40). *)
StoredAsGiven ==
  [][\A s \in Slots, item \in Items :
       Succeeds(s, item) /\ ~threw[s] => \E r \in Rowids : rows'[r] = item]_vars

(* An insertion that returns has made a new row, and the identity the item gets
   is the key of that very row, whatever other inserters, removers and other
   connections did to the table in between (binding.h 62-64). *)
IdNamesTheNewRow ==
  [][\A s \in Slots, item \in Items :
       CallInserts(s, item) /\ ~threw[s] =>
         id' \in Rowids /\ rows[id'] = NoRow /\ rows'[id'] = item]_vars

(* README.md 36 says the inserter can be reused, and names no condition: a call
   that returns has stored the item it was given. *)
ReuseStoresTheItem ==
  [][\A s \in Slots, item \in Items :
       CallInserts(s, item) => \E r \in Rowids : rows'[r] = item]_vars
==============================================================================
