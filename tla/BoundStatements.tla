--------------------------- MODULE BoundStatements ---------------------------
(***************************************************************************)
(* updater (update.h), remover (remove.h) and reader (select.h): objects   *)
(* whose parameters are variables of the application, bound by reference   *)
(* and read when the object is made and, for the first two, when it is     *)
(* reset.  All of them are of the form                                     *)
(*     UPDATE T SET v=:1 WHERE k=:2                                        *)
(*     DELETE FROM T WHERE k=:1        SELECT k,v FROM T WHERE k=:1        *)
(* on one connection.  Objects are moved, as returning or storing them by  *)
(* value does, and others may be made where they were.                     *)
(***************************************************************************)
EXTENDS StatementHandle

CONSTANTS
  Slots,       \* places in memory an object may be at
  Keys, Vals,  \* contents of the columns k and v
  NoRow,       \* "no row with this rowid"
  MaxRow,      \* bound on the rowids
  Moves        \* whether the application moves objects

Records == [k : Keys, v : Vals \cup {Null}]     \* what the application writes
Rows    == [k : Keys, v : Values \cup {Null}]   \* what the table may come to hold
Rowids  == 1..MaxRow

ASSUME StatementsAssumption ==
  /\ Params = {1, 2}
  /\ Keys \subseteq Values /\ Vals \subseteq Values
  /\ MaxRow \in Nat
  /\ NoRow \notin Rows
  /\ Moves \in BOOLEAN

VARIABLES
  kind,    \* of each place: the object there
  handle,  \* of each: its statement
  this,    \* of each: the place a remover's _reset_bindings binds to
  key,     \* the application's variable in the WHERE clauses, p(key)
  val,     \* the application's variable in the SET clauses, a nullable
  given,   \* of each: the variables it has taken, as they were then (history)
  whose,   \* of each: whose parameters its statement has (history)
  rows,    \* the table: what each rowid holds
  cursor,  \* of each reader: the rowid it has come to
  seen,    \* of each reader: the rows it has returned in this pass, and those at
           \* which a copy of a field has thrown (history)
  steady   \* of each reader: the table has not changed in this pass (history)

vars == <<kind, handle, this, key, val, given, whose, rows, cursor, seen, steady>>

Kinds == {"none", "updater", "remover", "reader"}

(* "own"    those it was made or reset with
   "lost"   none: it was reset where it had been moved to, and bound elsewhere
   "alien"  those of a remover that was reset where it had been moved to       *)
Owners == {"own", "lost", "alien"}

Passes == [returned : SUBSET Rowids, skipped : SUBSET Rowids]
NothingSeen == [returned |-> {}, skipped |-> {}]

------------------------------------------------------------------------------
(* Binding: format_expression numbers the parameters in the order it meets   *)
(* them, an updater's SET values first.                                     *)

KeyParam(k) == IF k = "updater" THEN 2 ELSE 1

(* Faulty variant: SET and WHERE parameters both start at one. *)
BindAllFromOne(h, k) ==
  IF k = "updater" THEN Bind(BindNullable(h, 1, val), 1, key) ELSE Bind(h, 1, key)

BindAll(h, k) ==
  IF k = "updater" THEN Bind(BindNullable(h, 1, val), 2, key) ELSE Bind(h, 1, key)

(* What an object takes of the variables when it is made or reset: NULL in place of
   one it has no parameter for. *)
Taken(k) == [k |-> key, v |-> IF k = "updater" THEN val ELSE Null]

(* The records a statement with the parameters of h is about, and what it
   makes of them. *)
Selects(k, h, row) == row # NoRow /\ row.k = h.bound[KeyParam(k)]

Effect(k, h) ==
  [r \in Rowids |-> IF ~Selects(k, h, rows[r]) THEN rows[r]
                    ELSE IF k = "remover" THEN NoRow
                    ELSE [rows[r] EXCEPT !.v = h.bound[1]]]

(* Another statement changes the table under the readers. *)
Disturb == steady' = [s \in Slots |-> steady[s] /\ rows' = rows]

------------------------------------------------------------------------------
(* transaction::update, remove and select.                                  *)

Make(s, k) ==
  /\ kind[s] = "none"
  /\ kind' = [kind EXCEPT ![s] = k]
  /\ \E h \in {Prepared, Unprepared} : handle' = [handle EXCEPT ![s] = BindAll(h, k)]
  /\ this' = [this EXCEPT ![s] = s]
  /\ given' = [given EXCEPT ![s] = Taken(k)]
  /\ whose' = [whose EXCEPT ![s] = "own"]
  /\ cursor' = [cursor EXCEPT ![s] = 0]
  /\ seen' = [seen EXCEPT ![s] = NothingSeen]
  /\ steady' = [steady EXCEPT ![s] = FALSE]
  /\ UNCHANGED <<key, val, rows>>

(* The object's life ends, whatever may still refer to it. *)
Drop(s) ==
  /\ kind[s] # "none"
  /\ kind' = [kind EXCEPT ![s] = "none"]
  /\ handle' = [handle EXCEPT ![s] = Unprepared]
  /\ this' = [this EXCEPT ![s] = s]
  /\ given' = [given EXCEPT ![s] = Taken("none")]
  /\ whose' = [whose EXCEPT ![s] = "own"]
  /\ cursor' = [cursor EXCEPT ![s] = 0]
  /\ seen' = [seen EXCEPT ![s] = NothingSeen]
  /\ steady' = [steady EXCEPT ![s] = FALSE]
  /\ UNCHANGED <<key, val, rows>>

(* The implicit move constructor, and the move assignment to an object of the same
   class, which an updater lacks (its std::function is const): the statement_ptr
   moves, the std::function is moved or copied together with the "this" in it. *)
Move(s, d) ==
  /\ Moves
  /\ s # d /\ kind[s] # "none"
  /\ kind[d] = "none" \/ (kind[d] = kind[s] /\ kind[s] # "updater")
  /\ kind' = [kind EXCEPT ![d] = kind[s]]
  /\ handle' = [handle EXCEPT ![d] = handle[s], ![s] = Unprepared]
  /\ this' = [this EXCEPT ![d] = IF kind[s] = "remover" THEN this[s] ELSE d, ![s] = s]
  /\ given' = [given EXCEPT ![d] = given[s]]
  /\ whose' = [whose EXCEPT ![d] = whose[s], ![s] = "own"]
  /\ cursor' = [cursor EXCEPT ![d] = cursor[s], ![s] = 0]
  /\ seen' = [seen EXCEPT ![d] = seen[s], ![s] = NothingSeen]
  /\ steady' = [steady EXCEPT ![d] = steady[s], ![s] = FALSE]
  /\ UNCHANGED <<key, val, rows>>

(* The application assigns to its variables. *)
Assign(k, v) ==
  /\ key' = k
  /\ val' = v
  /\ UNCHANGED <<kind, handle, this, given, whose, rows, cursor, seen, steady>>

------------------------------------------------------------------------------
(* updater::reset and remover::reset.                                       *)

Prepares(s) == handle[s].state # "null"

(* Faulty variant: a statement is bound without having been reset. *)
ResetUpdaterInPlace(s) ==
  /\ kind[s] = "updater"
  /\ Prepares(s)
  /\ handle' = [handle EXCEPT ![s] = BindAll(@, "updater")]
  /\ given' = [given EXCEPT ![s] = Taken("updater")]
  /\ whose' = [whose EXCEPT ![s] = "own"]
  /\ UNCHANGED <<kind, this, key, val, rows, cursor, seen, steady>>

(* _update_bindings is given the statement it binds. *)
ResetUpdater(s) ==
  /\ kind[s] = "updater"
  /\ Prepares(s)
  /\ handle' = [handle EXCEPT ![s] = BindAll(Reset(@), "updater")]
  /\ given' = [given EXCEPT ![s] = Taken("updater")]
  /\ whose' = [whose EXCEPT ![s] = "own"]
  /\ UNCHANGED <<kind, this, key, val, rows, cursor, seen, steady>>

(* What the "this" of a remover refers to: the object it was made as, or one made
   in its place; with none there, whatever that memory holds, any statement or none. *)
Targets(s) == IF kind[this[s]] # "none" THEN {this[s]} ELSE Slots

(* _reset_bindings binds what is where the object was made, wherever it is called. *)
ResetRemover(s) ==
  /\ kind[s] = "remover"
  /\ Prepares(s)
  /\ \E d \in Targets(s) :
       LET after == [handle EXCEPT ![s] = Reset(@)]
       IN  /\ handle' = [after EXCEPT ![d] = BindAll(@, "remover")]
           /\ whose' = [e \in Slots |->
                          IF e = s THEN IF d = s THEN "own" ELSE "lost"
                          ELSE IF e = d /\ after[d].state = "ready" THEN "alien"
                          ELSE whose[e]]
  /\ given' = [given EXCEPT ![s] = Taken("remover")]
  /\ UNCHANGED <<kind, this, key, val, rows, cursor, seen, steady>>

------------------------------------------------------------------------------
(* updater::execute and remover::execute.                                   *)

Writes(s) == kind[s] \in {"updater", "remover"} /\ Prepares(s)

Execute(s) ==
  /\ Writes(s)
  /\ rows' = Effect(kind[s], handle[s])
  /\ handle' = [handle EXCEPT ![s] = Step(@, "halted")]
  /\ Disturb
  /\ UNCHANGED <<kind, this, key, val, given, whose, cursor, seen>>

(* SQLITE_BUSY, before the write or at its own commit. *)
ExecuteThrows(s) ==
  /\ Writes(s)
  /\ \E state \in {"stalled", "halted"} : handle' = [handle EXCEPT ![s] = Step(@, state)]
  /\ UNCHANGED <<kind, this, key, val, given, whose, rows, cursor, seen, steady>>

------------------------------------------------------------------------------
(* reader::operator(): execute, and read_field if there is a row.           *)

Reads(s) == kind[s] = "reader" /\ Prepares(s)

(* A pass over the table starts with the first call, and with the next one
   after the end of the last. *)
Starting(s) == handle[s].state # "row"

Ahead(s) == {r \in Rowids : /\ r > (IF Starting(s) THEN 0 ELSE cursor[s])
                            /\ Selects("reader", handle[s], rows[r])}

SoFar(s) == IF Starting(s) THEN NothingSeen ELSE seen[s]

(* Faulty variant: execute() is called more than once for one row. *)
GoesToAnyRow(s, r) ==
  /\ cursor' = [cursor EXCEPT ![s] = r]
  /\ steady' = [steady EXCEPT ![s] = @ \/ Starting(s)]
  /\ handle' = [handle EXCEPT ![s] = Step(@, "row")]
  /\ UNCHANGED <<kind, this, key, val, given, whose, rows>>

GoesTo(s, r) ==
  /\ \A q \in Ahead(s) : r <= q
  /\ cursor' = [cursor EXCEPT ![s] = r]
  /\ steady' = [steady EXCEPT ![s] = @ \/ Starting(s)]
  /\ handle' = [handle EXCEPT ![s] = Step(@, "row")]
  /\ UNCHANGED <<kind, this, key, val, given, whose, rows>>

ReturnsRow(s) ==
  /\ Reads(s)
  /\ \E r \in Ahead(s) :
       /\ GoesTo(s, r)
       /\ seen' = [seen EXCEPT ![s] = [SoFar(s) EXCEPT !.returned = @ \cup {r}]]

(* read_field throws when there is no memory for a text: the reader stays at the row,
   and what it does next does not depend on that. *)
ReadFieldThrows(s) ==
  /\ Reads(s)
  /\ \E r \in Ahead(s) :
       /\ GoesTo(s, r)
       /\ seen' = [seen EXCEPT ![s] = [SoFar(s) EXCEPT !.skipped = @ \cup {r}]]

ReturnsFalse(s) ==
  /\ Reads(s)
  /\ Ahead(s) = {}
  /\ cursor' = [cursor EXCEPT ![s] = 0]
  /\ seen' = [seen EXCEPT ![s] = NothingSeen]
  /\ steady' = [steady EXCEPT ![s] = FALSE]
  /\ handle' = [handle EXCEPT ![s] = Step(@, "halted")]
  /\ UNCHANGED <<kind, this, key, val, given, whose, rows>>

(* SQLITE_BUSY, possible while no row has been read. *)
ReaderThrows(s) ==
  /\ Reads(s)
  /\ Starting(s)
  /\ handle' = [handle EXCEPT ![s] = Step(@, "stalled")]
  /\ UNCHANGED <<kind, this, key, val, given, whose, rows, cursor, seen, steady>>

------------------------------------------------------------------------------
(* An inserter of the connection adds a record. *)
AddRow(row) ==
  /\ \E r \in Rowids : /\ \A q \in Rowids : q >= r => rows[q] = NoRow
                       /\ r > 1 => rows[r - 1] # NoRow
                       /\ rows' = [rows EXCEPT ![r] = row]
  /\ Disturb
  /\ UNCHANGED <<kind, handle, this, key, val, given, whose, cursor, seen>>

Init ==
  /\ kind = [s \in Slots |-> "none"]
  /\ handle = [s \in Slots |-> Unprepared]
  /\ this = [s \in Slots |-> s]
  /\ key \in Keys
  /\ val \in Vals \cup {Null}
  /\ given = [s \in Slots |-> Taken("none")]
  /\ whose = [s \in Slots |-> "own"]
  /\ rows = [r \in Rowids |-> NoRow]
  /\ cursor = [s \in Slots |-> 0]
  /\ seen = [s \in Slots |-> NothingSeen]
  /\ steady = [s \in Slots |-> FALSE]

Next ==
  \/ \E s \in Slots : \/ \E k \in Kinds \ {"none"} : Make(s, k)
                      \/ \E d \in Slots : Move(s, d)
                      \/ Drop(s)
                      \/ ResetUpdater(s) \/ ResetRemover(s)
                      \/ Execute(s) \/ ExecuteThrows(s)
                      \/ ReturnsRow(s) \/ ReadFieldThrows(s)
                      \/ ReturnsFalse(s) \/ ReaderThrows(s)
  \/ \E k \in Keys, v \in Vals \cup {Null} : Assign(k, v)
  \/ \E row \in Records : AddRow(row)

Spec == Init /\ [][Next]_vars

------------------------------------------------------------------------------
(* Correctness. *)

(* Type invariant of the statement objects, the variables and the table. *)
TypeOK ==
  /\ kind \in [Slots -> Kinds]
  /\ handle \in [Slots -> Handles]
  /\ this \in [Slots -> Slots]
  /\ key \in Keys
  /\ val \in Vals \cup {Null}
  /\ given \in [Slots -> Records]
  /\ whose \in [Slots -> Owners]
  /\ rows \in [Rowids -> Rows \cup {NoRow}]
  /\ cursor \in [Slots -> 0..MaxRow]
  /\ seen \in [Slots -> Passes]
  /\ steady \in [Slots -> BOOLEAN]

BoundTo(k, g) == [i \in Params |-> IF i = KeyParam(k) THEN g.k ELSE g.v]

(* A statement is bound to what the application's variables were when the object
   was made or last reset: not to what they have become since, to nothing left
   from before, and NULL where a nullable had no value; a move keeps that.
   It is otherwise only after a remover has been reset where it has been moved to: it
   is bound to nothing then, and the object that is where it was made, if that has
   been made or reset and not executed since, to what was meant for the remover
   (update.h 69-78, 94-99, 126-129, remove.h 58-67). *)
BoundAsGiven ==
  \A s \in Slots :
    kind[s] # "none" /\ Prepares(s) =>
      /\ whose[s] = "own"  => handle[s].bound = BoundTo(kind[s], given[s])
      /\ whose[s] = "lost" => handle[s].bound = Unbound

Concerns(s, row) == row # NoRow /\ row.k = given[s].k

(* An updater or a remover changes no record but those its variables named when they
   were last taken, whatever has been moved, assigned, dropped, reset or has failed
   before; lost parameters make it do less, never more.  It is otherwise only when a
   moved remover has been reset since and has bound its own parameters into this very
   statement: then it deletes records that its own variables never named
   (remove.h 58-67). *)
LeavesTheRest ==
  [][\A s \in Slots :
       Execute(s) /\ whose[s] # "alien" =>
         \A r \in Rowids : Concerns(s, rows[r]) \/ rows'[r] = rows[r]]_vars

(* A reader comes to no record twice, and when it returns false it has returned
   every record that matches, but for those at which a copy of a field has thrown, if
   nobody has changed the table since its pass began; a record it has thrown at does
   not come again (select.h 42, 147-149; README.md 57).  A reader that a moved remover
   has bound to its own parameters returns every record too, but of those. *)
PassIsExact ==
  [][\A s \in Slots :
       /\ (ReturnsRow(s) \/ ReadFieldThrows(s)) /\ ~Starting(s) =>
            cursor'[s] \notin seen[s].returned \cup seen[s].skipped
       /\ ReturnsFalse(s) /\ (Starting(s) \/ steady[s]) /\ whose[s] # "alien" =>
            SoFar(s).returned \cup SoFar(s).skipped
              = {r \in Rowids : Concerns(s, rows[r])}]_vars

(* DatabaseTests.cpp 918 calls it that a statement that has been reset is executed
   with the new parameters; the test shows it for a remover. *)
ResetStatementIsExecutedWithNewParameters ==
  [][\A s \in Slots :
       Execute(s) /\ kind[s] = "remover" =>
         \A r \in Rowids : Concerns(s, rows[r]) => rows'[r] = NoRow]_vars
==============================================================================
