--------------------------- MODULE StatementHandle ---------------------------
(***************************************************************************)
(* class statement (statement.h): a prepared SQLite statement, as far as   *)
(* its parameters and its place in the prepare-bind-step-reset cycle go.   *)
(* The rules for the state are those of sqlite3_bind_*, sqlite3_step and   *)
(* sqlite3_reset, whose results class statement mostly drops.              *)
(***************************************************************************)
EXTENDS Naturals

CONSTANTS Values,   \* what a parameter may be bound to
          Null,     \* SQL NULL: an unbound parameter, a nullable without value
          Params    \* the indices of a statement's parameters

ASSUME NullAssumption == Null \notin Values

(* "null"    sqlite3_prepare_v2 failed: there is no statement
   "ready"   prepared or reset: the only state in which binding works
   "row"     the last step has returned a row
   "stalled" the last step has returned SQLITE_BUSY: the next one goes on
   "halted"  the last step has returned SQLITE_DONE or an error: the next one
             starts anew with the parameters as they are                    *)
Handles == [state : {"null", "ready", "row", "stalled", "halted"},
            bound : [Params -> Values \cup {Null}]]

Unbound == [i \in Params |-> Null]

Prepared   == [state |-> "ready", bound |-> Unbound]
Unprepared == [state |-> "null", bound |-> Unbound]

(* bind(index, value): SQLITE_MISUSE outside "ready", which nobody looks at. *)
Bind(h, index, value) ==
  IF h.state = "ready" THEN [h EXCEPT !.bound[index] = value] ELSE h

(* Faulty variant: a nullable without a value is bound as zero. *)
BindNullableAsZero(h, index, value) == Bind(h, index, IF value = Null THEN 0 ELSE value)

(* bind(index, nullable): nothing is bound for a nullable without a value. *)
BindNullable(h, index, value) == IF value = Null THEN h ELSE Bind(h, index, value)

(* Faulty variant: the parameters of the last execution survive a reset. *)
ResetKeepsBindings(h) == [h EXCEPT !.state = "ready"]

(* reset(): sqlite3_reset and sqlite3_clear_bindings. *)
Reset(h) == Prepared

Step(h, state) == [h EXCEPT !.state = state]
==============================================================================
