# sql2++ in TLA+

sql2++ is a header-only C++ library over SQLite: transactions, statements that
are made through them (inserter, updater, remover, reader), expressions for
their WHERE clauses, and nullable fields. This directory holds TLA+ models of
it, TLC configurations that check them on small instances, and TLAPS proofs of
what holds for every instance. Paths below are relative to `src/sql2++` unless
they start otherwise.

To run a model: `tlc -config TransactionsSafety.cfg MCTransactions`. To check
proofs: `tlapm Transactions_proofs.tla`.

## The system

| component | state | operations | what makes it correct |
|---|---|---|---|
| `transaction` (database.h) | `_connection` (shared), `_comitted`; SQLite's transaction and lock on that connection | constructor (`BEGIN ...`), destructor (`ROLLBACK` unless committed, errors swallowed), `commit`, factories of statements, `count` | an object is one atomic unit; nobody else's uncommitted changes are seen; nothing is left locked or open when calls throw; waiting ends |
| connection, `statement_ptr` (misc.h) | a SQLite handle; a prepared statement or null | `create_connection`, `create_statement`, finalization | statements end before, or with, what they depend on |
| `statement` (statement.h) | where SQLite's statement is in prepare/bind/step/reset; its bound parameters | `bind`, `execute`, `reset`, `get` | what is executed is what was bound |
| `inserter` (insert.h, binding.h) | a statement and the connection | `operator ()`: bind fields, execute, read the id, reset | each item is stored whole, and gets the id of its own row |
| `updater`, `remover` (update.h, remove.h) | a statement and a function that binds its parameters again | constructor, `execute`, `reset`, implicit move construction and (remover) assignment | the parameters are those of the last reset, in the right places |
| `reader` (select.h) | a statement | `operator ()`: execute, read a record | each record once per pass |
| expressions (expression.h, format.h, binding.h) | none: trees of operators, columns and references to variables | formatting, binding | both walks agree on every parameter |
| `nullable<T>` (nullable.h) | a buffer and a flag | construction, copies, assignments, `and_then`, destruction | the flag tells whether an object is alive |
| value conversions (statement.h, select.h) | none | `bind` and `field_accessor` of integers, reals, texts, NULL | what is bound and read back is the same value; equality and order survive |
| descriptions (visitor.h, types.h, binding.h, format.h) | none | lists of columns, binders, readers of records and tuples | columns, parameters and fields are paired, although separate walks pair them |
| table definitions and orders (format.h) | SQLite's schema | `create_table` with `unique`, `primary`, `foreign`; `order_by` | keys hold, no NULL gets where no field can hold it, records come in the order asked for |

Interaction: an application makes a connection and hands it, shared, to any
number of `transaction` objects; these make statements, which keep only the raw
connection and stay usable after the object has committed or gone. All
concurrency is between connections, in SQLite's locks on the one file: a call
that meets a lock waits in the busy handler for `timeout_ms` and then throws.
Every call may throw, between any two steps of an operation, and some errors end
the transaction behind the library's back: SQLite rolls it back by itself. Objects hold
references to the application's variables and are moved about.

Hard, therefore: the interleaving of connections at every call; the order of
`COMMIT` and `_comitted`; constructors and destructors that fail; statements
that have thrown and are used again; values that are bound by reference, not
bound at all, or bound to whatever stands where an object has been moved from; two recursions that
must number parameters in the same way; walks over a description, written apart,
that must count alike; conversions at the ends of their ranges; copies that
throw in the middle of an assignment or of a record. The hazards are listed one by one in PROJECT.json.

## Modules

| module | models |
|---|---|
| `ChangeSets` | items of a table, and sets of changes to them |
| `AtomicStore` | what transaction objects promise: changes that reach the store all at once or not at all |
| `Transactions` | `class transaction` over connections that share a file, with the locks its statements hold |
| `StatementHandle` | `class statement` as operators on one handle; no state of its own |
| `Inserters` | `inserter`, as `insert` and `upsert` make it |
| `BoundStatements` | `updater`, `remover`, `reader`: bound by reference, reset, moved |
| `Expressions` | formatting and binding of expressions and of `update_builder`'s SET clauses, and how SQLite reads the result |
| `Nullables` | `nullable<T>` |
| `Conversions` | what `bind` and `get` make of values, and how they compare; no state |
| `Descriptions` | the application's types as `describe` tells them, and the lists and definitions the visitors make of them; no state |
| `RecordStore` | what tables promise to an application that sees records only |
| `Records` | tables behind record types: `create_table`, `insert`, `upsert`, `update`, `remove`, `select`, `count` |
| `MC...` | the instances for TLC: constants are in the `.cfg` files, symmetry in the module |
| `..._proofs` | the theorems |

### Transactions

A call of the library is not atomic: it starts with an *issue* action
(`Construct`, `Write`, `Read`, `Commit`) that puts it in `call[c]`, may take a
lock and wait (`BeginPending`, `WritePending`, `CommitPending`), and ends with
an action that returns or throws. Between these the other connections run. The
application's side is `Application(c)`, the library's and SQLite's `Library(c)`:
`Answers(c)` and the two failures below.

| code | actions |
|---|---|
| `transaction::transaction` 89-96 | `Construct`, then `BeginDone`, `BeginNested` (a transaction is open already: throws), `BeginBusy` (throws) |
| `transaction::~transaction` 98-107 | `Destroy`, of the object and, under `Scoped`, of the statements made in its scope before it |
| `transaction::commit` 183-187 | `Commit`, then `CommitDone`, `CommitBusy`, `CommitRefused` |
| a writing statement's `execute` | `Write`, then `WriteDone` (in a transaction, or beside a stalled statement), `WriteThrough` or `WritePending` and `WriteCommitted` (without: SQLite commits it), `WriteBusy`, `WriteUndone`, `WriteFails` |
| a reading statement's `execute`, `count` | `Read`, then `ReadDone`, `ReadBusy` |
| a statement is reset, exhausted or destroyed | `CloseReader`, `DropWriter` |
| `statement::execute` 97-105 of any of them, with another error | `TransactionFails` |

`disk` is the committed content, `work[c]` what a connection with a lock works
on, `delta[c]` what it has changed, `owner[c]` the object whose `BEGIN` opened the
transaction SQLite has open on c, `NoTx` if `sqlite3_get_autocommit` says there is
none; `reader[c]` and `writer[c]` are the statements still active. One statement
of each sort is kept active per connection; more add no other lock. Any number of
others may be called beside them. An item is told apart by identity: a write puts
it in or takes it out, and which it does is told when it does it.

`execute` throws on any code but ROW and DONE. What a caller can tell apart of
these errors is what SQLite has undone and which locks are left:

* SQLITE_BUSY: the `...Busy` actions, `WriteUndone` at a write's own commit;
* an error of one statement, a constraint say, which undoes this statement only:
  `WriteFails`;
* no memory, a full disk, an I/O error: SQLite may undo the whole transaction and
  go back to autocommit (`TransactionFails`). The object is still there and not
  committed. What is written through it from then on is durable call by call, and
  its `commit` is refused (`CommitRefused`);
* a statement that cannot be prepared changes nothing. That matters in one place,
  the `ROLLBACK` of the destructor, which may come to nothing there (`Destroy`).

A writing statement that is stalled by SQLITE_BUSY is still active, and outside a
transaction SQLite commits nothing before the last active writer ends. Another
write beside it returns, but is not durable (`CommitsItself`), and goes with it
when the stalled one is dropped (`DropWriter`).

Locks are SQLite's NONE < SHARED < RESERVED < PENDING < EXCLUSIVE of the
rollback journal, the default of the databases `create_connection` makes.
SQLite is not in the repository; its rules are taken from what `sqlite3_step`
returns to `statement::execute`. They were compared with libsqlite3 3.40.1 by
random runs of three connections, 620,000 steps in all, with second
writers beside stalled ones, constraints that fail, and 29,000 faults (full
disks, I/O errors of each file operation), on return codes, lock states,
autocommit and contents after each step. A few of these rules surprise, and the
properties depend on them: a connection that reads and is to write while another
is about to write is refused at once, without waiting (`RefusedAtOnce`);
`BEGIN IMMEDIATE` takes its lock before it is refused as nested; a refused
`COMMIT` keeps PENDING; a `ROLLBACK` that could be prepared does not fail with a
transaction open.

Constants that choose what may happen: `Faults` (the three above that are not
locks: `"statement"`, `"transaction"`, `"rollback"`), `Scoped` (a connection has
one object at a time, and statements end in its scope, as in all of the
repository's examples), `TimeoutsExpire` (a wait may end in an exception).

### Inserters, BoundStatements, StatementHandle

A handle has a state and bound parameters. `Bind` is lost unless the statement
has just been prepared or reset, since SQLite answers SQLITE_MISUSE and `bind`
drops the answer; `BindNullable` does nothing for a nullable without a value;
`Reset` clears the bindings. A handle may be `"null"`: `create_statement` does
not look at the result of the preparation.

`Inserters` has one table with an identity, a unique column and a nullable one,
and calls an object through each way out of `execute`: without a statement
(`CallUnprepared`), SQLITE_BUSY before the write (`CallBusy`) or at its own
commit (`CallUndone`), a constraint (`CallClashes`), an inserted row
(`CallInserts`), an updated one (`CallUpdates`). `Throws` is what the code
does then: neither the id is read nor the statement reset. Two consequences
no document speaks of: an inserter refused for a constraint is refused again
for the same item, whatever it is called with; and an upsert that updates a
row gives its item the id of the row inserted last.

`BoundStatements` has the application's variables `key` and `val`, to which
objects refer and which change at any time (`Assign`); `this[s]` is the
`this` that a remover's `_reset_bindings` has captured (remove.h 60). A `Move`,
to a free place or over an object of the same class, takes it along unchanged, and
a place that an object has left may get another (`Make`). So `ResetRemover`
binds one of `Targets`: the object that is where the remover was made, whichever
that is by now, or, if there is none (undefined behaviour), any statement or none.
`whose[s]` remembers whose parameters the statement at s has: its `"own"`, none
(`"lost"`), or those of a remover that was reset elsewhere (`"alien"`).
`BoundAsGiven` says what is bound in the first two cases, `LeavesTheRest` that
only in the third other records are changed than the variables named. The third
happens: a remover moved away and reset rebinds the remover made in its old place,
if that was not executed since, which then deletes records its own variables never
named. It was seen in the compiled code as well.

Readers go through the table by rowid, and start
a new pass when they are called after its end. A call reads a row after it has
stepped to it, and the copy of a field may throw (`ReadFieldThrows`): the next
call then goes on behind that row. `PassIsExact` therefore speaks of the rows a
pass has come to, returned or not: none twice, and none left out of those that
matched all the time.

### Conversions, Descriptions, Records, RecordStore

A text of SQL is kept as the structure it spells: a list of columns, a set of
tests, a table definition. The alias of a table, the brackets and the wording
are not there; how expressions are spelled and read back is in `Expressions`.

`Conversions` has `Stored`, what a column holds of a value, and `Fetched`, what
a field gets of a column. SQLite's integers are signed, and 32-bit ones are
bound with `sqlite3_bind_int`, so an unsigned value with its highest bit set is
stored negative. A text ends at its first NUL, and a NaN becomes NULL. `Kept` is
the composition of both as the application sees it.

`Descriptions` takes the types as the constant `Describe`, in the order
`describe` tells them, and translates the visitors: `AllColumns` and
`RegularColumns` (visitor.h), `ColumnDefinition`, `KeyConstraints`,
`ForeignKeys`, `FormatCreateTable` (format.h).

| code | in `Records` |
|---|---|
| `create_table` database.h 109-116 | `CreateTable`, `CreateTableAgain` (throws) |
| `insert`, `upsert` 151-168, 201-219, `inserter::operator ()` | `Insert`, `InsertThrows` (a constraint); `Upsert`, `UpsertThrows` for a conflict, without which an upsert is an insert |
| `field_binder`, `identity_binder` binding.h 31-76 | `BindFields`, by counting the fields that are no identity; `BindIdentity` |
| `update`, `remove` 170-181 | `Update`, `UpdateThrows`, `RemoveWhere` |
| any of them without a table | `NotPrepared` |
| `select`, `count`, `format_select_list`, `format_order`, `record_reader` | operators: `SelectList`, `Combinations`, `Matches`, `FormatOrder`, `Before`, `ReadField`, `Count` |

A list of columns, a list of parameters and the fields of a record are paired by
position only, in walks written in different files. `Records` keeps these walks
apart; `RecordStore` has none of them, only records, keys and conditions over
fields, and the mapping `Store` reads each row as a record. `ReadsTheRecords`
and `OrderedAsAsked` compare every query of `Queries`, alone or joined, with
what the store says: SQL's order with that of C++ below the sign bit, and SQL's
equality with that of C++ (`Holds`), under which two nullables without a value
are equal (nullable.h 194-196), with one exception: a condition that compares a
nullable without a value (`ComparesEmpty`) finds nothing in SQL, `==` and `!=`
alike, where C++ finds it equal or different. No text of the repository says
which of the two a query follows.

An upsert that replaces a record is told the rowid inserted last, which need not
be that of the record: `AReplace` promises no more.

### Expressions

Expressions are trees as the operators of expression.h build them: `Levels` is a
sequence of sets of them, each made of those before it (`BuiltOf`), as deep as
one likes. `Format` and `BindParameters` are the two recursions of the code, over
a tree and an index that is passed by reference (here: returned), written as
recursive functions. `ParamsAssumption` says that no statement has more
parameters than SQLite takes, which nothing in the code checks. `AddSet`, `AddWhere` and
`Create` are the steps of `update_builder`; `chain` is the function that grows
in `_update_bindings`. The properties read the text back the way SQLite does:
a named parameter gets the index of its first occurrence, and brackets are
reduced by a stack; the result must be the tree the application wrote down.

### Nullables

`buffer[c]` is the object alive in the buffer or `Raw`, `flag[c]` is
`_has_value`. An assignment destroys before it constructs, and the
construction may throw: `AssignFromThrows` (137-144: the flag is cleared first)
and `AssignThrows` (147-154: it is not). Reading a buffer without an object
yields anything.

## Runs

| run | states | shows |
|---|---|---|
| `TransactionsSafety` | 681,312 | `TypeOK`, `OwnView`, `SingleWriter`, `TransactionHasItsObject`, `NothingHeldAtRest`, `NoWaitCycle`, `ImplementsAtomicStore` |
| `TransactionsProgress` | 62,106 | `LocksAreReleased`, `CommitEnds` |
| `InsertersSafety` | 9,661 | `TypeOK`, `CleanUnlessThrown`, `StoredAsGiven`, `IdNamesTheNewRow` |
| `BoundStatementsSafety` | 786,118 | `TypeOK`, `BoundAsGiven`, `LeavesTheRest`, `PassIsExact` |
| `ExpressionsSafety` | 74,803 | `TypeOK`, `ConditionReadsBack`, `SetsReadBack` |
| `RecordsSafety` | 1,486 | `TypeOK`, `NullOnlyWhereNullable`, `KeysAreKept`, `ReadsTheRecords`, `OrderedAsAsked`, `ImplementsRecordStore` |
| `NullablesSafety` | 1,296 | `TypeOK`, `FlagTellsTheTruth` |

Runs that end in a counterexample, each of a sentence the repository says:

| run | property | what happens |
|---|---|---|
| `TransactionsReadme` | `CommitIsNotRefused` | the quick reference commits one object twice; the second `COMMIT` has no transaction and throws |
| `InsertersAfterBusy` | `ReuseStoresTheItem` | reused after SQLITE_BUSY, an inserter stores the item of the failed call |
| `BoundStatementsMoved` | `ResetStatementIsExecutedWithNewParameters` | a remover moved and then reset deletes nothing |
| `RecordsCascade` | `EmployeesGoWithTheirCompany` | a company is removed and its employee stays: the DDL has the `ON DELETE CASCADE`, and no connection switches foreign keys on |
| `NullablesAfterThrow` | `ContainedObjectLifetimeIsGuarded` | an assignment that throws leaves a nullable that will destroy its object again |

### Bounds, and why they are enough

* `TransactionsSafety`: two connections, two items, two transaction objects.
  Conflicts of locks are between two connections (all that one asks of the
  others is the highest lock among them); two objects are one on each
  connection, or two nested or one after the other on one; two items, so that
  a change set can be half visible. Cycles of three connections are not in this
  run; the theorems hold for any number. `Faults` is everything.
* `InsertersSafety`: an inserter and an upserter, two keys, a value and NULL,
  three rowids: a row can be taken out and its rowid given again.
* `BoundStatementsSafety`: two places, so that a remover can be moved and
  another object made where it was, which it then binds; two keys, two rows.
* `ExpressionsSafety`: a column and two objects, up to three tests, up to two
  SET clauses: nesting on the left and on the right, and eight parameters
  show any drift of the index.
* `RecordsSafety`: 2^31 and 2^63 are scaled to `Half32` = 4 and `Half64` = 16:
  a `uint32` of 6 is above the sign bit and one of 1 below. A company has its
  identity between other fields, so that a walk that fails to pass it by is off
  by one; a text with a NUL behind it; a nullable double that may be NaN; two
  unique keys, so that an upsert can clash with two records. An employee has no
  identity and a primary key of two columns, one of which refers to a company.
  `MaxRow` = 2 rows per table are enough for a clash, for a pair to be ordered
  and for a join to find one row and not the other. Twelve queries join up to
  three tables, order by one or two columns in both directions, and compare
  texts, reals, identities, unsigned values, and nullables that are empty, with NULL
  and with each other. No field has 64 bits unsigned;
  the theorems of `Conversions_proofs` hold for each width.
* `NullablesSafety`: an assignment involves two objects; four of them, with three
  contents leave room for copies of copies.

The bounded counters are `MaxRow` and `MaxSets`; there are no others. Symmetry
is used for connections, objects, items, keys and places, never in the run with
liveness. Deadlock is checked in every run.

### Fairness

`FairSpec` asks weak fairness of `Answers(c)`, because a call in the busy
handler sleeps and tries again until its timeout, and strong fairness of
`Destroy`: control reaches the end of a transaction's scope some time, with
as many calls before as it likes. No failure is fair: `WriteFails` and
`TransactionFails` may happen, and nothing rests on their happening. Without
`Scoped` nothing is promised: a statement kept by the application after an
exception keeps its lock for as long as it lives. Nor is anything without a
`ROLLBACK` that can be prepared, so `Faults` leaves `"rollback"` out. Progress is
checked with `TimeoutsExpire` false, so `CommitEnds` does not rest on giving up.

## Proofs

All theorems hold for every value of the constants that satisfies the
assumptions in the modules (names that differ, switches of the kinds there are,
values that include the contents of columns, descriptions that say each field
and column once).

* `Transactions_proofs`: `TypeCorrect`, `OwnViewHolds`, `SingleWriterHolds`,
  `NoWaitCycleHolds`.
  `OwnView` is not inductive: when one connection commits, the others must be
  shown to have no lock, and so no stale view, or the content must not change.
  `PageInv` adds that RESERVED and above are held by one connection
  (`ReservedIsExclusive`), that a connection with changes holds it
  (`ChangesAreLocked`), and that a write outside a transaction ends with its
  call, if no stalled statement holds it back (`WritesEndWithTheirCall`).
  That nobody waits in a circle follows from it without another invariant.
  `NothingHeldAtRestHolds` is by `RestInv`, about the lock a call started from;
  what it says of changes in hand is in `PageInv` already.
  `TransactionHasItsObjectHolds` is by `ObjectInv`: a call of `BEGIN` or `COMMIT`
  belongs to an object of its connection (`CallInv`), and the owner of an open
  transaction is one that is not committed (`OwnerInv`): a commit marks an
  object and ends the transaction in one step, whoever had opened it.
  `TransactionsAreAtomic` says that `Transactions` implements `AtomicStore`, from
  `MapInv`, which is all of these. Each action maps to an action of the store or
  to a stutter: that nobody else has changes in hand comes from `PageInv`; `WrittenInv`
  says that a write that waits for its own commit has its change in hand, so that
  committing it is one step of the store. None of these
  theorems needs an assumption on what the application calls or on what fails.
* `Inserters_proofs`: `CleanUnlessThrownHolds` is the inductive core;
  `StoredAsGivenHolds` and `IdNamesTheNewRowHolds` are action properties that
  follow from it.
* `BoundStatements_proofs`: `BoundAsGivenHolds` and `LeavesTheRestHolds`, by
  `BoundInv`: what is bound is told by `whose`, place by place, whatever the
  captured `this` refers to; lost parameters are none, so they do less and never
  more.
  `PassIsExactHolds` is by `PassInv`: where a reader is, and what it has come to
  before it, in the order of rowids.
* `Nullables_proofs`: `CellsTypeCorrect`, `FlagTellsTheTruthHolds`, by `CellInv`.
* `Conversions_proofs`: of integers of any two widths, `RoundTrip`,
  `EqualityKept`, `OrderKept` (below the sign bit) and `IdentityTold`, from the
  arithmetic of `Low` and `Wrap`, the low bits of a number and what they are with
  a sign.
* `Records_proofs`: for any types, descriptions, items and number of rows.
  `TypesHold`, `NullOnlyWhereNullableHolds` and `KeysAreKeptHolds` by `Inv`,
  which says of each table that it has its type's definition, that SQLite may
  accept its rows under it, and that each cell is of its column's type and the
  identity's is the rowid (`TableInv`, `RowInv`). The refinement rests on the last
  part: a new row, under a new rowid, can clash with another only in fields it
  was given (`ClashingAgrees`).
  `RecordsImplementRecordStore`: `InRow` shows that lists, parameters and fields
  agree by position, because a walk past the identity meets each other field
  once (`OrdinalOnce`); `EqualParameter` that a condition in SQL and in C++ find
  the same records, but for comparisons of what is empty; one lemma per call (`InsertSimulated` ...) puts them
  together. `OrderedAsAskedHolds`: below the sign bit a cell is read as what it
  holds (`ReadAsStored`), so both orders compare the same.
  `ReadsTheRecordsHolds`: the columns of a select list are those of its types one
  after another (`Flattened`), and the reader of each type starts where the one
  before has ended (`Starts`), so each cell is read from its own column
  (`CellRead`); what is compared is stored equal exactly if it is equal,
  unless it is empty (`SelectsSelected`).
  Assumed are `DescriptionsAssumption`, `ItemsAssumption` (records are of their
  types), `RowsAssumption` (rowids fit the type of the identity: nothing in the
  code sees to it, SQLite counts to 2^63 - 1) and `QueriesAssumption` (queries
  name fields there are, compare a field with a value of its type or NULL, and
  join fields of one type, as their C++ types make them do).
* `Expressions_proofs`: for expressions of any depth, any number of SET clauses and
  all objects. Both walks are shown to be what their equations say
  (`FormatEquation`, `BindEquation`). `FormatNumbered`: the text of an expression
  names its parameters from the index on, one after another, without a gap.
  `BindAgrees`: the other walk ends at the index the text ends at, and changes no
  parameter before or behind. `IndexIsName`: SQLite then gives `:n` the index n,
  although it looks at the order of the names only. `ReadsExpressions`: where the
  text of an expression stands, reading it pushes this very expression, by
  induction over its parts; brackets inside it are closed before its own.
  `UpdateBindingsLinked`: the chain binds the i-th object to the i-th parameter,
  and to no other. The inductive invariant `Inv` says that SET clauses, chain and
  what was asked for go together (`SetsOK`), that the text is that of the
  condition behind them (`WhereOK`), and that what is bound is what the chain
  and the walk bind (`HandleOK`); the properties need all three, since none of
  them mentions the chain or the walk. `TypesHold`, `ConditionIsReadBack` and
  `SetsAreReadBack` follow from it.
* `Recursion_proofs`: what these proofs know of recursion. TLA+ takes a recursive
  function to be a choice among the functions that satisfy an equation, so that
  one exists is to be proved first: `BoundedRecursion`, for steps that look at
  arguments of lower rank only. `RankInduction` and `StrongInduction` are the
  inductions over such ranks and over numbers, stated with the set of what a
  formula holds of in place of the formula.

All safety properties of the runs are thus proved. Left to TLC are the liveness
properties `LocksAreReleased` and `CommitEnds`, which are beyond the prover, and
the runs that end in a counterexample.

## Not modelled

* Updates that set an identity; a primary key of a single column told through
  `primary`, which SQLite would make another name of the rowid.
* Comparisons of fields or values of different types or widths: an unsigned
  field of 32 bits and one of 64 bits store equal values above the sign bit as
  different numbers.
* `nullable<T &>`, a pointer that is never owned.
* Transactions that outgrow SQLite's page cache, which take EXCLUSIVE before they
  commit, and an I/O error that strikes SQLite's own rollback.
* Lifetimes of the application's variables, and of connections: nothing in the
  library orders a connection's end and that of its statements.
* Threads that share one connection, for which the library promises nothing;
  copies of transaction objects, which nothing in the repository makes.
* Journals other than the rollback journal, and crashes of the process, which
  SQLite's journal answers and no code of the library does.
* Types that choose overloads at compile time, and the wording of SQL.

## Plan

1. Done: the modules above.
2. `ConnectionLifetime`: shared connections, statements that do not own them,
   `sqlite3_close` with statements open, once a text says who must outlive whom.
3. `SharedInserters`: `Inserters` over `Transactions`, so that SQLITE_BUSY and
   rollback come from the other connections and not from a free choice.
4. Proofs of what is not in a run yet: that the id an upsert tells is that of the
   row inserted last, for `Records` as well as for `Inserters`.
