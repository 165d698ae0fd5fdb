----------------------------- MODULE Transactions -----------------------------
(***************************************************************************)
(* class transaction (database.h) over SQLite connections that share one   *)
(* database file, together with the statements created through it as far   *)
(* as they hold locks or a call open.                                      *)
(*                                                                         *)
(* A connection runs one call at a time.  A call starts with its Issue     *)
(* action (Construct, Write, Read, Commit) and ends with an action that    *)
(* returns or throws; in between it waits in SQLite's busy handler, and    *)
(* the other connections go on.  SQLite is not part of the repository: its *)
(* locks (of the rollback journal) and its errors are modelled from what   *)
(* sqlite3_step returns to statement::execute.  A statement that cannot be *)
(* prepared throws and changes nothing, which needs no action but that of  *)
(* the ROLLBACK in the destructor.                                         *)
(***************************************************************************)
EXTENDS Integers, ChangeSets

CONSTANTS
  Conns,           \* connections made by create_connection for the one file
  Txs,             \* identities of transaction objects
  NoConn,          \* "this transaction object does not exist"
  NoTx,            \* "no transaction object makes this call"
  TimeoutsExpire,  \* whether timeout_ms may run out while a call waits
  Faults,          \* what may go wrong but for locks, see AllFaults
  Scoped           \* whether a connection has one transaction object at a time
                   \* and the statements live and die in the scope of it

AllFaults ==
  {"statement",    \* a write fails and is undone: a constraint, say
   "transaction",  \* no memory, a full disk or an I/O error: SQLite undoes all
   "rollback"}     \* the ROLLBACK of a destructor cannot be prepared

ASSUME NamesAssumption ==
  /\ NoConn \notin Conns
  /\ NoTx \notin Txs

ASSUME SwitchesAssumption ==
  /\ TimeoutsExpire \in BOOLEAN
  /\ Faults \subseteq AllFaults
  /\ Scoped \in BOOLEAN

VARIABLES
  disk,        \* the committed content of the file
  work,        \* of each connection that holds a lock: the content it works on
  delta,       \* of each connection: what it has changed since it began
  lock,        \* of each connection: its lock on the file
  writing,     \* of each connection: it is in a write transaction
  owner,       \* of each connection: the object whose BEGIN opened the
               \* transaction SQLite has open, NoTx if sqlite3_get_autocommit
  reader,      \* of each connection: its reader, "none" or "active" (called and
               \* not at its end, waiting for its first row included)
  writer,      \* of each connection: its inserter, updater or remover, "none"
               \* or "stalled"
  connection,  \* of each transaction object: _connection, NoConn if no object
  committed,   \* of each transaction object: _comitted
  call         \* of each connection: the library call it is running

vars == <<disk, work, delta, lock, writing, owner, reader, writer,
          connection, committed, call>>

NONE      == 0
SHARED    == 1
RESERVED  == 2
PENDING   == 3
EXCLUSIVE == 4
Locks     == NONE..EXCLUSIVE

Modes == {"deferred", "immediate", "exclusive"}   \* transaction::type

Calls ==
  {k \in [op   : {"idle", "begin", "write", "written", "read", "commit"},
          tx   : Txs \cup {NoTx},
          mode : Modes,
          held : BOOLEAN]       \* whether a BEGIN found c with a lock
     : k.op \in {"begin", "commit"} => k.tx \in Txs}

ACall(op, t, m, held) == [op |-> op, tx |-> t, mode |-> m, held |-> held]

Idle == ACall("idle", NoTx, "deferred", FALSE)

Running(c, op) == call[c].op = op

(* The transaction object whose constructor or commit c is running. *)
Current(c) == call[c].tx

(* SQLite has no transaction open on c. *)
AutoCommit(c) == owner[c] = NoTx

(* Faulty variant: lock levels are added up. *)
RaiseSums(level, least) == level + least

Raise(level, least) == IF level >= least THEN level ELSE least

------------------------------------------------------------------------------
(* SQLite's locks.                                                          *)

HeldElsewhere(c, level) == \E d \in Conns \ {c} : lock[d] >= level

(* Faulty variants: a reader does not respect PENDING; a writer does not
   respect RESERVED; a commit does not wait for the readers. *)
ReadsPastPending(c) == lock[c] # NONE \/ ~HeldElsewhere(c, EXCLUSIVE)
ReservesTwice(c)    == lock[c] >= RESERVED \/ ~HeldElsewhere(c, PENDING)

CanRead(c)    == lock[c] # NONE \/ ~HeldElsewhere(c, PENDING)
CanReserve(c) == lock[c] >= RESERVED \/ ~HeldElsewhere(c, RESERVED)

OwnsTooSoon(c) == CanReserve(c)
CanOwn(c)      == CanReserve(c) /\ ~HeldElsewhere(c, SHARED)

(* What c reads: its own pages under a lock, the file when it takes one. *)
View(c) == IF lock[c] = NONE THEN disk ELSE work[c]

(* Faulty variant: the upgrade of a reader waits like any other call. *)
NeverRefused(c) == FALSE

(* A connection that reads already is refused when another is about to write:
   SQLite does not call the busy handler, as the two would wait for each other. *)
RefusedAtOnce(c) == lock[c] # NONE /\ ~CanReserve(c)

GivesUp(c) == TimeoutsExpire \/ RefusedAtOnce(c)

SetLock(c, level, content) ==
  /\ lock' = [lock EXCEPT ![c] = level]
  /\ work' = [work EXCEPT ![c] = IF level = NONE THEN {} ELSE content]

(* A statement of c has ended, those in "active" have not: outside a
   transaction the last one to end gives the lock back. *)
EndStatement(c, active) ==
  SetLock(c, IF AutoCommit(c) /\ ~active THEN NONE ELSE lock[c], work[c])

(* The transaction of c has ended, left "content" in the file and keeps the
   lock "level". *)
EndTransaction(c, content, level) ==
  /\ SetLock(c, level, content)
  /\ disk' = content
  /\ delta' = [delta EXCEPT ![c] = NoChange]
  /\ writing' = [writing EXCEPT ![c] = FALSE]
  /\ owner' = [owner EXCEPT ![c] = NoTx]

Reading(c) == reader[c] # "none"
Stalled(c) == writer[c] # "none"
Active(c)  == Reading(c) \/ Stalled(c)

(* The lock COMMIT and ROLLBACK leave: with a statement still active SHARED,
   or what was held if nothing had been written. *)
Rest(c) == IF ~Active(c) \/ lock[c] = NONE THEN NONE
           ELSE IF writing[c] THEN SHARED ELSE lock[c]

(* The lock a write that commits itself leaves. *)
RestOfWrite(c) == IF Reading(c) THEN SHARED ELSE NONE

Return(c) == call' = [call EXCEPT ![c] = Idle]

------------------------------------------------------------------------------
(* transaction::transaction: BEGIN DEFERRED, IMMEDIATE or EXCLUSIVE.        *)

Exists(t)       == connection[t] # NoConn
Constructing(t) == Exists(t) /\ Current(connection[t]) = t
                   /\ Running(connection[t], "begin")
Open(t)         == Exists(t) /\ ~Constructing(t) /\ ~committed[t]

Construct(t, c, m) ==
  /\ Running(c, "idle")
  /\ ~Exists(t) /\ \A d \in Conns : owner[d] # t
  /\ Scoped => ~Active(c) /\ \A u \in Txs : connection[u] # c
  /\ connection' = [connection EXCEPT ![t] = c]
  /\ committed' = [committed EXCEPT ![t] = FALSE]
  /\ call' = [call EXCEPT ![c] = ACall("begin", t, m, lock[c] # NONE)]
  /\ UNCHANGED <<disk, work, delta, lock, writing, owner, reader, writer>>

(* BEGIN takes its lock before it looks whether a transaction is open. *)
NeedsNoLock(c) == call[c].mode = "deferred" \/ writing[c]

BeginGranted(c) ==
  \/ NeedsNoLock(c)
  \/ call[c].mode = "immediate" /\ CanReserve(c)
  \/ call[c].mode = "exclusive" /\ CanOwn(c)

TakeBeginLock(c) ==
  IF NeedsNoLock(c) THEN UNCHANGED <<lock, work, writing>>
  ELSE /\ SetLock(c, IF call[c].mode = "exclusive" THEN EXCLUSIVE
                     ELSE Raise(lock[c], RESERVED), View(c))
       /\ writing' = [writing EXCEPT ![c] = TRUE]

(* The constructor throws: the object never comes to exist. *)
ConstructorThrows(c) ==
  /\ connection' = [connection EXCEPT ![Current(c)] = NoConn]
  /\ Return(c)

BeginDone(c) ==
  /\ Running(c, "begin")
  /\ BeginGranted(c)
  /\ AutoCommit(c)
  /\ TakeBeginLock(c)
  /\ owner' = [owner EXCEPT ![c] = Current(c)]
  /\ Return(c)
  /\ UNCHANGED <<disk, delta, reader, writer, connection, committed>>

(* "cannot start a transaction within a transaction": the lock stays taken. *)
BeginNested(c) ==
  /\ Running(c, "begin")
  /\ BeginGranted(c)
  /\ ~AutoCommit(c)
  /\ TakeBeginLock(c)
  /\ ConstructorThrows(c)
  /\ UNCHANGED <<disk, delta, owner, reader, writer, committed>>

(* BEGIN EXCLUSIVE waits for the readers of the others to finish. *)
BeginPending(c) ==
  /\ Running(c, "begin")
  /\ ~BeginGranted(c)
  /\ call[c].mode = "exclusive"
  /\ CanReserve(c)
  /\ lock[c] < PENDING
  /\ SetLock(c, PENDING, View(c))
  /\ UNCHANGED <<disk, delta, writing, owner, reader, writer, connection, committed, call>>

(* Faulty variant: the lock BEGIN has waited with is not given back. *)
BeginBusyKeepsLock(c) ==
  /\ Running(c, "begin")
  /\ ~BeginGranted(c)
  /\ (call[c].mode = "exclusive" /\ CanReserve(c)) => lock[c] >= PENDING
  /\ GivesUp(c)
  /\ ConstructorThrows(c)
  /\ UNCHANGED <<disk, work, delta, lock, writing, owner, reader, writer, committed>>

(* SQLITE_BUSY.  A connection that held no lock before holds none after; one
   that did keeps the PENDING lock it has waited with. *)
BeginBusy(c) ==
  /\ Running(c, "begin")
  /\ ~BeginGranted(c)
  /\ (call[c].mode = "exclusive" /\ CanReserve(c)) => lock[c] >= PENDING
  /\ GivesUp(c)
  /\ SetLock(c, IF call[c].held THEN lock[c] ELSE NONE, work[c])
  /\ ConstructorThrows(c)
  /\ UNCHANGED <<disk, delta, writing, owner, reader, writer, committed>>

------------------------------------------------------------------------------
(* inserter, updater and remover: one statement::execute that writes.  A     *)
(* statement is made through a transaction object and may be used when that *)
(* one has committed, or is gone: SQLite then commits the write on its own. *)

(* The stalled statement is called again, or another one is called.  What it
   writes is told when it does. *)
Write(c) ==
  /\ Running(c, "idle")
  /\ Scoped => \E t \in Txs : connection[t] = c
  /\ \E again \in {writer[c], "none"} : writer' = [writer EXCEPT ![c] = again]
  /\ call' = [call EXCEPT ![c] = ACall("write", NoTx, "deferred", FALSE)]
  /\ UNCHANGED <<disk, work, delta, lock, writing, owner, reader, connection, committed>>

Written(c, w) == ApplyWrite(View(c), w)

(* Outside a transaction a write is committed when it ends, but not while
   another writing statement of the connection is active. *)
CommitsItself(c) == AutoCommit(c) /\ ~Stalled(c)

WriteDone(c, w) ==
  /\ Running(c, "write")
  /\ ~CommitsItself(c)
  /\ CanReserve(c)
  /\ SetLock(c, Raise(lock[c], RESERVED), Written(c, w))
  /\ writing' = [writing EXCEPT ![c] = TRUE]
  /\ delta' = [delta EXCEPT ![c] = Record(@, w)]
  /\ Return(c)
  /\ UNCHANGED <<disk, owner, reader, writer, connection, committed>>

(* What is still in hand of other writes is committed with this one. *)
WriteThrough(c, w) ==
  /\ Running(c, "write")
  /\ CommitsItself(c)
  /\ CanOwn(c)
  /\ EndTransaction(c, Written(c, w), RestOfWrite(c))
  /\ Return(c)
  /\ UNCHANGED <<reader, writer, connection, committed>>

(* The write itself is done, the readers of other connections hold its
   commit up. *)
WritePending(c, w) ==
  /\ Running(c, "write")
  /\ CommitsItself(c)
  /\ CanReserve(c) /\ ~CanOwn(c)
  /\ SetLock(c, PENDING, Written(c, w))
  /\ writing' = [writing EXCEPT ![c] = TRUE]
  /\ delta' = [delta EXCEPT ![c] = Record(@, w)]
  /\ call' = [call EXCEPT ![c] = ACall("written", NoTx, "deferred", FALSE)]
  /\ UNCHANGED <<disk, owner, reader, writer, connection, committed>>

(* They have gone, and it is committed. *)
WriteCommitted(c) ==
  /\ Running(c, "written")
  /\ CanOwn(c)
  /\ EndTransaction(c, work[c], RestOfWrite(c))
  /\ Return(c)
  /\ UNCHANGED <<reader, writer, connection, committed>>

(* SQLITE_BUSY before anything is written: the statement is left where it is,
   to go on if it is called again, or dies with the object that held it, as it
   does here if there is a stalled one already. *)
WriteBusy(c) ==
  /\ Running(c, "write")
  /\ ~CanReserve(c)
  /\ GivesUp(c)
  /\ \E w \in IF Stalled(c) THEN {"stalled"} ELSE {"stalled", "none"} :
       /\ writer' = [writer EXCEPT ![c] = w]
       /\ EndStatement(c, Reading(c) \/ w # "none")
  /\ Return(c)
  /\ UNCHANGED <<disk, delta, writing, owner, reader, connection, committed>>

(* SQLITE_BUSY while it commits itself: SQLite rolls everything in hand back. *)
WriteUndone(c) ==
  /\ Running(c, "written")
  /\ ~CanOwn(c)
  /\ TimeoutsExpire
  /\ EndTransaction(c, disk, RestOfWrite(c))
  /\ Return(c)
  /\ UNCHANGED <<reader, writer, connection, committed>>

(* The write fails and is undone, the transaction around it goes on. *)
WriteFails(c) ==
  /\ "statement" \in Faults
  /\ Running(c, "write")
  /\ CanReserve(c)
  /\ IF CommitsItself(c)
       THEN EndTransaction(c, disk, RestOfWrite(c))
       ELSE /\ SetLock(c, Raise(lock[c], RESERVED), View(c))
            /\ writing' = [writing EXCEPT ![c] = TRUE]
            /\ UNCHANGED <<disk, delta, owner>>
  /\ Return(c)
  /\ UNCHANGED <<reader, writer, connection, committed>>

(* A stalled statement is destroyed.  Outside a transaction it was the last to
   write: SQLite takes what is in hand for its doing and rolls it back. *)
DropWriter(c) ==
  /\ Running(c, "idle")
  /\ Stalled(c)
  /\ writer' = [writer EXCEPT ![c] = "none"]
  /\ IF AutoCommit(c) /\ writing[c]
       THEN EndTransaction(c, disk, RestOfWrite(c))
       ELSE EndStatement(c, Reading(c)) /\ UNCHANGED <<disk, delta, writing, owner>>
  /\ UNCHANGED <<reader, connection, committed, call>>

------------------------------------------------------------------------------
(* reader and transaction::count: statement::execute that reads.            *)

(* A reader is called for its first row, or for another one. *)
Read(c) ==
  /\ Running(c, "idle")
  /\ Scoped => \E t \in Txs : connection[t] = c
  /\ reader' = [reader EXCEPT ![c] = "none"]
  /\ call' = [call EXCEPT ![c] = ACall("read", NoTx, "deferred", FALSE)]
  /\ UNCHANGED <<disk, work, delta, lock, writing, owner, writer, connection, committed>>

(* The statement stays open if there may be more rows; count and a reader that
   is exhausted, or fails on its own, end at once. *)
ReadDone(c) ==
  /\ Running(c, "read")
  /\ CanRead(c)
  /\ \E r \in {"none", "active"} :
       /\ reader' = [reader EXCEPT ![c] = r]
       /\ SetLock(c, IF AutoCommit(c) /\ r = "none" /\ ~Stalled(c) THEN NONE
                     ELSE Raise(lock[c], SHARED), View(c))
  /\ Return(c)
  /\ UNCHANGED <<disk, delta, writing, owner, writer, connection, committed>>

ReadBusy(c) ==
  /\ Running(c, "read")
  /\ ~CanRead(c)
  /\ TimeoutsExpire
  /\ \E r \in {"none", "active"} : reader' = [reader EXCEPT ![c] = r]
  /\ Return(c)
  /\ UNCHANGED <<disk, work, delta, lock, writing, owner, writer, connection, committed>>

(* The reader has returned false, or is destroyed. *)
CloseReader(c) ==
  /\ Running(c, "idle")
  /\ Reading(c)
  /\ reader' = [reader EXCEPT ![c] = "none"]
  /\ EndStatement(c, Stalled(c))
  /\ UNCHANGED <<disk, delta, writing, owner, writer, connection, committed, call>>

------------------------------------------------------------------------------
(* transaction::commit: COMMIT, and only then _comitted.                     *)

(* Faulty variant: _comitted is set before COMMIT is executed. *)
CommitMarkedFirst(t, c) ==
  /\ Running(c, "idle")
  /\ connection[t] = c
  /\ committed' = [committed EXCEPT ![t] = TRUE]
  /\ call' = [call EXCEPT ![c] = ACall("commit", t, "deferred", FALSE)]
  /\ UNCHANGED <<disk, work, delta, lock, writing, owner, reader, writer, connection>>

Commit(t, c) ==
  /\ Running(c, "idle")
  /\ connection[t] = c
  /\ call' = [call EXCEPT ![c] = ACall("commit", t, "deferred", FALSE)]
  /\ UNCHANGED <<disk, work, delta, lock, writing, owner, reader, writer,
                 connection, committed>>

(* "no transaction is active" (SQLite may have rolled it back by itself), or "SQL
   statements in progress". *)
CommitRefused(c) ==
  /\ Running(c, "commit")
  /\ AutoCommit(c) \/ Stalled(c)
  /\ Return(c)
  /\ UNCHANGED <<disk, work, delta, lock, writing, owner, reader, writer,
                 connection, committed>>

Committing(c) == Running(c, "commit") /\ ~AutoCommit(c) /\ ~Stalled(c)

CommitDone(c) ==
  /\ Committing(c)
  /\ writing[c] => CanOwn(c)
  /\ EndTransaction(c, IF writing[c] THEN work[c] ELSE disk, Rest(c))
  /\ committed' = [committed EXCEPT ![Current(c)] = TRUE]
  /\ Return(c)
  /\ UNCHANGED <<reader, writer, connection>>

CommitPending(c) ==
  /\ Committing(c)
  /\ writing[c] /\ ~CanOwn(c)
  /\ lock[c] < PENDING
  /\ SetLock(c, PENDING, work[c])
  /\ UNCHANGED <<disk, delta, writing, owner, reader, writer, connection, committed, call>>

(* Faulty variant: _comitted is set although COMMIT has failed. *)
CommitBusyCounts(c) ==
  /\ Committing(c)
  /\ writing[c] /\ ~CanOwn(c)
  /\ lock[c] >= PENDING
  /\ TimeoutsExpire
  /\ committed' = [committed EXCEPT ![Current(c)] = TRUE]
  /\ Return(c)
  /\ UNCHANGED <<disk, work, delta, lock, writing, owner, reader, writer, connection>>

(* SQLITE_BUSY: the transaction stays open and keeps its PENDING lock. *)
CommitBusy(c) ==
  /\ Committing(c)
  /\ writing[c] /\ ~CanOwn(c)
  /\ lock[c] >= PENDING
  /\ TimeoutsExpire
  /\ Return(c)
  /\ UNCHANGED <<disk, work, delta, lock, writing, owner, reader, writer,
                 connection, committed>>

------------------------------------------------------------------------------
(* An error that makes SQLite roll back the whole transaction by itself.     *)

(* The locks that leaves: with another statement active, SHARED as well if the
   call had taken it. *)
Left(c) == {Rest(c)} \cup (IF Active(c) /\ CanRead(c) THEN {SHARED} ELSE {})

(* execute throws what sqlite3_step returns; only a constructor takes its object
   with it, any other stays open with no transaction behind it. *)
TransactionFails(c) ==
  /\ "transaction" \in Faults
  /\ ~Running(c, "idle")
  /\ \E level \in Left(c) : EndTransaction(c, disk, level)
  /\ connection' = [t \in Txs |-> IF Running(c, "begin") /\ t = Current(c)
                                   THEN NoConn ELSE connection[t]]
  /\ Return(c)
  /\ UNCHANGED <<reader, writer, committed>>

------------------------------------------------------------------------------
(* transaction::~transaction: ROLLBACK unless _comitted, errors swallowed.   *)

(* Whose transaction it is, ROLLBACK does not ask. *)
RollsBack(t, c) == ~committed[t] /\ ~AutoCommit(c)

(* Faulty variant: a statement that is stalled is not finalized. *)
LeavesStalled(c) == Scoped /\ AutoCommit(c) /\ ~Stalled(c)

(* The last statements of c end with the object, outside a transaction. *)
LeavesNothing(c) == Scoped /\ AutoCommit(c)

(* The object is destroyed, at the end of its scope after the statements made in
   it, as well when an exception ends it. *)
Destroy(t, c) ==
  /\ Running(c, "idle")
  /\ connection[t] = c
  /\ connection' = [connection EXCEPT ![t] = NoConn]
  /\ committed' = [committed EXCEPT ![t] = FALSE]
  /\ reader' = [reader EXCEPT ![c] = IF Scoped THEN "none" ELSE @]
  /\ writer' = [writer EXCEPT ![c] = IF Scoped THEN "none" ELSE @]
  /\ \/ /\ RollsBack(t, c) \/ LeavesNothing(c)
        /\ EndTransaction(c, disk, IF Scoped THEN NONE ELSE Rest(c))
     \/ /\ RollsBack(t, c) => "rollback" \in Faults
        /\ ~LeavesNothing(c)
        /\ UNCHANGED <<disk, work, delta, lock, writing, owner>>
  /\ UNCHANGED call

------------------------------------------------------------------------------
Init ==
  /\ disk = {}
  /\ work = [c \in Conns |-> {}]
  /\ delta = [c \in Conns |-> NoChange]
  /\ lock = [c \in Conns |-> NONE]
  /\ writing = [c \in Conns |-> FALSE]
  /\ owner = [c \in Conns |-> NoTx]
  /\ reader = [c \in Conns |-> "none"]
  /\ writer = [c \in Conns |-> "none"]
  /\ connection = [t \in Txs |-> NoConn]
  /\ committed = [t \in Txs |-> FALSE]
  /\ call = [c \in Conns |-> Idle]

(* What the application calls on c, and what it lets go of. *)
Application(c) ==
  \/ \E t \in Txs, m \in Modes : Construct(t, c, m)
  \/ \E t \in Txs : Commit(t, c) \/ Destroy(t, c)
  \/ Write(c) \/ Read(c) \/ CloseReader(c) \/ DropWriter(c)

(* How the call c runs goes on, and how it may go wrong. *)
Answers(c) ==
  \/ BeginDone(c) \/ BeginNested(c) \/ BeginPending(c) \/ BeginBusy(c)
  \/ \E w \in Writes : WriteDone(c, w) \/ WriteThrough(c, w) \/ WritePending(c, w)
  \/ WriteCommitted(c) \/ WriteBusy(c) \/ WriteUndone(c)
  \/ ReadDone(c) \/ ReadBusy(c)
  \/ CommitRefused(c) \/ CommitDone(c) \/ CommitPending(c) \/ CommitBusy(c)

Library(c) == Answers(c) \/ WriteFails(c) \/ TransactionFails(c)

Next == \E c \in Conns : Application(c) \/ Library(c)

Spec == Init /\ [][Next]_vars
------------------------------------------------------------------------------
(* Correctness. *)

(* Type invariant of the transaction objects, the connections and their calls. *)
TypeOK ==
  /\ disk \in SUBSET Items
  /\ work \in [Conns -> SUBSET Items]
  /\ delta \in [Conns -> Changes]
  /\ lock \in [Conns -> Locks]
  /\ writing \in [Conns -> BOOLEAN]
  /\ owner \in [Conns -> Txs \cup {NoTx}]
  /\ reader \in [Conns -> {"none", "active"}]
  /\ writer \in [Conns -> {"none", "stalled"}]
  /\ connection \in [Txs -> Conns \cup {NoConn}]
  /\ committed \in [Txs -> BOOLEAN]
  /\ call \in [Conns -> Calls]

(* What a connection sees under any lock is the committed content with its own
   changes on top, and nothing else: reads through a transaction are repeatable
   from its first statement on, and never see an uncommitted change of another
   (database.h 118-181: every statement goes to the connection's own pages). *)
OwnView == \A c \in Conns : lock[c] # NONE => work[c] = Apply(disk, delta[c])

(* Changes not yet committed are held under RESERVED or more, by one connection
   at a time: no transaction commits over a change it has not seen. *)
SingleWriter ==
  \A c, d \in Conns :
    delta[c] # NoChange => /\ lock[c] >= RESERVED
                           /\ c # d => delta[d] = NoChange

(* A transaction that SQLite has open on a connection is that of an object of
   this connection, made and not committed, which will commit it or roll it back:
   none is left without when a constructor, a commit or a statement throws,
   whatever it throws, and although other objects may end it too.  It outlives
   its object only if the ROLLBACK of the destructor, whose errors are swallowed,
   cannot be prepared (database.h 89-107, 183-187, statement.h 97-105). *)
TransactionHasItsObject ==
  \A c \in Conns : ~AutoCommit(c) =>
    \/ connection[owner[c]] = c /\ Open(owner[c])
    \/ "rollback" \in Faults /\ ~Exists(owner[c])

(* Between calls a connection without a transaction has nothing in hand but for
   the sake of a statement that is still active: a write that has returned is
   durable unless there is a stalled one beside it, and with no statement active
   a constructor or a write that threw, a commit and a destructor have left no
   lock (database.h 89-107, 183-199, insert.h 53). *)
NothingHeldAtRest ==
  \A c \in Conns :
    (Running(c, "idle") /\ AutoCommit(c)) =>
      /\ ~Stalled(c) => ~writing[c] /\ delta[c] = NoChange
      /\ ~Active(c) => lock[c] = NONE

(* The call of c waits in the busy handler, and for which locks of the others:
   it could not get as far as RESERVED, or has gone on to PENDING. *)
Waiting(c) ==
  /\ \/ Running(c, "begin") /\ ~BeginGranted(c)
     \/ Running(c, "write") /\ ~CanReserve(c)
     \/ Running(c, "written") /\ ~CanOwn(c)
     \/ Running(c, "read") /\ ~CanRead(c)
     \/ Committing(c) /\ writing[c] /\ ~CanOwn(c)
  /\ CanReserve(c) => lock[c] >= PENDING
  /\ ~RefusedAtOnce(c)

Awaited(c) == IF lock[c] >= PENDING THEN SHARED
              ELSE IF Running(c, "read") THEN PENDING ELSE RESERVED

WaitsFor(c, d) == c # d /\ Waiting(c) /\ lock[d] >= Awaited(c)

(* Connections never wait for each other in a circle, whatever mix of deferred,
   immediate and exclusive transactions they run: who waits with a lock in hand
   waits only for connections that do not wait, so the 30 seconds of timeout_ms
   are never spent on a deadlock (database.h 46, 94). *)
NoWaitCycle ==
  \A c, d \in Conns : (WaitsFor(c, d) /\ lock[c] # NONE) => ~Waiting(d)

(* Seen from outside, an object exists when its constructor has returned. *)
At == [t \in Txs |-> IF Constructing(t) THEN NoConn ELSE connection[t]]

Abs == INSTANCE AtomicStore
         WITH store <- disk, hand <- delta, at <- At, done <- committed

(* Transactions implements AtomicStore: what is changed in a transaction becomes
   durable together when a commit on its connection succeeds, and not at all when
   the object is destroyed without one or SQLite rolls back by itself, whatever
   the other connections do and whichever calls fail; what is changed without one
   is durable at once, or with the statement that has held it back (database.h
   98-107, 183-187, statement.h 97-105). *)
ImplementsAtomicStore == Abs!ASpec

------------------------------------------------------------------------------
(* Progress. *)

(* A call gets its turn again and again, without being helped on by failures, and
   control leaves the scope of each transaction object some time, with as many
   calls as it likes before that. *)
Fairness ==
  /\ \A c \in Conns : WF_vars(Answers(c))
  /\ \A t \in Txs, c \in Conns : SF_vars(Destroy(t, c))

FairSpec == Spec /\ Fairness

(* No lock is held for ever: whatever a transaction runs into, the destructors
   of its statements and of the object itself release the file. *)
LocksAreReleased == \A c \in Conns : lock[c] # NONE ~> lock[c] = NONE

(* A commit is not starved: from its PENDING lock on no new reader gets in, so it
   ends without its timeout (database.h 183-187). *)
CommitEnds == \A c \in Conns : Running(c, "commit") ~> ~Running(c, "commit")

(* A commit that is called is never refused, as the quick reference has it: one
   transaction object creates the table, commits, inserts and commits again
   (README.md 30-33, 44-48). *)
CommitIsNotRefused == [][\A c \in Conns : ~CommitRefused(c)]_vars
==============================================================================
