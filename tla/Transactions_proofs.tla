------------------------- MODULE Transactions_proofs -------------------------
(***************************************************************************)
(* Proofs about Transactions, for any number of connections, transaction   *)
(* objects and items.                                                      *)
(***************************************************************************)
EXTENDS Transactions, TLAPS

(* Applying no change leaves a store as it is. *)
LEMMA ApplyNoChange ==
  ASSUME NEW S \in SUBSET Items
  PROVE  Apply(S, NoChange) = S
  BY DEF Apply, NoChange

(* Doing one more write and recording one more change come to the same. *)
LEMMA ApplyRecord ==
  ASSUME NEW S \in SUBSET Items, NEW d \in Changes, NEW w \in Writes
  PROVE  /\ ApplyWrite(Apply(S, d), w) = Apply(S, Record(d, w))
         /\ ApplyWrite(Apply(S, d), w) \in SUBSET Items
         /\ Record(d, w) \in Changes
  BY DEF Apply, ApplyWrite, Record, Changes, Writes

(* The calls the actions start are calls, and the idle one is idle. *)
LEMMA CallsTyped ==
  /\ Idle \in Calls /\ Idle.op = "idle"
  /\ \A t \in Txs, m \in Modes, held \in BOOLEAN : ACall("begin", t, m, held) \in Calls
  /\ \A t \in Txs : ACall("commit", t, "deferred", FALSE) \in Calls
  /\ \A op \in {"write", "written", "read"} : ACall(op, NoTx, "deferred", FALSE) \in Calls
  BY DEF Idle, ACall, Calls, Modes

------------------------------------------------------------------------------
(* Type correctness. *)

(* The values a transition may give the variables of one connection. *)
LEMMA SetLockTyped ==
  ASSUME TypeOK, NEW c \in Conns, NEW level \in Locks, NEW content \in SUBSET Items,
         SetLock(c, level, content)
  PROVE  /\ lock' \in [Conns -> Locks]
         /\ work' \in [Conns -> SUBSET Items]
  BY DEF TypeOK, SetLock

LEMMA ReturnTyped ==
  ASSUME TypeOK, NEW c \in Conns, Return(c)
  PROVE  /\ call' \in [Conns -> Calls]
         /\ \A d \in Conns : call'[d] = IF d = c THEN Idle ELSE call[d]
         /\ call'[c].op = "idle"
  BY CallsTyped DEF TypeOK, Return

LEMMA ViewTyped ==
  ASSUME TypeOK, NEW c \in Conns
  PROVE  View(c) \in SUBSET Items
  BY DEF TypeOK, View

LEMMA EndStatementTyped ==
  ASSUME TypeOK, NEW c \in Conns, NEW active \in BOOLEAN, EndStatement(c, active)
  PROVE  /\ lock' \in [Conns -> Locks]
         /\ work' \in [Conns -> SUBSET Items]
  BY DEF TypeOK, EndStatement, SetLock, Locks, NONE, EXCLUSIVE

LEMMA EndTransactionTyped ==
  ASSUME TypeOK, NEW c \in Conns, NEW content \in SUBSET Items, NEW level \in Locks,
         EndTransaction(c, content, level)
  PROVE  /\ disk' \in SUBSET Items
         /\ work' \in [Conns -> SUBSET Items]
         /\ delta' \in [Conns -> Changes]
         /\ lock' \in [Conns -> Locks]
         /\ writing' \in [Conns -> BOOLEAN]
         /\ owner' \in [Conns -> Txs \cup {NoTx}]
  BY SetLockTyped DEF TypeOK, EndTransaction, Changes, NoChange

LEMMA LevelsTyped ==
  ASSUME TypeOK, NEW c \in Conns
  PROVE  /\ {NONE, SHARED, RESERVED, PENDING, EXCLUSIVE} \subseteq Locks
         /\ Rest(c) \in Locks
         /\ RestOfWrite(c) \in Locks
         /\ Left(c) \subseteq Locks
         /\ \A least \in Locks : Raise(lock[c], least) \in Locks
  BY DEF TypeOK, Locks, NONE, SHARED, RESERVED, PENDING, EXCLUSIVE, Rest, RestOfWrite, Left,
     Raise

LEMMA TypeInit == Init => TypeOK
  BY CallsTyped DEF Init, TypeOK, Changes, NoChange, Locks, NONE, EXCLUSIVE

LEMMA TypeStep == TypeOK /\ [Next]_vars => TypeOK'
<1> SUFFICES ASSUME TypeOK, [Next]_vars
             PROVE  TypeOK'
  OBVIOUS
<1>1. CASE UNCHANGED vars
  BY <1>1 DEF TypeOK, vars
<1>2. ASSUME NEW c \in Conns, Application(c)
      PROVE  TypeOK'
  <2>1. ASSUME NEW t \in Txs, NEW m \in Modes, Construct(t, c, m)
        PROVE  TypeOK'
    BY <2>1, CallsTyped DEF TypeOK, Construct
  <2>2. ASSUME NEW t \in Txs, Commit(t, c)
        PROVE  TypeOK'
    BY <2>2, CallsTyped DEF TypeOK, Commit
  <2>3. ASSUME NEW t \in Txs, Destroy(t, c)
        PROVE  TypeOK'
    <3>1. /\ connection' \in [Txs -> Conns \cup {NoConn}]
          /\ committed' \in [Txs -> BOOLEAN]
          /\ reader' \in [Conns -> {"none", "active"}]
          /\ writer' \in [Conns -> {"none", "stalled"}]
          /\ call' = call
      BY <2>3 DEF TypeOK, Destroy
    <3>2. CASE EndTransaction(c, disk, IF Scoped THEN NONE ELSE Rest(c))
      <4>1. (IF Scoped THEN NONE ELSE Rest(c)) \in Locks /\ disk \in SUBSET Items
        BY LevelsTyped DEF TypeOK
      <4> QED BY <3>1, <3>2, <4>1, EndTransactionTyped DEF TypeOK
    <3>3. CASE UNCHANGED <<disk, work, delta, lock, writing, owner>>
      BY <3>1, <3>3 DEF TypeOK
    <3> QED BY <2>3, <3>2, <3>3 DEF Destroy
  <2>5. CASE Write(c)
    <3>1. PICK again \in {writer[c], "none"} : writer' = [writer EXCEPT ![c] = again]
      BY <2>5 DEF Write
    <3> QED BY <2>5, <3>1, CallsTyped DEF TypeOK, Write
  <2>6. CASE Read(c)
    BY <2>6, CallsTyped DEF TypeOK, Read
  <2>7. CASE CloseReader(c)
    BY <2>7, EndStatementTyped DEF TypeOK, CloseReader, Stalled
  <2>8. CASE DropWriter(c)
    <3>1. CASE AutoCommit(c) /\ writing[c]
      BY <2>8, <3>1, EndTransactionTyped, LevelsTyped DEF TypeOK, DropWriter
    <3>2. CASE ~(AutoCommit(c) /\ writing[c])
      BY <2>8, <3>2, EndStatementTyped DEF TypeOK, DropWriter, Reading
    <3> QED BY <3>1, <3>2
  <2> QED BY <1>2, <2>1, <2>2, <2>3, <2>5, <2>6, <2>7, <2>8 DEF Application
<1>3. ASSUME NEW c \in Conns, Library(c)
      PROVE  TypeOK'
  <2> USE ReturnTyped, ViewTyped, LevelsTyped
  <2>1. ASSUME BeginDone(c) \/ BeginNested(c)
        PROVE  TypeOK'
    <3>1. TakeBeginLock(c)
      BY <2>1 DEF BeginDone, BeginNested
    <3>2. /\ lock' \in [Conns -> Locks]
          /\ work' \in [Conns -> SUBSET Items]
          /\ writing' \in [Conns -> BOOLEAN]
      BY <3>1, SetLockTyped DEF TakeBeginLock, TypeOK
    <3>3. Current(c) \in Txs
      BY <2>1 DEF TypeOK, BeginDone, BeginNested, Current, Running, Calls
    <3>4. CASE BeginDone(c)
      BY <3>2, <3>3, <3>4 DEF TypeOK, BeginDone
    <3>5. CASE BeginNested(c)
      BY <3>2, <3>3, <3>5 DEF TypeOK, BeginNested, ConstructorThrows
    <3> QED BY <2>1, <3>4, <3>5
  <2>2. CASE BeginPending(c)
    BY <2>2, SetLockTyped DEF TypeOK, BeginPending
  <2>3. CASE BeginBusy(c)
    BY <2>3, SetLockTyped DEF TypeOK, BeginBusy, ConstructorThrows
  <2>4. ASSUME NEW w \in Writes, WriteDone(c, w) \/ WriteThrough(c, w) \/ WritePending(c, w)
        PROVE  TypeOK'
    <3>1. /\ Written(c, w) \in SUBSET Items
          /\ Record(delta[c], w) \in Changes
      BY DEF TypeOK, Written, ApplyWrite, Writes, Record, Changes
    <3>2. CASE WriteDone(c, w)
      BY <3>1, <3>2, SetLockTyped DEF TypeOK, WriteDone
    <3>3. CASE WriteThrough(c, w)
      <4>1. /\ EndTransaction(c, Written(c, w), RestOfWrite(c)) /\ Return(c)
            /\ UNCHANGED <<reader, writer, connection, committed>>
        BY <3>3 DEF WriteThrough
      <4>2. RestOfWrite(c) \in Locks
        OBVIOUS
      <4> QED BY <3>1, <4>1, <4>2, EndTransactionTyped DEF TypeOK
    <3>4. CASE WritePending(c, w)
      BY <3>1, <3>4, SetLockTyped, CallsTyped DEF TypeOK, WritePending
    <3> QED BY <2>4, <3>2, <3>3, <3>4
  <2>5. CASE WriteBusy(c)
    <3>1. PICK w \in {"stalled", "none"} :
            /\ writer' = [writer EXCEPT ![c] = w]
            /\ EndStatement(c, Reading(c) \/ w # "none")
      BY <2>5 DEF WriteBusy
    <3>2. /\ lock' \in [Conns -> Locks]
          /\ work' \in [Conns -> SUBSET Items]
      BY <3>1, EndStatementTyped
    <3> QED BY <2>5, <3>1, <3>2 DEF TypeOK, WriteBusy
  <2>6. CASE WriteCommitted(c) \/ WriteUndone(c)
    BY <2>6, EndTransactionTyped DEF TypeOK, WriteCommitted, WriteUndone
  <2>12. CASE WriteFails(c)
    <3>1. CASE CommitsItself(c)
      BY <2>12, <3>1, EndTransactionTyped DEF TypeOK, WriteFails
    <3>2. CASE ~CommitsItself(c)
      BY <2>12, <3>2, SetLockTyped DEF TypeOK, WriteFails
    <3> QED BY <3>1, <3>2
  <2>13. CASE TransactionFails(c)
    <3>1. PICK level \in Left(c) : EndTransaction(c, disk, level)
      BY <2>13 DEF TransactionFails
    <3>2. connection' \in [Txs -> Conns \cup {NoConn}]
      BY <2>13 DEF TransactionFails, TypeOK
    <3> QED BY <2>13, <3>1, <3>2, EndTransactionTyped DEF TypeOK, TransactionFails
  <2>7. CASE ReadDone(c)
    BY <2>7, SetLockTyped DEF TypeOK, ReadDone
  <2>8. CASE ReadBusy(c)
    BY <2>8 DEF TypeOK, ReadBusy
  <2>9. CASE CommitDone(c)
    BY <2>9, EndTransactionTyped DEF TypeOK, CommitDone
  <2>10. CASE CommitPending(c)
    BY <2>10, SetLockTyped DEF TypeOK, CommitPending
  <2>11. CASE CommitRefused(c) \/ CommitBusy(c)
    BY <2>11 DEF TypeOK, CommitRefused, CommitBusy
  <2> QED
    BY <1>3, <2>1, <2>2, <2>3, <2>4, <2>5, <2>6, <2>7, <2>8, <2>9, <2>10, <2>11, <2>12,
       <2>13 DEF Library, Answers
<1> QED BY <1>1, <1>2, <1>3 DEF Next

(* The transaction objects, the connections and their calls keep to their types. *)
THEOREM TypeCorrect == Spec => []TypeOK
  BY TypeInit, TypeStep, PTL DEF Spec

------------------------------------------------------------------------------
(* Locks and pages.  SingleWriter and OwnView are not inductive: they rest on  *)
(* RESERVED being exclusive, on changes being made under it only, and on a     *)
(* write transaction outside BEGIN lasting for the call of a write only, or    *)
(* for as long as a writing statement is stalled.                              *)

ReservedIsExclusive ==
  \A c, d \in Conns : c # d /\ lock[c] >= RESERVED => lock[d] < RESERVED

ChangesAreLocked ==
  \A c \in Conns : /\ delta[c] # NoChange => writing[c]
                   /\ writing[c] => lock[c] >= RESERVED

WritesEndWithTheirCall ==
  \A c \in Conns :
    (AutoCommit(c) /\ ~Stalled(c) /\ call[c].op \notin {"write", "written"}) => ~writing[c]

PageInv ==
  /\ TypeOK
  /\ ReservedIsExclusive
  /\ ChangesAreLocked
  /\ WritesEndWithTheirCall
  /\ OwnView

LEMMA PageInit == Init => PageInv
  BY TypeInit DEF Init, PageInv, TypeOK, ReservedIsExclusive, ChangesAreLocked,
     WritesEndWithTheirCall, OwnView, NONE, RESERVED

(* What c works on under a lock it has or takes. *)
LEMMA ViewIsOwn ==
  ASSUME PageInv, NEW c \in Conns
  PROVE  View(c) = Apply(disk, delta[c])
<1>1. CASE lock[c] = NONE
  <2>1. delta[c] = NoChange
    BY <1>1 DEF PageInv, ChangesAreLocked, NONE, RESERVED
  <2> QED BY <1>1, <2>1, ApplyNoChange DEF PageInv, TypeOK, View
<1>2. CASE lock[c] # NONE
  BY <1>2 DEF PageInv, OwnView, View
<1> QED BY <1>1, <1>2

(* A step of one connection leaves what belongs to the others as it is. *)
OthersUntouched(c) ==
  \A d \in Conns \ {c} :
    /\ lock'[d] = lock[d] /\ work'[d] = work[d] /\ delta'[d] = delta[d]
    /\ writing'[d] = writing[d] /\ owner'[d] = owner[d] /\ call'[d] = call[d]
    /\ reader'[d] = reader[d] /\ writer'[d] = writer[d]

LEMMA Locality ==
  ASSUME TypeOK, NEW c \in Conns, Application(c) \/ Library(c)
  PROVE  OthersUntouched(c)
<1> USE DEF TypeOK, OthersUntouched, SetLock, Return, EndTransaction, EndStatement
<1>1. ASSUME NEW t \in Txs, NEW m \in Modes, Construct(t, c, m)
      PROVE  OthersUntouched(c)
  BY <1>1 DEF Construct
<1>2. ASSUME NEW t \in Txs, Commit(t, c) \/ Destroy(t, c)
      PROVE  OthersUntouched(c)
  BY <1>2 DEF Commit, Destroy
<1>3. CASE Write(c)
  BY <1>3 DEF Write
<1>4. CASE Read(c) \/ CloseReader(c)
  BY <1>4 DEF Read, CloseReader
<1>12. CASE DropWriter(c)
  BY <1>12 DEF DropWriter
<1>5. CASE BeginDone(c) \/ BeginNested(c)
  BY <1>5 DEF BeginDone, BeginNested, TakeBeginLock, ConstructorThrows
<1>6. CASE BeginPending(c) \/ BeginBusy(c)
  BY <1>6 DEF BeginPending, BeginBusy, ConstructorThrows
<1>7. ASSUME NEW w \in Writes, WriteDone(c, w) \/ WriteThrough(c, w) \/ WritePending(c, w)
      PROVE  OthersUntouched(c)
  BY <1>7 DEF WriteDone, WriteThrough, WritePending
<1>8. CASE WriteBusy(c) \/ WriteCommitted(c) \/ WriteUndone(c) \/ WriteFails(c)
  BY <1>8 DEF WriteBusy, WriteCommitted, WriteUndone, WriteFails
<1>11. CASE TransactionFails(c)
  BY <1>11 DEF TransactionFails
<1>9. CASE ReadDone(c) \/ ReadBusy(c)
  BY <1>9 DEF ReadDone, ReadBusy
<1>10. CASE CommitRefused(c) \/ CommitDone(c) \/ CommitPending(c) \/ CommitBusy(c)
  BY <1>10 DEF CommitRefused, CommitDone, CommitPending, CommitBusy
<1> QED BY <1>1, <1>2, <1>3, <1>4, <1>5, <1>6, <1>7, <1>8, <1>9, <1>10, <1>11, <1>12
        DEF Application, Library, Answers

(* What has to hold of c alone for a step of c to preserve the invariant. *)
LEMMA PageFrame ==
  ASSUME PageInv, TypeOK', NEW c \in Conns, OthersUntouched(c),
         disk' = disk \/ \A d \in Conns \ {c} : lock[d] = NONE,
         lock'[c] >= RESERVED => CanReserve(c),
         delta'[c] # NoChange => writing'[c],
         writing'[c] => lock'[c] >= RESERVED,
         (owner'[c] = NoTx /\ writer'[c] = "none" /\ call'[c].op \notin {"write", "written"})
           => ~writing'[c],
         lock'[c] # NONE => work'[c] = Apply(disk', delta'[c])
  PROVE  PageInv'
<1>1. ReservedIsExclusive'
  BY DEF PageInv, ReservedIsExclusive, TypeOK, CanReserve, HeldElsewhere, Locks, NONE,
     EXCLUSIVE, RESERVED, OthersUntouched
<1>2. ChangesAreLocked' /\ WritesEndWithTheirCall'
  BY DEF PageInv, ChangesAreLocked, WritesEndWithTheirCall, AutoCommit, Stalled, OthersUntouched
<1>3. OwnView'
  BY DEF PageInv, OwnView, OthersUntouched
<1> QED BY <1>1, <1>2, <1>3 DEF PageInv

LEMMA PageStep == PageInv /\ [Next]_vars => PageInv'
<1> SUFFICES ASSUME PageInv, [Next]_vars
             PROVE  PageInv'
  OBVIOUS
<1> USE DEF Locks, NONE, SHARED, RESERVED, PENDING, EXCLUSIVE
<1>1. TypeOK /\ TypeOK'
  BY TypeStep DEF PageInv
<1>2. CASE UNCHANGED vars
  BY <1>2 DEF vars, PageInv, TypeOK, ReservedIsExclusive, ChangesAreLocked,
     WritesEndWithTheirCall, OwnView, AutoCommit, Stalled
<1>3. ASSUME NEW c \in Conns, Application(c)
      PROVE  PageInv'
  <2> OthersUntouched(c)
    BY <1>1, <1>3, Locality
  <2> USE <1>1, PageFrame DEF PageInv, TypeOK, ChangesAreLocked, WritesEndWithTheirCall,
        OwnView, CanReserve, Running, ACall, AutoCommit, Stalled
  <2>1. ASSUME NEW t \in Txs, NEW m \in Modes, Construct(t, c, m)
        PROVE  PageInv'
    BY <2>1 DEF Construct
  <2>2. ASSUME NEW t \in Txs, Commit(t, c)
        PROVE  PageInv'
    BY <2>2 DEF Commit
  <2>3. ASSUME NEW t \in Txs, Destroy(t, c)
        PROVE  PageInv'
    <3>1. CASE EndTransaction(c, disk, IF Scoped THEN NONE ELSE Rest(c))
      <4>1. /\ disk' = disk /\ delta'[c] = NoChange /\ ~writing'[c]
            /\ lock'[c] = IF Scoped THEN NONE ELSE Rest(c)
            /\ lock'[c] # NONE => work'[c] = disk
        BY <3>1 DEF EndTransaction, SetLock
      <4>2. lock'[c] >= RESERVED => CanReserve(c)
        BY <4>1 DEF Rest
      <4>3. lock'[c] # NONE => work'[c] = Apply(disk', delta'[c])
        BY <4>1, ApplyNoChange
      <4> QED BY <4>1, <4>2, <4>3
    <3>2. CASE ~LeavesNothing(c) /\ UNCHANGED <<disk, work, delta, lock, writing, owner>>
      <4>1. call'[c] = call[c] /\ call[c].op = "idle"
            /\ writer'[c] = (IF Scoped THEN "none" ELSE writer[c])
        BY <2>3 DEF Destroy
      <4> QED BY <3>2, <4>1 DEF LeavesNothing
    <3> QED BY <2>3, <3>1, <3>2 DEF Destroy
  <2>5. CASE Write(c)
    BY <2>5 DEF Write
  <2>6. CASE Read(c)
    BY <2>6 DEF Read
  <2>7. CASE CloseReader(c)
    BY <2>7 DEF CloseReader, EndStatement, SetLock
  <2>8. CASE DropWriter(c)
    <3>1. CASE AutoCommit(c) /\ writing[c]
      BY <2>8, <3>1, ApplyNoChange DEF DropWriter, EndTransaction, SetLock, RestOfWrite
    <3>2. CASE ~(AutoCommit(c) /\ writing[c])
      BY <2>8, <3>2 DEF DropWriter, EndStatement, SetLock
    <3> QED BY <3>1, <3>2
  <2> QED BY <1>3, <2>1, <2>2, <2>3, <2>5, <2>6, <2>7, <2>8 DEF Application
<1>4. ASSUME NEW c \in Conns, Library(c)
      PROVE  PageInv'
  <2> OthersUntouched(c)
    BY <1>1, <1>4, Locality
  <2> USE <1>1, PageFrame, ViewIsOwn, ReturnTyped
        DEF PageInv, TypeOK, ChangesAreLocked, WritesEndWithTheirCall, OwnView, AutoCommit, Stalled
  <2>1. CASE BeginDone(c) \/ BeginNested(c)
    <3>1. /\ lock'[c] >= RESERVED => CanReserve(c)
          /\ writing'[c] => lock'[c] >= RESERVED
          /\ writing[c] => writing'[c]
          /\ lock'[c] # NONE => work'[c] = View(c)
          /\ UNCHANGED <<disk, delta>>
      <4>1. TakeBeginLock(c) /\ BeginGranted(c)
        BY <2>1 DEF BeginDone, BeginNested
      <4>2. UNCHANGED <<disk, delta>>
        BY <2>1 DEF BeginDone, BeginNested
      <4>3. CASE NeedsNoLock(c)
        BY <4>1, <4>2, <4>3 DEF TakeBeginLock, CanReserve, View
      <4>4. CASE ~NeedsNoLock(c)
        BY <4>1, <4>2, <4>4 DEF TakeBeginLock, BeginGranted, NeedsNoLock, CanOwn, CanReserve,
           SetLock, Raise
      <4> QED BY <4>3, <4>4
    <3>2. owner'[c] # NoTx
      BY <2>1, NamesAssumption DEF BeginDone, BeginNested, Current, Running, Calls
    <3> QED BY <3>1, <3>2
  <2>2. CASE BeginPending(c)
    BY <2>2 DEF BeginPending, BeginGranted, NeedsNoLock, Running, CanReserve, SetLock
  <2>3. CASE BeginBusy(c)
    BY <2>3 DEF BeginBusy, ConstructorThrows, BeginGranted, NeedsNoLock, CanReserve, SetLock
  <2>4. ASSUME NEW w \in Writes, WriteDone(c, w) \/ WriteThrough(c, w) \/ WritePending(c, w)
        PROVE  PageInv'
    <3>2. /\ Written(c, w) = Apply(disk, Record(delta[c], w))
          /\ Written(c, w) \in SUBSET Items
      <4>1. delta[c] \in Changes /\ disk \in SUBSET Items /\ View(c) = Apply(disk, delta[c])
        OBVIOUS
      <4> QED BY ONLY w \in Writes, <4>1, ApplyRecord DEF Written
    <3>3. CASE WriteDone(c, w)
      <4>1. Raise(lock[c], RESERVED) >= RESERVED
        BY DEF Raise
      <4>2. lock'[c] >= RESERVED /\ work'[c] = Written(c, w)
        BY <3>3, <4>1 DEF WriteDone, SetLock
      <4>3. writing'[c] /\ (owner'[c] # NoTx \/ writer'[c] # "none") /\ CanReserve(c)
        BY <3>3 DEF WriteDone, CommitsItself
      <4>4. delta'[c] = Record(delta[c], w) /\ disk' = disk
        BY <3>3 DEF WriteDone
      <4> QED BY <3>2, <4>2, <4>3, <4>4
    <3>4. CASE WriteThrough(c, w)
      <4>1. \A d \in Conns \ {c} : lock[d] = NONE
        BY <3>4 DEF WriteThrough, CanOwn, HeldElsewhere
      <4>2. /\ ~writing'[c] /\ delta'[c] = NoChange /\ lock'[c] < RESERVED
            /\ lock'[c] # NONE => work'[c] = Written(c, w)
            /\ disk' = Written(c, w)
        BY <3>4 DEF WriteThrough, EndTransaction, SetLock, RestOfWrite
      <4>3. lock'[c] # NONE => work'[c] = Apply(disk', delta'[c])
        BY <3>2, <4>2, ApplyNoChange
      <4> QED BY <3>4, <4>1, <4>2, <4>3 DEF WriteThrough, EndTransaction, SetLock
    <3>5. CASE WritePending(c, w)
      <4>1. /\ lock'[c] = PENDING /\ work'[c] = Written(c, w) /\ writing'[c] /\ disk' = disk
            /\ delta'[c] = Record(delta[c], w) /\ call'[c].op = "written" /\ CanReserve(c)
        BY <3>5 DEF WritePending, SetLock, ACall
      <4> QED BY <3>2, <4>1
    <3> QED BY <2>4, <3>3, <3>4, <3>5
  <2>12. CASE WriteCommitted(c)
    <3>1. \A d \in Conns \ {c} : lock[d] = NONE
      BY <2>12 DEF WriteCommitted, CanOwn, HeldElsewhere
    <3>2. /\ ~writing'[c] /\ delta'[c] = NoChange /\ lock'[c] < RESERVED
          /\ lock'[c] # NONE => work'[c] = disk'
          /\ disk' \in SUBSET Items
      BY <2>12 DEF WriteCommitted, EndTransaction, SetLock, RestOfWrite
    <3>3. lock'[c] # NONE => work'[c] = Apply(disk', delta'[c])
      BY <3>2, ApplyNoChange
    <3> QED BY <3>1, <3>2, <3>3
  <2>5. CASE WriteBusy(c)
    <3>1. PICK w \in {"stalled", "none"} : EndStatement(c, Reading(c) \/ w # "none")
      BY <2>5 DEF WriteBusy
    <3>2. ~CanReserve(c) /\ UNCHANGED <<disk, delta, writing, owner>> /\ Return(c)
      BY <2>5 DEF WriteBusy
    <3>3. lock[c] < RESERVED /\ ~writing[c]
      BY <3>2 DEF CanReserve
    <3>4. /\ lock'[c] \in {NONE, lock[c]}
          /\ lock'[c] # NONE => work'[c] = work[c]
          /\ \A d \in Conns \ {c} : lock'[d] = lock[d] /\ work'[d] = work[d]
      BY <3>1 DEF EndStatement, SetLock
    <3> QED BY <3>2, <3>3, <3>4
  <2>6. CASE WriteUndone(c)
    BY <2>6, ApplyNoChange DEF WriteUndone, EndTransaction, SetLock, RestOfWrite
  <2>13. CASE WriteFails(c)
    <3>1. CASE CommitsItself(c)
      BY <2>13, <3>1, ApplyNoChange DEF WriteFails, EndTransaction, SetLock, RestOfWrite
    <3>2. CASE ~CommitsItself(c)
      <4>1. Raise(lock[c], RESERVED) >= RESERVED
        BY DEF Raise
      <4>2. /\ lock'[c] >= RESERVED /\ work'[c] = View(c) /\ writing'[c] /\ CanReserve(c)
            /\ UNCHANGED <<disk, delta, owner, writer>>
        BY <2>13, <3>2, <4>1 DEF WriteFails, SetLock
      <4> QED BY <3>2, <4>2 DEF CommitsItself
    <3> QED BY <3>1, <3>2
  <2>14. CASE TransactionFails(c)
    <3>1. PICK level \in Left(c) : EndTransaction(c, disk, level)
      BY <2>14 DEF TransactionFails
    <3>2. /\ disk' = disk /\ delta'[c] = NoChange /\ ~writing'[c] /\ lock'[c] = level
          /\ lock'[c] # NONE => work'[c] = disk
      BY <3>1, LevelsTyped DEF EndTransaction, SetLock
    <3>3. lock'[c] >= RESERVED => CanReserve(c)
      BY <3>1, <3>2 DEF Left, Rest, CanReserve
    <3>4. lock'[c] # NONE => work'[c] = Apply(disk', delta'[c])
      BY <3>2, ApplyNoChange
    <3> QED BY <3>2, <3>3, <3>4
  <2>7. CASE ReadDone(c)
    BY <2>7 DEF ReadDone, SetLock, Raise, CanReserve, Running
  <2>8. CASE ReadBusy(c)
    BY <2>8 DEF ReadBusy, CanReserve, Running
  <2>9. CASE CommitDone(c)
    <3>1. /\ disk' = IF writing[c] THEN work[c] ELSE disk
          /\ lock'[c] >= RESERVED => CanReserve(c)
          /\ delta'[c] = NoChange /\ ~writing'[c]
          /\ lock'[c] # NONE => work'[c] = disk'
      BY <2>9 DEF CommitDone, EndTransaction, SetLock, Rest, CanReserve
    <3>2. disk' = disk \/ \A d \in Conns \ {c} : lock[d] = NONE
      BY <2>9, <3>1 DEF CommitDone, CanOwn, HeldElsewhere
    <3>3. lock'[c] # NONE => work'[c] = Apply(disk', delta'[c])
      BY <3>1, ApplyNoChange
    <3> QED BY <2>9, <3>1, <3>2, <3>3 DEF CommitDone, EndTransaction, SetLock
  <2>10. CASE CommitPending(c)
    BY <2>10 DEF CommitPending, Committing, SetLock, CanReserve, Running
  <2>11. CASE CommitRefused(c) \/ CommitBusy(c)
    BY <2>11 DEF CommitRefused, CommitBusy, Committing, CanReserve, Running
  <2> QED
    BY <1>4, <2>1, <2>2, <2>3, <2>4, <2>5, <2>6, <2>7, <2>8, <2>9, <2>10, <2>11, <2>12,
       <2>13, <2>14 DEF Library, Answers
<1> QED BY <1>1, <1>2, <1>3, <1>4 DEF Next

LEMMA PageInvariant == Spec => []PageInv
  BY PageInit, PageStep, PTL DEF Spec

(* A connection sees the committed content with its own changes on top. *)
THEOREM OwnViewHolds == Spec => []OwnView
<1>1. PageInv => OwnView
  BY DEF PageInv
<1> QED BY <1>1, PageInvariant, PTL

(* Uncommitted changes are held by one connection at a time, under RESERVED. *)
THEOREM SingleWriterHolds == Spec => []SingleWriter
<1>1. PageInv => SingleWriter
  BY DEF PageInv, TypeOK, ReservedIsExclusive, ChangesAreLocked, SingleWriter, Locks, NONE,
     RESERVED, EXCLUSIVE
<1> QED BY <1>1, PageInvariant, PTL

(* Nobody waits for a connection that waits while it holds a lock itself: to wait
   with a lock in hand is to have RESERVED already, which one connection has. *)
THEOREM NoWaitCycleHolds == Spec => []NoWaitCycle
<1>1. ASSUME PageInv, NEW c \in Conns, NEW d \in Conns,
             WaitsFor(c, d), lock[c] # NONE
      PROVE  ~Waiting(d)
  <2> USE DEF Locks, NONE, SHARED, RESERVED, PENDING, EXCLUSIVE
  <2>1. c # d /\ Waiting(c) /\ lock[d] >= Awaited(c)
    BY <1>1 DEF WaitsFor
  <2>2. lock[c] >= PENDING
    BY <1>1, <2>1 DEF Waiting, RefusedAtOnce
  <2>3. lock[d] # NONE
    BY <1>1, <2>1, <2>2 DEF Awaited
  <2>4. Waiting(d) => lock[d] >= PENDING
    BY <2>3 DEF Waiting, RefusedAtOnce
  <2>5. lock[c] \in Locks /\ lock[d] \in Locks
    BY <1>1 DEF PageInv, TypeOK
  <2> QED BY <1>1, <2>1, <2>2, <2>4, <2>5 DEF PageInv, ReservedIsExclusive
<1>2. PageInv => NoWaitCycle
  BY <1>1 DEF NoWaitCycle
<1> QED BY <1>2, PageInvariant, PTL

------------------------------------------------------------------------------
(* What the calls leave behind: locks, and transactions of SQLite and the    *)
(* objects that stand for them.                                             *)

(* A lock outlives its call outside a transaction only for the sake of an active
   statement, and a BEGIN that found none remembers that. *)
RestInv ==
  \A c \in Conns :
    (AutoCommit(c) /\ ~Active(c)) =>
      /\ call[c].op \in {"idle", "commit"} => lock[c] = NONE
      /\ call[c].op = "begin" => ~call[c].held

LEMMA RestInit == Init => RestInv
  BY CallsTyped DEF Init, RestInv

LEMMA RestStep == TypeOK /\ PageInv /\ RestInv /\ [Next]_vars => RestInv'
<1> SUFFICES ASSUME TypeOK, PageInv, RestInv, [Next]_vars
             PROVE  RestInv'
  OBVIOUS
<1>1. CASE UNCHANGED vars
  BY <1>1 DEF vars, RestInv, AutoCommit, Active, Reading, Stalled
<1>2. ASSUME NEW c \in Conns, OthersUntouched(c),
             (owner'[c] = NoTx /\ reader'[c] = "none" /\ writer'[c] = "none") =>
               /\ call'[c].op \in {"idle", "commit"} => lock'[c] = NONE
               /\ call'[c].op = "begin" => ~call'[c].held
      PROVE  RestInv'
  BY <1>2 DEF RestInv, OthersUntouched, AutoCommit, Active, Reading, Stalled
<1>3. ASSUME NEW c \in Conns, Application(c)
      PROVE  RestInv'
  <2> OthersUntouched(c)
    BY <1>3, Locality
  <2> USE <1>2 DEF TypeOK, RestInv, AutoCommit, Active, Reading, Stalled, Running, ACall
  <2>1. ASSUME NEW t \in Txs, NEW m \in Modes, Construct(t, c, m)
        PROVE  RestInv'
    BY <2>1 DEF Construct
  <2>2. ASSUME NEW t \in Txs, Commit(t, c)
        PROVE  RestInv'
    BY <2>2 DEF Commit
  <2>3. ASSUME NEW t \in Txs, Destroy(t, c)
        PROVE  RestInv'
    <3>1. CASE EndTransaction(c, disk, IF Scoped THEN NONE ELSE Rest(c))
      BY <2>3, <3>1 DEF Destroy, EndTransaction, SetLock, Rest
    <3>2. CASE ~LeavesNothing(c) /\ UNCHANGED <<disk, work, delta, lock, writing, owner>>
      BY <2>3, <3>2 DEF Destroy, LeavesNothing
    <3> QED BY <2>3, <3>1, <3>2 DEF Destroy
  <2>4. CASE Write(c)
    BY <2>4 DEF Write
  <2>5. CASE Read(c)
    BY <2>5 DEF Read
  <2>6. CASE CloseReader(c)
    BY <2>6 DEF CloseReader, EndStatement, SetLock
  <2>7. CASE DropWriter(c)
    BY <2>7 DEF DropWriter, EndStatement, EndTransaction, SetLock, RestOfWrite
  <2> QED BY <1>3, <2>1, <2>2, <2>3, <2>4, <2>5, <2>6, <2>7 DEF Application
<1>4. ASSUME NEW c \in Conns, Library(c)
      PROVE  RestInv'
  <2> OthersUntouched(c)
    BY <1>4, Locality
  <2> USE <1>2, ReturnTyped
        DEF TypeOK, RestInv, AutoCommit, Active, Reading, Stalled, Running
  <2>1. CASE BeginDone(c)
    BY <2>1, NamesAssumption DEF BeginDone, Current, Calls
  <2>2. CASE BeginNested(c) \/ BeginPending(c)
    BY <2>2 DEF BeginNested, ConstructorThrows, BeginPending
  <2>3. CASE BeginBusy(c)
    BY <2>3 DEF BeginBusy, ConstructorThrows, SetLock
  <2>4. ASSUME NEW w \in Writes, WriteDone(c, w) \/ WriteThrough(c, w) \/ WritePending(c, w)
        PROVE  RestInv'
    <3>1. CASE WriteDone(c, w)
      BY <3>1 DEF WriteDone, CommitsItself
    <3>2. CASE WriteThrough(c, w)
      BY <3>2 DEF WriteThrough, EndTransaction, SetLock, RestOfWrite
    <3>3. CASE WritePending(c, w)
      BY <3>3 DEF WritePending, ACall
    <3> QED BY <2>4, <3>1, <3>2, <3>3
  <2>5. CASE WriteCommitted(c) \/ WriteUndone(c)
    BY <2>5 DEF WriteCommitted, WriteUndone, EndTransaction, SetLock, RestOfWrite
  <2>6. CASE WriteBusy(c)
    <3>1. PICK w \in {"stalled", "none"} :
            /\ writer' = [writer EXCEPT ![c] = w]
            /\ EndStatement(c, Reading(c) \/ w # "none")
      BY <2>6 DEF WriteBusy
    <3>2. UNCHANGED <<owner, reader>>
      BY <2>6 DEF WriteBusy
    <3>3. (owner'[c] = NoTx /\ reader'[c] = "none" /\ writer'[c] = "none") => lock'[c] = NONE
      <4> SUFFICES ASSUME owner'[c] = NoTx, reader'[c] = "none", writer'[c] = "none"
                   PROVE  lock'[c] = NONE
        OBVIOUS
      <4>1. AutoCommit(c) /\ ~(Reading(c) \/ w # "none")
        BY <3>1, <3>2
      <4>2. lock' = [lock EXCEPT ![c] = NONE]
        BY <3>1, <4>1 DEF EndStatement, SetLock
      <4> QED BY <4>2
    <3>4. call'[c].op = "idle"
      BY <2>6 DEF WriteBusy
    <3> QED BY ONLY <1>2, <3>3, <3>4, OthersUntouched(c)
  <2>7. CASE WriteFails(c)
    BY <2>7 DEF WriteFails, CommitsItself, EndTransaction, SetLock, RestOfWrite
  <2>8. CASE TransactionFails(c)
    <3>1. PICK level \in Left(c) : EndTransaction(c, disk, level)
      BY <2>8 DEF TransactionFails
    <3>2. UNCHANGED <<reader, writer>> /\ call'[c].op = "idle"
      BY <2>8 DEF TransactionFails
    <3>3. ~Active(c) => lock'[c] = NONE
      BY <3>1 DEF Left, Rest, EndTransaction, SetLock
    <3> QED BY <3>2, <3>3
  <2>9. CASE ReadDone(c)
    BY <2>9 DEF ReadDone, SetLock
  <2>10. CASE ReadBusy(c)
    BY <2>10 DEF ReadBusy, CanRead
  <2>11. CASE CommitDone(c)
    BY <2>11 DEF CommitDone, EndTransaction, SetLock, Rest
  <2>12. CASE CommitPending(c) \/ CommitRefused(c) \/ CommitBusy(c)
    BY <2>12 DEF CommitPending, CommitRefused, CommitBusy, Committing
  <2> QED
    BY <1>4, <2>1, <2>2, <2>3, <2>4, <2>5, <2>6, <2>7, <2>8, <2>9, <2>10, <2>11, <2>12
    DEF Library, Answers
<1> QED BY <1>1, <1>3, <1>4 DEF Next

(* Outside a transaction a connection has nothing in hand between calls but for the
   sake of a statement that is active. *)
THEOREM NothingHeldAtRestHolds == Spec => []NothingHeldAtRest
<1>1. PageInv /\ RestInv => NothingHeldAtRest
  BY DEF PageInv, ChangesAreLocked, WritesEndWithTheirCall, RestInv, NothingHeldAtRest, Running
<1>2. PageInv => TypeOK
  BY DEF PageInv
<1> QED BY <1>1, <1>2, RestInit, RestStep, PageInvariant, PTL DEF Spec

------------------------------------------------------------------------------
(* Transaction objects. *)

(* A constructor or commit that runs is that of an object of its connection, and
   an object that is not there or being made is not marked as committed. *)
CallInv ==
  /\ \A c \in Conns : /\ call[c].op \in {"begin", "commit"} => connection[call[c].tx] = c
                      /\ call[c].op = "begin" => ~committed[call[c].tx]
  /\ \A t \in Txs : connection[t] = NoConn => ~committed[t]

(* SQLite's transaction on c is that of t: an open one, or one that is gone. *)
Owns(t, c) ==
  \/ /\ connection[t] = c /\ ~committed[t]
     /\ ~(call[c].op = "begin" /\ call[c].tx = t)
  \/ "rollback" \in Faults /\ connection[t] = NoConn

OwnerInv == \A c \in Conns : ~AutoCommit(c) => Owns(owner[c], c)

ObjectInv == CallInv /\ OwnerInv

LEMMA ObjectInit == Init => ObjectInv
  BY CallsTyped, NamesAssumption DEF Init, ObjectInv, CallInv, OwnerInv, AutoCommit

(* A step that leaves the objects alone, starts no constructor and gives c no
   transaction. *)
LEMMA ObjectsUntouched ==
  ASSUME TypeOK, ObjectInv, NEW c \in Conns, OthersUntouched(c),
         UNCHANGED <<connection, committed>>, owner'[c] \in {owner[c], NoTx},
         call'[c] = call[c] \/ call'[c].op # "begin",
         call'[c].op = "commit" => connection[call'[c].tx] = c
  PROVE  ObjectInv'
<1>1. CallInv'
  BY DEF ObjectInv, CallInv, OthersUntouched
<1>2. OwnerInv'
  <2> SUFFICES ASSUME NEW d \in Conns, owner'[d] # NoTx
               PROVE  Owns(owner[d], d)' /\ owner'[d] = owner[d]
    BY DEF OwnerInv, AutoCommit
  <2>1. owner'[d] = owner[d]
    BY DEF OthersUntouched
  <2>2. Owns(owner[d], d)
    BY <2>1 DEF ObjectInv, OwnerInv, AutoCommit
  <2>3. call'[d] = call[d] \/ call'[d].op # "begin"
    BY DEF OthersUntouched
  <2> QED BY <2>1, <2>2, <2>3 DEF Owns
<1> QED BY <1>1, <1>2 DEF ObjectInv

(* The constructor of an object throws: nobody's transaction was this object's. *)
LEMMA ConstructorLeavesNone ==
  ASSUME TypeOK, ObjectInv, NEW c \in Conns, OthersUntouched(c),
         Running(c, "begin"),
         connection' = [connection EXCEPT ![Current(c)] = NoConn],
         committed' = committed, owner'[c] \in {owner[c], NoTx}, call'[c].op = "idle"
  PROVE  ObjectInv'
<1> DEFINE t == call[c].tx
<1>1. /\ t \in Txs /\ call[c].op = "begin" /\ connection[t] = c /\ ~committed[t]
      /\ connection'[t] = NoConn
      /\ \A u \in Txs \ {t} : connection'[u] = connection[u]
  BY DEF Running, Current, TypeOK, Calls, ObjectInv, CallInv
<1>2. CallInv'
  <2>1. ASSUME NEW d \in Conns \ {c}, call[d].op \in {"begin", "commit"}
        PROVE  call[d].tx \in Txs \ {t}
    BY <1>1, <2>1 DEF TypeOK, Calls, ObjectInv, CallInv
  <2> QED BY <1>1, <2>1 DEF ObjectInv, CallInv, OthersUntouched
<1>3. OwnerInv'
  <2> SUFFICES ASSUME NEW d \in Conns, owner'[d] # NoTx
               PROVE  Owns(owner[d], d)' /\ owner'[d] = owner[d]
    BY DEF OwnerInv, AutoCommit
  <2>1. owner'[d] = owner[d] /\ owner[d] \in Txs
    BY DEF OthersUntouched, TypeOK
  <2>2. Owns(owner[d], d)
    BY <2>1 DEF ObjectInv, OwnerInv, AutoCommit
  <2>3. owner[d] # t
    BY <1>1, <2>2, NamesAssumption DEF Owns
  <2>4. call'[d] = call[d] \/ call'[d].op # "begin"
    BY DEF OthersUntouched
  <2> QED BY <1>1, <2>1, <2>2, <2>3, <2>4 DEF Owns
<1> QED BY <1>2, <1>3 DEF ObjectInv

LEMMA ObjectStep == TypeOK /\ ObjectInv /\ [Next]_vars => ObjectInv'
<1> SUFFICES ASSUME TypeOK, ObjectInv, [Next]_vars
             PROVE  ObjectInv'
  OBVIOUS
<1>1. CASE UNCHANGED vars
  BY <1>1 DEF vars, ObjectInv, CallInv, OwnerInv, Owns, AutoCommit
<1>2. ASSUME NEW c \in Conns, Application(c)
      PROVE  ObjectInv'
  <2> OthersUntouched(c)
    BY <1>2, Locality
  <2>1. ASSUME NEW t \in Txs, NEW m \in Modes, Construct(t, c, m)
        PROVE  ObjectInv'
    <3>1. /\ call[c].op = "idle" /\ connection[t] = NoConn
          /\ \A d \in Conns : owner[d] # t
          /\ connection'[t] = c /\ ~committed'[t]
          /\ \A u \in Txs \ {t} : connection'[u] = connection[u] /\ committed'[u] = committed[u]
          /\ call'[c].op = "begin" /\ call'[c].tx = t
          /\ owner' = owner
      BY <2>1 DEF Construct, Running, Exists, ACall, TypeOK
    <3>2. CallInv'
      <4>1. ASSUME NEW d \in Conns \ {c}, call[d].op \in {"begin", "commit"}
            PROVE  call[d].tx \in Txs \ {t}
        BY <3>1, <4>1, NamesAssumption DEF TypeOK, Calls, ObjectInv, CallInv
      <4> QED BY <3>1, <4>1, NamesAssumption DEF ObjectInv, CallInv, OthersUntouched
    <3>3. OwnerInv'
      <4> SUFFICES ASSUME NEW d \in Conns, owner[d] # NoTx
                   PROVE  Owns(owner[d], d)'
        BY <3>1 DEF OwnerInv, AutoCommit
      <4>1. owner[d] \in Txs \ {t} /\ Owns(owner[d], d)
        BY <3>1 DEF TypeOK, ObjectInv, OwnerInv, AutoCommit
      <4> QED BY <3>1, <4>1 DEF Owns, OthersUntouched
    <3> QED BY <3>2, <3>3 DEF ObjectInv
  <2>2. ASSUME NEW t \in Txs, Commit(t, c)
        PROVE  ObjectInv'
    BY <2>2, ObjectsUntouched DEF Commit, Running, ACall, TypeOK
  <2>3. ASSUME NEW t \in Txs, Destroy(t, c)
        PROVE  ObjectInv'
    <3>1. /\ call[c].op = "idle" /\ connection[t] = c /\ call' = call
          /\ connection'[t] = NoConn /\ ~committed'[t]
          /\ \A u \in Txs \ {t} : connection'[u] = connection[u] /\ committed'[u] = committed[u]
      BY <2>3 DEF Destroy, Running, TypeOK
    <3>2. CallInv'
      <4>1. ASSUME NEW d \in Conns, call[d].op \in {"begin", "commit"}
            PROVE  call[d].tx \in Txs \ {t}
        BY <3>1, <4>1 DEF TypeOK, Calls, ObjectInv, CallInv
      <4> QED BY <3>1, <4>1 DEF ObjectInv, CallInv
    <3>3. OwnerInv'
      <4> SUFFICES ASSUME NEW d \in Conns, owner'[d] # NoTx
                   PROVE  Owns(owner[d], d)' /\ owner'[d] = owner[d]
        BY DEF OwnerInv, AutoCommit
      <4>1. \/ owner'[c] = NoTx
            \/ owner' = owner /\ (RollsBack(t, c) => "rollback" \in Faults)
        BY <2>3 DEF Destroy, EndTransaction, TypeOK
      <4>2. owner'[d] = owner[d] /\ owner[d] \in Txs
        BY <4>1 DEF OthersUntouched, TypeOK
      <4>3. Owns(owner[d], d)
        BY <4>2 DEF ObjectInv, OwnerInv, AutoCommit
      <4>4. CASE owner[d] # t
        BY <3>1, <4>2, <4>3, <4>4 DEF Owns
      <4>5. CASE owner[d] = t
        <5>1. d = c /\ ~committed[t]
          BY <3>1, <4>3, <4>5, NamesAssumption DEF Owns
        <5>2. "rollback" \in Faults
          BY <4>1, <4>2, <5>1 DEF RollsBack, AutoCommit
        <5> QED BY <3>1, <4>2, <4>5, <5>2 DEF Owns
      <4> QED BY <4>4, <4>5
    <3> QED BY <3>2, <3>3 DEF ObjectInv
  <2>4. CASE Write(c) \/ Read(c)
    BY <2>4, ObjectsUntouched DEF Write, Read, Running, ACall, TypeOK
  <2>5. CASE CloseReader(c) \/ DropWriter(c)
    <3>1. UNCHANGED <<connection, committed, call>> /\ call[c].op = "idle"
      BY <2>5 DEF CloseReader, DropWriter, Running
    <3>2. owner'[c] \in {owner[c], NoTx}
      BY <2>5 DEF CloseReader, DropWriter, EndTransaction, TypeOK
    <3> QED BY <3>1, <3>2, ObjectsUntouched
  <2> QED BY <1>2, <2>1, <2>2, <2>3, <2>4, <2>5 DEF Application
<1>3. ASSUME NEW c \in Conns, Library(c)
      PROVE  ObjectInv'
  <2> OthersUntouched(c)
    BY <1>3, Locality
  <2>1. CASE BeginDone(c)
    <3> DEFINE t == call[c].tx
    <3>1. /\ call[c].op = "begin" /\ t \in Txs /\ connection[t] = c /\ ~committed[t]
          /\ call'[c].op = "idle" /\ UNCHANGED <<connection, committed>> /\ owner'[c] = t
      BY <2>1, ReturnTyped
      DEF BeginDone, Running, Current, TypeOK, Calls, ObjectInv, CallInv
    <3>2. CallInv'
      BY <3>1 DEF ObjectInv, CallInv, OthersUntouched
    <3>3. OwnerInv'
      <4>1. Owns(owner[c], c)'
        BY <3>1 DEF Owns
      <4>2. ASSUME NEW d \in Conns \ {c}, owner[d] # NoTx
            PROVE  Owns(owner[d], d)'
        BY <3>1, <4>2 DEF Owns, ObjectInv, OwnerInv, AutoCommit, OthersUntouched
      <4> QED BY <3>1, <4>1, <4>2 DEF OwnerInv, AutoCommit, OthersUntouched
    <3> QED BY <3>2, <3>3 DEF ObjectInv
  <2>2. CASE BeginNested(c) \/ BeginBusy(c)
    BY <2>2, ReturnTyped, ConstructorLeavesNone
    DEF BeginNested, BeginBusy, ConstructorThrows
  <2>3. CASE BeginPending(c) \/ CommitPending(c)
    BY <2>3, ObjectsUntouched DEF BeginPending, CommitPending, ObjectInv, CallInv
  <2>4. ASSUME NEW w \in Writes, WriteDone(c, w) \/ WriteThrough(c, w) \/ WritePending(c, w)
        PROVE  ObjectInv'
    <3>1. /\ UNCHANGED <<connection, committed>>
          /\ call'[c].op \in {"idle", "written"}
      BY <2>4, ReturnTyped DEF WriteDone, WriteThrough, WritePending, ACall, TypeOK
    <3>2. owner'[c] \in {owner[c], NoTx}
      BY <2>4 DEF WriteDone, WriteThrough, WritePending, EndTransaction, TypeOK
    <3> QED BY <3>1, <3>2, ObjectsUntouched
  <2>5. CASE WriteBusy(c) \/ ReadDone(c) \/ ReadBusy(c) \/ CommitRefused(c) \/ CommitBusy(c)
    BY <2>5, ReturnTyped, ObjectsUntouched
    DEF WriteBusy, ReadDone, ReadBusy, CommitRefused, CommitBusy
  <2>6. CASE WriteCommitted(c) \/ WriteUndone(c) \/ WriteFails(c)
    <3>1. UNCHANGED <<connection, committed>> /\ call'[c].op = "idle"
      BY <2>6, ReturnTyped DEF WriteCommitted, WriteUndone, WriteFails
    <3>2. owner'[c] \in {owner[c], NoTx}
      BY <2>6 DEF WriteCommitted, WriteUndone, WriteFails, EndTransaction, TypeOK
    <3> QED BY <3>1, <3>2, ObjectsUntouched
  <2>7. CASE TransactionFails(c)
    <3>1. owner'[c] = NoTx /\ committed' = committed /\ call'[c].op = "idle"
      BY <2>7, ReturnTyped DEF TransactionFails, EndTransaction, TypeOK
    <3>2. CASE Running(c, "begin")
      <4>1. connection' = [connection EXCEPT ![Current(c)] = NoConn]
        BY <2>7, <3>2 DEF TransactionFails, TypeOK
      <4> QED BY <3>1, <3>2, <4>1, ConstructorLeavesNone
    <3>3. CASE ~Running(c, "begin")
      <4>1. connection' = connection
        BY <2>7, <3>3 DEF TransactionFails, TypeOK
      <4> QED BY <3>1, <4>1, ObjectsUntouched
    <3> QED BY <3>2, <3>3
  <2>8. CASE CommitDone(c)
    <3> DEFINE t == call[c].tx
    <3>1. /\ call[c].op = "commit" /\ t \in Txs /\ connection[t] = c
          /\ call'[c].op = "idle" /\ connection' = connection
          /\ \A u \in Txs \ {t} : committed'[u] = committed[u]
          /\ owner'[c] = NoTx
      BY <2>8, ReturnTyped DEF CommitDone, Committing, EndTransaction, Current, Running,
         TypeOK, Calls, ObjectInv, CallInv
    <3>2. CallInv'
      <4>1. ASSUME NEW d \in Conns \ {c}, call[d].op \in {"begin", "commit"}
            PROVE  call[d].tx \in Txs \ {t}
        BY <3>1, <4>1 DEF TypeOK, Calls, ObjectInv, CallInv
      <4> QED BY <3>1, <4>1, NamesAssumption DEF ObjectInv, CallInv, OthersUntouched
    <3>3. OwnerInv'
      <4> SUFFICES ASSUME NEW d \in Conns \ {c}, owner[d] # NoTx
                   PROVE  Owns(owner[d], d)'
        BY <3>1 DEF OwnerInv, AutoCommit, OthersUntouched
      <4>1. owner[d] \in Txs /\ Owns(owner[d], d)
        BY DEF TypeOK, ObjectInv, OwnerInv, AutoCommit
      <4>2. owner[d] # t \/ connection[t] = NoConn
        BY <3>1, <4>1 DEF Owns
      <4> QED BY <3>1, <4>1, <4>2, NamesAssumption DEF Owns, OthersUntouched
    <3> QED BY <3>2, <3>3 DEF ObjectInv
  <2> QED BY <1>3, <2>1, <2>2, <2>3, <2>4, <2>5, <2>6, <2>7, <2>8 DEF Library, Answers
<1> QED BY <1>1, <1>2, <1>3 DEF Next

LEMMA ObjectInvariant == Spec => []ObjectInv
  BY ObjectInit, ObjectStep, TypeCorrect, PTL DEF Spec

(* SQLite's transaction belongs to an open object, whatever throws, unless it
   outlives it by a ROLLBACK that failed. *)
THEOREM TransactionHasItsObjectHolds == Spec => []TransactionHasItsObject
<1>1. ObjectInv => TransactionHasItsObject
  BY NamesAssumption DEF ObjectInv, OwnerInv, Owns, TransactionHasItsObject, Open, Exists,
     Constructing, Current, Running
<1> QED BY <1>1, ObjectInvariant, PTL

------------------------------------------------------------------------------
(* The refinement of AtomicStore. *)

(* A write that waits to commit itself has changed what it was to change. *)
WrittenInv ==
  \A c \in Conns :
    Running(c, "written") => /\ CommitsItself(c) /\ writing[c]
                             /\ \E w \in Writes : Record(delta[c], w) = delta[c]

LEMMA WrittenInit == Init => WrittenInv
  BY CallsTyped DEF Init, WrittenInv, Running

LEMMA RecordTwice ==
  ASSUME NEW d \in Changes, NEW w \in Writes
  PROVE  Record(Record(d, w), w) = Record(d, w)
  BY DEF Changes, Writes, Record

LEMMA WrittenStep == TypeOK /\ WrittenInv /\ [Next]_vars => WrittenInv'
<1> SUFFICES ASSUME TypeOK, WrittenInv, [Next]_vars
             PROVE  WrittenInv'
  OBVIOUS
<1>1. CASE UNCHANGED vars
  BY <1>1 DEF vars, WrittenInv, Running, CommitsItself, AutoCommit, Stalled
<1>2. ASSUME NEW c \in Conns, OthersUntouched(c), call'[c].op # "written"
      PROVE  WrittenInv'
  BY <1>2 DEF WrittenInv, OthersUntouched, Running, CommitsItself, AutoCommit, Stalled
<1>3. ASSUME NEW c \in Conns, Application(c)
      PROVE  WrittenInv'
  <2>1. call'[c].op # "written"
    BY <1>3 DEF Application, Construct, Commit, Destroy, Write, Read, CloseReader, DropWriter,
       Running, ACall, TypeOK
  <2> QED BY <1>2, <1>3, <2>1, Locality
<1>4. ASSUME NEW c \in Conns, Library(c)
      PROVE  WrittenInv'
  <2> OthersUntouched(c)
    BY <1>4, Locality
  <2>1. ASSUME NEW w \in Writes, WritePending(c, w)
        PROVE  WrittenInv'
    <3>1. /\ CommitsItself(c) /\ UNCHANGED <<owner, writer>>
          /\ writing'[c] /\ delta'[c] = Record(delta[c], w)
      BY <2>1 DEF WritePending, TypeOK
    <3>2. Record(delta'[c], w) = delta'[c]
      BY <3>1, RecordTwice DEF TypeOK
    <3> QED BY <3>1, <3>2
        DEF WrittenInv, OthersUntouched, Running, CommitsItself, AutoCommit, Stalled
  <2>2. ASSUME NEW w \in Writes, WriteDone(c, w) \/ WriteThrough(c, w)
        PROVE  WrittenInv'
    BY <1>2, <2>2, ReturnTyped DEF WriteDone, WriteThrough
  <2>3. CASE BeginPending(c) \/ CommitPending(c)
    BY <1>2, <2>3 DEF BeginPending, CommitPending, Committing, Running
  <2>4. CASE \/ BeginDone(c) \/ BeginNested(c) \/ BeginBusy(c)
             \/ WriteCommitted(c) \/ WriteBusy(c) \/ WriteUndone(c) \/ WriteFails(c)
             \/ TransactionFails(c) \/ ReadDone(c) \/ ReadBusy(c)
             \/ CommitRefused(c) \/ CommitDone(c) \/ CommitBusy(c)
    <3>1. Return(c)
      BY <2>4 DEF BeginDone, BeginNested, BeginBusy, ConstructorThrows, WriteCommitted,
         WriteBusy, WriteUndone, WriteFails, TransactionFails, ReadDone, ReadBusy,
         CommitRefused, CommitDone, CommitBusy
    <3> QED BY <1>2, <3>1, ReturnTyped
  <2> QED BY <1>4, <2>1, <2>2, <2>3, <2>4 DEF Library, Answers
<1> QED BY <1>1, <1>3, <1>4 DEF Next

MapInv ==
  /\ TypeOK
  /\ PageInv
  /\ ObjectInv
  /\ WrittenInv

(* Who may reserve the file, or has done so, is alone with its changes. *)
LEMMA ReserverIsAlone ==
  ASSUME PageInv, NEW c \in Conns, CanReserve(c)
  PROVE  \A d \in Conns \ {c} : delta[d] = NoChange
  BY DEF PageInv, TypeOK, ReservedIsExclusive, ChangesAreLocked, CanReserve, HeldElsewhere,
     Locks, NONE, RESERVED, EXCLUSIVE

(* No constructor starts or ends: the objects are seen where they were. *)
LEMMA AtFrame ==
  ASSUME TypeOK, NEW c \in Conns, OthersUntouched(c), connection' = connection,
         call'[c] = call[c] \/ (call[c].op # "begin" /\ call'[c].op # "begin")
  PROVE  At' = At
<1>1. ASSUME NEW t \in Txs
      PROVE  Constructing(t)' <=> Constructing(t)
  BY DEF Constructing, Exists, Current, Running, OthersUntouched, TypeOK
<1> QED BY <1>1 DEF At

(* A constructor that throws was not to be seen before either. *)
LEMMA AtThrows ==
  ASSUME TypeOK, ObjectInv, NEW c \in Conns, OthersUntouched(c),
         Running(c, "begin"), call'[c].op = "idle",
         connection' = [connection EXCEPT ![Current(c)] = NoConn]
  PROVE  At' = At
<1>1. /\ Current(c) \in Txs /\ connection[Current(c)] = c /\ Constructing(Current(c))
      /\ connection'[Current(c)] = NoConn
  BY NamesAssumption
  DEF TypeOK, Calls, ObjectInv, CallInv, Current, Running, Constructing, Exists
<1>2. ASSUME NEW t \in Txs \ {Current(c)}
      PROVE  connection'[t] = connection[t] /\ (Constructing(t)' <=> Constructing(t))
  BY <1>2 DEF Constructing, Exists, Current, Running, OthersUntouched, TypeOK
<1> QED BY <1>1, <1>2 DEF At

(* Both specifications speak of the same changes. *)
LEMMA SameChanges ==
  /\ Abs!NoChange = NoChange /\ Abs!Writes = Writes
  /\ \A d, w : Abs!Record(d, w) = Record(d, w)
  /\ \A S, d : Abs!Apply(S, d) = Apply(S, d)
  BY DEF Abs!NoChange, NoChange, Abs!Writes, Writes, Abs!Record, Record, Abs!Apply, Apply

LEMMA MapInit == Init => Abs!AInit
<1> SUFFICES ASSUME Init
             PROVE  Abs!AInit
  OBVIOUS
<1>1. At = [t \in Txs |-> NoConn]
  BY DEF Init, At, Constructing, Exists
<1> QED BY <1>1, SameChanges DEF Init, Abs!AInit

(* The end of a transaction or of a write on its own, without effect on the file. *)
LEMMA Lost ==
  ASSUME MapInv, NEW c \in Conns, NEW level, EndTransaction(c, disk, level),
         AutoCommit(c) \/ "transaction" \in Faults, At' = At, committed' = committed
  PROVE  Abs!ALose(c)
  BY SameChanges DEF EndTransaction, Abs!ALose, Abs!LetGo, AutoCommit

LEMMA ApplicationRefines ==
  ASSUME MapInv, NEW c \in Conns, Application(c)
  PROVE  [Abs!ANext]_<<disk, delta, owner, At, committed>>
<1> OthersUntouched(c)
  BY Locality DEF MapInv
<1> USE DEF MapInv
<1>1. ASSUME NEW t \in Txs, NEW m \in Modes, Construct(t, c, m)
      PROVE  UNCHANGED <<disk, delta, owner, At, committed>>
  <2>1. /\ call[c].op = "idle" /\ connection[t] = NoConn /\ UNCHANGED <<disk, delta, owner>>
        /\ connection'[t] = c /\ call'[c].op = "begin" /\ call'[c].tx = t
        /\ \A u \in Txs \ {t} : connection'[u] = connection[u]
        /\ committed' = [committed EXCEPT ![t] = FALSE]
    BY <1>1 DEF Construct, Running, Exists, ACall, TypeOK
  <2>2. committed' = committed
    BY <2>1 DEF ObjectInv, CallInv, TypeOK
  <2>3. Constructing(t)' /\ ~Constructing(t)
    BY <2>1, NamesAssumption DEF Constructing, Exists, Current, Running
  <2>4. ASSUME NEW u \in Txs \ {t}
        PROVE  Constructing(u)' <=> Constructing(u)
    BY <2>1 DEF Constructing, Exists, Current, Running, OthersUntouched, TypeOK
  <2>5. At' = At
    BY <2>1, <2>3, <2>4 DEF At
  <2> QED BY <2>1, <2>2, <2>5
<1>2. ASSUME NEW t \in Txs, Destroy(t, c)
      PROVE  Abs!AEnd(t, c)
  <2>1. /\ call[c].op = "idle" /\ connection[t] = c /\ call' = call
        /\ connection' = [connection EXCEPT ![t] = NoConn]
        /\ committed' = [committed EXCEPT ![t] = FALSE]
    BY <1>2 DEF Destroy, Running
  <2>2. At[t] = c
    BY <2>1 DEF At, Constructing, Current, Running
  <2>3. At' = [At EXCEPT ![t] = NoConn]
    <3>1. connection'[t] = NoConn /\ ~Constructing(t)'
      BY <2>1 DEF Constructing, Exists, TypeOK
    <3>2. ASSUME NEW u \in Txs \ {t}
          PROVE  connection'[u] = connection[u] /\ (Constructing(u)' <=> Constructing(u))
      BY <2>1 DEF Constructing, Exists, Current, Running, TypeOK
    <3> QED BY <3>1, <3>2 DEF At
  <2>4. CASE /\ RollsBack(t, c) \/ LeavesNothing(c)
             /\ EndTransaction(c, disk, IF Scoped THEN NONE ELSE Rest(c))
    BY <2>1, <2>2, <2>3, <2>4, SameChanges
    DEF RollsBack, LeavesNothing, AutoCommit, EndTransaction, Abs!AEnd, Abs!LetGo
  <2>5. CASE /\ RollsBack(t, c) => "rollback" \in Faults
             /\ UNCHANGED <<disk, work, delta, lock, writing, owner>>
    BY <2>1, <2>2, <2>3, <2>5 DEF RollsBack, AutoCommit, Abs!AEnd
  <2> QED BY <1>2, <2>4, <2>5 DEF Destroy
<1>3. CASE (\E t \in Txs : Commit(t, c)) \/ Write(c) \/ Read(c) \/ CloseReader(c)
  <2>1. /\ UNCHANGED <<disk, delta, owner, connection, committed>>
        /\ call[c].op = "idle" /\ call'[c].op # "begin"
    BY <1>3 DEF Commit, Write, Read, CloseReader, Running, ACall, TypeOK
  <2> QED BY <2>1, AtFrame
<1>4. CASE DropWriter(c)
  <2>1. At' = At /\ committed' = committed
    BY <1>4, AtFrame DEF DropWriter
  <2>2. CASE AutoCommit(c) /\ writing[c]
    BY <1>4, <2>1, <2>2, Lost DEF DropWriter, Abs!ANext
  <2>3. CASE ~(AutoCommit(c) /\ writing[c])
    BY <1>4, <2>1, <2>3 DEF DropWriter
  <2> QED BY <2>2, <2>3
<1> QED BY <1>1, <1>2, <1>3, <1>4 DEF Application, Abs!ANext

(* A write outside a transaction, as it commits itself. *)
LEMMA ThroughRefines ==
  ASSUME MapInv, NEW c \in Conns, NEW w \in Writes, AutoCommit(c), CanReserve(c),
         EndTransaction(c, Apply(disk, Record(delta[c], w)), RestOfWrite(c)),
         At' = At, committed' = committed
  PROVE  Abs!AWriteThrough(c, w)
<1>1. \A d \in Conns \ {c} : delta[d] = NoChange
  BY ReserverIsAlone DEF MapInv
<1> QED BY <1>1, SameChanges
    DEF EndTransaction, AutoCommit, Abs!AWriteThrough, Abs!Alone, Abs!LetGo

LEMMA LibraryRefines ==
  ASSUME MapInv, NEW c \in Conns, Library(c)
  PROVE  [Abs!ANext]_<<disk, delta, owner, At, committed>>
<1> OthersUntouched(c)
  BY Locality DEF MapInv
<1> USE ReturnTyped, SameChanges DEF MapInv
<1>1. CASE BeginDone(c)
  <2>1. PICK t \in Txs : t = call[c].tx
    BY <1>1 DEF BeginDone, Running, TypeOK, Calls
  <2>2. /\ call[c].op = "begin" /\ connection[t] = c /\ call'[c].op = "idle"
        /\ UNCHANGED <<disk, delta, connection, committed>>
        /\ owner[c] = NoTx /\ owner' = [owner EXCEPT ![c] = t]
    BY <1>1, <2>1 DEF BeginDone, Running, Current, AutoCommit, ObjectInv, CallInv
  <2>3. At[t] = NoConn
    BY <2>1, <2>2, NamesAssumption DEF At, Constructing, Exists, Current, Running
  <2>4. At' = [At EXCEPT ![t] = c]
    <3>1. ~Constructing(t)'
      BY <2>2 DEF Constructing, Current, Running
    <3>2. ASSUME NEW u \in Txs \ {t}
          PROVE  Constructing(u)' <=> Constructing(u)
      BY <2>1, <2>2 DEF Constructing, Exists, Current, Running, OthersUntouched, TypeOK
    <3> QED BY <2>2, <3>1, <3>2 DEF At
  <2>5. Abs!ABegin(t, c)
    BY <2>2, <2>3, <2>4 DEF Abs!ABegin
  <2> QED BY <2>5 DEF Abs!ANext
<1>2. CASE BeginNested(c) \/ BeginBusy(c)
  <2>1. /\ Running(c, "begin") /\ call'[c].op = "idle"
        /\ connection' = [connection EXCEPT ![Current(c)] = NoConn]
        /\ UNCHANGED <<disk, delta, owner, committed>>
    BY <1>2 DEF BeginNested, BeginBusy, ConstructorThrows
  <2> QED BY <2>1, AtThrows
<1>3. ASSUME NEW w \in Writes, WriteDone(c, w) \/ WriteThrough(c, w) \/ WritePending(c, w)
      PROVE  Abs!ANext
  <2>1. /\ CanReserve(c) /\ UNCHANGED <<connection, committed>>
        /\ call[c].op = "write" /\ call'[c].op \in {"idle", "written"}
    BY <1>3 DEF WriteDone, WriteThrough, WritePending, CanOwn, Running, ACall, TypeOK
  <2>2. At' = At
    BY <2>1, AtFrame
  <2>3. CASE WriteDone(c, w) \/ WritePending(c, w)
    <3>1. UNCHANGED <<disk, owner>> /\ delta' = [delta EXCEPT ![c] = Record(@, w)]
      BY <2>3 DEF WriteDone, WritePending
    <3>2. \A d \in Conns \ {c} : delta[d] = NoChange
      BY <2>1, ReserverIsAlone
    <3>3. Abs!APut(c, w)
      BY <2>1, <2>2, <3>1, <3>2 DEF Abs!APut, Abs!Alone
    <3> QED BY <3>3 DEF Abs!ANext
  <2>4. CASE WriteThrough(c, w)
    <3>1. AutoCommit(c) /\ EndTransaction(c, Written(c, w), RestOfWrite(c))
      BY <2>4 DEF WriteThrough, CommitsItself
    <3>2. Written(c, w) = Apply(disk, Record(delta[c], w))
      <4>1. disk \in SUBSET Items /\ delta[c] \in Changes /\ View(c) = Apply(disk, delta[c])
        BY ViewIsOwn DEF TypeOK
      <4> QED BY ONLY w \in Writes, <4>1, ApplyRecord DEF Written
    <3> QED BY <2>1, <2>2, <3>1, <3>2, ThroughRefines DEF Abs!ANext
  <2> QED BY <1>3, <2>3, <2>4
<1>4. CASE WriteCommitted(c)
  <2>1. /\ CanReserve(c) /\ UNCHANGED <<connection, committed>>
        /\ call[c].op = "written" /\ call'[c].op = "idle"
        /\ EndTransaction(c, work[c], RestOfWrite(c))
    BY <1>4 DEF WriteCommitted, CanOwn, Running
  <2>2. At' = At
    BY <2>1, AtFrame
  <2>3. AutoCommit(c) /\ writing[c]
    BY <2>1 DEF WrittenInv, Running, CommitsItself
  <2>4. PICK w \in Writes : Record(delta[c], w) = delta[c]
    BY <2>1 DEF WrittenInv, Running
  <2>5. work[c] = Apply(disk, Record(delta[c], w))
    BY <2>3, <2>4 DEF PageInv, TypeOK, OwnView, ChangesAreLocked, NONE, RESERVED
  <2> QED BY <2>1, <2>2, <2>3, <2>5, ThroughRefines DEF Abs!ANext
<1>5. CASE WriteUndone(c) \/ (WriteFails(c) /\ CommitsItself(c))
  <2>1. /\ call[c].op \in {"write", "written"} /\ call'[c].op = "idle"
        /\ UNCHANGED <<connection, committed>>
        /\ EndTransaction(c, disk, RestOfWrite(c))
    BY <1>5 DEF WriteUndone, WriteFails, Running
  <2>2. AutoCommit(c)
    BY <1>5 DEF WriteUndone, WrittenInv, Running, CommitsItself
  <2> QED BY <2>1, <2>2, AtFrame, Lost DEF Abs!ANext
<1>6. CASE TransactionFails(c)
  <2>1. PICK level \in Left(c) : EndTransaction(c, disk, level)
    BY <1>6 DEF TransactionFails
  <2>2. "transaction" \in Faults /\ committed' = committed /\ call'[c].op = "idle"
    BY <1>6 DEF TransactionFails
  <2>3. CASE Running(c, "begin")
    <3>1. connection' = [connection EXCEPT ![Current(c)] = NoConn]
      BY <1>6, <2>3 DEF TransactionFails, TypeOK
    <3> QED BY <2>1, <2>2, <2>3, <3>1, AtThrows, Lost DEF Abs!ANext
  <2>4. CASE ~Running(c, "begin")
    <3>1. connection' = connection /\ call[c].op # "begin"
      BY <1>6, <2>4 DEF TransactionFails, TypeOK, Running
    <3> QED BY <2>1, <2>2, <3>1, AtFrame, Lost DEF Abs!ANext
  <2> QED BY <2>3, <2>4
<1>7. CASE CommitDone(c)
  <2>1. PICK t \in Txs : t = call[c].tx
    BY <1>7 DEF CommitDone, Committing, Running, TypeOK, Calls
  <2>2. /\ call[c].op = "commit" /\ connection[t] = c /\ call'[c].op = "idle"
        /\ connection' = connection /\ committed' = [committed EXCEPT ![t] = TRUE]
    BY <1>7, <2>1 DEF CommitDone, Committing, Running, Current, ObjectInv, CallInv
  <2>3. /\ owner[c] # NoTx /\ owner' = [owner EXCEPT ![c] = NoTx]
        /\ delta' = [delta EXCEPT ![c] = NoChange]
        /\ disk' = IF writing[c] THEN work[c] ELSE disk
        /\ writing[c] => CanReserve(c)
    BY <1>7 DEF CommitDone, Committing, EndTransaction, AutoCommit, CanOwn
  <2>4. At' = At /\ At[t] = c
    BY <2>2, AtFrame DEF At, Constructing, Current, Running
  <2>5. disk' = Apply(disk, delta[c])
    BY <2>3, ApplyNoChange DEF PageInv, TypeOK, ChangesAreLocked, OwnView, NONE, RESERVED
  <2>6. (\A d \in Conns \ {c} : delta[d] = NoChange) \/ delta[c] = NoChange
    BY <2>3, ReserverIsAlone DEF PageInv, ChangesAreLocked
  <2>7. Abs!ACommit(t, c)
    BY <2>2, <2>3, <2>4, <2>5, <2>6 DEF Abs!ACommit, Abs!Alone, Abs!LetGo
  <2> QED BY <2>7 DEF Abs!ANext
<1>8. CASE \/ BeginPending(c) \/ WriteBusy(c) \/ (WriteFails(c) /\ ~CommitsItself(c))
           \/ ReadDone(c) \/ ReadBusy(c)
           \/ CommitRefused(c) \/ CommitPending(c) \/ CommitBusy(c)
  <2>1. UNCHANGED <<disk, delta, owner, connection, committed>>
    BY <1>8 DEF BeginPending, WriteBusy, WriteFails, ReadDone, ReadBusy, CommitRefused,
       CommitPending, CommitBusy
  <2>2. call'[c] = call[c] \/ (call[c].op # "begin" /\ call'[c].op # "begin")
    BY <1>8 DEF BeginPending, WriteBusy, WriteFails, ReadDone, ReadBusy, CommitRefused,
       CommitPending, CommitBusy, Committing, Running
  <2> QED BY <2>1, <2>2, AtFrame
<1> QED BY <1>1, <1>2, <1>3, <1>4, <1>5, <1>6, <1>7, <1>8 DEF Library, Answers

(* What is changed in a transaction becomes durable together or not at all. *)
THEOREM TransactionsAreAtomic == Spec => ImplementsAtomicStore
<1>1. MapInv /\ [Next]_vars => [Abs!ANext]_(Abs!avars)
  <2> SUFFICES ASSUME MapInv, [Next]_vars
               PROVE  [Abs!ANext]_<<disk, delta, owner, At, committed>>
    BY DEF Abs!avars
  <2>1. CASE UNCHANGED vars
    BY <2>1 DEF vars, At, Exists, Constructing, Current, Running
  <2> QED BY <2>1, ApplicationRefines, LibraryRefines DEF Next
<1>2. TypeOK /\ PageInv /\ ObjectInv /\ WrittenInv => MapInv
  BY DEF MapInv
<1>3. Spec => []MapInv
  BY <1>2, WrittenInit, WrittenStep, TypeCorrect, PageInvariant, ObjectInvariant, PTL DEF Spec
<1> QED BY <1>1, <1>3, MapInit, PTL DEF Spec, ImplementsAtomicStore, Abs!ASpec
==============================================================================
