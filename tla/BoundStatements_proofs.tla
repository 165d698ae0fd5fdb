------------------------ MODULE BoundStatements_proofs ------------------------
(***************************************************************************)
(* Proofs about BoundStatements, for any number of objects, contents and   *)
(* rows, with or without moves.                                            *)
(***************************************************************************)
EXTENDS BoundStatements, TLAPS

(* A statement is bound to what its object was given, to nothing if the object is a
   remover that was reset where it had been moved to, or to what another remover was
   given. *)
BoundWell(k, h, g, w) ==
  h.state # "null" =>
    /\ w = "own"  => h.bound = BoundTo(k, g)
    /\ w = "lost" => k = "remover" /\ h.bound = Unbound

BoundAt(s) == BoundWell(kind[s], handle[s], given[s], whose[s])

BoundInv == \A s \in Slots : BoundAt(s)

StatementInv == TypeOK /\ BoundInv

LEMMA StartsTyped == Prepared \in Handles /\ Unprepared \in Handles
  BY DEF Prepared, Unprepared, Handles, Unbound

LEMMA SeenTyped == NothingSeen \in Passes
  BY DEF NothingSeen, Passes

LEMMA TakenTyped ==
  ASSUME TypeOK, NEW k
  PROVE  Taken(k) \in Records
  BY DEF TypeOK, Taken, Records

LEMMA StatementInit == Init => StatementInv
<1> SUFFICES ASSUME Init PROVE StatementInv
  OBVIOUS
<1>1. Taken("none") \in Records
  BY DEF Init, Taken, Records
<1>2. TypeOK
  BY <1>1, StartsTyped, SeenTyped, StatementsAssumption DEF Init, TypeOK, Kinds, Owners
<1>3. BoundInv
  BY DEF Init, BoundInv, BoundAt, BoundWell, Unprepared
<1> QED BY <1>2, <1>3 DEF StatementInv

(* The parameters are all there is to bind. *)
LEMMA BoundToTyped ==
  ASSUME NEW k \in Kinds, NEW g \in Records
  PROVE  BoundTo(k, g) \in [Params -> Values \cup {Null}]
  BY StatementsAssumption DEF BoundTo, Records

(* Binding a statement that has just been made or reset binds all it has. *)
LEMMA BindAllBinds ==
  ASSUME TypeOK, NEW k \in Kinds \ {"none"}
  PROVE  /\ BindAll(Prepared, k) = [state |-> "ready", bound |-> BoundTo(k, Taken(k))]
         /\ BindAll(Unprepared, k) = Unprepared
         /\ BindAll(Prepared, k) \in Handles
<1>1. Taken(k) \in Records /\ key \in Values /\ val \in Values \cup {Null}
  BY TakenTyped, StatementsAssumption DEF TypeOK
<1>2. BindAll(Prepared, k) = [state |-> "ready", bound |-> BoundTo(k, Taken(k))]
  <2>1. CASE k = "updater" /\ val # Null
    BY <2>1, StatementsAssumption
    DEF BindAll, Bind, BindNullable, Prepared, Unbound, BoundTo, KeyParam, Taken
  <2>2. CASE k = "updater" /\ val = Null
    BY <2>2, StatementsAssumption
    DEF BindAll, Bind, BindNullable, Prepared, Unbound, BoundTo, KeyParam, Taken
  <2>3. CASE k # "updater"
    BY <2>3, StatementsAssumption
    DEF BindAll, Bind, Prepared, Unbound, BoundTo, KeyParam, Taken
  <2> QED BY <2>1, <2>2, <2>3
<1>3. BindAll(Unprepared, k) = Unprepared
  BY DEF BindAll, Bind, BindNullable, Unprepared
<1>4. BindAll(Prepared, k) \in Handles
  BY <1>1, <1>2, BoundToTyped DEF Handles
<1> QED BY <1>2, <1>3, <1>4

(* What a remover's parameter makes of any statement. *)
LEMMA AlienBinds ==
  ASSUME TypeOK, NEW h \in Handles
  PROVE  /\ BindAll(h, "remover") \in Handles
         /\ BindAll(h, "remover").state = h.state
         /\ h.state # "ready" => BindAll(h, "remover") = h
<1>1. key \in Values /\ 1 \in Params
  BY StatementsAssumption DEF TypeOK
<1> QED BY <1>1 DEF BindAll, Bind, Handles

LEMMA StepTyped ==
  ASSUME NEW h \in Handles, NEW state \in {"row", "stalled", "halted"}
  PROVE  Step(h, state) \in Handles /\ Step(h, state).bound = h.bound
  BY DEF Step, Handles

(* A step that touches one object, or two. *)
LEMMA BoundFrame ==
  ASSUME BoundInv, NEW s \in Slots, NEW d \in Slots, BoundAt(s)', BoundAt(d)',
         \A e \in Slots \ {s, d} : /\ kind'[e] = kind[e] /\ handle'[e] = handle[e]
                                   /\ given'[e] = given[e] /\ whose'[e] = whose[e]
  PROVE  BoundInv'
  BY DEF BoundInv, BoundAt

(* What an execution makes of the table is a table. *)
LEMMA EffectTyped ==
  ASSUME TypeOK, NEW s \in Slots, Writes(s)
  PROVE  Effect(kind[s], handle[s]) \in [Rowids -> Rows \cup {NoRow}]
<1> SUFFICES ASSUME NEW r \in Rowids, Selects(kind[s], handle[s], rows[r]), kind[s] = "updater"
             PROVE  [rows[r] EXCEPT !.v = handle[s].bound[1]] \in Rows
  <2>1. kind[s] \in {"updater", "remover"} /\ \A r \in Rowids : rows[r] \in Rows \cup {NoRow}
    BY DEF Writes, TypeOK
  <2> QED BY <2>1 DEF Effect
<1>1. handle[s].bound[1] \in Values \cup {Null}
  BY StatementsAssumption DEF TypeOK, Handles
<1>2. rows[r] \in Rows
  BY DEF Selects, TypeOK
<1> QED BY <1>1, <1>2 DEF Rows

LEMMA StatementStep == StatementInv /\ [Next]_vars => StatementInv'
<1> SUFFICES ASSUME StatementInv, [Next]_vars
             PROVE  StatementInv'
  OBVIOUS
<1>1. /\ TypeOK /\ BoundInv
      /\ kind \in [Slots -> Kinds] /\ handle \in [Slots -> Handles] /\ this \in [Slots -> Slots]
      /\ given \in [Slots -> Records] /\ whose \in [Slots -> Owners]
      /\ cursor \in [Slots -> 0..MaxRow] /\ seen \in [Slots -> Passes]
      /\ steady \in [Slots -> BOOLEAN] /\ rows \in [Rowids -> Rows \cup {NoRow}]
      /\ 0 \in 0..MaxRow
  BY StatementsAssumption DEF StatementInv, TypeOK
<1>2. CASE UNCHANGED vars
  BY <1>2 DEF vars, StatementInv, TypeOK, BoundInv, BoundAt
<1>3. ASSUME NEW s \in Slots, NEW k \in Kinds \ {"none"}, Make(s, k)
      PROVE  StatementInv'
  <2>1. PICK h \in {Prepared, Unprepared} : handle' = [handle EXCEPT ![s] = BindAll(h, k)]
    BY <1>3 DEF Make
  <2>2. BindAll(h, k) \in Handles /\ BoundWell(k, BindAll(h, k), Taken(k), "own")
    BY <1>1, <2>1, StartsTyped, BindAllBinds DEF BoundWell, Unprepared
  <2>3. TypeOK'
    <3>1. /\ handle' \in [Slots -> Handles] /\ kind' \in [Slots -> Kinds]
          /\ this' \in [Slots -> Slots] /\ given' \in [Slots -> Records]
          /\ whose' \in [Slots -> Owners]
      BY <1>1, <1>3, <2>1, <2>2, TakenTyped DEF Make, Owners
    <3>2. /\ cursor' \in [Slots -> 0..MaxRow] /\ seen' \in [Slots -> Passes]
          /\ steady' \in [Slots -> BOOLEAN] /\ UNCHANGED <<key, val, rows>>
      BY <1>1, <1>3, SeenTyped DEF Make
    <3> QED BY <1>1, <3>1, <3>2 DEF TypeOK
  <2>4. BoundAt(s)'
    BY <1>1, <1>3, <2>1, <2>2 DEF Make, BoundAt
  <2>5. BoundInv'
    BY <1>1, <1>3, <2>1, <2>4, BoundFrame DEF Make
  <2> QED BY <2>3, <2>5 DEF StatementInv
<1>4. ASSUME NEW s \in Slots, Drop(s)
      PROVE  StatementInv'
  <2>1. TypeOK'
    <3>1. /\ handle' \in [Slots -> Handles] /\ kind' \in [Slots -> Kinds]
          /\ this' \in [Slots -> Slots] /\ given' \in [Slots -> Records]
          /\ whose' \in [Slots -> Owners]
      BY <1>1, <1>4, StartsTyped, TakenTyped DEF Drop, Kinds, Owners
    <3>2. /\ cursor' \in [Slots -> 0..MaxRow] /\ seen' \in [Slots -> Passes]
          /\ steady' \in [Slots -> BOOLEAN] /\ UNCHANGED <<key, val, rows>>
      BY <1>1, <1>4, SeenTyped DEF Drop
    <3> QED BY <1>1, <3>1, <3>2 DEF TypeOK
  <2>2. BoundAt(s)'
    BY <1>1, <1>4 DEF Drop, BoundAt, BoundWell, Unprepared
  <2>3. BoundInv'
    BY <1>1, <1>4, <2>2, BoundFrame DEF Drop
  <2> QED BY <2>1, <2>3 DEF StatementInv
<1>5. ASSUME NEW s \in Slots, NEW d \in Slots, Move(s, d)
      PROVE  StatementInv'
  <2>1. s # d
    BY <1>5 DEF Move
  <2>2. TypeOK'
    <3>1. /\ handle' \in [Slots -> Handles] /\ kind' \in [Slots -> Kinds]
          /\ this' \in [Slots -> Slots] /\ given' \in [Slots -> Records]
          /\ whose' \in [Slots -> Owners]
      BY <1>1, <1>5, StartsTyped DEF Move, Owners
    <3>2. /\ cursor' \in [Slots -> 0..MaxRow] /\ seen' \in [Slots -> Passes]
          /\ steady' \in [Slots -> BOOLEAN] /\ UNCHANGED <<key, val, rows>>
      BY <1>1, <1>5, SeenTyped DEF Move
    <3> QED BY <1>1, <3>1, <3>2 DEF TypeOK
  <2>3. /\ \A e \in Slots \ {s, d} : /\ kind'[e] = kind[e] /\ handle'[e] = handle[e]
                                     /\ given'[e] = given[e] /\ whose'[e] = whose[e]
        /\ kind'[d] = kind[s] /\ handle'[d] = handle[s]
        /\ given'[d] = given[s] /\ whose'[d] = whose[s]
        /\ handle'[s] = Unprepared
    BY <1>1, <1>5, <2>1 DEF Move
  <2>4. BoundAt(s)' /\ BoundAt(d)'
    BY <1>1, <2>3 DEF BoundInv, BoundAt, BoundWell, Unprepared
  <2>5. BoundInv'
    BY <1>1, <2>3, <2>4, BoundFrame
  <2> QED BY <2>2, <2>5 DEF StatementInv
<1>6. ASSUME NEW s \in Slots, ResetUpdater(s)
      PROVE  StatementInv'
  <2> DEFINE b == BindAll(Prepared, "updater")
  <2>1. b \in Handles /\ BoundWell("updater", b, Taken("updater"), "own")
    BY <1>1, BindAllBinds DEF BoundWell, Kinds
  <2>2. kind[s] = "updater" /\ handle' = [handle EXCEPT ![s] = b]
    BY <1>1, <1>6 DEF ResetUpdater, Reset
  <2> HIDE DEF b
  <2>3. TypeOK'
    BY <1>1, <1>6, <2>1, <2>2, TakenTyped DEF ResetUpdater, TypeOK, Owners
  <2>4. BoundAt(s)'
    BY <1>1, <1>6, <2>1, <2>2 DEF ResetUpdater, BoundAt
  <2>5. BoundInv'
    BY <1>1, <1>6, <2>2, <2>4, BoundFrame DEF ResetUpdater
  <2> QED BY <2>3, <2>5 DEF StatementInv
<1>7. ASSUME NEW s \in Slots, ResetRemover(s)
      PROVE  StatementInv'
  <2> DEFINE after == [handle EXCEPT ![s] = Prepared]
  <2>1. PICK d \in Targets(s) :
          /\ handle' = [after EXCEPT ![d] = BindAll(@, "remover")]
          /\ whose' = [e \in Slots |->
                         IF e = s THEN IF d = s THEN "own" ELSE "lost"
                         ELSE IF e = d /\ after[d].state = "ready" THEN "alien"
                         ELSE whose[e]]
    BY <1>7 DEF ResetRemover, Reset
  <2>2. d \in Slots /\ kind[s] = "remover" /\ after \in [Slots -> Handles]
        /\ given' = [given EXCEPT ![s] = Taken("remover")]
        /\ UNCHANGED <<kind, this, key, val, rows, cursor, seen, steady>>
    BY <1>1, <1>7, StartsTyped DEF ResetRemover, Targets
  <2>3. /\ BindAll(after[d], "remover") \in Handles
        /\ BindAll(after[d], "remover").state = after[d].state
        /\ after[d].state # "ready" => BindAll(after[d], "remover") = after[d]
    BY <1>1, <2>2, AlienBinds
  <2>4. TypeOK'
    BY <1>1, <2>1, <2>2, <2>3, TakenTyped DEF TypeOK, Owners
  <2>5. BoundAt(s)'
    <3>1. CASE d = s
      BY <1>1, <2>1, <2>2, <3>1, BindAllBinds DEF BoundAt, BoundWell, Kinds
    <3>2. CASE d # s
      BY <1>1, <2>1, <2>2, <3>2 DEF BoundAt, BoundWell, Prepared
    <3> QED BY <3>1, <3>2
  <2>6. d # s => BoundAt(d)'
    <3>1. CASE d # s /\ after[d].state = "ready"
      BY <1>1, <2>1, <2>2, <3>1 DEF BoundAt, BoundWell
    <3>2. CASE d # s /\ after[d].state # "ready"
      <4>1. handle'[d] = handle[d] /\ whose'[d] = whose[d] /\ given'[d] = given[d]
        BY <1>1, <2>1, <2>2, <2>3, <3>2
      <4> QED BY <1>1, <2>2, <4>1 DEF BoundInv, BoundAt
    <3> QED BY <3>1, <3>2
  <2>7. \A e \in Slots \ {s, d} : /\ kind'[e] = kind[e] /\ handle'[e] = handle[e]
                                  /\ given'[e] = given[e] /\ whose'[e] = whose[e]
    BY <1>1, <2>1, <2>2
  <2>8. BoundInv'
    BY <1>1, <2>2, <2>5, <2>6, <2>7, BoundFrame
  <2> QED BY <2>4, <2>8 DEF StatementInv
<1>8. ASSUME NEW s \in Slots,
             \/ Execute(s) \/ ExecuteThrows(s)
             \/ ReturnsRow(s) \/ ReadFieldThrows(s) \/ ReturnsFalse(s) \/ ReaderThrows(s)
      PROVE  StatementInv'
  <2>1. PICK state \in {"row", "stalled", "halted"} :
          handle' = [handle EXCEPT ![s] = Step(@, state)]
    BY <1>8 DEF Execute, ExecuteThrows, ReturnsRow, ReadFieldThrows, GoesTo, ReturnsFalse, ReaderThrows
  <2>2. UNCHANGED <<kind, this, key, val, given, whose>> /\ Prepares(s)
    BY <1>8 DEF Execute, ExecuteThrows, ReturnsRow, ReadFieldThrows, GoesTo, ReturnsFalse, ReaderThrows, Writes, Reads
  <2>3. /\ Step(handle[s], state) \in Handles
        /\ Step(handle[s], state).bound = handle[s].bound
    BY <1>1, StepTyped
  <2>4. BoundAt(s)'
    BY <1>1, <2>1, <2>2, <2>3 DEF BoundInv, BoundAt, BoundWell, Prepares
  <2>5. handle' \in [Slots -> Handles] /\ BoundInv'
    BY <1>1, <2>1, <2>2, <2>3, <2>4, BoundFrame
  <2>6. rows' \in [Rowids -> Rows \cup {NoRow}]
    BY <1>1, <1>8, EffectTyped
    DEF Execute, ExecuteThrows, ReturnsRow, ReadFieldThrows, GoesTo, ReturnsFalse, ReaderThrows
  <2>7. /\ cursor' \in [Slots -> 0..MaxRow] /\ seen' \in [Slots -> Passes]
        /\ steady' \in [Slots -> BOOLEAN]
    <3>1. CASE Execute(s) \/ ExecuteThrows(s) \/ ReaderThrows(s)
      BY <3>1 DEF Execute, Disturb, ExecuteThrows, ReaderThrows, StatementInv, TypeOK
    <3>2. SoFar(s) \in Passes
      BY SeenTyped DEF SoFar, StatementInv, TypeOK
    <3>3. CASE ReturnsRow(s) \/ ReadFieldThrows(s)
      <4>1. PICK r \in Ahead(s) :
              /\ GoesTo(s, r)
              /\ \/ seen' = [seen EXCEPT ![s] = [SoFar(s) EXCEPT !.returned = @ \cup {r}]]
                 \/ seen' = [seen EXCEPT ![s] = [SoFar(s) EXCEPT !.skipped = @ \cup {r}]]
        BY <3>3 DEF ReturnsRow, ReadFieldThrows
      <4>2. r \in Rowids /\ r \in 0..MaxRow
        BY <4>1, StatementsAssumption DEF Ahead, Rowids
      <4>3. /\ [SoFar(s) EXCEPT !.returned = @ \cup {r}] \in Passes
            /\ [SoFar(s) EXCEPT !.skipped = @ \cup {r}] \in Passes
        BY <3>2, <4>2 DEF Passes
      <4>4. cursor' = [cursor EXCEPT ![s] = r] /\ steady' = [steady EXCEPT ![s] = @ \/ Starting(s)]
        BY <4>1 DEF GoesTo
      <4>5. PICK p \in Passes : seen' = [seen EXCEPT ![s] = p]
        BY <4>1, <4>3
      <4>6. seen' \in [Slots -> Passes]
        BY <4>5 DEF StatementInv, TypeOK
      <4>7. cursor' \in [Slots -> 0..MaxRow] /\ steady' \in [Slots -> BOOLEAN]
        BY <4>2, <4>4 DEF StatementInv, TypeOK, Starting
      <4> QED BY <4>6, <4>7
    <3>4. CASE ReturnsFalse(s)
      BY <3>4, SeenTyped, StatementsAssumption DEF ReturnsFalse, StatementInv, TypeOK
    <3> QED BY <1>8, <3>1, <3>3, <3>4
  <2> QED BY <2>2, <2>5, <2>6, <2>7 DEF StatementInv, TypeOK
<1>9. ASSUME NEW k \in Keys, NEW v \in Vals \cup {Null}, Assign(k, v)
      PROVE  StatementInv'
  BY <1>9 DEF Assign, StatementInv, TypeOK, BoundInv, BoundAt
<1>10. ASSUME NEW row \in Records, AddRow(row)
      PROVE  StatementInv'
  <2>1. row \in Rows
    BY StatementsAssumption DEF Records, Rows
  <2>2. rows' \in [Rowids -> Rows \cup {NoRow}] /\ steady' \in [Slots -> BOOLEAN]
    BY <1>1, <1>10, <2>1 DEF AddRow, Disturb
  <2> QED BY <1>1, <1>10, <2>2 DEF AddRow, StatementInv, TypeOK, BoundInv, BoundAt
<1> QED BY <1>2, <1>3, <1>4, <1>5, <1>6, <1>7, <1>8, <1>9, <1>10 DEF Next

LEMMA StatementInvariant == Spec => []StatementInv
  BY StatementInit, StatementStep, PTL DEF Spec

(* The statement objects, the variables and the table keep to their types. *)
THEOREM StatementsTypeCorrect == Spec => []TypeOK
<1>1. StatementInv => TypeOK
  BY DEF StatementInv
<1> QED BY <1>1, StatementInvariant, PTL

(* A statement is bound to what its object was given, but for what the reset of a
   moved remover does: the remover is left with nothing then. *)
THEOREM BoundAsGivenHolds == Spec => []BoundAsGiven
<1>1. StatementInv => BoundAsGiven
  BY DEF StatementInv, BoundInv, BoundAt, BoundWell, BoundAsGiven, Prepares
<1> QED BY <1>1, StatementInvariant, PTL

(* No execution reaches a record that the variables did not name, whatever has been
   moved, assigned, dropped and made in an old place, unless a moved remover has bound
   the very statement. *)
THEOREM LeavesTheRestHolds == Spec => LeavesTheRest
<1>1. ASSUME StatementInv, NEW s \in Slots, Execute(s), whose[s] # "alien", NEW r \in Rowids
      PROVE  Concerns(s, rows[r]) \/ rows'[r] = rows[r]
  <2> SUFFICES ASSUME rows'[r] # rows[r]
               PROVE  Concerns(s, rows[r])
    OBVIOUS
  <2>1. Selects(kind[s], handle[s], rows[r])
    BY <1>1 DEF Execute, Effect
  <2>2. /\ KeyParam(kind[s]) \in Params /\ rows[r].k \in Keys /\ Null \notin Keys
    <3>1. KeyParam(kind[s]) \in Params /\ Null \notin Keys
      BY StatementsAssumption, NullAssumption DEF KeyParam
    <3>2. rows[r] \in Rows
      BY <1>1, <2>1 DEF Selects, StatementInv, TypeOK
    <3> QED BY <3>1, <3>2 DEF Rows
  <2>3. handle[s].bound[KeyParam(kind[s])] \in {given[s].k, Null}
    <3>1. \/ handle[s].bound = BoundTo(kind[s], given[s])
          \/ handle[s].bound = Unbound
      BY <1>1
      DEF Execute, Writes, Prepares, StatementInv, TypeOK, Owners, BoundInv, BoundAt, BoundWell
    <3> QED BY <2>2, <3>1 DEF BoundTo, Unbound
  <2> QED BY <2>1, <2>2, <2>3 DEF Selects, Concerns
<1>2. StatementInv => [\A s \in Slots :
                         Execute(s) /\ whose[s] # "alien" =>
                           \A r \in Rowids : Concerns(s, rows[r]) \/ rows'[r] = rows[r]]_vars
  BY <1>1
<1> QED BY <1>2, StatementInvariant, PTL DEF LeavesTheRest

------------------------------------------------------------------------------
(* The pass of a reader. *)

Come(s) == seen[s].returned \cup seen[s].skipped

Match(s, row) == Selects("reader", handle[s], row)

(* In a pass, nothing beyond the cursor has been come to, and all that matches up to
   it, if the table is as it was when the pass began. *)
PassWell(s) ==
  /\ \A r \in Come(s) : r <= cursor[s]
  /\ steady[s] => Come(s) = {r \in Rowids : r <= cursor[s] /\ Match(s, rows[r])}

InPass(s) == kind[s] = "reader" /\ handle[s].state = "row"

PassInv == \A s \in Slots : InPass(s) => PassWell(s)

(* A reader's statement selects the records its variable named, unless a moved
   remover has bound it. *)
LEMMA ReaderSelects ==
  ASSUME StatementInv, NEW s \in Slots, Reads(s), whose[s] # "alien", NEW r \in Rowids
  PROVE  Match(s, rows[r]) <=> Concerns(s, rows[r])
<1>1. handle[s].bound = BoundTo("reader", given[s])
  BY DEF StatementInv, TypeOK, Owners, BoundInv, BoundAt, BoundWell, Reads, Prepares
<1>2. handle[s].bound[1] = given[s].k
  BY <1>1, StatementsAssumption DEF BoundTo, KeyParam
<1> QED BY <1>2 DEF Match, Selects, Concerns, KeyParam

(* A step that leaves the readers in their passes where they are. *)
LEMMA PassFrame ==
  ASSUME PassInv,
         \A s \in Slots : InPass(s)' =>
           /\ InPass(s) /\ cursor'[s] = cursor[s] /\ seen'[s] = seen[s] /\ handle'[s] = handle[s]
           /\ steady'[s] => steady[s] /\ rows' = rows
  PROVE  PassInv'
<1> SUFFICES ASSUME NEW s \in Slots, InPass(s)' PROVE PassWell(s)'
  BY DEF PassInv
<1>1. /\ PassWell(s) /\ cursor'[s] = cursor[s] /\ seen'[s] = seen[s] /\ handle'[s] = handle[s]
      /\ steady'[s] => steady[s] /\ rows' = rows
  BY DEF PassInv
<1> QED BY <1>1 DEF PassWell, Come, Match, Selects

LEMMA BindKeepsState ==
  ASSUME NEW h \in Handles, NEW k
  PROVE  BindAll(h, k).state = h.state
  BY DEF BindAll, Bind, BindNullable, Handles

(* Coming to the next row that matches. *)
LEMMA PassGoesOn ==
  ASSUME StatementInv, PassInv, NEW s \in Slots, Reads(s), NEW r \in Ahead(s), GoesTo(s, r),
         NEW p \in Passes, seen' = [seen EXCEPT ![s] = p],
         p.returned \cup p.skipped = SoFar(s).returned \cup SoFar(s).skipped \cup {r}
  PROVE  /\ PassInv'
         /\ ~Starting(s) => r \notin Come(s)
<1> DEFINE start == IF Starting(s) THEN 0 ELSE cursor[s]
           before == SoFar(s).returned \cup SoFar(s).skipped
<1>1. /\ cursor' = [cursor EXCEPT ![s] = r] /\ steady' = [steady EXCEPT ![s] = @ \/ Starting(s)]
      /\ handle' = [handle EXCEPT ![s] = Step(@, "row")]
      /\ UNCHANGED <<kind, given, rows>> /\ \A q \in Ahead(s) : r <= q
  BY DEF GoesTo
<1>2. /\ cursor \in [Slots -> 0..MaxRow] /\ seen \in [Slots -> Passes]
      /\ steady \in [Slots -> BOOLEAN] /\ handle \in [Slots -> Handles] /\ MaxRow \in Nat
  BY StatementsAssumption DEF StatementInv, TypeOK
<1>3. r \in Rowids /\ r > start /\ start \in Nat /\ Match(s, rows[r]) /\ Rowids \subseteq Nat
  BY <1>2 DEF Ahead, Rowids, Match
<1>4. \A q \in before : q <= start
  <2>1. CASE Starting(s)
    BY <2>1 DEF SoFar, NothingSeen
  <2>2. CASE ~Starting(s)
    BY <2>2 DEF SoFar, PassInv, InPass, PassWell, Come, Starting, Reads
  <2> QED BY <2>1, <2>2
<1>5. steady'[s] => before = {q \in Rowids : q <= start /\ Match(s, rows[q])}
  <2>1. CASE Starting(s)
    BY <2>1 DEF SoFar, NothingSeen, Rowids
  <2>2. CASE ~Starting(s)
    <3>1. steady'[s] => steady[s]
      BY <1>1, <1>2, <2>2
    <3> QED BY <2>2, <3>1 DEF SoFar, PassInv, InPass, PassWell, Come, Starting, Reads
  <2> QED BY <2>1, <2>2
<1>6. ~Starting(s) => Come(s) = before /\ start = cursor[s]
  BY DEF SoFar, Come
<1>7. \A q \in Rowids : Match(s, rows[q]) /\ q > start => r <= q
  BY <1>1 DEF Ahead, Match
<1>8. /\ before \subseteq Rowids
      /\ Come(s)' = before \cup {r} /\ cursor'[s] = r
  <2>1. seen'[s] = p
    BY <1>2
  <2>2. cursor'[s] = r /\ before \subseteq Rowids
    BY <1>1, <1>2, SeenTyped DEF SoFar, Passes
  <2> QED BY <1>3, <2>1, <2>2 DEF Come
<1> HIDE DEF before, start
<1>9. PassWell(s)'
  <2> DEFINE now == before \cup {r}
  <2>1. ASSUME NEW q \in now PROVE q <= r
    <3>1. q \in Nat /\ r \in Nat /\ (q \in before => q <= start)
      BY <1>3, <1>4, <1>8
    <3> QED BY <1>3, <3>1
  <2>2. ASSUME steady'[s]
        PROVE  now = {q \in Rowids : q <= r /\ Match(s, rows[q])}
    <3>1. ASSUME NEW q \in Rowids
          PROVE  q \in now <=> q <= r /\ Match(s, rows[q])
      <4>1. q \in Nat /\ r \in Nat /\ (q \in before <=> q <= start /\ Match(s, rows[q]))
        BY <1>3, <1>5, <2>2
      <4>2. Match(s, rows[q]) /\ ~(q <= start) => r <= q
        BY <1>3, <1>7, <4>1
      <4> QED BY <1>3, <4>1, <4>2
    <3>2. now \subseteq Rowids
      BY <1>3, <1>8
    <3> QED BY <3>1, <3>2
  <2>3. \A q \in Rowids : Match(s, rows[q])' <=> Match(s, rows[q])
    <3>1. handle'[s].bound = handle[s].bound /\ rows' = rows
      BY <1>1, <1>2 DEF Step, Handles
    <3> QED BY <3>1 DEF Match, Selects
  <2> HIDE DEF now
  <2>4. Come(s)' = now /\ cursor'[s] = r
    BY <1>8 DEF now
  <2> QED BY <2>1, <2>2, <2>3, <2>4 DEF PassWell
<1>10. ASSUME NEW d \in Slots \ {s}, InPass(d)'
       PROVE  PassWell(d)'
  <2>1. /\ InPass(d) /\ cursor'[d] = cursor[d] /\ seen'[d] = seen[d] /\ steady'[d] = steady[d]
        /\ handle'[d] = handle[d] /\ rows' = rows
    BY <1>1, <1>2, <1>10 DEF InPass
  <2> QED BY <2>1 DEF PassInv, PassWell, Come, Match, Selects
<1>11. ~Starting(s) => r \notin Come(s)
  BY <1>3, <1>4, <1>6
<1> QED BY <1>9, <1>10, <1>11 DEF PassInv

(* What a row that is come to adds to the pass. *)
LEMMA RowAdds ==
  ASSUME StatementInv, NEW s \in Slots, ReturnsRow(s) \/ ReadFieldThrows(s)
  PROVE  \E r \in Ahead(s), p \in Passes :
           /\ GoesTo(s, r) /\ seen' = [seen EXCEPT ![s] = p]
           /\ p.returned \cup p.skipped = SoFar(s).returned \cup SoFar(s).skipped \cup {r}
<1>1. SoFar(s) \in Passes
  BY SeenTyped DEF SoFar, StatementInv, TypeOK
<1>2. \A r \in Ahead(s) : r \in Rowids
  BY DEF Ahead
<1>3. CASE ReturnsRow(s)
  <2>1. PICK r \in Ahead(s) :
          GoesTo(s, r) /\ seen' = [seen EXCEPT ![s] = [SoFar(s) EXCEPT !.returned = @ \cup {r}]]
    BY <1>3 DEF ReturnsRow
  <2> DEFINE p == [SoFar(s) EXCEPT !.returned = @ \cup {r}]
  <2>2. /\ p \in Passes
        /\ p.returned \cup p.skipped = SoFar(s).returned \cup SoFar(s).skipped \cup {r}
    BY <1>1, <1>2 DEF Passes
  <2> QED BY <2>1, <2>2
<1>4. CASE ReadFieldThrows(s)
  <2>1. PICK r \in Ahead(s) :
          GoesTo(s, r) /\ seen' = [seen EXCEPT ![s] = [SoFar(s) EXCEPT !.skipped = @ \cup {r}]]
    BY <1>4 DEF ReadFieldThrows
  <2> DEFINE p == [SoFar(s) EXCEPT !.skipped = @ \cup {r}]
  <2>2. /\ p \in Passes
        /\ p.returned \cup p.skipped = SoFar(s).returned \cup SoFar(s).skipped \cup {r}
    BY <1>1, <1>2 DEF Passes
  <2> QED BY <2>1, <2>2
<1> QED BY <1>3, <1>4

LEMMA PassStep == StatementInv /\ PassInv /\ [Next]_vars => PassInv'
<1> SUFFICES ASSUME StatementInv, PassInv, [Next]_vars
             PROVE  PassInv'
  OBVIOUS
<1>1. /\ kind \in [Slots -> Kinds] /\ handle \in [Slots -> Handles] /\ given \in [Slots -> Records]
      /\ cursor \in [Slots -> 0..MaxRow] /\ seen \in [Slots -> Passes]
      /\ steady \in [Slots -> BOOLEAN]
  BY DEF StatementInv, TypeOK
<1>2. CASE UNCHANGED vars
  BY <1>2, PassFrame DEF vars, InPass
<1>3. ASSUME NEW s \in Slots, NEW k \in Kinds \ {"none"}, Make(s, k)
      PROVE  PassInv'
  <2>1. PICK h \in {Prepared, Unprepared} : handle' = [handle EXCEPT ![s] = BindAll(h, k)]
    BY <1>3 DEF Make
  <2>2. BindAll(h, k).state # "row"
    BY <2>1, StartsTyped, BindKeepsState DEF Prepared, Unprepared
  <2>3. ~InPass(s)' /\ \A d \in Slots \ {s} : InPass(d)' => InPass(d)
    BY <1>1, <1>3, <2>1, <2>2 DEF Make, InPass
  <2>4. \A d \in Slots \ {s} : /\ cursor'[d] = cursor[d] /\ seen'[d] = seen[d]
                               /\ handle'[d] = handle[d] /\ steady'[d] = steady[d]
    BY <1>1, <1>3 DEF Make
  <2> QED BY <1>3, <2>3, <2>4, PassFrame DEF Make
<1>4. ASSUME NEW s \in Slots, Drop(s)
      PROVE  PassInv'
  <2>1. ~InPass(s)' /\ \A d \in Slots \ {s} : InPass(d)' => InPass(d)
    BY <1>1, <1>4 DEF Drop, InPass
  <2>2. \A d \in Slots \ {s} : /\ cursor'[d] = cursor[d] /\ seen'[d] = seen[d]
                               /\ handle'[d] = handle[d] /\ steady'[d] = steady[d]
    BY <1>1, <1>4 DEF Drop
  <2> QED BY <1>4, <2>1, <2>2, PassFrame DEF Drop
<1>5. ASSUME NEW s \in Slots, NEW d \in Slots, Move(s, d)
      PROVE  PassInv'
  <2>1. s # d /\ rows' = rows
    BY <1>5 DEF Move
  <2>2. /\ ~InPass(s)'
        /\ InPass(d)' <=> InPass(s)
        /\ \A e \in Slots \ {s, d} : InPass(e)' <=> InPass(e)
    BY <1>1, <1>5, <2>1 DEF Move, InPass, Unprepared
  <2>3. /\ cursor'[d] = cursor[s] /\ seen'[d] = seen[s] /\ handle'[d] = handle[s]
        /\ steady'[d] = steady[s]
        /\ \A e \in Slots \ {s, d} : /\ cursor'[e] = cursor[e] /\ seen'[e] = seen[e]
                                     /\ handle'[e] = handle[e] /\ steady'[e] = steady[e]
    BY <1>1, <1>5, <2>1 DEF Move
  <2> SUFFICES ASSUME NEW e \in Slots, InPass(e)' PROVE PassWell(e)'
    BY DEF PassInv
  <2>4. CASE e = d
    <3>1. PassWell(s)
      BY <2>2, <2>4 DEF PassInv
    <3> QED BY <2>1, <2>3, <2>4, <3>1 DEF PassWell, Come, Match, Selects
  <2>5. CASE e \notin {s, d}
    <3>1. PassWell(e)
      BY <2>2, <2>5 DEF PassInv
    <3> QED BY <2>1, <2>3, <2>5, <3>1 DEF PassWell, Come, Match, Selects
  <2> QED BY <2>2, <2>4, <2>5
<1>6. ASSUME NEW s \in Slots, ResetUpdater(s) \/ ResetRemover(s)
      PROVE  PassInv'
  <2>1. kind[s] \in {"updater", "remover"} /\ UNCHANGED <<kind, rows, cursor, seen, steady>>
    BY <1>6 DEF ResetUpdater, ResetRemover
  <2>2. \A d \in Slots : InPass(d)' => d # s /\ handle'[d] = handle[d]
    <3>1. CASE ResetUpdater(s)
      BY <1>1, <2>1, <3>1 DEF ResetUpdater, InPass
    <3>2. CASE ResetRemover(s)
      <4> DEFINE after == [handle EXCEPT ![s] = Prepared]
      <4>1. PICK c \in Slots : handle' = [after EXCEPT ![c] = BindAll(@, "remover")]
        <5>1. Targets(s) \subseteq Slots
          BY DEF Targets, StatementInv, TypeOK
        <5> QED BY <3>2, <5>1 DEF ResetRemover, Reset
      <4>2. /\ BindAll(after[c], "remover").state = after[c].state
            /\ after[c].state # "ready" => BindAll(after[c], "remover") = after[c]
        BY <1>1, StartsTyped, AlienBinds DEF StatementInv
      <4>3. \A d \in Slots : d # s /\ d # c => handle'[d] = handle[d]
        BY <1>1, <4>1
      <4>4. c # s /\ InPass(c)' => handle'[c] = handle[c]
        BY <1>1, <4>1, <4>2 DEF InPass
      <4> QED BY <2>1, <4>3, <4>4 DEF InPass
    <3> QED BY <1>6, <3>1, <3>2
  <2> QED BY <2>1, <2>2, PassFrame DEF InPass
<1>7. ASSUME NEW s \in Slots, Execute(s) \/ ExecuteThrows(s)
      PROVE  PassInv'
  <2>1. /\ kind[s] \in {"updater", "remover"} /\ UNCHANGED <<kind, cursor, seen>>
        /\ \A d \in Slots \ {s} : handle'[d] = handle[d]
    BY <1>1, <1>7 DEF Execute, ExecuteThrows, Writes
  <2>2. \A d \in Slots : steady'[d] => steady[d] /\ rows' = rows
    BY <1>7 DEF Execute, Disturb, ExecuteThrows
  <2> QED BY <2>1, <2>2, PassFrame DEF InPass
<1>8. ASSUME NEW s \in Slots, ReturnsRow(s) \/ ReadFieldThrows(s)
      PROVE  PassInv'
  <2>1. Reads(s)
    BY <1>8 DEF ReturnsRow, ReadFieldThrows
  <2> QED BY <1>8, <2>1, RowAdds, PassGoesOn
<1>9. ASSUME NEW s \in Slots, ReturnsFalse(s) \/ ReaderThrows(s)
      PROVE  PassInv'
  <2>1. ~InPass(s)'
    BY <1>1, <1>9 DEF ReturnsFalse, ReaderThrows, InPass, Step, Handles
  <2>2. /\ UNCHANGED <<kind, rows>>
        /\ \A d \in Slots \ {s} : /\ handle'[d] = handle[d] /\ cursor'[d] = cursor[d]
                                  /\ seen'[d] = seen[d] /\ steady'[d] = steady[d]
    BY <1>1, <1>9 DEF ReturnsFalse, ReaderThrows
  <2> QED BY <2>1, <2>2, PassFrame DEF InPass
<1>10. ASSUME NEW k \in Keys, NEW v \in Vals \cup {Null}, Assign(k, v)
       PROVE  PassInv'
  BY <1>10, PassFrame DEF Assign, InPass
<1>11. ASSUME NEW row \in Records, AddRow(row)
       PROVE  PassInv'
  BY <1>11, PassFrame DEF AddRow, Disturb, InPass
<1> QED BY <1>2, <1>3, <1>4, <1>5, <1>6, <1>7, <1>8, <1>9, <1>10, <1>11 DEF Next

(* A reader returns each record that matches once in a pass, whatever is made, moved,
   assigned, executed and changed beside it, and one at which it has thrown not again;
   one that a moved remover has bound comes to no record twice either. *)
THEOREM PassIsExactHolds == Spec => PassIsExact
<1>1. Init => PassInv
  BY DEF Init, PassInv, InPass
<1>2. ASSUME StatementInv, PassInv, NEW s \in Slots,
             ReturnsRow(s) \/ ReadFieldThrows(s), ~Starting(s)
      PROVE  cursor'[s] \notin seen[s].returned \cup seen[s].skipped
  <2>1. PICK r \in Ahead(s) : GoesTo(s, r) /\ r \notin Come(s)
    BY <1>2, RowAdds, PassGoesOn DEF ReturnsRow, ReadFieldThrows
  <2> QED BY <1>2, <2>1 DEF GoesTo, Come, StatementInv, TypeOK
<1>3. ASSUME StatementInv, PassInv, NEW s \in Slots, ReturnsFalse(s),
             Starting(s) \/ steady[s], whose[s] # "alien"
      PROVE  SoFar(s).returned \cup SoFar(s).skipped = {r \in Rowids : Concerns(s, rows[r])}
  <2>1. Reads(s) /\ Ahead(s) = {}
    BY <1>3 DEF ReturnsFalse
  <2>2. \A r \in Rowids : Concerns(s, rows[r]) => ~(r > (IF Starting(s) THEN 0 ELSE cursor[s]))
    BY <2>1, <1>3, ReaderSelects DEF Ahead, Match
  <2>3. cursor[s] \in Nat /\ Rowids \subseteq Nat \ {0}
    BY <1>3, StatementsAssumption DEF StatementInv, TypeOK, Rowids
  <2>4. CASE Starting(s)
    <3>1. SoFar(s).returned \cup SoFar(s).skipped = {}
      BY <2>4 DEF SoFar, NothingSeen
    <3>2. \A r \in Rowids : ~Concerns(s, rows[r])
      BY <2>2, <2>3, <2>4
    <3> QED BY <3>1, <3>2
  <2>5. CASE ~Starting(s)
    <3>1. Come(s) = {r \in Rowids : r <= cursor[s] /\ Concerns(s, rows[r])}
      <4>1. Come(s) = {r \in Rowids : r <= cursor[s] /\ Match(s, rows[r])}
        BY <1>3, <2>1, <2>5 DEF PassInv, InPass, PassWell, Starting, Reads
      <4> QED BY <1>3, <2>1, <4>1, ReaderSelects
    <3>2. \A r \in Rowids : Concerns(s, rows[r]) => r <= cursor[s]
      BY <2>2, <2>3, <2>5
    <3> QED BY <2>5, <3>1, <3>2 DEF SoFar, Come
  <2> QED BY <2>4, <2>5
<1>4. StatementInv /\ PassInv =>
        [\A s \in Slots :
           /\ (ReturnsRow(s) \/ ReadFieldThrows(s)) /\ ~Starting(s) =>
                cursor'[s] \notin seen[s].returned \cup seen[s].skipped
           /\ ReturnsFalse(s) /\ (Starting(s) \/ steady[s]) /\ whose[s] # "alien" =>
                SoFar(s).returned \cup SoFar(s).skipped
                  = {r \in Rowids : Concerns(s, rows[r])}]_vars
  BY <1>2, <1>3
<1> QED BY <1>1, <1>4, PassStep, StatementInvariant, PTL DEF Spec, PassIsExact
===============================================================================
