--------------------------- MODULE Inserters_proofs ---------------------------
(***************************************************************************)
(* Proofs about Inserters, for any number of inserters, contents and rows. *)
(***************************************************************************)
EXTENDS Inserters, TLAPS

(* The statements of the inserters: as made or reset, or as a call that threw has
   left them, bound to the item of some call. *)
Left(h) ==
  /\ h.state \in {"stalled", "halted"}
  /\ h.bound[1] \in Keys
  /\ h.bound[2] \in Vals \cup {Null}

HandleInv ==
  \A s \in Slots : handle[s] \in {Prepared, Unprepared} \/ Left(handle[s])

(* An object that has thrown nothing is as made or reset. *)
CleanInv == TypeOK /\ HandleInv /\ CleanUnlessThrown

LEMMA StartsTyped == Prepared \in Handles /\ Unprepared \in Handles
  BY DEF Prepared, Unprepared, Handles, Unbound

LEMMA CleanInit == Init => CleanInv
  BY StartsTyped, ColumnsAssumption DEF Init, CleanInv, TypeOK, HandleInv, CleanUnlessThrown

(* A fresh statement is executed with the item, a nullable without a value being
   the NULL of a parameter that is not bound. *)
LEMMA FreshBinding ==
  ASSUME NEW s \in Slots, NEW item \in Items, handle[s] = Prepared
  PROVE  /\ BindFields(s, item) \in Handles
         /\ BindFields(s, item).bound[1] = item.k
         /\ BindFields(s, item).bound[2] = item.v
         /\ Row(s, item) = item
<1>1. item = [k |-> item.k, v |-> item.v]
  BY DEF Items
<1>2. item.k \in Values /\ item.v \in Values \cup {Null} /\ 1 \in Params /\ 2 \in Params
  BY ColumnsAssumption DEF Items
<1>3. ASSUME NEW h \in Handles, NEW i \in Params, NEW v \in Values \cup {Null}, h.state = "ready"
      PROVE  /\ Bind(h, i, v) \in Handles /\ Bind(h, i, v).state = "ready"
             /\ Bind(h, i, v).bound = [h.bound EXCEPT ![i] = v]
  BY <1>3 DEF Bind, Handles
<1>4. /\ Bind(Prepared, 1, item.k) \in Handles /\ Bind(Prepared, 1, item.k).state = "ready"
      /\ Bind(Prepared, 1, item.k).bound = [Unbound EXCEPT ![1] = item.k]
  BY <1>2, <1>3, StartsTyped DEF Prepared
<1>5. /\ BindFields(s, item) \in Handles
      /\ BindFields(s, item).bound = IF item.v = Null THEN [Unbound EXCEPT ![1] = item.k]
                                     ELSE [[Unbound EXCEPT ![1] = item.k] EXCEPT ![2] = item.v]
  <2> DEFINE h == Bind(Prepared, 1, item.k)
  <2>1. BindFields(s, item) = BindNullable(h, 2, item.v)
    BY DEF BindFields
  <2>2. /\ h \in Handles /\ h.state = "ready"
        /\ h.bound = [Unbound EXCEPT ![1] = item.k]
    BY <1>4
  <2> HIDE DEF h
  <2>3. CASE item.v = Null
    BY <2>1, <2>2, <2>3 DEF BindNullable
  <2>4. CASE item.v # Null
    <3>1. BindFields(s, item) = Bind(h, 2, item.v)
      BY <2>1, <2>4 DEF BindNullable
    <3>2. /\ Bind(h, 2, item.v) \in Handles
          /\ Bind(h, 2, item.v).bound = [h.bound EXCEPT ![2] = item.v]
      BY <1>2, <2>2 DEF Bind, Handles
    <3> QED BY <2>2, <2>4, <3>1, <3>2
  <2> QED BY <2>3, <2>4
<1>6. BindFields(s, item).bound[1] = item.k /\ BindFields(s, item).bound[2] = item.v
  BY <1>2, <1>5 DEF Unbound
<1> QED BY <1>1, <1>5, <1>6 DEF Row

(* Any other statement refuses to be bound, and keeps what it is bound to. *)
LEMMA StaleBinding ==
  ASSUME CleanInv, NEW s \in Slots, NEW item \in Items, handle[s] # Prepared
  PROVE  BindFields(s, item) = handle[s]
  BY DEF CleanInv, HandleInv, Left, BindFields, BindNullable, Bind, Prepared, Unprepared

(* A statement that throws is left with the fields of an item, the given or an
   earlier one, and one that is executed is executed with them. *)
LEMMA BindingLeft ==
  ASSUME CleanInv, NEW s \in Slots, NEW item \in Items, handle[s].state # "null"
  PROVE  /\ BindFields(s, item) \in Handles
         /\ Row(s, item) \in Items
         /\ \A state \in {"stalled", "halted"} :
              /\ Step(BindFields(s, item), state) \in Handles
              /\ Left(Step(BindFields(s, item), state))
<1>1. /\ BindFields(s, item) \in Handles
      /\ BindFields(s, item).bound[1] \in Keys
      /\ BindFields(s, item).bound[2] \in Vals \cup {Null}
  <2>1. CASE handle[s] = Prepared
    BY <2>1, FreshBinding DEF Items
  <2>2. CASE handle[s] # Prepared
    BY <2>2, StaleBinding DEF CleanInv, TypeOK, HandleInv, Left, Unprepared
  <2> QED BY <2>1, <2>2
<1>2. Row(s, item) \in Items
  BY <1>1 DEF Row, Items
<1>3. ASSUME NEW h \in Handles, NEW state \in {"stalled", "halted"}
      PROVE  /\ Step(h, state) \in Handles /\ Step(h, state).state = state
             /\ Step(h, state).bound = h.bound
  BY DEF Step, Handles
<1> QED BY <1>1, <1>2, <1>3 DEF Left

LEMMA CleanStep == CleanInv /\ [Next]_vars => CleanInv'
<1> SUFFICES ASSUME CleanInv, [Next]_vars
             PROVE  CleanInv'
  OBVIOUS
<1>1. CASE UNCHANGED vars
  BY <1>1 DEF vars, CleanInv, TypeOK, HandleInv, CleanUnlessThrown
<1>2. ASSUME NEW s \in Slots, Make(s) \/ Drop(s)
      PROVE  CleanInv'
  <2>1. PICK h \in {Prepared, Unprepared} : handle' = [handle EXCEPT ![s] = h]
    BY <1>2 DEF Make, Drop
  <2>2. h \in Handles
    BY <2>1, StartsTyped
  <2>3. /\ made' \subseteq made \cup {s} /\ threw' = [threw EXCEPT ![s] = FALSE]
        /\ UNCHANGED <<rows, lastRowid, id>>
    BY <1>2 DEF Make, Drop
  <2> QED BY <2>1, <2>2, <2>3 DEF CleanInv, TypeOK, HandleInv, CleanUnlessThrown
<1>3. ASSUME NEW s \in Slots, NEW item \in Items, Call(s, item)
      PROVE  CleanInv'
  <2>1. CASE CallUnprepared(s, item)
    <3>1. handle[s] = Unprepared /\ s \in made
      BY <2>1 DEF CallUnprepared, CleanInv, HandleInv, Left, Prepared
    <3>2. Step(BindFields(s, item), "null") = Unprepared
      BY <3>1 DEF Step, BindFields, BindNullable, Bind, Unprepared
    <3>3. handle' = [handle EXCEPT ![s] = Unprepared]
      BY <2>1, <3>2 DEF CallUnprepared, Throws
    <3> QED BY <2>1, <3>1, <3>3, StartsTyped
            DEF CallUnprepared, Throws, CleanInv, TypeOK, HandleInv, CleanUnlessThrown
  <2>2. ASSUME NEW state \in {"stalled", "halted"}, Callable(s), Throws(s, item, state)
        PROVE  CleanInv'
    <3> DEFINE h == Step(BindFields(s, item), state)
    <3>1. h \in Handles /\ Left(h)
      BY <2>2, BindingLeft DEF Callable
    <3>2. /\ handle' = [handle EXCEPT ![s] = h] /\ threw' = [threw EXCEPT ![s] = TRUE]
          /\ UNCHANGED <<made, rows, lastRowid, id>>
      BY <2>2 DEF Throws
    <3> HIDE DEF h
    <3> QED BY <3>1, <3>2 DEF CleanInv, TypeOK, HandleInv, CleanUnlessThrown
  <2>3. CASE CallInserts(s, item) \/ CallUpdates(s, item)
    <3>1. /\ handle' = [handle EXCEPT ![s] = Prepared]
          /\ UNCHANGED <<made, threw>> /\ id' = lastRowid' /\ handle[s].state # "null"
      BY <2>3 DEF CallInserts, CallUpdates, Returns, BindIdentity, Reset, Callable
    <3>2. Row(s, item) \in Items
      BY <3>1, BindingLeft
    <3>3. rows' \in [Rowids -> Items \cup {NoRow}] /\ lastRowid' \in 0..MaxRow
      BY <2>3, <3>2, ColumnsAssumption DEF CallInserts, CallUpdates, CleanInv, TypeOK, Rowids
    <3> QED BY <3>1, <3>3, StartsTyped DEF CleanInv, TypeOK, HandleInv, CleanUnlessThrown
  <2> QED BY <1>3, <2>1, <2>2, <2>3 DEF Call, CallBusy, CallUndone, CallClashes
<1>4. ASSUME NEW r \in Rowids, RemoveRow(r)
      PROVE  CleanInv'
  BY <1>4 DEF RemoveRow, CleanInv, TypeOK, HandleInv, CleanUnlessThrown
<1>5. ASSUME NEW row \in Items, ForeignInsert(row)
      PROVE  CleanInv'
  BY <1>5 DEF ForeignInsert, CleanInv, TypeOK, HandleInv, CleanUnlessThrown
<1> QED BY <1>1, <1>2, <1>3, <1>4, <1>5 DEF Next

LEMMA CleanInvariant == Spec => []CleanInv
  BY CleanInit, CleanStep, PTL DEF Spec

(* The inserters and the table keep to their types. *)
THEOREM InsertersTypeCorrect == Spec => []TypeOK
<1>1. CleanInv => TypeOK
  BY DEF CleanInv
<1> QED BY <1>1, CleanInvariant, PTL

(* An inserter none of whose calls has thrown carries nothing over. *)
THEOREM CleanUnlessThrownHolds == Spec => []CleanUnlessThrown
<1>1. CleanInv => CleanUnlessThrown
  BY DEF CleanInv
<1> QED BY <1>1, CleanInvariant, PTL

------------------------------------------------------------------------------
(* What a call that returns has done. *)

LEMMA SucceedsAfresh ==
  ASSUME CleanInv, NEW s \in Slots, NEW item \in Items, Succeeds(s, item), ~threw[s]
  PROVE  Row(s, item) = item
<1>1. handle[s] = Prepared
  BY DEF Succeeds, CallInserts, CallUpdates, Callable, CleanInv, CleanUnlessThrown, Unprepared
<1> QED BY <1>1, FreshBinding

(* A call that returns has stored the item it was given. *)
THEOREM StoredAsGivenHolds == Spec => StoredAsGiven
<1>1. ASSUME CleanInv, NEW s \in Slots, NEW item \in Items, Succeeds(s, item), ~threw[s]
      PROVE  \E r \in Rowids : rows'[r] = item
  <2>1. Row(s, item) = item
    BY <1>1, SucceedsAfresh
  <2>2. PICK r \in Rowids : rows' = [rows EXCEPT ![r] = Row(s, item)]
    BY <1>1 DEF Succeeds, CallInserts, CallUpdates
  <2> QED BY <1>1, <2>1, <2>2 DEF CleanInv, TypeOK
<1>2. CleanInv => [\A s \in Slots, item \in Items :
                     Succeeds(s, item) /\ ~threw[s] =>
                       \E r \in Rowids : rows'[r] = item]_vars
  BY <1>1
<1> QED BY <1>2, CleanInvariant, PTL DEF StoredAsGiven

(* An insertion that returns names the row it has made. *)
THEOREM IdNamesTheNewRowHolds == Spec => IdNamesTheNewRow
<1>1. ASSUME CleanInv, NEW s \in Slots, NEW item \in Items, CallInserts(s, item), ~threw[s]
      PROVE  id' \in Rowids /\ rows[id'] = NoRow /\ rows'[id'] = item
  <2>1. Row(s, item) = item
    BY <1>1, SucceedsAfresh DEF Succeeds
  <2>2. PICK r \in Rowids : /\ IsNextRowid(r)
                            /\ rows' = [rows EXCEPT ![r] = Row(s, item)]
                            /\ lastRowid' = r
    BY <1>1 DEF CallInserts
  <2>3. id' = r
    BY <1>1, <2>2 DEF CallInserts, Returns, BindIdentity
  <2>4. rows[r] = NoRow
    BY <2>2, ColumnsAssumption DEF IsNextRowid, Rowids
  <2> QED BY <1>1, <2>1, <2>2, <2>3, <2>4 DEF CleanInv, TypeOK
<1>2. CleanInv => [\A s \in Slots, item \in Items :
                     CallInserts(s, item) /\ ~threw[s] =>
                       id' \in Rowids /\ rows[id'] = NoRow /\ rows'[id'] = item]_vars
  BY <1>1
<1> QED BY <1>2, CleanInvariant, PTL DEF IdNamesTheNewRow
===============================================================================
