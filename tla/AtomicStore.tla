----------------------------- MODULE AtomicStore -----------------------------
(***************************************************************************)
(* What the transactions of sql2++ promise, without locks, calls, waiting, *)
(* statements or exceptions.  A connection gathers changes; they reach the *)
(* store all at once when an object of that connection is committed, or    *)
(* never.  While a connection has changes in hand nobody else changes the  *)
(* store, so a commit never overwrites what it has not seen.  Who opened a *)
(* transaction is told: it stays with this object until it is committed,   *)
(* rolled back, or lost.                                                   *)
(***************************************************************************)

EXTENDS ChangeSets

CONSTANTS
  Txs, NoTx,      \* transaction objects, and none
  Conns, NoConn,  \* connections, and none
  Faults          \* what may go wrong, of "transaction" and "rollback"

VARIABLES store,  \* the durable items
          hand,   \* of each connection: changes that are not durable
          owner,  \* of each connection: the object whose transaction is open
          at,     \* of each object: its connection
          done    \* of each object: it has been committed

avars == <<store, hand, owner, at, done>>

(* No other connection than c has a change in hand. *)
Alone(c) == \A d \in Conns \ {c} : hand[d] = NoChange

LetGo(c) ==
  /\ hand' = [hand EXCEPT ![c] = NoChange]
  /\ owner' = [owner EXCEPT ![c] = NoTx]

AInit ==
  /\ store = {}
  /\ hand = [c \in Conns |-> NoChange]
  /\ owner = [c \in Conns |-> NoTx]
  /\ at = [t \in Txs |-> NoConn]
  /\ done = [t \in Txs |-> FALSE]

ABegin(t, c) ==
  /\ owner[c] = NoTx /\ owner' = [owner EXCEPT ![c] = t]
  /\ at[t] = NoConn /\ at' = [at EXCEPT ![t] = c]
  /\ UNCHANGED <<store, hand, done>>

APut(c, w) ==
  /\ UNCHANGED <<store, owner, at, done>>
  /\ Alone(c)
  /\ hand' = [hand EXCEPT ![c] = Record(@, w)]

(* One object may commit what another has begun: what counts is its connection. *)
ACommit(t, c) ==
  /\ owner[c] # NoTx
  /\ LetGo(c)
  /\ at[t] = c
  /\ Alone(c) \/ hand[c] = NoChange
  /\ store' = Apply(store, hand[c])
  /\ done' = [done EXCEPT ![t] = TRUE]
  /\ UNCHANGED at

(* Destruction discards what is not committed; with no transaction open, only
   what a statement that ends with the object held back.  Of a committed object
   it does nothing to a transaction. *)
AEnd(t, c) ==
  /\ done' = [done EXCEPT ![t] = FALSE]
  /\ at[t] = c /\ at' = [at EXCEPT ![t] = NoConn]
  /\ \/ (~done[t] \/ owner[c] = NoTx) /\ LetGo(c)
     \/ done[t] /\ UNCHANGED <<hand, owner>>
     \/ (owner[c] = NoTx \/ "rollback" \in Faults) /\ UNCHANGED <<hand, owner>>
  /\ UNCHANGED store

(* Changes are lost together, and their transaction with them. *)
ALose(c) ==
  /\ owner[c] = NoTx \/ "transaction" \in Faults
  /\ LetGo(c)
  /\ UNCHANGED <<store, at, done>>

(* A write outside a transaction is made durable with what was held back before. *)
AWriteThrough(c, w) ==
  /\ owner[c] = NoTx
  /\ Alone(c)
  /\ LetGo(c)
  /\ store' = Apply(store, Record(hand[c], w))
  /\ UNCHANGED <<at, done>>

ANext ==
  \E c \in Conns :
    \/ ALose(c)
    \/ \E t \in Txs : ABegin(t, c) \/ ACommit(t, c) \/ AEnd(t, c)
    \/ \E w \in Writes : APut(c, w) \/ AWriteThrough(c, w)

ASpec == AInit /\ [][ANext]_avars
==============================================================================
