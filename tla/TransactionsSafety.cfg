SPECIFICATION Spec
CONSTANTS
  Conns = {c1, c2}
  Txs = {t1, t2}
  Items = {i1, i2}
  NoConn = NoConn
  NoTx = NoTx
  TimeoutsExpire = TRUE
  Faults = {"statement","transaction","rollback"}
  Scoped = FALSE
SYMMETRY Symmetry
INVARIANTS
  TypeOK
  OwnView
  SingleWriter
  TransactionHasItsObject
  NothingHeldAtRest
  NoWaitCycle
PROPERTY
  ImplementsAtomicStore
