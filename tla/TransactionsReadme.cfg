SPECIFICATION Spec
CONSTANTS
  Conns = {c1}
  Txs = {t1}
  Items = {i1}
  NoConn = NoConn
  NoTx = NoTx
  TimeoutsExpire = TRUE
  Faults = {}
  Scoped = TRUE
PROPERTY
  CommitIsNotRefused
