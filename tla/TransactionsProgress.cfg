SPECIFICATION FairSpec
CONSTANTS
  Conns = {c1, c2}
  Txs = {t1, t2}
  Items = {i1}
  NoConn = NoConn
  NoTx = NoTx
  TimeoutsExpire = FALSE
  Faults = {"statement","transaction"}
  Scoped = TRUE
PROPERTIES
  LocksAreReleased
  CommitEnds
