SPECIFICATION Spec
CONSTANTS
  Cells = {c1, c2, c3, c4}
  Contents = {u, v, w}
  Raw = Raw
INVARIANTS
  TypeOK
  FlagTellsTheTruth
