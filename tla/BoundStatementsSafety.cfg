SPECIFICATION Spec
CONSTANTS
  Keys = {a, b}
  Vals = {p}
  Values = {a, b, p}
  Params = {1, 2}
  Null = Null
  NoRow = NoRow
  Slots = {s1, s2}
  MaxRow = 2
  Moves = TRUE
SYMMETRY Symmetry
INVARIANTS
  TypeOK
  BoundAsGiven
PROPERTIES
  LeavesTheRest
  PassIsExact
