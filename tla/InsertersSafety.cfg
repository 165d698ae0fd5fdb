SPECIFICATION Spec
CONSTANTS
  Keys = {a, b}
  Vals = {p}
  Values = {a, b, p}
  Params = {1, 2}
  Null = Null
  NoRow = NoRow
  Slots = {s1, s2}
  Upserters = {s2}
  MaxRow = 3
SYMMETRY Symmetry
INVARIANTS
  TypeOK
  CleanUnlessThrown
PROPERTIES
  StoredAsGiven
  IdNamesTheNewRow
