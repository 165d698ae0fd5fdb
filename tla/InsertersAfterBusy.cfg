SPECIFICATION Spec
CONSTANTS
  Keys = {a, b}
  Vals = {p}
  Values = {a, b, p}
  Params = {1, 2}
  Null = Null
  NoRow = NoRow
  Slots = {s1}
  Upserters = {}
  MaxRow = 3
SYMMETRY Symmetry
PROPERTY
  ReuseStoresTheItem
