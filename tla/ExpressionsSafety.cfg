SPECIFICATION Spec
CONSTANTS
  Columns = {a}
  Objects = {x, y}
  Values = {x, y}
  Null = Null
  Params = {1, 2, 3, 4, 5, 6, 7, 8}
  MaxSets = 2
  Levels <- MCLevels
SYMMETRY Symmetry
INVARIANTS
  TypeOK
  ConditionReadsBack
  SetsReadBack
