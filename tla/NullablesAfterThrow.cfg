SPECIFICATION Spec
CONSTANTS
  Cells = {c1, c2}
  Contents = {u, v}
  Raw = Raw
INVARIANT
  ContainedObjectLifetimeIsGuarded
