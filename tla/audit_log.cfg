SPECIFICATION Spec
CONSTANTS
  Proc = {p1, p2}
  File = {1, 2, 3, 4, 5, 6}
  None = None
  MaxEntries = 2
  MaxSize = 3
  Keep = 2
SYMMETRY Symmetry
INVARIANTS NoDeadlyEmbrace LogBounded
PROPERTIES RowsCount OnlyOldestDropped
