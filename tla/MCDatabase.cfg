CONSTANTS
  Tables  = {t1, t2}
  Cols    = {a, b, c}
  MaxCols = 2
  MaxRows = 2
  MaxTries = 7
SPECIFICATION Spec
SYMMETRY Symmetry
INVARIANT FilesMatchSchemas
PROPERTIES
  RepairUndoesOrFinishes
  ImplementsSchemas
