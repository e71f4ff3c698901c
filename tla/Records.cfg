CONSTANTS
  r1 = r1
  r2 = r2
  u1 = u1
  u2 = u2
  UI = UI
  Uploads = {u1, u2}
  Old <- MCOld
  MaxEntries = 2
  Size = 2
SPECIFICATION Spec
INVARIANTS TypeOK SavedUnlessRaced DoneAddsUp
PROPERTIES RemovesSelected
CHECK_DEADLOCK FALSE
SYMMETRY Symmetry
