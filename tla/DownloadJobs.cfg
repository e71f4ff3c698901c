CONSTANTS
  f1 = f1
  f2 = f2
  n1 = n1
  n2 = n2
  j1 = j1
  j2 = j2
  None = None
  Jobs = {j1, j2}
  Sources = {f1, f2}
  NameOf <- OneName
  Lists <- OneOrOther
  MaxSize = 1
  MaxShares = 2
  MaxDup = 2
  Foreign = {}
  UserFiles <- MCUserFiles
SPECIFICATION Spec
INVARIANTS ServedAsListed NoPartialFile
CHECK_DEADLOCK FALSE
SYMMETRY Symmetry
