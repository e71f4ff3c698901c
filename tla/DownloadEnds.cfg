CONSTANTS
  f1 = f1
  f2 = f2
  n1 = n1
  n2 = n2
  j1 = j1
  j2 = j2
  None = None
  Jobs = {j1}
  Sources = {f1, f2}
  NameOf <- TwoNames
  Lists <- BothTwiceOrOther
  MaxSize = 1
  MaxShares = 2
  MaxDup = 2
  Foreign = {j1}
  UserFiles <- MCUserFiles
SPECIFICATION FairSpec
INVARIANTS DoneMeansListed NoPartialFile
PROPERTIES JobsEnd
CHECK_DEADLOCK FALSE
