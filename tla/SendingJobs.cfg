CONSTANTS
  Jobs = {j1, j2}
  Files = {f1}
  MaxAsks = 1
  MaxLate = 1
  None = None
  j1 = j1
  j2 = j2
  f1 = f1
SPECIFICATION FairSpec
INVARIANTS TransferAlive PeerFreed
PROPERTIES Delivered JobsEnd
CHECK_DEADLOCK FALSE
