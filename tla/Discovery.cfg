CONSTANTS
  Hosts = 2
  Workers = {w1, w2}
  Expiry = 1
  Cleanup = 1
  Interval = 1
  MaxCall = 1
  w1 = w1
  w2 = w2
SPECIFICATION FairSpec
INVARIANTS QuietGone ScanComplete
PROPERTIES QuietOnly RefreshFree
