CONSTANTS
  c1 = c1
  c2 = c2
  c3 = c3
  p1 = p1
  p2 = p2
  h1 = h1
  h2 = h2
  h3 = h3
  None = None
  Ports = {p1, p2}
  DefaultPort = p1
  Conns = {c1, c2, c3}
  Handles = {h1, h2, h3}
  MaxConnections = 2
  MaxRuns = 3
  Visited = {1}
  Edited = {2, 3}
SPECIFICATION FairSpec
INVARIANTS PoolExact AnnouncedIsServed SettingsKept
PROPERTIES ExitEnds
CHECK_DEADLOCK FALSE
