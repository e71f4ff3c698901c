SPECIFICATION Spec
CONSTANTS
  f1 = f1
  f2 = f2
  n1 = n1
  w1 = w1
  w2 = w2
  p1 = p1
  None = None
  Workers = {w1, w2}
  Peers = {p1}
  Files = {f1, f2}
  Names = {n1}
  Offers <- AllOffers
  UserFiles <- NoUserFiles
  AskModes = {TRUE, FALSE}
  MaxSessions = 1
  MaxBytes = 1
  MaxDup = 2
INVARIANTS
  DoneMeansReceived
PROPERTIES
  ReceiverPromise
CHECK_DEADLOCK FALSE
SYMMETRY WorkerSymmetry
