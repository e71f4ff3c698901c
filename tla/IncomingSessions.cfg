SPECIFICATION FairSpec
CONSTANTS
  f1 = f1
  f2 = f2
  n1 = n1
  w1 = w1
  w2 = w2
  p1 = p1
  None = None
  Workers = {w1, w2}
  Peers = {p1}
  Files = {f1, f2}
  Names = {n1}
  Offers <- OneFile
  UserFiles <- OneUserFile
  AskModes = {TRUE}
  MaxSessions = 2
  MaxBytes = 1
  MaxDup = 2
INVARIANTS
  PromptAlive
  OneDialog
  HistoryVouched
  RestingFilesRecorded
PROPERTIES
  RequestsEnd
  UserFilesKept
  ReceiverPromise
CHECK_DEADLOCK FALSE
