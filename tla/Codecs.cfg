CONSTANTS
  MaxDepth = 2
  NameMax = 8
  NameCut = 6
  DefaultPort = 53317
  Scalars <- MCScalars
  Keys <- MCKeys
  MaxSize = 16
  Damage <- MCDamage
  Characters <- MCCharacters
  MaxString = 3
  NamePieces <- MCNamePieces
  Devices <- MCDevices
  MaxName = 9
  ParamBytes <- MCParamBytes
  MaxParam = 4
  Block = 4
  LengthBytes = 1
  MaxFed = 9
SPECIFICATION Spec
INVARIANTS JsonExact TextExact DigestChunked
CHECK_DEADLOCK FALSE
