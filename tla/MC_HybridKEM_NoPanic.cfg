CONSTANTS
  A = A
  B = B
  Nil = Nil
  Foreign = Foreign
  Components <- MCComponents
  First = A
  Second = B
  PkSize <- MCPkSize
  SkSize <- MCSkSize
  SdSize <- MCSdSize
  CtSize <- MCCtSize
  EsSize <- MCEsSize
  SsSize <- MCSsSize
  PrfSize = 32
  Malleable <- MCMalleable
  MaxBuf = 4
  MaxKeys = 2
SPECIFICATION Spec
INVARIANT NoPanic
