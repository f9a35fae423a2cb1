\* CRC-32 and FNV-1a at their width; reasons within and beyond the limit.
SPECIFICATION Spec
CONSTANTS
  W = 32
  NBits = 112
  TagAt = 32
  CrcAt = 64
  Poly <- Crc32Poly
  Basis <- FnvBasis
  Prime <- FnvPrime
  Magic <- PanicMagic
  Bodies <- SomeBodies
  Reasons <- SomeReasons
  Limits = {6, 32}
  Null = Null
  KnownReasons <- Known
  Tags <- SomeTags
  Spoils <- SomeSpoils
INVARIANTS TypeOK BurstsRefused ReadersAgree ReasonNamed
CHECK_DEADLOCK FALSE
