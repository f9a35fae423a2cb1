\* Short writes, resets, panics, prints and lost characters over several boots.
SPECIFICATION Spec
CONSTANTS
  NBytes = 2
  LineBytes = 1
  HexDigits <- TwoDigits
  RuleLen = 2
  BeginWords <- ShortBegin
  EndWords <- ShortEnd
  Images <- TwoImages
  NoImage = NoImage
  TxRoom = 2
  MaxBoots = 2
  MaxCalls = 2
  MaxNoise = 2
INVARIANTS TypeOK FrameLoads FramesAreWhole CompleteCallsDecode ErasedIsReadable
VIEW WithoutBoot
CHECK_DEADLOCK FALSE
