\* What the terminal captured of one boot, on a line that loses nothing.
SPECIFICATION Spec
CONSTANTS
  NBytes = 2
  LineBytes = 1
  HexDigits <- TwoDigits
  RuleLen = 2
  BeginWords <- ShortBegin
  EndWords <- ShortEnd
  Images <- TwoImages
  NoImage = NoImage
  TxRoom = 2
  MaxBoots = 2
  MaxCalls = 2
  MaxNoise = 1
INVARIANTS CaptureDecodes
CHECK_DEADLOCK FALSE
