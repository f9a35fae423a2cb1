\* A fault after a software trigger.
SPECIFICATION Spec
CONSTANTS
  Snaps = {s1, s2}
  FaultCauses = {c1}
  SwTrigger = SwTrigger
  Tags = {t1}
  Reasons = {r1}
  Ident = Ident
  Magic = Magic
  Zero = Zero
  Torn = Torn
  Junk = Junk
  Unset = Unset
  MaxResets = 1
  MaxLosses = 0
  Decays <- NoDecays
  Order <- ProgramOrder
  HaltOnFault = FALSE
  UartFails = TRUE
  ChecksStatus = TRUE
  IrqSetsTag = TRUE
SYMMETRY SnapSymmetry
CHECK_DEADLOCK FALSE
INVARIANTS LastSetTagAppears
