\* Stores in program order; UART errors, interrupts that set tags, watchdog
\* resets and a loss of power.
SPECIFICATION Spec
CONSTANTS
  Snaps = {s1, s2}
  FaultCauses = {c1}
  SwTrigger = SwTrigger
  Tags = {t1}
  Reasons = {r1}
  Ident = Ident
  Magic = Magic
  Zero = Zero
  Torn = Torn
  Junk = Junk
  Unset = Unset
  MaxResets = 1
  MaxLosses = 1
  Decays <- SomeDecays
  Order <- ProgramOrder
  HaltOnFault = FALSE
  UartFails = TRUE
  ChecksStatus = TRUE
  IrqSetsTag = TRUE
SYMMETRY SnapSymmetry
CHECK_DEADLOCK FALSE
INVARIANTS TypeOK NoTornDump MarkerMeansWhole FramesAreDumps NewestOrNothing
PROPERTIES ClearOnlyAfterExport SlotSpec
