\* A PANICDUMP_HALT_ON_FAULT build whose clear of the magic is ordered against none of
\* the plain stores; only the thread sets tags.
SPECIFICATION Spec
CONSTANTS
  Snaps = {s1, s2}
  FaultCauses = {c1}
  SwTrigger = SwTrigger
  Tags = {t1}
  Reasons = {r1}
  Ident = Ident
  Magic = Magic
  Zero = Zero
  Torn = Torn
  Junk = Junk
  Unset = Unset
  MaxResets = 1
  MaxLosses = 0
  Decays <- NoDecays
  Order <- LooseMagic
  HaltOnFault = TRUE
  UartFails = TRUE
  ChecksStatus = TRUE
  IrqSetsTag = FALSE
SYMMETRY SnapSymmetry
CHECK_DEADLOCK FALSE
INVARIANTS NoTornDump FramesAreDumps TriggerCarriesReason DumpInPlace
PROPERTIES ClearOnlyAfterExport
