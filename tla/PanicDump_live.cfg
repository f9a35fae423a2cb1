\* Fair execution, a UART without errors, a watchdog reset.
SPECIFICATION FairSpec
CONSTANTS
  Snaps = {s1, s2}
  FaultCauses = {c1}
  SwTrigger = SwTrigger
  Tags = {t1}
  Reasons = {r1}
  Ident = Ident
  Magic = Magic
  Zero = Zero
  Torn = Torn
  Junk = Junk
  Unset = Unset
  MaxResets = 1
  MaxLosses = 0
  Decays <- NoDecays
  Order <- ProgramOrder
  HaltOnFault = FALSE
  UartFails = FALSE
  ChecksStatus = TRUE
  IrqSetsTag = TRUE
CHECK_DEADLOCK FALSE

PROPERTIES PanicReboots DumpDelivered
