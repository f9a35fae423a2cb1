\* Every stack pointer of a one-byte address space.  A dump ends the behaviour:
\* the core resets, and PanicDump takes over.
SPECIFICATION Spec
CONSTANTS
  WordMod = 256
  RamBase = 64
  RamEnd = 192
  SliceBytes = 64
  FrameBytes = 32
  StackPointers <- AllStackPointers
  RegValues = {"r3"}
  NoDump = NoDump
CHECK_DEADLOCK FALSE
INVARIANTS TypeOK ReadsStayInRam GivesUpOnlyWithoutSlice FlagsDescribeFault
