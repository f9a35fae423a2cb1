-------------------------- MODULE FaultEntry_proofs --------------------------
(***************************************************************************)
(* Theorems about FaultEntry for every word size, RAM window and slice.    *)
(***************************************************************************)
EXTENDS FaultEntry, TLAPS

\* A window that ends below the slice size would make RAM_END - 64 wrap around;
\* the #if of panicdump_port.h does not exclude it, so the theorems say so.
SaneWindow == SliceBytes <= RamEnd

LEMMA SmallMod ==
  ASSUME NEW x \in Int, 0 <= x, x < WordMod
  PROVE  x % WordMod = x
BY RamAssumption

LEMMA ModTyped ==
  ASSUME NEW x \in Int
  PROVE  x % WordMod \in Addresses
BY RamAssumption DEF Addresses

LEMMA BytesTyped ==
  ASSUME NEW a \in Addresses, NEW n \in Nat
  PROVE  Bytes(a, n) \subseteq Addresses
BY ModTyped DEF Bytes, Addresses

\* The bound check accepts exactly the aligned pointers whose slice is in RAM.
LEMMA FrameWithinRamSound ==
  ASSUME SaneWindow, NEW a \in Addresses, FrameWithinRam(a)
  PROVE  Bytes(a, SliceBytes) \subseteq Ram
<1>1. (RamEnd - SliceBytes) % WordMod = RamEnd - SliceBytes
  BY SmallMod, RamAssumption, SizeAssumption DEF SaneWindow
<1>2. a >= RamBase /\ a <= RamEnd - SliceBytes
  BY <1>1 DEF FrameWithinRam
<1>3. ASSUME NEW i \in 0..(SliceBytes - 1)
      PROVE (a + i) % WordMod \in Ram
  <2>1. a + i \in Int /\ 0 <= a + i /\ a + i < RamEnd /\ RamBase <= a + i
    BY <1>2, RamAssumption, SizeAssumption DEF Addresses
  <2>2. (a + i) % WordMod = a + i
    BY <2>1, SmallMod, RamAssumption
  <2> QED
    BY <2>1, <2>2, RamAssumption DEF Ram
<1> QED
  BY <1>3 DEF Bytes

LEMMA FrameWithinRamComplete ==
  ASSUME SaneWindow, NEW a \in Addresses, a % 4 = 0,
         Bytes(a, SliceBytes) \subseteq Ram
  PROVE  FrameWithinRam(a)
<1>1. ASSUME NEW i \in 0..(SliceBytes - 1)
      PROVE (a + i) % WordMod \in Ram
  BY <1>1 DEF Bytes
<1>2. a \in Nat /\ a < WordMod
  BY RamAssumption DEF Addresses
<1>3. a >= RamBase
  <2>1. (a + 0) % WordMod \in Ram
    BY <1>1, SizeAssumption
  <2>2. (a + 0) % WordMod = a
    BY <1>2, SmallMod
  <2> QED
    BY <2>1, <2>2 DEF Ram
<1>4. a + (SliceBytes - 1) < WordMod
  <2> SUFFICES ASSUME ~(a + (SliceBytes - 1) < WordMod) PROVE FALSE
    OBVIOUS
  <2> DEFINE i == WordMod - 1 - a
  <2>1. i \in 0..(SliceBytes - 1)
    BY <1>2, RamAssumption, SizeAssumption
  <2>2. (a + i) % WordMod = WordMod - 1
    BY <1>2, SmallMod, RamAssumption
  <2>3. WordMod - 1 \in Ram
    BY <2>1, <2>2, <1>1
  <2> QED
    BY <2>3, RamAssumption DEF Ram
<1>5. a + (SliceBytes - 1) < RamEnd
  <2>1. (a + (SliceBytes - 1)) % WordMod = a + (SliceBytes - 1)
    BY <1>2, <1>4, SmallMod, SizeAssumption
  <2>2. (a + (SliceBytes - 1)) % WordMod \in Ram
    BY <1>1, SizeAssumption
  <2> QED
    BY <2>1, <2>2, <1>2, RamAssumption, SizeAssumption DEF Ram
<1>6. (RamEnd - SliceBytes) % WordMod = RamEnd - SliceBytes
  BY SmallMod, RamAssumption, SizeAssumption DEF SaneWindow
<1> QED
  BY <1>2, <1>3, <1>5, <1>6, RamAssumption, SizeAssumption DEF FrameWithinRam

-----------------------------------------------------------------------------
(* Type correctness. *)

LEMMA SliceTyped ==
  ASSUME NEW a
  PROVE  SliceBytesAt(a) \in {0, SliceBytes}
BY DEF SliceBytesAt

LEMMA SliceReadsTyped ==
  ASSUME NEW a \in Addresses
  PROVE  Bytes(a, SliceBytesAt(a)) \subseteq Addresses
BY BytesTyped, SliceTyped, SizeAssumption

LEMMA StepTyped == TypeOK /\ [Next]_vars => TypeOK'
<1> SUFFICES ASSUME TypeOK, [Next]_vars PROVE TypeOK'
  OBVIOUS
<1>1. ASSUME NEW e \in ExcReturns, NEW c \in FaultReasons, TakeFault(e, c)
      PROVE TypeOK'
  <2>1. (psp - FrameBytes) % WordMod \in Addresses /\ (msp - FrameBytes) % WordMod \in Addresses
    BY ModTyped, SizeAssumption DEF TypeOK, Addresses
  <2>2. msp' \in Addresses /\ psp' \in Addresses
    BY <1>1, <2>1 DEF TakeFault, TypeOK
  <2> QED
    BY <1>1, <2>2 DEF TakeFault, TypeOK
<1>2. CASE StubFrame
  BY <1>2 DEF StubFrame, TypeOK
<1>3. CASE StubReason
  BY <1>3 DEF StubReason, TypeOK
<1>4. CASE StubUsePsp
  BY <1>4 DEF StubUsePsp, TypeOK
<1>5. CASE Handler
  <2> DEFINE a == arg.exc_frame
  <2>1. a \in Addresses
    BY DEF TypeOK
  <2>2. Bytes(a, FrameBytes) \subseteq Addresses /\ Bytes(a, SliceBytesAt(a)) \subseteq Addresses
    BY <2>1, BytesTyped, SliceReadsTyped, SizeAssumption
  <2>3. reads' \subseteq Addresses
    BY <1>5, <2>2 DEF Handler, TypeOK
  <2>4. dump' \in Dumps
    BY <1>5, <2>1, SliceTyped DEF Handler, TypeOK, Dumps, Flags
  <2> QED
    BY <1>5, <2>3, <2>4 DEF Handler, TypeOK
<1>6. ASSUME NEW sp \in {msp, psp}, SwTrigger(sp)
      PROVE TypeOK'
  <2>1. sp \in Addresses
    BY DEF TypeOK
  <2>2. reads' \subseteq Addresses
    BY <1>6, <2>1, SliceReadsTyped DEF SwTrigger, TypeOK
  <2>3. dump' \in Dumps
    BY <1>6, <2>1, SliceTyped DEF SwTrigger, Dumps
  <2> QED
    BY <1>6, <2>2, <2>3 DEF SwTrigger, TypeOK
<1>7. CASE UNCHANGED vars
  BY <1>7 DEF vars, TypeOK
<1> QED
  BY <1>1, <1>2, <1>3, <1>4, <1>5, <1>6, <1>7 DEF Next

\* Every variable keeps to its type, for every word size and RAM window.
THEOREM FaultEntryTyped == Spec => []TypeOK
<1>1. Init => TypeOK
  <2> SUFFICES ASSUME Init PROVE TypeOK
    OBVIOUS
  <2>1. msp \in Addresses /\ psp \in Addresses /\ 0 \in Addresses
    BY StackAssumption, RamAssumption DEF Init, Addresses
  <2>2. arg \in [exc_frame : Addresses, fault_reason : FaultReasons,
                 use_psp : BOOLEAN, exc_return : RegValues]
    BY <2>1 DEF Init, FaultReasons
  <2> QED
    BY <2>1, <2>2 DEF Init, TypeOK, ExcReturns
<1> QED
  BY <1>1, StepTyped, PTL DEF Spec

-----------------------------------------------------------------------------
(* Memory safety of the capture. *)

LEMMA FrameInSlice ==
  ASSUME NEW a
  PROVE  Bytes(a, FrameBytes) \subseteq Bytes(a, SliceBytes)
BY SizeAssumption DEF Bytes

LEMMA CaptureReads ==
  ASSUME SaneWindow, NEW a \in Addresses
  PROVE  Bytes(a, SliceBytesAt(a)) \subseteq Ram
<1>1. CASE FrameWithinRam(a)
  BY <1>1, FrameWithinRamSound DEF SliceBytesAt
<1>2. CASE ~FrameWithinRam(a)
  BY <1>2 DEF SliceBytesAt, Bytes
<1> QED
  BY <1>1, <1>2

\* However wild the stack pointer, the capture reads nothing outside RAM.
THEOREM CaptureStaysInRam == SaneWindow => (Spec => []ReadsStayInRam)
<1> SUFFICES ASSUME SaneWindow PROVE Spec => []ReadsStayInRam
  OBVIOUS
<1>1. Init => ReadsStayInRam
  BY DEF Init, ReadsStayInRam
<1>2. TypeOK /\ ReadsStayInRam /\ [Next]_vars => ReadsStayInRam'
  <2> SUFFICES ASSUME TypeOK, ReadsStayInRam, [Next]_vars PROVE reads' \subseteq Ram
    BY DEF ReadsStayInRam
  <2>1. CASE Handler
    <3> DEFINE a == arg.exc_frame
    <3>1. a \in Addresses
      BY DEF TypeOK
    <3>2. Bytes(a, SliceBytesAt(a)) \subseteq Ram
      BY <3>1, CaptureReads
    <3>3. FrameWithinRam(a) => Bytes(a, FrameBytes) \subseteq Ram
      BY <3>1, FrameWithinRamSound, FrameInSlice
    <3> QED
      BY <2>1, <3>2, <3>3 DEF Handler, ReadsStayInRam
  <2>2. ASSUME NEW sp \in {msp, psp}, SwTrigger(sp)
        PROVE reads' \subseteq Ram
    <3>1. Bytes(sp, SliceBytesAt(sp)) \subseteq Ram
      BY CaptureReads DEF TypeOK
    <3> QED
      BY <2>2, <3>1 DEF SwTrigger, ReadsStayInRam
  <2>3. CASE UNCHANGED reads
    BY <2>3 DEF ReadsStayInRam
  <2> QED
    BY <2>1, <2>2, <2>3
    DEF Next, vars, TakeFault, StubFrame, StubReason, StubUsePsp
<1> QED
  BY <1>1, <1>2, FaultEntryTyped, PTL DEF Spec

-----------------------------------------------------------------------------
(* What the flags say. *)

\* The Z flag, r0 and r2 carry the choice of stack from lr to the handler.
StubInv ==
  /\ pc \in {"reason", "use_psp"} => eq = (lr # "thread_psp")
  /\ pc \in {"reason", "use_psp", "handler"} =>
       arg.exc_frame = IF lr = "thread_psp" THEN psp ELSE msp
  /\ pc = "handler" => arg.use_psp = (lr = "thread_psp")
  /\ pc # "done" => dump = NoDump
  /\ FlagsDescribeFault
  /\ IsFaultDump =>
       (("INVALID_FRAME" \in dump.flags) <=> ~FrameWithinRam(dump.captured_sp))

LEMMA StubInvHandler ==
  ASSUME TypeOK, StubInv, Handler
  PROVE  StubInv'
<1> DEFINE a == arg.exc_frame
      F == (IF arg.use_psp THEN {"USE_PSP"} ELSE {})
           \cup (IF SliceBytesAt(a) = SliceBytes THEN {"STACK_VALID"} ELSE {})
           \cup (IF FrameWithinRam(a) THEN {"FRAME_VALID"} ELSE {"INVALID_FRAME"})
<1>1. /\ pc' = "done" /\ UNCHANGED <<lr, msp, psp>>
      /\ dump'.captured_sp = a /\ dump'.stack_bytes = SliceBytesAt(a) /\ dump'.flags = F
  BY DEF Handler
<1>2. a = (IF lr = "thread_psp" THEN psp ELSE msp) /\ arg.use_psp = (lr = "thread_psp")
  BY DEF Handler, StubInv
<1>3. /\ "USE_PSP" \in F <=> lr = "thread_psp"
      /\ "STACK_VALID" \in F <=> SliceBytesAt(a) = SliceBytes
      /\ "FRAME_VALID" \in F <=> FrameWithinRam(a)
      /\ "INVALID_FRAME" \in F <=> ~FrameWithinRam(a)
  BY <1>2
<1>4. FlagsDescribeFault'
  <2> HIDE DEF F
  <2> QED
    BY <1>1, <1>2, <1>3 DEF FlagsDescribeFault
<1> QED
  <2> HIDE DEF F
  <2> QED
    BY <1>1, <1>3, <1>4 DEF StubInv

LEMMA StubInvStep == TypeOK /\ StubInv /\ [Next]_vars => StubInv'
<1> SUFFICES ASSUME TypeOK, StubInv, [Next]_vars PROVE StubInv'
  OBVIOUS
<1>1. ASSUME NEW e \in ExcReturns, NEW c \in FaultReasons, TakeFault(e, c)
      PROVE StubInv'
  BY <1>1 DEF TakeFault, StubInv, FlagsDescribeFault, IsFaultDump
<1>2. CASE StubFrame
  BY <1>2 DEF StubFrame, StubInv, FlagsDescribeFault, IsFaultDump, TypeOK
<1>3. CASE StubReason
  BY <1>3 DEF StubReason, StubInv, FlagsDescribeFault, IsFaultDump
<1>4. CASE StubUsePsp
  BY <1>4 DEF StubUsePsp, StubInv, FlagsDescribeFault, IsFaultDump, TypeOK
<1>5. CASE Handler
  BY <1>5, StubInvHandler
<1>6. ASSUME NEW sp \in {msp, psp}, SwTrigger(sp)
      PROVE StubInv'
  BY <1>6 DEF SwTrigger, StubInv, FlagsDescribeFault, IsFaultDump, FaultReasons
<1>7. CASE UNCHANGED vars
  BY <1>7 DEF vars, StubInv, FlagsDescribeFault, IsFaultDump
<1> QED
  BY <1>1, <1>2, <1>3, <1>4, <1>5, <1>6, <1>7 DEF Next

LEMMA StubInvHolds == Spec => []StubInv
<1>1. Init => StubInv
  BY DEF Init, StubInv, FlagsDescribeFault, IsFaultDump
<1> QED
  BY <1>1, StubInvStep, FaultEntryTyped, PTL DEF Spec

\* A fault dump says truly which stack the frame was on and what was captured.
THEOREM FlagsAreTrue == Spec => []FlagsDescribeFault
BY StubInvHolds, PTL DEF StubInv

\* Registers are given up exactly where the slice of the frame would leave RAM or the
\* pointer is not aligned: never for less, and never read for more.
THEOREM FrameNeedsSlice == SaneWindow => (Spec => []GivesUpOnlyWithoutSlice)
<1> SUFFICES ASSUME SaneWindow PROVE Spec => []GivesUpOnlyWithoutSlice
  OBVIOUS
<1>1. TypeOK /\ StubInv => GivesUpOnlyWithoutSlice
  <2> SUFFICES ASSUME TypeOK, StubInv, IsFaultDump
               PROVE  ("INVALID_FRAME" \in dump.flags) <=>
                        ~(Bytes(dump.captured_sp, SliceBytes) \subseteq Ram)
                        \/ dump.captured_sp % 4 # 0
    BY DEF GivesUpOnlyWithoutSlice
  <2>1. dump.captured_sp \in Addresses
    BY DEF TypeOK, IsFaultDump, Dumps
  <2>2. ("INVALID_FRAME" \in dump.flags) <=> ~FrameWithinRam(dump.captured_sp)
    BY DEF StubInv
  <2>3. FrameWithinRam(dump.captured_sp) => dump.captured_sp % 4 = 0
    BY DEF FrameWithinRam
  <2> QED
    BY <2>1, <2>2, <2>3, FrameWithinRamSound, FrameWithinRamComplete
<1> QED
  BY <1>1, StubInvHolds, FaultEntryTyped, PTL
=============================================================================
