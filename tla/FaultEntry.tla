----------------------------- MODULE FaultEntry -----------------------------
(***************************************************************************)
(* From the exception to the arguments of panicdump_commit_snapshot: what  *)
(* the hardware stacks, what the assembly stub puts in r0 to r3, and what  *)
(* the C handler reads, flags and passes on.  The software trigger reaches *)
(* the same commit without an exception.                                   *)
(*                                                                         *)
(* Addresses and their arithmetic are modulo WordMod (2^32 on the target). *)
(***************************************************************************)
EXTENDS Integers

CONSTANTS
  WordMod,        \* 2^32
  RamBase, RamEnd,
  SliceBytes,     \* PANICDUMP_WIRE_STACK_BYTES
  FrameBytes,     \* what the hardware stacks: r0-r3, r12, lr, pc, xpsr
  StackPointers,  \* values of MSP and PSP
  RegValues,      \* what r3 of the interrupted code holds
  NoDump

(* EXC_RETURN by what bit 2 says: which stack the exception frame is on. *)
ExcReturns == {"handler_msp", "thread_msp", "thread_psp"}
FaultReasons == {"HARD", "MEM", "BUS", "USAGE"}
Flags == {"INVALID_FRAME", "USE_PSP", "STACK_VALID", "FRAME_VALID"}
Addresses == 0..(WordMod - 1)

\* The build rejects RAM_END <= RAM_BASE.
ASSUME RamAssumption ==
  /\ WordMod \in Nat /\ RamBase \in Nat /\ RamEnd \in Nat
  /\ RamBase < RamEnd /\ RamEnd < WordMod
ASSUME SizeAssumption ==
  /\ SliceBytes \in Nat /\ FrameBytes \in Nat
  /\ 0 < FrameBytes /\ FrameBytes <= SliceBytes /\ SliceBytes < WordMod
ASSUME StackAssumption == StackPointers \subseteq Addresses

VARIABLES
  pc,     \* app, then the stub's instructions, the handler, done
  msp, psp,
  lr,     \* EXC_RETURN while an exception is active
  eq,     \* the Z flag
  arg,    \* r0 to r3, under the names of the handler's parameters
  reads,  \* history: addresses read through exc_frame or sp
  dump    \* what commit_snapshot is called with

vars == <<pc, msp, psp, lr, eq, arg, reads, dump>>

Bytes(a, n) == {(a + i) % WordMod : i \in 0..(n - 1)}
Ram == RamBase..(RamEnd - 1)

Dumps == [fault_reason : FaultReasons \cup {"SW_TRIGGER"},
          flags : SUBSET Flags,
          sequence : RegValues \cup ExcReturns \cup {"zero"},
          captured_sp : Addresses,
          stack_bytes : {0, SliceBytes}]

TypeOK ==
  /\ pc \in {"app", "frame", "reason", "use_psp", "handler", "done"}
  /\ msp \in Addresses /\ psp \in Addresses
  /\ lr \in ExcReturns
  /\ eq \in BOOLEAN
  /\ arg \in [exc_frame : Addresses, fault_reason : FaultReasons,
              use_psp : BOOLEAN, exc_return : RegValues]
  /\ reads \subseteq Addresses
  /\ dump \in Dumps \cup {NoDump}

Init ==
  /\ pc = "app"
  /\ msp \in StackPointers /\ psp \in StackPointers
  /\ lr = "thread_msp"
  /\ eq \in BOOLEAN
  /\ arg \in [exc_frame : {0}, fault_reason : {"HARD"}, use_psp : {FALSE},
              exc_return : RegValues]
  /\ reads = {}
  /\ dump = NoDump

(* The hardware stacks the frame on the active stack and enters the stub
   installed for the fault; r0 to r3 are still those of the faulting code. *)
TakeFault(e, c) ==
  /\ pc = "app"
  /\ lr' = e
  /\ IF e = "thread_psp"
     THEN psp' = (psp - FrameBytes) % WordMod /\ UNCHANGED msp
     ELSE msp' = (msp - FrameBytes) % WordMod /\ UNCHANGED psp
  /\ pc' = "frame"
  /\ arg' = [arg EXCEPT !.fault_reason = c]
  /\ UNCHANGED <<eq, reads, dump>>

(* tst lr, #4; mrseq r0, msp; mrsne r0, psp *)
StubFrame ==
  /\ pc = "frame"
  /\ eq' = (lr # "thread_psp")
  /\ arg' = [arg EXCEPT !.exc_frame = IF eq' THEN msp ELSE psp]
  /\ pc' = "reason"
  /\ UNCHANGED <<msp, psp, lr, reads, dump>>

\* Mutant: the flag-setting form, movs r1, #reason.
StubReasonSetsFlags ==
  /\ pc = "reason"
  /\ eq' = FALSE
  /\ pc' = "use_psp"
  /\ UNCHANGED <<msp, psp, lr, arg, reads, dump>>

(* mov r1, #reason leaves the flags of tst alone; the stub's own reason is the
   one TakeFault chose. *)
StubReason ==
  /\ pc = "reason"
  /\ pc' = "use_psp"
  /\ UNCHANGED <<msp, psp, lr, eq, arg, reads, dump>>

(* moveq r2, #0; movne r2, #1; b panicdump_fault_handler_c.  Nothing in the
   stub writes r3, the register of the fourth parameter. *)
StubUsePsp ==
  /\ pc = "use_psp"
  /\ arg' = [arg EXCEPT !.use_psp = ~eq]
  /\ pc' = "handler"
  /\ UNCHANGED <<msp, psp, lr, eq, reads, dump>>

\* Mutant: the upper bound leaves room for the exception frame alone.
FrameFitsInRam(a) ==
  /\ a >= RamBase
  /\ a <= (RamEnd - FrameBytes) % WordMod
  /\ a % 4 = 0

\* Mutant: the upper bound is exclusive.
BelowLastSlice(a) ==
  /\ a >= RamBase
  /\ a < (RamEnd - SliceBytes) % WordMod
  /\ a % 4 = 0

FrameWithinRam(a) ==
  /\ a >= RamBase
  /\ a <= (RamEnd - SliceBytes) % WordMod
  /\ a % 4 = 0

\* Mutant: only the exception frame is captured as the slice.
CapturesFrameOnly(a) == IF FrameWithinRam(a) THEN FrameBytes ELSE 0

(* panicdump_capture_stack_slice and its twin in capture_sw_regs *)
SliceBytesAt(a) == IF FrameWithinRam(a) THEN SliceBytes ELSE 0

(* panicdump_fault_handler_c *)
Handler ==
  LET a == arg.exc_frame
      psp_flag == IF arg.use_psp THEN {"USE_PSP"} ELSE {}
      slice_flag == IF SliceBytesAt(a) = SliceBytes THEN {"STACK_VALID"} ELSE {}
      frame_flag == IF FrameWithinRam(a) THEN {"FRAME_VALID"} ELSE {"INVALID_FRAME"}
  IN
  /\ pc = "handler"
  /\ reads' = reads \cup (IF FrameWithinRam(a) THEN Bytes(a, FrameBytes) ELSE {})
                    \cup Bytes(a, SliceBytesAt(a))
  /\ dump' = [fault_reason |-> arg.fault_reason,
              flags |-> psp_flag \cup slice_flag \cup frame_flag,
              sequence |-> arg.exc_return,
              captured_sp |-> a,
              stack_bytes |-> SliceBytesAt(a)]
  /\ pc' = "done"
  /\ UNCHANGED <<msp, psp, lr, eq, arg>>

(* panicdump_port_capture_sw_regs on the stack in use, then the commit with
   flags 0 and exc_return 0. *)
SwTrigger(sp) ==
  /\ pc = "app"
  /\ sp \in {msp, psp}
  /\ reads' = reads \cup Bytes(sp, SliceBytesAt(sp))
  /\ dump' = [fault_reason |-> "SW_TRIGGER",
              flags |-> {},
              sequence |-> "zero",
              captured_sp |-> sp,
              stack_bytes |-> SliceBytesAt(sp)]
  /\ pc' = "done"
  /\ UNCHANGED <<msp, psp, lr, eq, arg>>

Next ==
  \/ \E e \in ExcReturns, c \in FaultReasons : TakeFault(e, c)
  \/ StubFrame
  \/ StubReason
  \/ StubUsePsp
  \/ Handler
  \/ SwTrigger(msp)
  \/ SwTrigger(psp)

Spec == Init /\ [][Next]_vars

-----------------------------------------------------------------------------
IsFaultDump == dump # NoDump /\ dump.fault_reason \in FaultReasons

\* Nothing is read through a stack pointer outside the configured RAM window,
\* wherever a wild stack pointer has led the hardware (lines 20-22 and 30).
ReadsStayInRam == reads \subseteq Ram

\* Frame and slice stand or fall together: a fault dump gives up the registers
\* (INVALID_FRAME) where the whole slice from the frame on would leave RAM or the
\* pointer is not word-aligned, and nowhere else.  What that loses is every frame
\* above RAM_END - SliceBytes that lies in RAM, where LIMITATIONS.md:18-20 speaks of
\* frames outside (port_cortexm.c:17-36, 77-95).
GivesUpOnlyWithoutSlice ==
  IsFaultDump =>
    (("INVALID_FRAME" \in dump.flags) =
       (~(Bytes(dump.captured_sp, SliceBytes) \subseteq Ram) \/ dump.captured_sp % 4 # 0))

\* The flags of a fault dump tell where the hardware really put the frame, and
\* whether frame and slice were captured, although stub and handler pass that
\* on through the Z flag and two registers.
FlagsDescribeFault ==
  IsFaultDump =>
    /\ ("USE_PSP" \in dump.flags) = (lr = "thread_psp")
    /\ dump.captured_sp = IF lr = "thread_psp" THEN psp ELSE msp
    /\ ("FRAME_VALID" \in dump.flags) # ("INVALID_FRAME" \in dump.flags)
    /\ ("STACK_VALID" \in dump.flags) = (dump.stack_bytes = SliceBytes)

\* FORMAT.md:16: the sequence field is EXC_RETURN for fault captures.
SequenceIsExcReturn == IsFaultDump => dump.sequence = lr

\* FORMAT.md:26: flag bit 2 says that the stack slice is valid.
StackFlagTellsSlice ==
  dump # NoDump => ("STACK_VALID" \in dump.flags) = (dump.stack_bytes = SliceBytes)
=============================================================================
