----------------------------- MODULE PanicWire -----------------------------
(***************************************************************************)
(* The 192-byte wire image byte by byte: who writes which byte, in which   *)
(* order the words are read back, what the C validator accepts, what the   *)
(* host's parser accepts, and what panicdump_get hands out.                *)
(*                                                                         *)
(* PanicDump has the stores of a commit interleaved with everything else;  *)
(* here a commit is one step and its bytes count.                          *)
(***************************************************************************)
EXTENDS Integers, Sequences, SequencesExt

CONSTANTS
  ByteMod,         \* values of a byte: 256
  Magic,           \* PANICDUMP_MAGIC
  PortArch,        \* PANICDUMP_PORT_ARCH_ID of the build
  Crc(_),          \* CRC-32 of a whole image
  Commits,         \* arguments of panicdump_commit_snapshot, with g_user_tag
  PowerOnImages,   \* what g_dump_wire may hold at power-on
  DecayOffsets, DecayBytes,  \* bytes a loss of power may change
  MaxDecays        \* bound: losses of power

TotalSize == 192
HeaderSize == 36
RegsAt == 36
StackAt == 120
StackBytes == 64
Offsets == 0..(TotalSize - 1)
SliceOffsets == 0..(StackBytes - 1)
Bytes == 0..(ByteMod - 1)
Words == 0..(ByteMod * ByteMod * ByteMod * ByteMod - 1)
Wires == [Offsets -> Bytes]
ZeroWire == [o \in Offsets |-> 0]
ZeroData == [i \in SliceOffsets |-> 0]

(* PANICDUMP_WIRE_*_OFFSET, with the width of each field. *)
At == [magic |-> 0, version |-> 4, header_size |-> 6, total_size |-> 8,
       flags |-> 12, arch_id |-> 16, fault_reason |-> 20, sequence |-> 24,
       user_tag |-> 28, crc32 |-> 32]
Width == [f \in DOMAIN At |-> IF f \in {"version", "header_size"} THEN 2 ELSE 4]

(* The array in panicdump_write_regs. *)
WriteOrder == <<"r0", "r1", "r2", "r3", "r12", "lr", "pc", "xpsr", "msp", "psp",
                "control", "primask", "basepri", "faultmask", "cfsr", "hfsr",
                "dfsr", "mmfar", "bfar", "afsr", "shcsr">>
RegNames == {"r0", "r1", "r2", "r3", "r12", "lr", "pc", "xpsr", "msp", "psp",
             "control", "primask", "basepri", "faultmask", "cfsr", "hfsr",
             "dfsr", "mmfar", "bfar", "afsr", "shcsr"}

(* The offsets in panicdump_read_regs. *)
ReadAt == [r0 |-> 0, r1 |-> 4, r2 |-> 8, r3 |-> 12, r12 |-> 16, lr |-> 20,
           pc |-> 24, xpsr |-> 28, msp |-> 32, psp |-> 36, control |-> 40,
           primask |-> 44, basepri |-> 48, faultmask |-> 52, cfsr |-> 56,
           hfsr |-> 60, dfsr |-> 64, mmfar |-> 68, bfar |-> 72, afsr |-> 76,
           shcsr |-> 80]

VARIABLES
  wire,    \* g_dump_wire
  cached,  \* g_cached_dump, in .bss
  got,     \* the application holds a pointer that panicdump_get returned
  atBoot,  \* history: g_dump_wire at the last reset
  holds,   \* history: the commit that the slot holds untouched, if any
  decays

vars == <<wire, cached, got, atBoot, holds, decays>>

-----------------------------------------------------------------------------
(* Little-endian words (panicdump_wire.h). *)

Place == [i \in 0..3 |-> CASE i = 0 -> 1
                            [] i = 1 -> ByteMod
                            [] i = 2 -> ByteMod * ByteMod
                            [] i = 3 -> ByteMod * ByteMod * ByteMod]

\* Mutant: the mask keeps a bit of the next byte.
ByteMaskTooWide(v, i) == (v \div Place[i]) % (2 * ByteMod)

Byte(v, i) == (v \div Place[i]) % ByteMod

Put(w, at, width, v) ==
  [o \in Offsets |-> IF o \in at..(at + width - 1) THEN Byte(v, o - at) ELSE w[o]]

Load16(w, at) == w[at] + ByteMod * w[at + 1]
Load32(w, at) == Load16(w, at) + ByteMod * ByteMod * Load16(w, at + 2)
Field(w, f) == IF Width[f] = 2 THEN Load16(w, At[f]) ELSE Load32(w, At[f])
StackSize(w) == Load32(w, StackAt + 4)

(* panicdump_wire_crc32_with_zero_crc: the magic it covers is the constant. *)
CrcOf(w) == Crc(Put(Put(w, At.magic, 4, Magic), At.crc32, 4, 0))

(* The field that owns offset o of the header, after the magic. *)
FieldAt(o) ==
  CHOOSE f \in DOMAIN At : At[f] <= o /\ o < At[f] + Width[f]

PutHeader(w, d) ==
  [o \in Offsets |->
     IF o \in 4..(HeaderSize - 1) THEN Byte(d[FieldAt(o)], o - At[FieldAt(o)]) ELSE w[o]]

PutRegs(w, regs) ==
  [o \in Offsets |->
     IF o \in RegsAt..(StackAt - 1)
     THEN Byte(regs[WriteOrder[(o - RegsAt) \div 4 + 1]], (o - RegsAt) % 4)
     ELSE w[o]]

\* Mutant: without a slice the 64 bytes are left as they are.
PutStackKeepsData(w, d) ==
  LET filled == [o \in Offsets |->
        IF o >= StackAt + 8 /\ d.stack_bytes # 0 THEN d.data[o - StackAt - 8] ELSE w[o]]
  IN Put(Put(filled, StackAt, 4, d.captured_sp), StackAt + 4, 4, d.stack_bytes)

PutStack(w, d) ==
  LET filled == [o \in Offsets |->
        IF o < StackAt + 8 THEN w[o]
        ELSE IF d.stack_bytes = 0 THEN 0 ELSE d.data[o - StackAt - 8]]
  IN Put(Put(filled, StackAt, 4, d.captured_sp), StackAt + 4, 4, d.stack_bytes)

Sealed(w) == Put(w, At.crc32, 4, CrcOf(w))

(* panicdump_decode_dump_fields *)
Decoded(w) ==
  [magic |-> Field(w, "magic"), version |-> Field(w, "version"),
   header_size |-> Field(w, "header_size"), total_size |-> Field(w, "total_size"),
   flags |-> Field(w, "flags"), arch_id |-> Field(w, "arch_id"),
   fault_reason |-> Field(w, "fault_reason"), sequence |-> Field(w, "sequence"),
   user_tag |-> Field(w, "user_tag"), crc32 |-> Field(w, "crc32"),
   regs |-> [r \in RegNames |-> Load32(w, RegsAt + ReadAt[r])],
   captured_sp |-> Load32(w, StackAt),
   stack_bytes |-> IF StackSize(w) > StackBytes THEN 0 ELSE StackSize(w),
   data |-> [i \in SliceOffsets |-> w[StackAt + 8 + i]]]

ZeroDump == Decoded(ZeroWire)

-----------------------------------------------------------------------------
\* Mutant: a dump without a slice is refused.
FieldsValidWithSlice(d) ==
  /\ d.magic = Magic
  /\ d.version = 1
  /\ d.header_size = HeaderSize
  /\ d.total_size = TotalSize
  /\ d.flags \div 16 = 0
  /\ d.arch_id \in {3, 4}
  /\ d.fault_reason <= 5
  /\ d.stack_bytes = StackBytes

(* panicdump_dump_fields_valid; the flags mask is the four lowest bits. *)
FieldsValid(d) ==
  /\ d.magic = Magic
  /\ d.version = 1
  /\ d.header_size = HeaderSize
  /\ d.total_size = TotalSize
  /\ d.flags \div 16 = 0
  /\ d.arch_id \in {3, 4}
  /\ d.fault_reason <= 5
  /\ d.stack_bytes \in {0, StackBytes}

\* Mutant: any slice length up to the maximum.
ValidWireShortSlice(w) ==
  /\ Field(w, "magic") = Magic
  /\ Field(w, "version") = 1
  /\ Field(w, "header_size") = HeaderSize
  /\ Field(w, "total_size") = TotalSize
  /\ Field(w, "flags") \div 16 = 0
  /\ Field(w, "arch_id") \in {3, 4}
  /\ Field(w, "fault_reason") <= 5
  /\ StackSize(w) <= StackBytes
  /\ Field(w, "crc32") = CrcOf(w)

(* panicdump_validate_wire *)
ValidWire(w) ==
  /\ Field(w, "magic") = Magic
  /\ Field(w, "version") = 1
  /\ Field(w, "header_size") = HeaderSize
  /\ Field(w, "total_size") = TotalSize
  /\ Field(w, "flags") \div 16 = 0
  /\ Field(w, "arch_id") \in {3, 4}
  /\ Field(w, "fault_reason") <= 5
  /\ StackSize(w) \in {0, StackBytes}
  /\ Field(w, "crc32") = CrcOf(w)

(* panicdump_encode_dump, when it accepts the dump: panicdump_encode_dump_fields
   zeroes the buffer and takes the magic from the dump. *)
Encoded(d) ==
  Sealed(PutStack(PutRegs(PutHeader(Put(ZeroWire, At.magic, 4, d.magic), d), d.regs), d))

EncodeAccepts(d) == FieldsValid(d) /\ ValidWire(Encoded(d))

(* panicdump_commit_snapshot over the old content of the slot. *)
CommitDump(c) ==
  [version |-> 1, header_size |-> HeaderSize, total_size |-> TotalSize,
   flags |-> c.flags, arch_id |-> PortArch, fault_reason |-> c.fault_reason,
   sequence |-> c.sequence, user_tag |-> c.user_tag, crc32 |-> 0,
   captured_sp |-> c.captured_sp, stack_bytes |-> c.stack_bytes, data |-> c.data]

Committed(w, c) ==
  LET d == CommitDump(c)
  IN Put(Sealed(PutStack(PutRegs(PutHeader(Put(w, At.magic, 4, 0), d), c.regs), d)),
         At.magic, 4, Magic)

-----------------------------------------------------------------------------
(* The host: struct.unpack_from with HEADER_FMT, REGS_FMT and STACK_FMT.  The
   formats have no padding: each field starts where the one before it ends. *)
PyHeader == [magic |-> 0, version |-> 4, header_size |-> 6, total_size |-> 8,
             flags |-> 12, arch_id |-> 16, fault_reason |-> 20, sequence |-> 24,
             user_tag |-> 28, crc32 |-> 32]
PyField(w, f) ==
  IF f \in {"version", "header_size"} THEN Load16(w, PyHeader[f]) ELSE Load32(w, PyHeader[f])

(* REGS_FIELDS *)
PyRegs == <<"r0", "r1", "r2", "r3", "r12", "lr", "pc", "xpsr", "msp", "psp",
            "control", "primask", "basepri", "faultmask", "cfsr", "hfsr",
            "dfsr", "mmfar", "bfar", "afsr", "shcsr">>
PyRegAt(w, k) == Load32(w, HeaderSize + 4 * (k - 1))

(* parse, up to its result: no ValueError *)
Parses(w) ==
  /\ PyField(w, "magic") = Magic
  /\ PyField(w, "version") = 1
  /\ PyField(w, "header_size") = HeaderSize
  /\ PyField(w, "total_size") = TotalSize
  /\ PyField(w, "flags") \div 16 = 0
  /\ PyField(w, "arch_id") \in {3, 4}
  /\ PyField(w, "fault_reason") \in 0..5
  /\ Load32(w, HeaderSize + 84 + 4) \in {0, StackBytes}

(* verify_crc: the bytes as they are, with the CRC field zero *)
CrcOk(w) == PyField(w, "crc32") = Crc(Put(w, 32, 4, 0))

(* STACK_FMT, and of the data what PanicDump keeps: stack_data[:stack_bytes] *)
PyStackBytes(w) == Load32(w, HeaderSize + 84 + 4)
PyStack(w) ==
  [sp |-> Load32(w, HeaderSize + 84),
   bytes |-> PyStackBytes(w),
   data |-> [i \in 0..(PyStackBytes(w) - 1) |-> w[HeaderSize + 84 + 8 + i]]]

(* The command line: what main prints of 192 bytes it has read, and its exit status.
   Each branch leaves by an exit of its own; only --json and the report reach the last
   lines of main. *)
Options == {"verify", "json", "forensic"}

Exits(out, status) == [out |-> out, status |-> status]
LastLines(out, w) == Exits(out, IF CrcOk(w) THEN 0 ELSE 1)

VerifyExit(w) == Exits("verdict", IF CrcOk(w) THEN 0 ELSE 1)

\* Mutant: JSON that could be printed counts as success.
JsonExitForgetsCrc(options, w) ==
  IF ~CrcOk(w) /\ "forensic" \notin options THEN Exits("error", 1) ELSE Exits("json", 0)

JsonExit(options, w) ==
  IF ~CrcOk(w) /\ "forensic" \notin options THEN Exits("error", 1) ELSE LastLines("json", w)

Main(options, w) ==
  IF ~Parses(w) THEN Exits("error", 2)
  ELSE IF "verify" \in options THEN VerifyExit(w)
  ELSE IF "json" \in options THEN JsonExit(options, w)
  ELSE LastLines("report", w)

-----------------------------------------------------------------------------
(* make_mock_dump.py: files for the tests of the decoder, with the contents of a
   commit, from a third copy of the layout. *)

\* Mutant: two fault address registers the other way round.
MockFieldsSwapped ==
  <<"r0", "r1", "r2", "r3", "r12", "lr", "pc", "xpsr", "msp", "psp", "control",
    "primask", "basepri", "faultmask", "cfsr", "hfsr", "dfsr", "bfar", "mmfar",
    "afsr", "shcsr">>

MockFields ==
  <<"r0", "r1", "r2", "r3", "r12", "lr", "pc", "xpsr", "msp", "psp", "control",
    "primask", "basepri", "faultmask", "cfsr", "hfsr", "dfsr", "mmfar", "bfar",
    "afsr", "shcsr">>

(* struct.pack, of <<width, value>> *)
Pack(fields) ==
  FlattenSeq([k \in DOMAIN fields |->
    [i \in 1..fields[k][1] |-> Byte(fields[k][2], i - 1)]])

MockFile(c, magic, flags, crc) ==
  LET octets ==
        Pack(<<<<4, magic>>, <<2, 1>>, <<2, HeaderSize>>, <<4, TotalSize>>, <<4, flags>>,
               <<4, 4>>, <<4, c.fault_reason>>, <<4, c.sequence>>, <<4, c.user_tag>>,
               <<4, crc>>>>)
        \o Pack([k \in DOMAIN MockFields |-> <<4, c.regs[MockFields[k]]>>])
        \o Pack(<<<<4, c.regs["msp"]>>, <<4, StackBytes>>>>)
        \o [i \in 1..StackBytes |-> c.data[i - 1]]
  IN [o \in Offsets |-> octets[o + 1]]

(* build_dump: corrupt_crc makes some other word of the CRC (the script flips 24 of its
   bits), partial takes the magic and the flags away. *)
Mock(c, defects) ==
  LET checksum == Crc(MockFile(c, Magic, c.flags, 0))
      other == IF checksum = 0 THEN 1 ELSE 0
      written == IF "corrupt_crc" \in defects THEN other ELSE checksum
  IN IF "partial" \in defects THEN MockFile(c, 0, 0, written)
     ELSE MockFile(c, Magic, c.flags, written)

-----------------------------------------------------------------------------
TypeOK ==
  /\ wire \in Wires
  /\ got \in BOOLEAN
  /\ DOMAIN cached = DOMAIN ZeroDump
  /\ atBoot \in Wires
  /\ holds \subseteq Commits
  /\ decays \in 0..MaxDecays

Init ==
  /\ wire \in PowerOnImages
  /\ atBoot = wire
  /\ cached = ZeroDump /\ got = FALSE
  /\ holds = {}
  /\ decays = 0

(* A reset: Reset_Handler zeroes .bss and leaves .noinit alone. *)
Reset ==
  /\ cached' = ZeroDump
  /\ got' = FALSE
  /\ atBoot' = wire'

(* A commit never returns: the core resets. *)
Commit(c) ==
  /\ wire' = Committed(wire, c)
  /\ holds' = {c}
  /\ Reset
  /\ UNCHANGED decays

\* Mutant: the struct is filled whether or not the slot is valid.
GetUnchecked ==
  /\ cached' = Decoded(wire)
  /\ got' = TRUE
  /\ UNCHANGED <<wire, atBoot, holds, decays>>

(* panicdump_get; NULL leaves the application with the pointer it had. *)
Get ==
  /\ ValidWire(wire)
  /\ cached' = Decoded(wire)
  /\ got' = TRUE
  /\ UNCHANGED <<wire, atBoot, holds, decays>>

Clear ==
  /\ wire' = ZeroWire
  /\ holds' = {}
  /\ UNCHANGED <<cached, got, atBoot, decays>>

(* Power is lost for so short that one byte decays. *)
PowerCycle(o, b) ==
  /\ decays < MaxDecays
  /\ decays' = decays + 1
  /\ wire' = [wire EXCEPT ![o] = b]
  /\ holds' = IF wire[o] = b THEN holds ELSE {}
  /\ Reset

Next ==
  \/ \E c \in Commits : Commit(c)
  \/ Get
  \/ Clear
  \/ \E o \in DecayOffsets, b \in DecayBytes : PowerCycle(o, b)

Spec == Init /\ [][Next]_vars

-----------------------------------------------------------------------------
\* What a commit leaves in the slot validates, and reads back as the arguments
\* it was given, register by register, whatever the slot held before
\* (write_regs lines 47-57 against read_regs lines 77-97).
CommitReadsBack ==
  \A last \in holds :
    LET d == Decoded(wire)
    IN /\ ValidWire(wire)
       /\ d.regs = last.regs
       /\ \A f \in {"flags", "fault_reason", "sequence", "user_tag",
                    "captured_sp", "stack_bytes"} : d[f] = last[f]
       /\ d.data = IF last.stack_bytes = 0 THEN ZeroData ELSE last.data

\* The host takes a file for a dump with a good CRC exactly when the device would
\* have taken it for valid, and then it shows the registers, the header and the
\* bytes of the stack the device would decode (decode_panicdump.py:125-172).
HostAgrees ==
  /\ (Parses(wire) /\ CrcOk(wire)) = ValidWire(wire)
  /\ ValidWire(wire) =>
       LET d == Decoded(wire)
       IN /\ \A k \in DOMAIN PyRegs : PyRegAt(wire, k) = d.regs[PyRegs[k]]
          /\ \A f \in DOMAIN PyHeader : PyField(wire, f) = d[f]
          /\ PyStack(wire) = [sp |-> d.captured_sp, bytes |-> d.stack_bytes,
                              data |-> [i \in 0..(d.stack_bytes - 1) |-> d.data[i]]]

\* Whatever options a script passes, and so by whichever of the exits main leaves: 0 is
\* for the images the device takes for valid, 1 for those that a right CRC would make
\* valid, 2 for the others; and what it prints as JSON without --forensic is a dump the
\* device would have exported (decode_panicdump.py:337-362).
ScriptsAgree ==
  LET valid == ValidWire(wire)
      whole == ValidWire(Sealed(wire))
  IN \A options \in SUBSET Options :
       LET run == Main(options, wire)
       IN /\ (run.status = 0) = valid
          /\ (run.status = 1) = (whole /\ ~valid)
          /\ (run.status = 2) = ~whole
          /\ "forensic" \notin options /\ run.out = "json" => valid

\* The files that test the decoder are dumps of the device: the generator writes what a
\* Cortex-M4 commits for the same contents, and a file made with a defect gets the exit
\* status of that defect (make_mock_dump.py:147-221, test_decoder_cli.py:73-96, 242-246).
MocksMatch ==
  \A c \in holds :
    (PortArch = 4 /\ c.stack_bytes = StackBytes /\ c.captured_sp = c.regs["msp"]) =>
      /\ Mock(c, {}) = wire
      /\ Main({"verify"}, Mock(c, {"corrupt_crc"})) = Exits("verdict", 1)
      /\ \A defects \in {{"partial"}, {"partial", "corrupt_crc"}} :
           Main({"verify"}, Mock(c, defects)) = Exits("error", 2)

\* A decoded dump can be encoded again, and the image is the same one unless it
\* carried bytes in a slice that it says is absent (lines 266-291).
EncodeRestores ==
  ValidWire(wire) =>
    LET d == Decoded(wire)
    IN /\ EncodeAccepts(d)
       /\ Encoded(d) = wire \/ (d.stack_bytes = 0 /\ d.data # ZeroData)

\* A pointer that panicdump_get has returned shows, for the rest of the boot and
\* also after panicdump_clear, the dump this boot found (line 309).
PointerShowsBootDump == got => cached = Decoded(atBoot)
=============================================================================
