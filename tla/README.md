# A formal model of panicdump

panicdump keeps one crash dump in RAM that survives a reset. A panic (a fault or a
call of `panicdump_trigger_*`) writes a 192-byte image and resets the core; the
next boot checks the image, prints it as hex over a UART and erases it; a script
on a host decodes it. This directory models that life cycle in TLA+, checks small
instances with TLC and proves every safety property for all instances with TLAPS.

All paths below are relative to `src/`, the root of the library's repository.

## 1. The system

| Component | State it keeps | Operations | Modules |
| --- | --- | --- | --- |
| Retained slot and commit (`src/panicdump.c`) | `g_dump_wire`, 192 bytes in `.noinit`; `g_user_tag`, 4 bytes in `.noinit` | `panicdump_commit_snapshot` | `PanicDump`, `DumpSlot`, `PanicDumpSlot` |
| Boot check, export, clear (`src/panicdump.c`) | position in the frame (on the stack of the boot thread) | `panicdump_has_valid`, `panicdump_export_hex`, `panicdump_boot_check_and_export`, `panicdump_clear` | `PanicDump`, `PanicExport` |
| User tag and software trigger (`src/panicdump.c`) | `g_user_tag` | `panicdump_set_user_tag`, `panicdump_trigger_reason`, `panicdump_trigger_tag`, `panicdump_reason_tag_hash_n` | `PanicDump`; the hash in `PanicDigest` |
| Cortex-M port (`src/panicdump_port_cortexm.c`) | none of its own | `panicdump_fault_handler_c`, `panicdump_port_capture_sw_regs`, barrier, reset | `FaultEntry`, `PanicDump` |
| Fault stubs (`ports/cortexm/panicdump_fault_entry.S`) | `r0`-`r3` and the Z flag | four exception handlers | `FaultEntry` |
| Codec (`src/panicdump.c`, `src/panicdump_wire.h`) | `g_cached_dump`, the struct `panicdump_get` returns | encode, decode, validate, get | `PanicWire`; `Valid` of `PanicDump` |
| CRC-32 (`include/panicdump_crc32.h`) | the register of a running computation | update, streaming | `PanicDigest`; ideal in `PanicDump` |
| Host decoder (`tools/decode_panicdump.py`) | none | read a frame, parse, verify, report, exit status | frames in `PanicExport`, the rest in `PanicWire`, names of reasons in `PanicDigest` |
| Mock dump generator (`tools/make_mock_dump.py`) | none | `build_dump`, `build_hex_framed` | `PanicWire`, `PanicExport` |
| STM32F4 demo (`examples/stm32f4_demo`) | RAM layout, the two registers of the UART | boot sequence, `uart2_putchar` | boot sequence and stack overflow in `PanicDump`, UART in `PanicExport` |
| Host port, generic demo, tests, build | none of their own | | not modelled |

How the parts interact:

* A fault enters a stub, which selects a stack and jumps to
  `panicdump_fault_handler_c`; the handler reads the exception frame and 64 bytes
  of stack and calls `panicdump_commit_snapshot`, then requests a reset or, in a
  `PANICDUMP_HALT_ON_FAULT` build, stops at `BKPT`. A software trigger stores its
  reason in `g_user_tag`, captures the registers and takes the same path.
* `commit_snapshot` clears the magic (a volatile store), writes the fields, the
  registers and the stack slice, computes the CRC over the image as it will be,
  and after a barrier stores the magic (a second volatile store).
* After the reset `panicdump_boot_check_and_export` validates the slot, sends it
  through the callback `write_char` byte by byte *out of the slot itself*, and
  clears it when every character was accepted.
* No lock, no interrupt mask and no re-entrancy guard protects any of this. The
  only things the code relies on are the order of the stores, the CRC, and that a
  panic never returns.

What is hard, and hence what the properties are about: a reset or a loss of power
between any two bytes; panics inside panics on one image; a panic inside the
export; a UART error in mid-frame; characters the UART still holds when a reset comes;
a stack that grows over the image; the freedom the compiler has with plain stores
around the volatile ones; wild stack pointers in the fault handler; condition
flags and registers carried through the assembly stub; a format that three programs
write or read, each from its own copy of the layout. `PROJECT.json` lists each
hazard with its line.

What makes each component correct:

* slot and commit: what validates is one whole image of one panic, and the newest;
* export and clear: what a host receives in full is such an image, none is erased
  before one has been received, and every one is received in the end;
* tag and trigger: a trigger's dump carries its reason, a fault's dump the
  application's last tag (the second is not so, see section 6);
* port and stubs: nothing outside RAM is read, a frame is given up only where no whole
  slice fits above it (which loses frames that lie in RAM: see the end of section 6), and the flags
  tell the truth;
* codec, CRC, decoder, generator: what the C encoder or the generator writes, the C
  validator and the Python parser accept, and nothing else; each exit of the decoder tells a
  script what the device would say; a damaged word or burst is never accepted; a reason in
  the decoder's table is named.

## 2. Modules

| Module | Models |
| --- | --- |
| `PanicDump` | the slot from first power-on: panics, their commits store by store, resets, loss of power, export, clear, tags |
| `DumpSlot` | the abstract promise: a mailbox for one dump, filled and emptied in one step, which loses a dump only when the memory fails |
| `PanicDumpSlot` | the refinement mapping from `PanicDump` to `DumpSlot` (`SlotSpec`) |
| `MCPanicDump` | constants, symmetry and store orders for TLC |
| `PanicDump_proofs` | theorems on `PanicDump` |
| `PanicDumpSlot_proofs` | the refinement as a theorem |
| `FaultEntry` | exception entry, stub, frame check, slice and flags; the software capture |
| `MCFaultEntry` | a one-byte address space for TLC |
| `FaultEntry_proofs` | theorems on `FaultEntry` |
| `PanicWire` | the image byte by byte: the writers, the C readers and validator, the host's reader, `panicdump_get` and its one struct |
| `MCPanicWire` | constants for TLC: commits, and images at the limits of every field |
| `PanicWire_proofs` | theorems on `PanicWire` |
| `PanicExport` | the hex frame character by character through the UART, the log of several boots, and the host's search for the frame in it |
| `MCPanicExport` | two digits, two images and short markers for TLC |
| `PanicFrame_proofs` | theorems on the text of a frame, for every image |
| `PanicExport_proofs` | theorems on `PanicExport` |
| `PanicDigest` | CRC-32 and FNV-1a bit by bit, from the trigger over the commit to the check, and the host's versions of both |
| `MCPanicDigest` | the constants of the code and damaged images for TLC |
| `PanicDigest_proofs` | theorems on `PanicDigest` |
| `DataInduction` | induction over numbers, recursion, and concatenation for the proofs |

### PanicDump and the code

| Model | Code |
| --- | --- |
| `wire` | `g_dump_wire`, as seven parts: magic, version and sizes (`ident`), flags, arch id, reason and sequence (`cause`), `user_tag`, `crc32`, `regs`, `stack` |
| `user_tag` | `g_user_tag` |
| `pc[l]`, `todo[l]`, `img[l]`, `reason[l]` | the activation of a panic on priority level `l`: thread, interrupt, configurable fault, HardFault |
| `main`, `pos`, `sent` | the boot thread in or after `panicdump_boot_check_and_export` |
| `Trigger`, `Fault` | `panicdump_trigger_reason` (400), `panicdump_fault_handler_c` up to its call of the commit |
| `Store`, `TearStore` | one store of lines 425-456, and a part of a multi-byte one |
| `Seal`, `Publish` | the CRC (458), the barrier and the magic (460) |
| `Finish` | `panicdump_port_reset`, or `BKPT` |
| `Check`, `Export` | line 350; lines 354-375, one step per part and one for each marker line |
| `ClearPart`, `TearClear` | `panicdump_clear` (298) |
| `SetUserTag` | line 313, from the thread or, with `IrqSetsTag`, from an interrupt handler that may also run inside a commit of the thread |
| `WatchdogReset`, `PowerCycle` | the environment; `Decays` are the sets of parts a loss of power may spoil |
| `StackOverflow` | the application's stack, which `stm32f407vg.ld` (96) places right above `.noinit`, grows over the image while the core runs on |

A panic may preempt any lower level at any store, so up to four commits stack on
one image. A fault in the HardFault handler locks the core up.

Three abstractions carry weight:

* *The CRC is ideal.* The value of the `crc32` part is the payload it was computed
  over, so two different payloads never share one, and the patterns that torn,
  zeroed or decayed bytes leave are never taken for a CRC (`CrcAssumption`).
  What CRC-32 detects belongs to the polynomial: see `PanicDigest`.
* *`Order`* is the set of pairs of stores the compiled code keeps in order.
  `ProgramOrder` is the source's order. `LooseMagic` drops every pair with the
  magic: only the magic is accessed through a volatile pointer, so up to the
  barrier C orders it against none of the plain stores. The barrier orders all
  stores before the final magic in every instance, and the magic is one aligned
  word, which is never torn.
* *`ident` and `cause` validate when one commit wrote them whole.* Their byte
  values are checked by `panicdump_validate_wire`; every path to the commit passes
  values it accepts, and `PanicWire` shows that the image then validates.

History variables (`used`, `sealed`, `newest`, `received`, `lastSet`) record what
the properties speak of and influence no guard except that each panic takes a
capture of its own from `Snaps`.

### FaultEntry and the code

`TakeFault` is the hardware: it stacks a frame on MSP or PSP and sets EXC_RETURN.
`StubFrame`, `StubReason` and `StubUsePsp` are the instruction groups of the macro
`FAULT_ENTRY`, with the Z flag in `eq` and `r0`-`r3` in `arg`. `Handler` is
`panicdump_fault_handler_c` from the frame check to the commit's arguments,
`SwTrigger` is `panicdump_port_capture_sw_regs` with the commit's arguments of
line 407. Addresses wrap modulo `WordMod`, as `RAM_END - 64` would on the target.
Register contents other than the stack pointers are copied by the code and never
examined: they are left out, except `r3`, whose value reaches the dump.

### PanicWire and the code

`wire` is `g_dump_wire` as 192 bytes. `PutHeader`, `PutRegs`, `PutStack` and
`Sealed` are the writers that a commit and `panicdump_encode_dump` share,
`Committed` is what a commit makes of the old content, `Encoded` what the encoder
makes of a struct. `Decoded`, `ValidWire` and `FieldsValid` are the C readers;
`PyField`, `PyRegAt`, `Parses` and `CrcOk` restate the Python ones from their format
strings. `cached` is `g_cached_dump` in `.bss`, zeroed by each reset, and `got`
says that the application holds the pointer to it. A commit is one step here;
its interleavings are in `PanicDump`. The order of its plain stores does not
show in the result, since they write disjoint bytes before the CRC is computed.
`PyStack` is what the host shows of the stack: the pointer, the length, and the bytes
themselves. `CrcOf` runs over the *constant* magic, as the code does (lines 20-33), `CrcOk`
over the bytes as they are, as the script does; that they agree is part of `HostAgrees`.

`Main` is `main` of the decoder under every set of its three options, with an exit for each
branch as the script has them: `VerifyExit`, `JsonExit`, and `LastLines`, which the report and
JSON share. An exit is what is printed and the status; `ScriptsAgree` says for each what it
tells of the image, in the terms of the device. `Mock` is `build_dump` of the generator: it packs the fields in the order of its
own list (`MockFields`), computes the CRC over a file with a zero CRC field, and for the
two kinds of bad files changes the CRC or takes the magic and the flags away.

The model leaves out a commit without registers or stack (no caller passes NULL) and
NULL or short buffers given to the pure functions, which return false at once.

### PanicExport and the code

`Frame[image]` is the text that `panicdump_export_hex` sends (lines 354-375), `pos` the
character the boot thread sends next. `Sending` is a call of `write_char`: it returns
true when the UART has the character (`Send`), or it returns false (`ShortWrite`).
`tx` is what the UART holds, at most its data and its shift register (`TxRoom`):
`Put` is `uart2_putchar`, which waits until the data register is empty. The hardware sends
the oldest character to the terminal in its own time (`Transmit`), or the line loses it
(`Lose`), and a reset drops all of `tx`; a character that a reset cuts in half is lost,
not garbled. `Framed` and `Loaded` are `load_hex_framed`: `Framed` is the
conjunction of its tests in their order, with the substring counts of `str.count`, and
`Loaded` the bytes it returns. `log` is all that the terminal receives and is never cut;
`Pieces` are the parts of it that somebody may save to a file and decode;
`FramesAreWhole` judges each when its last character has arrived (`NewPieces`). A marker is a
rule (`===`), its words, and the rule again (`BEGIN`, `END`). The words may show digits and
blanks, as ` PANICDUMP BEGIN ` does, which the host takes for part of the body once the rest of
the marker is lost; and the rule that ends one marker may begin another. A line of the
application is one character (`Text`) that is no digit, no blank and no `=`: an application that
prints rules or digits of its own is not modelled. `HexFramed` is
`build_hex_framed` of the generator. A panic is one step
here, and the image the export sends does not change under it: a panic ends the
boot, and what a panic in mid-frame does to the slot is `FramesAreDumps` of `PanicDump`.

### PanicDigest and the code

A word is the set of its one-bits and an image the set of its bits, counted from the lowest
bit of its first byte; so the model computes at the real width of 32 bits, which TLC's
integers cannot. `Trigger`, `HashByte` and `HashEnd` are `panicdump_trigger_tag`: `Times`
multiplies modulo 2^32, `More` is the condition of the loop with the caller's `max_len`.
`Commit` puts the hash into the tag field; `XorByte` and `ShiftBit` are the two loops of
`panicdump_crc32_update`, and `Fed` what the three calls in
`panicdump_wire_crc32_with_zero_crc` feed it: the constant magic, the image up to the CRC
field, zeros, the rest. `Spoil` turns some bits of the sealed image over (a torn store,
decay, a stack); then `Open`, the same loops and `Verdict` are `panicdump_validate_wire`
without its range checks, which are in `PanicWire`. The host's side follows the definitions
and not the code: `HostCrc` is the remainder of a polynomial division, the meaning of
`zlib.crc32`, and `PyHash` the hash of a whole string.

## 3. Runs

| Run | Question | Instance |
| --- | --- | --- |
| `order` | is the slot always the newest whole dump or nothing, is a dump erased only after it was exported, and do the stores implement the mailbox, which empties for a newer panic, after a delivery or when the memory fails? | program order, 2 panics, 1 watchdog reset, 1 power loss or stack overflow with 5 patterns of what it spoils, UART errors, tag-setting interrupts |
| `relaxed` | what survives if the compiler moves the plain stores before the clear of the magic? Does a trigger's dump carry its own reason under stacked panics, and does a core that stops leave the dump of the panic that stopped it? | `LooseMagic`, `HaltOnFault`, 2 panics, 1 reset, UART errors, only the thread sets tags |
| `live` | does every panic end in a reset and every dump reach the host? | `FairSpec`, 2 panics, 1 reset, no UART errors |
| `fault_entry` | does the capture stay in RAM, give up only what has no whole slice above it, and flag truthfully? | 8-bit addresses, every word-aligned stack pointer |
| `codec` | is what a commit writes what a reader reads, does a pointer from `panicdump_get` stay true, do device and host accept the same images and show the same bytes, does each exit of the decoder say what the device would, are the generator's files what a device commits, and can what decodes be encoded? | 3 commits, a decayed byte at every offset, 2 patterns of garbage and 40 images at the limits of the fields |
| `frames` | can a host take a dump from a log that no slot held, do the three programs agree on the frame, is a complete frame always readable, and is anything erased unread? | 2 images of 2 bytes on 2 lines, rules of 2 characters, words with a digit and a blank, a UART of 2 characters, 2 exports, 2 resets or panics, 2 printed lines or lost characters |
| `digests` | is an image with one burst of errors refused, do the two CRCs agree on every image, and does the host name the reason of a trigger? | 32 bits, an image of 14 bytes, 4 reasons below, at and beyond 2 limits, 37 patterns of damage, some beyond what a CRC promises |
| `stale_tag`, `demo_boot`, `fault_sequence`, `sw_flags`, `capture` | violations, see section 6 | |

Why the bounds are enough. Two panics are what a mixture needs: the image of one,
overwritten by the other, on any two of the four levels or on both sides of a
reset; a third only adds another layer of the same kind. One
reset suffices to cut one commit, export or clear short at any byte; a panic ends in
a reset of its own, so a run still sees up to three boots. One loss of power puts
decayed bytes beside intact ones. All decay patterns that matter are of the form
"spoil the part that betrays another one"; `SomeDecays` names them. The theorems
of section 5 remove these bounds for everything but liveness.

`PanicWire` is checked with bytes of 128 values, because TLC's integers have 32
bits and a word of four such bytes has 28; no code path depends on the difference,
and the theorems are about bytes of 256. A checksum stands in for the CRC: the
properties need it to be a function of the covered bytes that tells the wrongly
sealed images of `BoundaryImages` from the right ones. Those images
differ from a good one in one field, at its limit or one beyond, with and without a
right seal, and are put together without the operators of the model; each register
has a value of its own, so that two swapped registers show.

A false frame is made of one that was cut short and the next one: their digits add up if the
marker between them goes, or what is left of it shows only digits and blanks, and if the
surplus digits are lost. The host can be deceived so. Cut the first frame behind
`=== PANICDUMP BEGIN `; the rule of the next marker completes this one; let the line lose the
letters of the second marker that are no hex digits, its last rule, and five digits. Seventeen
characters are lost, the host reads 384 digits, and only the CRC is left. What
is left of a rule is no digit and no blank, so rules must go for this. `FramesAreWhole` is
therefore stated for a log from which fewer characters of rules were lost than one rule has
(`rules < RuleLen`, three in the code), and any number of others. The example loses just
three, so the bound cannot be raised. In `frames` the rule has two characters: a loss may break
a rule, and another take a digit or a word. Two bytes on two lines are the least with a line break inside the image. A view
leaves `bootAt` out of the comparison of states, which no property of the run but a part of
`TypeOK` speaks of. The UART's two characters are those of the hardware, and just as
many as the line break behind the last marker: that is why `ErasedIsReadable` holds. A
callback that buffers more (a ring buffer, a DMA transfer) may lose part of the marker in a
reset after the clear, and the dump with it; `TxAssumption` names the limit, and no
document does.

`digests` has the polynomial, the primes and the width of the code. An image of 14 bytes
has the three words that matter and bytes before, between and behind them; nothing in the
loops depends on the length, and the theorem is about every length.

`Permutations(Snaps)` is a symmetry in the safety runs: captures are compared only
with each other, and no constant other than `Snaps` mentions them. The liveness
run uses none.

Deadlock checking is off because the system does stop: when all captures are used
and no reset is left, after a lockup, at `BKPT`; and `FaultEntry` ends
with the arguments of the commit. That a panic does not stop anywhere else is the
property `PanicReboots`.

Every property has a mutant: a variant of one definition with a plausible bug
(returning from a panic, leaving the old magic, checking the magic alone, clearing
without testing the status, `movs` for `mov` in the stub, a bound off by one) that
the property's run catches.

## 4. Fairness

`FairSpec` assumes that the core keeps executing: weak fairness of the panic's next
store, seal, publication and reset on every level, and of the boot thread's next
step. No fairness is assumed of resets, power, faults, lockups, tags, or of the
application's later calls of the export. Torn stores are not progress: `TearStore`
and `TearClear` are no part of the fair actions. The fair panic action is enabled
only while its level is the one running, and stays enabled until it is preempted by
a higher one, of which there are finitely many. In `live` the
UART accepts every character: with errors the code delivers only if some later
export succeeds, and nothing in the library retries on its own.

## 5. Proofs

`PanicDump_proofs` proves for every set of captures, causes and tags, every
bound, every decay and every build switch:

| Theorem | Property | Assumes |
| --- | --- | --- |
| `TypeCorrect` | `TypeOK` | |
| `DumpsAreNeverTorn` | `NoTornDump` | nothing about `Order` |
| `CommitsLeaveTheirDump` | `DumpInPlace` | nothing about `Order` |
| `TriggersCarryReason` | `TriggerCarriesReason` | no interrupt handler sets tags |
| `ReceivedFramesAreDumps` | `FramesAreDumps` | nothing about `Order` |
| `DumpsAreDeliveredFirst` | `ClearOnlyAfterExport` | `ChecksStatus` |
| `MarkerIsTrue` | `MarkerMeansWhole` | `MagicFirst`: `Order` puts the clear of the magic before every other store |
| `NewestDumpOrNone` | `NewestOrNothing` | `MagicFirst` |

`PanicDumpSlot_proofs` adds `SlotIsMailbox`: `Spec => SlotSpec`, the refinement, under
`MagicFirst`, `ChecksStatus` and `JunkApart` (what a loss of RAM leaves is none of the values
a commit stores). Each step in which the memory fails counts in `failures` of `DumpSlot`, which is
`losses` of `PanicDump`; so a clear can pass for `Discard` only, and `ChecksStatus` is what
makes the dump delivered by then.

The argument is layered in three inductive invariants. `CommitInv` says that a CRC
in the slot is that of a sealed image or one that does not match (`CrcSealed`), and that on the running level
every part not in `todo` holds what the commit stored (`Stored`): a preempted level has no such guarantee, and
needs none since it never runs again. This is where "a panic never returns" is
used. `ExportInv` adds what the boot thread knows while nothing preempts it: during an export the slot is valid and `sent` agrees with
it below `pos`; during a clear after a successful export every part from
`pos` on is still that of a delivered image. `MarkerInv` adds, under `MagicFirst`, that a slot whose magic is set
belongs to the newest commit and that a commit past its first store has the magic
cleared. None of the properties is inductive alone: `NoTornDump`, for instance, holds of a
state in which a half-done commit has just stored a CRC over someone else's
bytes, and fails one step later. `TagInv`, beside them, says that while the panic of
a trigger runs, `g_user_tag` holds the reason it was called with, and so does its image once
the tag is stored.

The refinement needs `CaptureInv` on top: every sealed image holds captures, a cause and a
tag, hence no `Junk`, so that a loss of RAM either empties the slot (`Lose`) or has spared the
whole image. Then the clear of the magic is `Claim`; every other store happens
while the slot is invalid and is a stutter; the store of the magic is `Publish`; the END line
is `Deliver`; the first byte of a clear is `Discard`; and whatever starts or ends a panic is
`Abandon`.

`FaultEntry_proofs` proves `TypeOK` and `FlagsDescribeFault` for every word size
and RAM window, and `ReadsStayInRam` and `GivesUpOnlyWithoutSlice` under `SaneWindow`
(`SliceBytes <= RamEnd`): with a window that ends below 64 the subtraction in
`panicdump_frame_within_ram` wraps and the check admits everything. The build
rejects `RAM_END <= RAM_BASE` but not that; no part has such a RAM.

`PanicWire_proofs` proves, for every CRC that is a function from images to words,
every power-on content and every set of commits whose arguments are what the
callers pass (`TypedInputs`), with bytes of eight bits (`CBytes`):

| Theorem | Property |
| --- | --- |
| `WireTyped` | `TypeOK` |
| `PointersStayTrue` | `PointerShowsBootDump` |
| `ReadersAlwaysAgree` | `HostAgrees` |
| `CommitsReadBack` | `CommitReadsBack` |
| `ScriptsAlwaysAgree` | `ScriptsAgree` |
| `DecodedEncodesAgain` | `EncodeRestores` |
| `TestFilesMatch` | `MocksMatch` |

The arithmetic is in two lemmas: a word is made up of its four bytes (`WordOfBytes`)
and four bytes are those of the word they make (`BytesOfWord`). From them
`LoadOfBytes` reads a stored word back, and `CommittedAt` says of every offset of a
committed image which writer filled it; `CrcIgnores` says that storing the CRC
and the magic last does not change the CRC. `BootInv` is the invariant of a boot: the slot
is as this boot found it or all zeros, because only a panic writes it and a panic ends
the boot, and zeros are not valid (`ZeroWireInvalid`). `PointerShowsBootDump` is not
inductive without it: from a state with another valid image in the slot one `Get` breaks it.

`ScriptsAlwaysAgree` goes through the exits of `Main` (`MainExits`); that the images with status
1 are those which only their CRC condemns is `SealedIsWhole`: the parser accepts an image exactly
when the device accepts it with a right CRC.
`DecodedEncodesAgain` compares the image that the encoder makes with the one that was
decoded, byte by byte: a word that was loaded is stored again by `BytesOfWord`, the CRC field
by the validity of the image. `TestFilesMatch` compares a file that is packed field by field
with an image that is written at offsets: `PackAt` says, by induction over the fields, that
each starts where the one before it ends; `MockAt` names every byte of a file; `MockCover` says
that those are all the bytes; and `CommittedIsMock` finds the same bytes in `CommittedAt`. A
file with another CRC differs in the CRC field only (`MockResealed`), which the parser does
not look at (`ParsesAnyCrc`).

`PanicDigest_proofs` proves, for every width of at least a byte, every layout, content and
reason, and every polynomial with its highest bit set (`PolyAssumption`):

| Theorem | Property |
| --- | --- |
| `DigestTyped` | `TypeOK` |
| `BurstsAreRefused` | `BurstsRefused` |
| `ReadersAlwaysAgree` | `ReadersAgree` |
| `ReasonsAreNamed` | `ReasonNamed`, if `Distinct` |

A step of the register is linear (`FoldLinear`): the difference of two registers, shifted, is
the difference of the shifted ones. `TrailInv` records the register of the commit at each
bit (`trail`) and says what the seal stored. `CheckInv` says how the register of the check
differs from it: not at all up to the first bit that has turned over, and then by a word whose
highest bit the polynomial has just set (`FoldTop`). Shifts bring that bit no lower than the
bottom within W steps; by then the burst is over, and registers that are fed the same bits
never meet again. `SerialShift` ties the loop of the code, which takes in a byte at once, to
a register fed bit by bit.

`PanicExport_proofs` proves, for any images, line width, number of boots, calls, prints and
losses, and any UART that holds at most the characters of a line break (`TxAssumption`):

| Theorem | Property |
| --- | --- |
| `ExportTyped` | `TypeOK` |
| `CompleteCallsAlwaysDecode` | `CompleteCallsDecode` |
| `ErasedStaysReadable` | `ErasedIsReadable` |

They rest on two theorems of `PanicFrame_proofs`, which are about text alone and hold for
every image, any digits that are not blanks, line breaks or `=` (`HexAssumption`), any two words
without `=` or line breaks that are shorter than the digits of an image (`MarkerAssumption`: 17
and 15 characters against 384), any rule of at least one character, and any length of image and
line but zero (`SizeAssumption`):

| Theorem | What it says |
| --- | --- |
| `EveryFrameLoads` | `load_hex_framed` accepts the frame of each image, with and without the last line break, and returns that image |
| `TestFilesAreFrames` | `build_hex_framed` writes the text that `panicdump_export_hex` sends |

For the first, `BetweenSpells` says by induction over the bytes that the digits between the
markers, line breaks apart, spell the image, and `SpellsReads` that the host, which drops white
space and takes the rest in pairs, reads what is spelled; `MarkedReads` adds that each marker
is found once: the words differ, and a rule is nowhere but in a marker (`MarkedPlaces`). For the second, `CutJoin` and `FrameLine` say that cutting the text of digits every
`2 * LineBytes` characters and putting a line break after every `LineBytes`-th byte and after the
last one make the same lines.

`SentInv` says that what a call has put out is, unless something was lost, the
beginning of the frame and the last that was put out. When all of it is out, the UART can hold
no more than the line break, so the log already has the rest, and keeps it: `ErasedInv`.

`PiecesAreWhole` needs to know where each character of the log comes from, and none of this is
in the state. `TraceInv` says of every character that was put out and is no text of the
application that it ends a *run*: a stretch of neighbouring characters which are, at increasing
places `g`, characters of the frame of one image the slot held, beginning anywhere in that
frame. `RulesKept` says what is missing from a run: of the frame's rule characters up to its
end, all but at most `rules` are in it. With `rules < RuleLen`, each rule the run has passed
shows a character (`RuleShows`).

`WholePiece` looks at the run that ends at the last digit of a framed piece, and at the place of
the log where the body begins, behind a rule. All of the body is digits and blanks, so a rule
that this run passes within the body would show there: it passes none (`OneRun`). The run
cannot have begun within the body either, for then it would have passed the first rule of its
frame. So the digits of the body stand, in order, between two rules of one frame: in the words
of BEGIN, in the words of END, or between the markers. Words are too short for as many digits
(`IncreasingGrows`, `MarkerAssumption`), hence they are between the markers; there are as many of
them as the frame has there, so they are those (`DigitsOfFrame`), and they read as that image.
`FramesAreWhole` is far from inductive: it speaks of pieces that end now, and a step can complete
a piece whose first characters were sent many calls ago.

The two theorems on `PanicDigest` compare computations of different shape. The device's
register after any number of bits is the reflection of the remainder of what has been fed so
far (`RegisterInv`), the seed and the final inversion included. The hash in `hash` is that of
the first `read` characters of the reason (`HashInv`). `Distinct` says that a text in the
decoder's table and what the limit leaves of a reason in use do not have the same hash unless
they are the same text. The code can only hope so of a 32-bit hash: it is what "the table
identifies the reason" means, and the instance of the run `digests` satisfies it.

Recursion and folds over data are proved with `DataInduction`. The library's induction
theorems take an operator as a parameter, which the provers cannot instantiate; here what is
to be shown is a *set* of numbers (`Induction`), from the well-foundedness of `<` over the
naturals. `Recursion` gives a recursive function its values, and `FlattenIsPrefix` ties
`FlattenSeq` to the function of its prefixes.

Every safety property and every action property of the runs is stated by a theorem. Only
model-checked: liveness (`PanicReboots`, `DumpDelivered`), which is outside the prover.

## 6. Where code and documents disagree

* `stale_tag`: a fault dump may carry the reason of an earlier software trigger as
  its `user_tag`; `docs/INTEGRATION.md:161` promises the last tag set.
* `demo_boot`: the STM32F4 demo clears the dump whatever the export returned, and
  its callback returns nothing.
* `fault_sequence`: the stubs never load `r3`; the field that should hold
  EXC_RETURN (`docs/FORMAT.md:16`) holds the faulting code's `r3`.
* `sw_flags`: a software trigger's dump has a valid stack slice and the flag that
  says so clear (`docs/FORMAT.md:26`).
* `capture`: a captured UART log decodes only after everything around the frame has
  been cut away by hand; `docs/INTEGRATION.md:168` and the demo's own comment
  (`main.c:114`) pass the log to the script as it is, and the demo prints a banner.

Without a run: a frame in `(RAM_END - 64, RAM_END - 32]` is marked invalid and its registers are
dropped, although all its 32 bytes lie in RAM, because `panicdump_exc_frame_safe`
(`panicdump_port_cortexm.c:56-59`) tests it with the bound of the 64-byte slice.
`docs/LIMITATIONS.md:18-20` says that of frames outside the window. The first frame on a stack
that starts at `RAM_END` is such a frame. `GivesUpOnlyWithoutSlice` states exactly what the code
gives up, this loss included.

Not worth a run: `docs/FORMAT.md:31-40` lists eight conditions for a valid dump, none of
them on the flags, and both readers also refuse an image with one of the bits 4 to 31 set.
`docs/LIMITATIONS.md:30` says that `panicdump_trigger_tag` hashes at most
`PANICDUMP_REASON_TAG_MAX_LEN` bytes; the function hashes as many as its caller says (line
393), and only `panicdump_trigger` passes that limit. The comment on the demo's
deliberate fault (`main.c:62`) expects `panicdump_BusFault_Handler`; the demo never enables
BusFault in `SHCSR`, so the core takes it as a HardFault. The generic demo passes a callback
that returns nothing, as the other one does.

## 7. Not modelled

* An RTOS, the FPU and Cortex-M0 (outside the library's scope, `docs/LIMITATIONS.md`), and NMI.
* The values of registers and fault status registers: they are copied, never examined. The
  decoder's spelling of the CFSR bits and the wording of its report.
* A fault handler whose own stack frame overlaps the image it writes, which takes a stack that
  has already grown through `.noinit`: the image then changes under the commit in places that
  depend on the compiler. `StackOverflow` covers the application's stack, not the handler's.
* The host port: a test double that captures zeros and calls `abort`.
* The generic demo: a listing that no build file names, without state; its boot sequence is
  a behaviour of `PanicDump` with `ChecksStatus`.
* The demo's clocks, pins and delays, the build, and the tests, which were read as statements
  about the code.
* The CRC's behaviour on damage wider than one burst: `BurstsRefused` promises nothing there,
  as no CRC does. `ReadersAgree` still holds.

## 8. Plan

The modules of sections 2 to 5 are done. What could follow, in order of use:

1. The boots of `PanicDump` composed with the frame of `PanicExport`. Today the two meet in
   `FramesAreDumps` (the frame holds what one panic sealed) and `FrameLoads` (the host reads
   what the frame holds).
2. The overlap of a handler's frame with the image, given a model of the RAM layout.
