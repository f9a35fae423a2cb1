---------------------------- MODULE PanicExport ----------------------------
(***************************************************************************)
(* The hex frame on its way: the boot thread hands it to the UART          *)
(* character by character, the UART sends what it holds in its own time    *)
(* and loses it in a reset, the log of the terminal collects what arrives  *)
(* over several boots, and the host takes a piece of that log for a dump   *)
(* or refuses it.                                                          *)
(*                                                                         *)
(* A marker is a rule, its words, and the rule again.  The words may show  *)
(* digits and blanks, and the rule that ends one marker may begin another. *)
(***************************************************************************)
EXTENDS Integers, Sequences, FiniteSets, SequencesExt

CONSTANTS
  NBytes, LineBytes,  \* bytes of an image, and of a line of the frame
  HexDigits,          \* the digits, lowest first
  RuleLen,            \* characters of a rule: three in the code
  BeginWords, EndWords,  \* " PANICDUMP BEGIN " and " PANICDUMP END "
  Images,             \* the images that validate
  NoImage,            \* what panicdump_clear leaves
  TxRoom,             \* characters the UART holds: data and shift register
  MaxBoots, MaxCalls, \* bounds: resets and panics, exports
  MaxNoise            \* bound: lines printed and characters the line loses

Base == Len(HexDigits)

VARIABLES
  slot,       \* g_dump_wire
  main,       \* "app", "export" or "clear": where the boot thread is
  pos,        \* the character of the frame it sends next
  tx,         \* the characters the UART holds, the oldest first
  log,        \* what the terminal has received since it was opened
  bootAt,     \* history: length of the log when this boot began
  callAt,     \* history: characters put out when this call began
  clean,      \* history: this call has lost nothing
  held, erased,    \* history: images the slot held, and those erased
  boots, calls, prints, losses,
  rules             \* history: those of the lost characters that were of a rule

vars == <<slot, main, pos, tx, log, bootAt, callAt, clean, held, erased,
          boots, calls, prints, losses, rules>>

-----------------------------------------------------------------------------
(* The device's side of the format. *)

Rule == [i \in 1..RuleLen |-> "="]
BEGIN == Rule \o BeginWords \o Rule
END == Rule \o EndWords \o Rule
EOL == <<"\r", "\n">>
Text == "text"
Char == {"=", " ", "\r", "\n", Text}
          \cup UNION {Range(s) : s \in {HexDigits, BeginWords, EndWords}}

\* Mutant: the low digit first.
HexByteSwapped(v) == <<HexDigits[(v % Base) + 1], HexDigits[(v \div Base) + 1]>>

HexByte(v) == <<HexDigits[(v \div Base) + 1], HexDigits[(v % Base) + 1]>>

(* The frame but for its last line break. *)
Core ==
  [image \in Images |->
     BEGIN \o EOL
     \o FlattenSeq([i \in 1..NBytes |->
          HexByte(image[i]) \o IF i % LineBytes = 0 \/ i = NBytes THEN EOL ELSE <<>>])
     \o END]

\* Mutant: no line break after the last marker.
FrameUnterminated == Core

Frame == [image \in Images |-> Core[image] \o EOL]

(* The host writes such files too, for its tests: build_hex_framed. *)
HexFramed(image) ==
  LET raw == FlattenSeq([i \in 1..NBytes |-> HexByte(image[i])])
      width == 2 * LineBytes
      Line(k) == SubSeq(raw, width * (k - 1) + 1,
                        IF width * k < Len(raw) THEN width * k ELSE Len(raw))
      lines == [k \in 1..((Len(raw) + width - 1) \div width) |-> Line(k)]
  IN FlattenSeq([k \in 1..(Len(lines) + 2) |->
       (CASE k = 1 -> BEGIN
          [] k \in 2..(Len(lines) + 1) -> lines[k - 1]
          [] OTHER -> END) \o EOL])

ASSUME SizeAssumption == NBytes \in Nat \ {0} /\ LineBytes \in Nat \ {0}
ASSUME HexAssumption ==
  /\ HexDigits \in Seq(STRING) /\ IsInjective(HexDigits)
  /\ \A d \in DOMAIN HexDigits : HexDigits[d] \notin {"=", " ", "\r", "\n", Text}

(* The words are no rule and no line, and shorter than the digits of an image. *)
WordsFit(words, digits) ==
  /\ words \in Seq(STRING) /\ Len(words) \in 1..(digits - 1)
  /\ \A k \in DOMAIN words : words[k] \notin {"=", "\r", "\n", Text}

ASSUME MarkerAssumption ==
  /\ RuleLen \in Nat \ {0}
  /\ WordsFit(BeginWords, 2 * NBytes) /\ WordsFit(EndWords, 2 * NBytes)
  /\ BeginWords # EndWords
ASSUME ImageAssumption ==
  /\ Images \subseteq [1..NBytes -> 0..(Base * Base - 1)]
  /\ NoImage \notin Images
ASSUME TxAssumption == TxRoom \in Nat /\ TxRoom <= Len(EOL)

-----------------------------------------------------------------------------
(* The host: load_hex_framed. *)

Occurrences(m, s) ==
  {i \in 1..(Len(s) - Len(m) + 1) : \A k \in DOMAIN m : s[i + k - 1] = m[k]}
First(m, s) == CHOOSE i \in Occurrences(m, s) : \A j \in Occurrences(m, s) : i <= j

(* str.count, which skips occurrences that overlap the one before *)
Once(m, s) ==
  LET found == Occurrences(m, s)
  IN found # {} /\ \A i, j \in found : j < i + Len(m)

Space == {" ", "\r", "\n"}
Blank(s) == \A i \in DOMAIN s : s[i] \in Space

\* Mutant: everything that is no digit is dropped from the body.
DigitsOnly(s) == SelectSeq(s, LAMBDA c : \E d \in DOMAIN HexDigits : HexDigits[d] = c)

(* re.sub(r"\s+", "", body) *)
HexOf(s) == FlattenSeq([i \in DOMAIN s |-> IF s[i] \in Space THEN <<>> ELSE <<s[i]>>])

Body(s) == HexOf(SubSeq(s, First(BEGIN, s) + Len(BEGIN), First(END, s) - 1))

Framed(s) ==
  /\ Once(BEGIN, s) /\ Once(END, s)
  /\ First(BEGIN, s) <= First(END, s)
  /\ Blank(SubSeq(s, 1, First(BEGIN, s) - 1))
  /\ Blank(SubSeq(s, First(END, s) + Len(END), Len(s)))
  /\ LET body == Body(s)
     IN /\ Len(body) = 2 * NBytes
        /\ \A i \in DOMAIN body : \E d \in DOMAIN HexDigits : HexDigits[d] = body[i]

(* bytes.fromhex *)
DigitOf(c) == (CHOOSE d \in DOMAIN HexDigits : HexDigits[d] = c) - 1
FromHex(s) == [i \in 1..NBytes |-> Base * DigitOf(s[2 * i - 1]) + DigitOf(s[2 * i])]
Loaded(s) == FromHex(Body(s))

-----------------------------------------------------------------------------
(* What the device has put out: the terminal has it, or the UART still does. *)
Out == log \o tx

TypeOK ==
  /\ slot \in held \cup {NoImage}
  /\ main \in {"app", "export", "clear"}
  /\ pos \in Nat /\ (main = "export" <=> pos > 0)
  /\ main # "app" => slot \in Images /\ bootAt <= callAt /\ pos <= Len(Frame[slot]) + 1
  /\ tx \in Seq(Char) /\ log \in Seq(Char)
  /\ callAt \in 0..(Len(Out) + losses) /\ bootAt \in 0..Len(log) /\ clean \in BOOLEAN
  /\ Len(tx) <= TxRoom
  /\ erased \subseteq held /\ held \subseteq Images
  /\ boots \in Nat /\ calls \in Nat /\ prints \in Nat /\ losses \in Nat
  /\ rules \in 0..losses

Init ==
  /\ slot = NoImage
  /\ main = "app" /\ pos = 0
  /\ tx = <<>> /\ log = <<>> /\ bootAt = 0 /\ callAt = 0 /\ clean = TRUE
  /\ held = {} /\ erased = {}
  /\ boots = 0 /\ calls = 0 /\ prints = 0 /\ losses = 0 /\ rules = 0

(* The boot thread is back in the application. *)
Return == main' = "app" /\ pos' = 0 /\ callAt' = 0 /\ clean' = TRUE

(* The core comes out of a reset: Reset_Handler, main, uart2_init. *)
Reboot ==
  /\ boots < MaxBoots
  /\ boots' = boots + 1
  /\ Return
  /\ tx' = <<>>
  /\ bootAt' = Len(log)
  /\ UNCHANGED <<log, erased, calls, prints, losses, rules>>

(* A panic, committed whole (PanicDump has its steps), and its reset. *)
Panic(image) ==
  /\ Reboot
  /\ slot' = image
  /\ held' = held \cup {image}

Reset ==
  /\ Reboot
  /\ UNCHANGED <<slot, held>>

(* The UART has sent its oldest character... *)
Transmit ==
  /\ tx # <<>>
  /\ tx' = Tail(tx)
  /\ log' = Append(log, Head(tx))
  /\ UNCHANGED <<slot, main, pos, bootAt, callAt, clean, held, erased,
                 boots, calls, prints, losses, rules>>

(* ...and the line has lost it. *)
Lose ==
  /\ tx # <<>>
  /\ prints + losses < MaxNoise
  /\ losses' = losses + 1
  /\ rules' = rules + IF Head(tx) = "=" THEN 1 ELSE 0
  /\ tx' = Tail(tx)
  /\ clean' = (main = "app")
  /\ UNCHANGED <<slot, main, pos, log, bootAt, callAt, held, erased, boots, calls, prints>>

\* Mutant: uart2_putchar does not wait, and overwrites the data register.
PutWithoutWait(c) ==
  tx' = IF Len(tx) < TxRoom THEN Append(tx, c) ELSE [tx EXCEPT ![TxRoom] = c]

(* uart2_putchar waits for TXE. *)
Put(c) ==
  /\ Len(tx) < TxRoom
  /\ tx' = Append(tx, c)

(* The application's own lines on the same UART: uart2_puts. *)
Puts ==
  /\ main = "app"
  /\ prints + losses < MaxNoise
  /\ prints' = prints + 1
  /\ Put(Text)
  /\ UNCHANGED <<slot, main, pos, log, bootAt, callAt, clean, held, erased,
                 boots, calls, losses, rules>>

\* Mutant: panicdump_has_valid is not asked.
CallUnchecked ==
  /\ main = "app"
  /\ calls < MaxCalls
  /\ calls' = calls + 1
  /\ main' = "export" /\ pos' = 1
  /\ callAt' = Len(Out)
  /\ UNCHANGED <<slot, tx, log, bootAt, clean, held, erased, boots, prints, losses, rules>>

(* panicdump_boot_check_and_export; without a dump it returns at once. *)
Call ==
  /\ main = "app"
  /\ slot \in Images
  /\ calls < MaxCalls
  /\ calls' = calls + 1
  /\ main' = "export" /\ pos' = 1
  /\ callAt' = Len(Out)
  /\ UNCHANGED <<slot, tx, log, bootAt, clean, held, erased, boots, prints, losses, rules>>

(* write_char is called with the next character... *)
Sending ==
  /\ main = "export"
  /\ pos <= Len(Frame[slot])
  /\ UNCHANGED <<slot, log, bootAt, held, erased, boots, calls, prints, losses, rules>>

(* ...hands it to the UART and returns true, *)
Send ==
  /\ Sending
  /\ Put(Frame[slot][pos])
  /\ pos' = pos + 1
  /\ UNCHANGED <<main, callAt, clean>>

(* or returns false: PANICDUMP_EXPORT_SHORT_WRITE. *)
ShortWrite ==
  /\ Sending
  /\ Return
  /\ UNCHANGED tx

(* PANICDUMP_EXPORT_OK *)
Exported ==
  /\ main = "export"
  /\ pos > Len(Frame[slot])
  /\ main' = "clear" /\ pos' = 0
  /\ UNCHANGED <<slot, tx, log, bootAt, callAt, clean, held, erased,
                 boots, calls, prints, losses, rules>>

(* panicdump_clear, after which the magic is gone. *)
Clear ==
  /\ main = "clear"
  /\ Return
  /\ slot' = NoImage
  /\ erased' = erased \cup {slot}
  /\ UNCHANGED <<tx, log, bootAt, held, boots, calls, prints, losses, rules>>

Next ==
  \/ \E image \in Images : Panic(image)
  \/ Reset \/ Puts
  \/ Transmit \/ Lose
  \/ Call \/ Send \/ ShortWrite \/ Exported \/ Clear

Spec == Init /\ [][Next]_vars

-----------------------------------------------------------------------------
(* The pieces of the log that begin with one marker and end with the other; the  *)
(* host takes no other piece, but for blanks at its ends.                        *)
Pieces ==
  UNION {{SubSeq(log, from, to + Len(END) - 1) : to \in Occurrences(END, log)} :
           from \in Occurrences(BEGIN, log)}

(* Those whose last character is the last one so far. *)
NewPieces ==
  IF Len(log) >= Len(END) /\ \A k \in DOMAIN END : log[Len(log) - Len(END) + k] = END[k]
  THEN {SubSeq(log, from, Len(log)) : from \in Occurrences(BEGIN, log)}
  ELSE {}

\* Whatever piece of a log the host takes for a frame, however its frames were cut
\* by resets, panics and failing writes and whatever characters were lost, so long as
\* no rule can be lost whole, its bytes are those of an image that the slot held before
\* the piece was complete; the CRC is not needed for it (decode_panicdump.py:293-316).
FramesAreWhole ==
  rules < RuleLen => \A s \in NewPieces : Framed(s) => Loaded(s) \in held

\* When an export begins, the host would read from its frame the dump in the slot,
\* with and without the last line break, and the generator of test files would write
\* the same frame: the three programs agree on digits, breaks and markers
\* (panicdump.c:338-376, decode_panicdump.py:293-316, make_mock_dump.py:224-231).
Loads(image) ==
  /\ Core[image] \in Seq(Char)
  /\ 1 \in Occurrences(BEGIN, Core[image])
  /\ Len(Core[image]) - Len(END) + 1 \in Occurrences(END, Core[image])
  /\ \A s \in {Core[image], Frame[image]} : Framed(s) /\ Loaded(s) = image

FrameLoads ==
  main = "export" /\ pos = 1 => Loads(slot) /\ HexFramed(slot) = Frame[slot]

\* A call that has put out all of its frame, and lost nothing, has sent a text that
\* the host takes by itself, and what the host reads there is the image in the slot
\* (panicdump.c:345-376).
CompleteCallsDecode ==
  (main = "clear" /\ clean) =>
    LET s == SubSeq(Out, callAt + 1, Len(Out))
    IN Framed(s) /\ Loaded(s) = slot

\* If the line loses nothing, an image is erased only after some piece of the log
\* gives it back, although a reset right after it drops what the UART still holds:
\* the line break behind the last marker keeps the marker out of its registers
\* (panicdump.c:370-384, stm32f4_uart.c:71-76).
ErasedIsReadable ==
  losses = 0 =>
    \A image \in erased : \E s \in Pieces : Framed(s) /\ Loaded(s) = image

\* docs/INTEGRATION.md:168-173: what a terminal captured of a boot that has exported
\* its dump decodes as it is.
CaptureDecodes ==
  (main = "clear" /\ clean) => Framed(SubSeq(Out, bootAt + 1, Len(Out)))
=============================================================================
