---------------------------- MODULE MCPanicWire ----------------------------
(***************************************************************************)
(* Instances of PanicWire.  TLC counts with 32-bit signed integers, so a   *)
(* byte has 128 values here and a word 2^28.                               *)
(***************************************************************************)
EXTENDS PanicWire

Word(b3, b2, b1, b0) == ((b3 * 128 + b2) * 128 + b1) * 128 + b0
DumpMagic == Word(5, 6, 7, 8)

(* A checksum that sees every single byte and most other changes. *)
Checksum(w) ==
  LET Term(o) == (o + 3) * (o + 5) * w[o]
      Octet(k) == Term(8 * k) + Term(8 * k + 1) + Term(8 * k + 2) + Term(8 * k + 3)
                  + Term(8 * k + 4) + Term(8 * k + 5) + Term(8 * k + 6) + Term(8 * k + 7)
  IN FoldFunction(+, 7, [k \in 0..23 |-> Octet(k)]) % 1046527

\* Register files in which every register has a value of its own.
RegFile(seed) ==
  [r \in RegNames |-> Word(seed, ReadAt[r], 127 - seed, ReadAt[r] \div 4)]
Slice(seed) == [i \in SliceOffsets |-> (i + seed) % 128]

\* What the fault handler and the software trigger pass on.
TestCommits ==
  {[regs |-> RegFile(c.seed), flags |-> c.flags, fault_reason |-> c.reason,
    sequence |-> c.seq, user_tag |-> Word(c.seed, 0, 127, 1),
    captured_sp |-> IF c.seed = 3 THEN RegFile(3).msp ELSE Word(32, c.seed, 0, 64),
    stack_bytes |-> c.bytes,
    data |-> Slice(c.seed)] :
     c \in {[seed |-> 1, flags |-> 12, reason |-> 1, seq |-> Word(127, 127, 127, 113), bytes |-> 64],
            [seed |-> 2, flags |-> 3, reason |-> 4, seq |-> Word(127, 127, 127, 125), bytes |-> 0],
            [seed |-> 3, flags |-> 0, reason |-> 5, seq |-> 0, bytes |-> 64]}}

-----------------------------------------------------------------------------
(* Images that this code did not write, put together without its operators. *)

Fields == [magic |-> DumpMagic, version |-> 1, header |-> 36, total |-> 192,
           flags |-> 0, arch |-> 4, reason |-> 5, bytes |-> 64]

\* Headers that differ from that of a good dump in at most one field.
BoundaryFields ==
  {Fields, [Fields EXCEPT !.magic = DumpMagic + 1]}
  \cup {[Fields EXCEPT !.version = v] : v \in {0, 2}}
  \cup {[Fields EXCEPT !.header = v] : v \in {35, 37}}
  \cup {[Fields EXCEPT !.total = v] : v \in {191, 193}}
  \cup {[Fields EXCEPT !.flags = v] : v \in {8, 15, 16}}
  \cup {[Fields EXCEPT !.arch = v] : v \in {2, 3, 5}}
  \cup {[Fields EXCEPT !.reason = v] : v \in {0, 6}}
  \cup {[Fields EXCEPT !.bytes = v] : v \in {0, 1, 63, 65}}

LE(v, n) == [i \in 1..n |-> (v \div <<1, 128, 16384, 2097152>>[i]) % 128]

\* The crc field apart, the image with these fields.
Unsealed(f) ==
  LET octets == LE(f.magic, 4) \o LE(f.version, 2) \o LE(f.header, 2)
                \o LE(f.total, 4) \o LE(f.flags, 4) \o LE(f.arch, 4)
                \o LE(f.reason, 4) \o LE(7, 4) \o LE(8, 4) \o LE(0, 4)
                \o [i \in 1..88 |-> i] \o LE(f.bytes, 4) \o [i \in 1..64 |-> 64 - i]
  IN [o \in Offsets |-> octets[o + 1]]

\* The CRC covers the right magic, and is kept right or made wrong.
BoundaryImages ==
  {[o \in Offsets |->
      IF o \in 32..35
      THEN LE(Checksum(Unsealed([f EXCEPT !.magic = DumpMagic])) + off, 4)[o - 31]
      ELSE Unsealed(f)[o]] : f \in BoundaryFields, off \in {0, 1}}

\* RAM that was never written: a pattern, and a good header over no dump.
GarbageImages ==
  {[o \in Offsets |-> 85],
   [o \in Offsets |-> IF o < 32 THEN Unsealed(Fields)[o] ELSE 85]}

AnyImages == GarbageImages \cup BoundaryImages
EveryOffset == Offsets
=============================================================================
