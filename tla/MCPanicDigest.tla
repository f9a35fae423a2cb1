--------------------------- MODULE MCPanicDigest ---------------------------
(***************************************************************************)
(* PanicDigest with the words of the code, 32 bits wide, and an image of   *)
(* 14 bytes: magic, tag, CRC and two more.                                 *)
(***************************************************************************)
EXTENDS PanicDigest

BitsOf(n) == {b \in 0..7 : (n \div 2^b) % 2 = 1}
\* A word from its bytes, the highest first, as a literal lists them.
WordOf(b3, b2, b1, b0) ==
  BitsOf(b0) \cup PutAt(8, BitsOf(b1)) \cup PutAt(16, BitsOf(b2)) \cup PutAt(24, BitsOf(b3))

Crc32Poly == WordOf(237, 184, 131, 32)     \* 0xEDB88320
FnvBasis == WordOf(129, 28, 157, 197)      \* 0x811C9DC5
FnvPrime == WordOf(1, 0, 1, 147)           \* 0x01000193
PanicMagic == WordOf(80, 68, 67, 49)       \* 0x50444331

Text(codes) == [i \in DOMAIN codes |-> BitsOf(codes[i])]
Assert == Text(<<97, 115, 115, 101, 114, 116>>)
Assertion == Assert \o Text(<<105, 111, 110>>)
HwError == Text(<<104, 119, 95, 101, 114, 114, 111, 114>>)

SomeReasons == {<<>>, Assert, Assertion, HwError}
Known == {Assert, HwError}
SomeTags == {{}, WordOf(222, 173, 190, 239)}
SomeBodies == {{}, {96, 99, 104, 111}}

\* Nothing; every bit of the tag and of its neighbours; a torn tag or CRC; bits 31
\* apart all over the image; all of a word; a byte of the magic.
SomeSpoils ==
  {{}} \cup {{q} : q \in 32..39 \cup 96..111} \cup
  {32..39, 40..63, 64..71, 72..95, 8..15} \cup
  {{q, q + 31} : q \in 32..35} \cup {{q} \cup (q + 20)..(q + 31) : q \in {32, 33}} \cup
  {q..(q + 31) : q \in {32, 64}} \cup {96..111}
=============================================================================
