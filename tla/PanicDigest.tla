---------------------------- MODULE PanicDigest ----------------------------
(***************************************************************************)
(* The two digests of a dump.  A software trigger hashes its reason with   *)
(* FNV-1a and the hash goes into the tag field; the commit runs a CRC over *)
(* the image; a reader runs it again over what has become of the image,    *)
(* and the host looks the tag up in a table of hashes.                     *)
(*                                                                         *)
(* A word is the set of its bits that are 1, and an image the set of its   *)
(* bits, counted from the lowest bit of its first byte: a little-endian    *)
(* word in the image is W neighbours.                                      *)
(***************************************************************************)
EXTENDS Integers, Sequences, FiniteSets

CONSTANTS
  W,              \* bits of a word
  Poly,           \* the reflected polynomial, without its highest term
  Basis, Prime,   \* of FNV-1a
  NBits,          \* bits of the image; the magic is its first word
  Magic,          \* a word
  TagAt, CrcAt,   \* where the words user_tag and crc32 begin
  Bodies,         \* what a commit writes outside these three words
  Reasons, Limits,  \* arguments of panicdump_trigger_tag
  Null,           \* no reason: panicdump_trigger_tag(NULL, n)
  KnownReasons,   \* KNOWN_REASON_TAGS of the decoder
  Tags,           \* g_user_tag before the trigger
  Spoils          \* sets of bits that turn over between commit and check

Bits == 0..(W - 1)
Word == SUBSET Bits
Span(at) == at..(at + W - 1)
Covered == (0..(NBits - 1)) \ (Span(0) \cup Span(CrcAt))

ASSUME WidthAssumption == W \in Nat /\ W >= 8 /\ NBits \in Nat /\ NBits % 8 = 0
ASSUME LayoutAssumption ==
  /\ TagAt \in W..(NBits - W) /\ CrcAt \in W..(NBits - W)
  /\ Span(TagAt) \cap Span(CrcAt) = {}
ASSUME WordAssumption ==
  Poly \in Word /\ Basis \in Word /\ Magic \in Word /\ Tags \subseteq Word
ASSUME PolyAssumption == W - 1 \in Poly
ASSUME BodyAssumption == \A body \in Bodies : body \subseteq Covered \ Span(TagAt)
ASSUME SpoilAssumption == \A e \in Spoils : e \subseteq 0..(NBits - 1)
ASSUME ReasonAssumption ==
  /\ Reasons \subseteq Seq((SUBSET (0..7)) \ {{}}) /\ Limits \subseteq Nat   \* no NUL in them
  /\ Null \notin Reasons

VARIABLES
  stage,      \* "run", "hash", "commit", "stored", "found", "check", then the verdict
  reason, limit,  \* arguments of panicdump_trigger_tag
  hash, read,     \* FNV-1a so far, and the characters it has taken
  user_tag,   \* g_user_tag
  wire,       \* g_dump_wire
  crc,        \* the CRC register
  pos, left,  \* bits it has shifted, and bits of this byte still to shift
  sealed,     \* history: the image the commit left
  trail       \* history: the commit's register at each bit, see Serial

hashVars == <<reason, limit, hash, read, user_tag>>
crcVars == <<crc, pos, left>>
vars == <<stage, hashVars, wire, crcVars, sealed, trail>>

-----------------------------------------------------------------------------
(* Words. *)

Xor(a, b) == (a \ b) \cup (b \ a)
Not(a) == Bits \ a
Shr(a) == {b - 1 : b \in a \ {0}}
FieldAt(at, image) == {b \in Bits : at + b \in image}
PutAt(at, word) == {at + b : b \in word}

(* Multiplication modulo 2^W, column by column. *)
Times(a, b) ==
  LET ones[k \in Bits] == Cardinality({i \in a : k - i \in b})
      carry[k \in Bits] == IF k = 0 THEN 0 ELSE (carry[k - 1] + ones[k - 1]) \div 2
  IN {k \in Bits : (carry[k] + ones[k]) % 2 = 1}

-----------------------------------------------------------------------------
TypeOK ==
  /\ stage \in {"run", "hash", "commit", "stored", "found", "check",
                "accepted", "refused"}
  /\ reason \in Reasons \cup {Null} /\ limit \in Limits \cup {0}
  /\ stage = "hash" => reason \in Reasons /\ read <= limit
  /\ hash \in Word /\ read \in Nat /\ user_tag \in Word
  /\ wire \subseteq 0..(NBits - 1) /\ sealed \subseteq 0..(NBits - 1)
  /\ crc \in Word /\ pos \in 0..NBits /\ left \in 0..8 /\ (pos + left) % 8 = 0
  /\ pos + left <= NBits
  /\ trail \in Seq(Word)

Init ==
  /\ stage = "run"
  /\ reason = Null /\ limit = 0 /\ hash = {} /\ read = 0
  /\ user_tag \in Tags
  /\ wire = {} /\ sealed = {}
  /\ crc = {} /\ pos = 0 /\ left = 0 /\ trail = <<>>

-----------------------------------------------------------------------------
(* panicdump_reason_tag_hash_n *)

CharAt(s, i) == IF i < Len(s) THEN s[i + 1] ELSE {}   \* NUL behind the last

More == read < limit /\ CharAt(reason, read) # {}

Trigger(r, n) ==
  /\ stage = "run"
  /\ stage' = "hash"
  /\ reason' = r /\ limit' = n
  /\ hash' = Basis /\ read' = 0
  /\ UNCHANGED <<user_tag, wire, crcVars, sealed, trail>>

\* Mutant: FNV-1, which multiplies first.
HashMultipliesFirst ==
  /\ stage = "hash" /\ More
  /\ hash' = Xor(Times(hash, Prime), CharAt(reason, read))
  /\ read' = read + 1
  /\ UNCHANGED <<stage, reason, limit, user_tag, wire, crcVars, sealed, trail>>

HashByte ==
  /\ stage = "hash" /\ More
  /\ hash' = Times(Xor(hash, CharAt(reason, read)), Prime)
  /\ read' = read + 1
  /\ UNCHANGED <<stage, reason, limit, user_tag, wire, crcVars, sealed, trail>>

-----------------------------------------------------------------------------
(* panicdump_commit_snapshot, whose stores PanicDump takes one by one, and  *)
(* the CRC it runs over the image.                                          *)

(* The CRC starts over: every bit of the register is 1. *)
StartCrc ==
  /\ crc' = Bits
  /\ pos' = 0 /\ left' = 0

Commit(body, tag) ==
  /\ stage' = "commit"
  /\ user_tag' = tag
  /\ wire' = body \cup PutAt(TagAt, tag)   \* magic and crc32 are zero
  /\ StartCrc
  /\ trail' = <<Bits>>
  /\ UNCHANGED <<limit, hash, read, sealed>>

(* The loop of the hash ends: panicdump_trigger_reason. *)
HashEnd(body) ==
  /\ stage = "hash" /\ ~More
  /\ Commit(body, hash)
  /\ UNCHANGED reason

(* panicdump_trigger_tag(NULL, n) passes the tag there is. *)
TriggerNull(body) ==
  /\ stage = "run"
  /\ Commit(body, user_tag)
  /\ UNCHANGED reason

\* Mutant: the last of the three pieces is a byte short.
FedShort(image) == PutAt(0, Magic) \cup {q \in image \cap Covered : q < NBits - 8}

(* What the CRC is run over: the constant magic, the image up to the CRC field,
   zeros for the field, and the rest. *)
Fed(image) == PutAt(0, Magic) \cup (image \cap Covered)

(* The bits of the fed image from p on, n of them, as a word. *)
Window(image, p, n) == {q - p : q \in {r \in Fed(image) : p <= r /\ r < p + n}}

\* Mutant: one byte too many.
XorByteTooFar ==
  /\ stage \in {"commit", "check"}
  /\ left = 0 /\ pos <= NBits
  /\ crc' = Xor(crc, Window(wire, pos, 8))
  /\ left' = 8
  /\ UNCHANGED <<stage, hashVars, wire, pos, sealed, trail>>

(* crc ^= data[i] *)
XorByte ==
  /\ stage \in {"commit", "check"}
  /\ left = 0 /\ pos < NBits
  /\ crc' = Xor(crc, Window(wire, pos, 8))
  /\ left' = 8
  /\ UNCHANGED <<stage, hashVars, wire, pos, sealed, trail>>

(* The register without the bits of the byte that are still to be shifted: what
   it would be, were the bits fed one at a time. *)
Serial(register, p, n) == Xor(register, Window(wire, p, n))

\* Mutant: the register is shifted before its lowest bit is looked at.
ShiftThenTest(register) ==
  IF 0 \in Shr(register) THEN Xor(Shr(register), Poly) ELSE Shr(register)

Shifted(register) ==
  IF 0 \in register THEN Xor(Shr(register), Poly) ELSE Shr(register)

ShiftBit ==
  /\ stage \in {"commit", "check"}
  /\ left > 0
  /\ crc' = Shifted(crc)
  /\ pos' = pos + 1 /\ left' = left - 1
  /\ trail' = IF stage = "commit" THEN Append(trail, Serial(crc', pos', left'))
                                  ELSE trail
  /\ UNCHANGED <<stage, hashVars, wire, sealed>>

(* The inverted register is stored, then the magic. *)
Seal ==
  /\ stage = "commit" /\ left = 0 /\ pos = NBits
  /\ stage' = "stored"
  /\ wire' = wire \cup PutAt(CrcAt, Not(crc)) \cup PutAt(0, Magic)
  /\ sealed' = wire'
  /\ UNCHANGED <<hashVars, crcVars, trail>>

Spoil(e) ==
  /\ stage = "stored"
  /\ stage' = "found"
  /\ wire' = Xor(wire, e)
  /\ UNCHANGED <<hashVars, crcVars, sealed, trail>>

(* panicdump_validate_wire, the magic... *)
Open ==
  /\ stage = "found"
  /\ IF FieldAt(0, wire) = Magic
     THEN stage' = "check" /\ StartCrc
     ELSE stage' = "refused" /\ UNCHANGED crcVars
  /\ UNCHANGED <<hashVars, wire, sealed, trail>>

\* ...and the CRC.
Verdict ==
  /\ stage = "check" /\ left = 0 /\ pos = NBits
  /\ stage' = IF FieldAt(CrcAt, wire) = Not(crc) THEN "accepted" ELSE "refused"
  /\ UNCHANGED <<hashVars, wire, crcVars, sealed, trail>>

Next ==
  \/ \E r \in Reasons, n \in Limits : Trigger(r, n)
  \/ HashByte
  \/ \E body \in Bodies : HashEnd(body) \/ TriggerNull(body)
  \/ XorByte \/ ShiftBit
  \/ Seal
  \/ \E e \in Spoils : Spoil(e)
  \/ Open \/ Verdict

Spec == Init /\ [][Next]_vars

-----------------------------------------------------------------------------
(* The host. *)

(* zlib.crc32 over the bytes as they are, with a zero CRC field, after the
   definition of the CRC: the remainder of a polynomial with a coefficient for
   each bit, the first bit the highest, its first W ones inverted. *)
Generator == {W} \cup {W - 1 - b : b \in Poly}
HostCrc(image) ==
  LET top == NBits + W - 1
      dividend == Xor({top - q : q \in image \ Span(CrcAt)}, NBits..top)
      rest[k \in 0..NBits] ==
        IF k = 0 THEN dividend
        ELSE LET r == rest[k - 1]
             IN IF top - k + 1 \in r
                THEN Xor(r, {top - k + 1 - W + d : d \in Generator})
                ELSE r
  IN Not({W - 1 - d : d \in rest[NBits]})

(* fnv1a_32 over all of a string *)
PyHash(s) ==
  LET h[k \in 0..Len(s)] ==
        IF k = 0 THEN Basis ELSE Times(Xor(h[k - 1], s[k]), Prime)
  IN h[Len(s)]

(* What the report names: KNOWN_REASON_TAGS.get(user_tag). *)
Named(tag) == {s \in KnownReasons : PyHash(s) = tag}

-----------------------------------------------------------------------------
(* A change the CRC or the magic is sure to betray: it touches the magic, or the
   CRC field and no other bit, or W neighbouring bits at most, none of the field. *)
Burst(e) ==
  \/ e \cap Span(0) # {}
  \/ e \subseteq Span(CrcAt)
  \/ e \cap Span(CrcAt) = {} /\ \A p, q \in e : q - p < W

\* An image that has changed since its commit in one burst, such as a word of which
\* a store was torn, is refused (crc32.h:17-32, panicdump.c:20-33).
BurstsRefused ==
  stage = "accepted" /\ Burst(Xor(wire, sealed)) => wire = sealed

\* The register, reflected, seeded, run over three pieces with a constant for the
\* magic, ends where the host's library ends over the whole image: the device
\* accepts an image if and only if the host does, right or wrong.
ReadersAgree ==
  stage \in {"accepted", "refused"} =>
    (stage = "accepted" <=>
       FieldAt(0, wire) = Magic /\ FieldAt(CrcAt, wire) = HostCrc(wire))

\* The host names a trigger's reason if what max_len leaves of it is in the
\* decoder's table, and names nothing otherwise (panicdump.c:386-398).
ReasonNamed ==
  stage = "stored" /\ reason # Null =>
    LET shown == SubSeq(reason, 1, IF Len(reason) < limit THEN Len(reason) ELSE limit)
    IN Named(FieldAt(TagAt, wire)) = {shown} \cap KnownReasons
=============================================================================
