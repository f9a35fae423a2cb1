------------------------- MODULE PanicDigest_proofs -------------------------
(***************************************************************************)
(* Theorems on PanicDigest: for every width, every polynomial with its     *)
(* highest bit, every image and every reason, a burst is refused, device   *)
(* and host agree on every image, and the tag is the hash of the reason.   *)
(***************************************************************************)
EXTENDS PanicDigest, DataInduction

-----------------------------------------------------------------------------
(* Words. *)

LEMMA XorWord ==
  ASSUME NEW a \in Word, NEW b \in Word
  PROVE  Xor(a, b) \in Word
BY DEF Xor, Word

LEMMA ShrWord ==
  ASSUME NEW a \in Word
  PROVE  Shr(a) \in Word
<1> SUFFICES ASSUME NEW b \in a \ {0} PROVE b - 1 \in Bits
  BY DEF Shr, Word
<1> QED
  BY WidthAssumption DEF Word, Bits

LEMMA ShiftedWord ==
  ASSUME NEW a \in Word
  PROVE  Shifted(a) \in Word
BY XorWord, ShrWord, WordAssumption DEF Shifted

\* Membership is how the laws of Xor and Shr below are proved.
LEMMA InXor ==
  ASSUME NEW a, NEW b, NEW x
  PROVE  x \in Xor(a, b) <=> ~(x \in a <=> x \in b)
BY DEF Xor

LEMMA InShr ==
  ASSUME NEW a \in SUBSET Int, NEW x \in Int
  PROVE  x \in Shr(a) <=> x # -1 /\ x + 1 \in a
<1>1. ASSUME x \in Shr(a) PROVE x # -1 /\ x + 1 \in a
  <2>1. PICK b \in a \ {0} : x = b - 1
    BY <1>1 DEF Shr
  <2> QED
    BY <2>1
<1>2. ASSUME x # -1, x + 1 \in a PROVE x \in Shr(a)
  <2>1. x + 1 \in a \ {0} /\ x = (x + 1) - 1
    BY <1>2
  <2> QED
    BY <2>1 DEF Shr
<1> QED
  BY <1>1, <1>2

LEMMA ShrInt ==
  ASSUME NEW a \in SUBSET Int
  PROVE  Shr(a) \in SUBSET Int
BY DEF Shr

LEMMA XorInt ==
  ASSUME NEW a \in SUBSET Int, NEW b \in SUBSET Int
  PROVE  Xor(a, b) \in SUBSET Int
BY DEF Xor

LEMMA ShrXor ==
  ASSUME NEW a \in SUBSET Int, NEW b \in SUBSET Int
  PROVE  Shr(Xor(a, b)) = Xor(Shr(a), Shr(b))
<1>1. ASSUME NEW x \in Int
      PROVE x \in Shr(Xor(a, b)) <=> x \in Xor(Shr(a), Shr(b))
  BY XorInt, InShr, InXor
<1> QED
  BY <1>1, XorInt, ShrInt

LEMMA XorSwap ==
  ASSUME NEW a, NEW b, NEW c, NEW d
  PROVE  Xor(Xor(a, b), Xor(c, d)) = Xor(Xor(a, c), Xor(b, d))
BY DEF Xor

LEMMA XorFacts ==
  ASSUME NEW a, NEW b, NEW c
  PROVE  /\ Xor(a, a) = {} /\ Xor(a, {}) = a /\ Xor({}, a) = a
         /\ Xor(a, b) = Xor(b, a)
         /\ Xor(Xor(a, b), c) = Xor(Xor(a, c), b)
         /\ Xor(Xor(a, b), b) = a
         /\ Xor(a, b) = {} => a = b
BY DEF Xor

-----------------------------------------------------------------------------
(* One bit of the CRC, as if the bits were fed one at a time. *)

Fold(register, bit) ==
  IF (0 \in register) # bit THEN Xor(Shr(register), Poly) ELSE Shr(register)

\* The difference of two registers goes its own way, the difference of the bits
\* being its input: the CRC is linear.
LEMMA FoldLinear ==
  ASSUME NEW a \in SUBSET Int, NEW b \in SUBSET Int, NEW p, NEW F, NEW G
  PROVE  Xor(Fold(a, p \in F), Fold(b, p \in G)) = Fold(Xor(a, b), p \in Xor(F, G))
<1>1. Shr(Xor(a, b)) = Xor(Shr(a), Shr(b))
  BY ShrXor
<1>2. (0 \in Xor(a, b)) <=> ~(0 \in a <=> 0 \in b)
  BY InXor
<1> DEFINE A == Shr(a)  B == Shr(b)  s == p \in F  t == p \in G
<1>0. (p \in Xor(F, G)) <=> ~(s <=> t)
  BY InXor
<1>3. /\ Xor(Xor(A, Poly), Xor(B, Poly)) = Xor(A, B)
      /\ Xor(Xor(A, Poly), B) = Xor(Xor(A, B), Poly)
      /\ Xor(A, Xor(B, Poly)) = Xor(Xor(A, B), Poly)
  BY DEF Xor
<1> HIDE DEF A, B
<1>4. CASE (0 \in a <=> s) /\ (0 \in b <=> t)
  BY <1>0, <1>1, <1>2, <1>4 DEF Fold, A, B
<1>5. CASE ~(0 \in a <=> s) /\ (0 \in b <=> t)
  BY <1>0, <1>1, <1>2, <1>3, <1>5 DEF Fold, A, B
<1>6. CASE (0 \in a <=> s) /\ ~(0 \in b <=> t)
  BY <1>0, <1>1, <1>2, <1>3, <1>6 DEF Fold, A, B
<1>7. CASE ~(0 \in a <=> s) /\ ~(0 \in b <=> t)
  BY <1>0, <1>1, <1>2, <1>3, <1>7 DEF Fold, A, B
<1> QED
  BY <1>4, <1>5, <1>6, <1>7

-----------------------------------------------------------------------------
(* What is fed. *)

LEMMA LayoutFacts ==
  /\ W \in Nat /\ NBits \in Nat /\ TagAt \in Nat /\ CrcAt \in Nat
  /\ W >= 8 /\ W <= TagAt /\ W <= CrcAt /\ TagAt + W <= NBits /\ CrcAt + W <= NBits
BY WidthAssumption, LayoutAssumption

LEMMA FedTyped ==
  ASSUME NEW image
  PROVE  Fed(image) \subseteq 0..(NBits - 1)
<1>1. PutAt(0, Magic) \subseteq 0..(NBits - 1)
  BY LayoutFacts, WordAssumption DEF PutAt, Word, Bits
<1> QED
  BY <1>1 DEF Fed, Covered

LEMMA InWindow ==
  ASSUME NEW image, NEW p \in Nat, NEW n \in Nat, NEW x \in Int
  PROVE  x \in Window(image, p, n) <=> x \in 0..(n - 1) /\ x + p \in Fed(image)
<1>1. Fed(image) \subseteq Int
  BY FedTyped
<1>2. ASSUME x \in Window(image, p, n)
      PROVE x \in 0..(n - 1) /\ x + p \in Fed(image)
  <2>1. PICK q \in Fed(image) : p <= q /\ q < p + n /\ x = q - p
    BY <1>2 DEF Window
  <2>2. q \in Int /\ x + p = q
    BY <2>1, <1>1
  <2> QED
    BY <2>1, <2>2
<1>3. ASSUME x \in 0..(n - 1), x + p \in Fed(image)
      PROVE x \in Window(image, p, n)
  <2>1. p <= x + p /\ x + p < p + n /\ x = (x + p) - p
    BY <1>3
  <2> QED
    BY <1>3, <2>1 DEF Window
<1> QED
  BY <1>2, <1>3

LEMMA WindowTyped ==
  ASSUME NEW image, NEW p \in Nat, NEW n \in Nat
  PROVE  Window(image, p, n) \subseteq 0..(n - 1)
<1>1. Window(image, p, n) \subseteq Int
  BY FedTyped DEF Window
<1> QED
  BY <1>1, InWindow

LEMMA WindowWord ==
  ASSUME NEW image, NEW p \in Nat, NEW n \in 0..8
  PROVE  Window(image, p, n) \in Word
BY WindowTyped, LayoutFacts DEF Word, Bits

LEMMA WindowEmpty ==
  ASSUME NEW image, NEW p \in Nat
  PROVE  Window(image, p, 0) = {}
BY WindowTyped

LEMMA WindowShift ==
  ASSUME NEW image, NEW p \in Nat, NEW n \in Nat, n > 0
  PROVE  /\ Shr(Window(image, p, n)) = Window(image, p + 1, n - 1)
         /\ 0 \in Window(image, p, n) <=> p \in Fed(image)
<1> DEFINE A == Shr(Window(image, p, n))  B == Window(image, p + 1, n - 1)
<1>1. Window(image, p, n) \in SUBSET Int /\ A \subseteq Int /\ B \subseteq Int
  BY WindowTyped, ShrInt
<1>2. ASSUME NEW x \in Int
      PROVE x \in A <=> x \in B
  <2>1. x \in A <=> x # -1 /\ x + 1 \in Window(image, p, n)
    BY <1>1, InShr
  <2>2. x + 1 \in Window(image, p, n) <=> x + 1 \in 0..(n - 1) /\ (x + 1) + p \in Fed(image)
    <3>1. x + 1 \in Int
      OBVIOUS
    <3> QED
      BY ONLY <3>1, InWindow, p \in Nat, n \in Nat
  <2>3. x \in B <=> x \in 0..(n - 2) /\ x + (p + 1) \in Fed(image)
    <3>1. p + 1 \in Nat /\ n - 1 \in Nat /\ (n - 1) - 1 = n - 2
      OBVIOUS
    <3> QED
      BY <3>1, InWindow
  <2>4. x + (p + 1) = (x + 1) + p
    OBVIOUS
  <2>5. (x # -1 /\ x + 1 \in 0..(n - 1)) <=> x \in 0..(n - 2)
    OBVIOUS
  <2> QED
    BY <2>1, <2>2, <2>3, <2>4, <2>5
<1>3. A = B
  BY <1>1, <1>2
<1>4. 0 \in Window(image, p, n) <=> p \in Fed(image)
  BY InWindow
<1> QED
  BY <1>3, <1>4

-----------------------------------------------------------------------------
(* A byte at a time is a bit at a time. *)

LEMMA SerialTyped ==
  ASSUME NEW a \in Word, NEW p \in Nat, NEW n \in 0..8
  PROVE  Serial(a, p, n) \in Word
BY WindowWord, XorWord DEF Serial

LEMMA SerialStart ==
  ASSUME NEW a, NEW p \in Nat
  PROVE  Serial(a, p, 0) = a
BY WindowEmpty, XorFacts DEF Serial

LEMMA SerialXor ==
  ASSUME NEW a, NEW p \in Nat
  PROVE  Serial(Xor(a, Window(wire, p, 8)), p, 8) = Serial(a, p, 0)
<1>1. Serial(a, p, 0) = a
  BY SerialStart
<1> QED
  BY <1>1, XorFacts DEF Serial

LEMMA SerialShift ==
  ASSUME NEW a \in Word, NEW p \in Nat, NEW n \in 1..8
  PROVE  Serial(Shifted(a), p + 1, n - 1) = Fold(Serial(a, p, n), p \in Fed(wire))
<1> DEFINE w == Window(wire, p, n)
<1>1. w \in SUBSET Int /\ a \in SUBSET Int
  BY WindowTyped DEF Word, Bits
<1>2. Shr(w) = Window(wire, p + 1, n - 1) /\ (0 \in w <=> p \in Fed(wire))
  BY WindowShift
<1>3. Shr(Xor(a, w)) = Xor(Shr(a), Shr(w))
  BY <1>1, ShrXor
<1>4. (0 \in Xor(a, w)) <=> ~(0 \in a <=> 0 \in w)
  BY InXor
<1> HIDE DEF w
<1>5. CASE 0 \in a
  <2>1. Fold(Xor(a, w), 0 \in w) = Xor(Xor(Shr(a), Shr(w)), Poly)
    BY <1>3, <1>4, <1>5 DEF Fold
  <2>2. Shifted(a) = Xor(Shr(a), Poly)
    BY <1>5 DEF Shifted
  <2>3. Xor(Xor(Shr(a), Shr(w)), Poly) = Xor(Xor(Shr(a), Poly), Shr(w))
    BY XorFacts
  <2> QED
    BY <1>2, <2>1, <2>2, <2>3 DEF Serial, w
<1>6. CASE 0 \notin a
  <2>1. Fold(Xor(a, w), 0 \in w) = Xor(Shr(a), Shr(w))
    BY <1>3, <1>4, <1>6 DEF Fold
  <2>2. Shifted(a) = Shr(a)
    BY <1>6 DEF Shifted
  <2> QED
    BY <1>2, <2>1, <2>2 DEF Serial, w
<1> QED
  BY <1>5, <1>6

-----------------------------------------------------------------------------
(* Types. *)

LEMMA PutTyped ==
  ASSUME NEW at \in {0, TagAt, CrcAt}, NEW word \in Word
  PROVE  PutAt(at, word) \subseteq Span(at) /\ Span(at) \subseteq 0..(NBits - 1)
<1>1. at \in Nat /\ at + W <= NBits
  BY LayoutFacts
<1> QED
  BY <1>1, LayoutFacts DEF PutAt, Span, Word, Bits

LEMMA TimesWord ==
  ASSUME NEW a, NEW b
  PROVE  Times(a, b) \in Word
BY DEF Times, Word

LEMMA CharWord ==
  ASSUME NEW r \in Reasons, NEW i \in Nat
  PROVE  CharAt(r, i) \in Word
<1>1. r \in Seq(SUBSET (0..7))
  BY ReasonAssumption
<1>2. CASE i < Len(r)
  <2>1. r[i + 1] \in SUBSET (0..7)
    BY <1>1, <1>2
  <2> QED
    BY <1>2, <2>1, LayoutFacts DEF CharAt, Word, Bits
<1>3. CASE ~(i < Len(r))
  BY <1>3 DEF CharAt, Word
<1> QED
  BY <1>2, <1>3

LEMMA BitsWord == Bits \in Word
BY DEF Word

LEMMA CommitTyped ==
  ASSUME TypeOK, NEW body \in Bodies, NEW tag \in Word, Commit(body, tag),
         UNCHANGED reason
  PROVE  TypeOK'
<1>1. wire' \subseteq 0..(NBits - 1)
  BY BodyAssumption, PutTyped DEF Commit, Covered
<1>2. crc' \in Word /\ trail' \in Seq(Word)
  BY BitsWord DEF Commit, StartCrc
<1>3. pos' = 0 /\ left' = 0 /\ 0 \in 0..NBits /\ (0 + 0) % 8 = 0 /\ 0 + 0 <= NBits
  BY LayoutFacts DEF Commit, StartCrc
<1>4. user_tag' = tag /\ stage' = "commit" /\ UNCHANGED <<limit, hash, read, sealed>>
  BY DEF Commit
<1> QED
  BY <1>1, <1>2, <1>3, <1>4 DEF TypeOK

LEMMA DigestStepTyped == TypeOK /\ [Next]_vars => TypeOK'
<1> SUFFICES ASSUME TypeOK, [Next]_vars PROVE TypeOK'
  OBVIOUS
<1>1. ASSUME NEW r \in Reasons, NEW n \in Limits, Trigger(r, n)
      PROVE TypeOK'
  <2>1. n \in Nat /\ 0 <= n
    BY ReasonAssumption
  <2> QED
    BY <1>1, <2>1, WordAssumption DEF Trigger, TypeOK, crcVars
<1>2. CASE HashByte
  <2>1. hash' \in Word
    BY <1>2, TimesWord DEF HashByte
  <2>2. limit \in Nat /\ read + 1 \in Nat /\ read + 1 <= limit
    BY <1>2, ReasonAssumption DEF HashByte, More, TypeOK
  <2> QED
    BY <1>2, <2>1, <2>2 DEF HashByte, TypeOK, crcVars
<1>3. ASSUME NEW body \in Bodies, HashEnd(body)
      PROVE TypeOK'
  <2>1. hash \in Word
    BY DEF TypeOK
  <2> QED
    BY <1>3, <2>1, CommitTyped DEF HashEnd
<1>4. ASSUME NEW body \in Bodies, TriggerNull(body)
      PROVE TypeOK'
  <2>1. user_tag \in Word
    BY DEF TypeOK
  <2> QED
    BY <1>4, <2>1, CommitTyped DEF TriggerNull
<1>5. CASE XorByte
  <2>1. crc' \in Word
    BY <1>5, WindowWord, XorWord DEF XorByte, TypeOK
  <2>2. pos + 8 <= NBits /\ (pos + 8) % 8 = 0
    BY <1>5, WidthAssumption DEF XorByte, TypeOK
  <2> QED
    BY <1>5, <2>1, <2>2 DEF XorByte, TypeOK, hashVars
<1>6. CASE ShiftBit
  <2>1. crc' \in Word
    BY <1>6, ShiftedWord DEF ShiftBit, TypeOK
  <2>2. pos + 1 \in 0..NBits /\ left - 1 \in 0..8 /\ (pos + 1) + (left - 1) = pos + left
    BY <1>6, LayoutFacts DEF ShiftBit, TypeOK
  <2>3. trail' \in Seq(Word)
    <3>1. pos' \in Nat /\ left' \in 0..8
      BY <1>6, <2>2 DEF ShiftBit
    <3>2. Serial(crc', pos', left') \in Word
      BY <2>1, <3>1, SerialTyped
    <3> QED
      BY <1>6, <3>2 DEF ShiftBit, TypeOK
  <2> QED
    BY <1>6, <2>1, <2>2, <2>3 DEF ShiftBit, TypeOK, hashVars
<1>7. CASE Seal
  <2>1. Not(crc) \in Word
    BY DEF Not, Word
  <2>2. wire' \subseteq 0..(NBits - 1)
    BY <1>7, <2>1, PutTyped, WordAssumption DEF Seal, TypeOK
  <2> QED
    BY <1>7, <2>2 DEF Seal, TypeOK, hashVars, crcVars
<1>8. ASSUME NEW e \in Spoils, Spoil(e)
      PROVE TypeOK'
  BY <1>8, SpoilAssumption DEF Spoil, Xor, TypeOK, hashVars, crcVars
<1>9. CASE Open
  <2>1. 0 \in 0..NBits /\ (0 + 0) % 8 = 0 /\ 0 + 0 <= NBits
    BY LayoutFacts
  <2> QED
    BY <1>9, <2>1, BitsWord DEF Open, StartCrc, TypeOK, hashVars, crcVars
<1>10. CASE Verdict
  BY <1>10 DEF Verdict, TypeOK, hashVars, crcVars
<1>11. CASE UNCHANGED vars
  BY <1>11 DEF vars, TypeOK, hashVars, crcVars
<1> QED
  BY <1>1, <1>2, <1>3, <1>4, <1>5, <1>6, <1>7, <1>8, <1>9, <1>10, <1>11 DEF Next

LEMMA InitTyped == Init => TypeOK
<1>1. (0 + 0) % 8 = 0 /\ 0 + 0 <= NBits /\ 0 \in 0..NBits
  BY LayoutFacts
<1> QED
  BY <1>1, WordAssumption DEF Init, TypeOK, Word

\* Every variable keeps to its type: no register leaves its width, and no loop runs
\* past the end of the image or the limit of the hash.
THEOREM DigestTyped == Spec => []TypeOK
BY InitTyped, DigestStepTyped, PTL DEF Spec

-----------------------------------------------------------------------------
(* The commit leaves a trail of registers, each the one before with one bit  *)
(* more, and seals the image with the last.                                  *)

Steps(image, n) == \A p \in 0..(n - 1) : trail[p + 2] = Fold(trail[p + 1], p \in Fed(image))

Committing ==
  /\ wire \cap (Span(0) \cup Span(CrcAt)) = {}
  /\ Len(trail) = pos + 1 /\ trail[1] = Bits
  /\ Steps(wire, pos)
  /\ trail[pos + 1] = Serial(crc, pos, left)

Sealed ==
  /\ Len(trail) = NBits + 1 /\ trail[1] = Bits
  /\ Steps(sealed, NBits)
  /\ FieldAt(0, sealed) = Magic
  /\ FieldAt(CrcAt, sealed) = Not(trail[NBits + 1])

TrailInv ==
  /\ stage = "commit" => Committing
  /\ stage \in {"stored", "found", "check", "accepted", "refused"} => Sealed
  /\ stage = "stored" => wire = sealed

LEMMA FedSame ==
  ASSUME NEW a, NEW b, a \cap Covered = b \cap Covered
  PROVE  Fed(a) = Fed(b)
BY DEF Fed

LEMMA CommitStarts ==
  ASSUME TypeOK, NEW body \in Bodies, NEW tag \in Word, Commit(body, tag)
  PROVE  TrailInv'
<1>1. wire' \cap (Span(0) \cup Span(CrcAt)) = {}
  <2>1. body \cap (Span(0) \cup Span(CrcAt)) = {}
    BY BodyAssumption DEF Covered
  <2>2. PutAt(TagAt, tag) \subseteq Span(TagAt)
    BY PutTyped
  <2>3. Span(TagAt) \cap (Span(0) \cup Span(CrcAt)) = {}
    BY LayoutAssumption, LayoutFacts DEF Span
  <2> QED
    BY <2>1, <2>2, <2>3 DEF Commit
<1>2. Window(wire', 0, 0) = {}
  BY WindowEmpty
<1>3. trail' = <<Bits>> /\ crc' = Bits /\ pos' = 0 /\ left' = 0 /\ stage' = "commit"
  BY DEF Commit, StartCrc
<1>4. Committing'
  BY <1>1, <1>2, <1>3, XorFacts DEF Committing, Steps, Serial
<1> QED
  BY <1>3, <1>4 DEF TrailInv

LEMMA ShiftTrails ==
  ASSUME TypeOK, Committing, stage = "commit", ShiftBit
  PROVE  Committing'
<1>1. trail' = Append(trail, Serial(crc', pos', left')) /\ UNCHANGED wire
  BY DEF ShiftBit
<1>2. crc \in Word /\ pos \in Nat /\ left \in 1..8 /\ trail \in Seq(Word)
  BY LayoutFacts DEF TypeOK, ShiftBit
<1>3. crc' = Shifted(crc) /\ pos' = pos + 1 /\ left' = left - 1
  BY DEF ShiftBit
<1>4. Serial(crc', pos', left') = Fold(Serial(crc, pos, left), pos \in Fed(wire))
  BY <1>2, <1>3, SerialShift
<1>5. /\ Len(trail') = pos + 2 /\ trail'[pos + 2] = Serial(crc', pos', left')
      /\ \A k \in 1..(pos + 1) : trail'[k] = trail[k]
  BY <1>1, <1>2 DEF Committing
<1>6. ASSUME NEW p \in 0..pos
      PROVE trail'[p + 2] = Fold(trail'[p + 1], p \in Fed(wire))
  <2>1. CASE p = pos
    BY <2>1, <1>2, <1>4, <1>5 DEF Committing
  <2>2. CASE p # pos
    <3>1. p \in 0..(pos - 1) /\ p + 1 \in 1..(pos + 1) /\ p + 2 \in 1..(pos + 1)
      BY <2>2, <1>2
    <3> QED
      BY <3>1, <1>5 DEF Committing, Steps
  <2> QED
    BY <2>1, <2>2
<1>7. Steps(wire, pos)'
  <2>1. pos' - 1 = pos
    BY <1>2, <1>3
  <2> QED
    BY <1>1, <1>6, <2>1 DEF Steps, Fed
<1>8. trail'[pos' + 1] = Serial(crc, pos, left)' /\ Len(trail') = pos' + 1 /\ trail'[1] = Bits
  <2>1. pos' + 1 = pos + 2 /\ 1 \in 1..(pos + 1)
    BY <1>2, <1>3
  <2>2. Serial(crc, pos, left)' = Xor(crc', Window(wire, pos', left'))
    BY <1>1 DEF Serial, Window, Fed
  <2> QED
    BY <1>5, <2>1, <2>2 DEF Committing, Serial
<1> QED
  BY <1>1, <1>7, <1>8 DEF Committing

LEMMA InField ==
  ASSUME NEW image, NEW at \in Nat, NEW b \in Bits
  PROVE  b \in FieldAt(at, image) <=> at + b \in image
BY DEF FieldAt

LEMMA InPut ==
  ASSUME NEW word \in Word, NEW at \in Nat, NEW x \in Int
  PROVE  x \in PutAt(at, word) <=> x - at \in word
<1>1. ASSUME x \in PutAt(at, word) PROVE x - at \in word
  <2>1. PICK b \in word : x = at + b
    BY <1>1 DEF PutAt
  <2>2. b \in Int
    BY DEF Word, Bits
  <2> QED
    BY <2>1, <2>2
<1>2. ASSUME x - at \in word PROVE x \in PutAt(at, word)
  <2>1. x = at + (x - at)
    OBVIOUS
  <2> QED
    BY <1>2, <2>1 DEF PutAt
<1> QED
  BY <1>1, <1>2

LEMMA SealSeals ==
  ASSUME TypeOK, Committing, Seal
  PROVE  Sealed'
<1> DEFINE check == PutAt(CrcAt, Not(crc))  front == PutAt(0, Magic)
<1>1. /\ pos = NBits /\ left = 0 /\ UNCHANGED trail
      /\ sealed' = wire \cup check \cup front
  BY DEF Seal, crcVars
<1>2. Not(crc) \in Word /\ Magic \in Word /\ crc \subseteq Bits
  BY WordAssumption DEF Not, Word, TypeOK
<1>3. check \subseteq Span(CrcAt) /\ front \subseteq Span(0)
  BY <1>2, PutTyped
<1> HIDE DEF check, front
<1>4. Fed(sealed') = Fed(wire)
  <2>1. sealed' \cap Covered = wire \cap Covered
    BY <1>1, <1>3 DEF Covered
  <2> QED
    BY <2>1, FedSame
<1>5. Steps(wire, NBits) => Steps(sealed, NBits)'
  BY <1>1, <1>4 DEF Steps, Fed
<1>6. ASSUME NEW b \in Bits PROVE b \in sealed' <=> b \in Magic
  <2>1. b \in Span(0) /\ b \notin Span(CrcAt) /\ b \in Int
    BY LayoutFacts DEF Span, Bits
  <2>2. b \in front <=> b \in Magic
    <3>1. b - 0 = b
      BY <2>1
    <3> QED
      BY <1>2, <2>1, <3>1, InPut DEF front
  <2> QED
    BY <1>1, <1>3, <2>1, <2>2 DEF Committing
<1>7. FieldAt(0, sealed') = Magic
  <2>1. \A b \in Bits : 0 + b = b
    BY DEF Bits
  <2> QED
    BY <1>2, <1>6, <2>1 DEF FieldAt, Word
<1>8. ASSUME NEW b \in Bits PROVE CrcAt + b \in sealed' <=> b \in Not(crc)
  <2>1. CrcAt + b \in Span(CrcAt) /\ CrcAt + b \notin Span(0) /\ CrcAt + b \in Int
    BY LayoutFacts DEF Span, Bits
  <2>2. CrcAt + b \in check <=> b \in Not(crc)
    <3>1. (CrcAt + b) - CrcAt = b /\ CrcAt \in Nat
      BY LayoutFacts DEF Bits
    <3> QED
      BY <1>2, <2>1, <3>1, InPut DEF check
  <2> QED
    BY <1>1, <1>3, <2>1, <2>2 DEF Committing
<1>9. FieldAt(CrcAt, sealed') = Not(crc)
  BY <1>8, <1>2 DEF FieldAt, Word
<1>10. trail[NBits + 1] = crc
  BY <1>1, SerialStart, LayoutFacts DEF Committing
<1> QED
  BY <1>1, <1>5, <1>7, <1>9, <1>10 DEF Committing, Sealed

LEMMA TrailStep == TypeOK /\ TrailInv /\ [Next]_vars => TrailInv'
<1> SUFFICES ASSUME TypeOK, TrailInv, [Next]_vars PROVE TrailInv'
  OBVIOUS
<1>1. ASSUME NEW r \in Reasons, NEW n \in Limits, Trigger(r, n)
      PROVE TrailInv'
  BY <1>1 DEF Trigger, TrailInv
<1>2. CASE HashByte
  BY <1>2 DEF HashByte, TrailInv
<1>3. ASSUME NEW body \in Bodies, HashEnd(body) \/ TriggerNull(body)
      PROVE TrailInv'
  BY <1>3, CommitStarts DEF HashEnd, TriggerNull, TypeOK
<1>4. CASE XorByte
  <2>1. ASSUME stage = "commit" PROVE Committing'
    <3>1. /\ left = 0 /\ left' = 8 /\ UNCHANGED <<pos, wire, trail>>
          /\ crc' = Xor(crc, Window(wire, pos, 8)) /\ pos \in Nat
      BY <1>4, LayoutFacts DEF XorByte, TypeOK
    <3>2. Serial(crc, pos, left)' = Serial(Xor(crc, Window(wire, pos, 8)), pos, 8)
      BY <3>1 DEF Serial, Window, Fed
    <3>3. Serial(Xor(crc, Window(wire, pos, 8)), pos, 8) = Serial(crc, pos, left)
      BY <3>1, SerialXor
    <3>4. Steps(wire, pos)' <=> Steps(wire, pos)
      BY <3>1 DEF Steps, Fed
    <3> QED
      BY <2>1, <3>1, <3>2, <3>3, <3>4 DEF TrailInv, Committing
  <2>2. Sealed' <=> Sealed
    BY <1>4 DEF XorByte, Sealed, Steps, Fed, FieldAt
  <2> QED
    BY <1>4, <2>1, <2>2 DEF XorByte, TrailInv
<1>5. CASE ShiftBit
  <2>1. stage = "check" => (Sealed' <=> Sealed)
    BY <1>5 DEF ShiftBit, Sealed, Steps, Fed, FieldAt
  <2> QED
    BY <1>5, <2>1, ShiftTrails DEF ShiftBit, TrailInv
<1>6. CASE Seal
  BY <1>6, SealSeals DEF Seal, TrailInv
<1>7. CASE UNCHANGED <<sealed, trail>> /\ stage' \in {"found", "check", "accepted", "refused"}
           /\ stage \in {"stored", "found", "check"}
  <2>1. Sealed' <=> Sealed
    BY <1>7 DEF Sealed, Steps, Fed, FieldAt
  <2> QED
    BY <1>7, <2>1 DEF TrailInv
<1>8. CASE UNCHANGED vars
  <2>1. (Sealed' <=> Sealed) /\ (Committing' <=> Committing)
    BY <1>8 DEF Sealed, Committing, Steps, Fed, FieldAt, Serial, Window, vars, crcVars
  <2> QED
    BY <1>8, <2>1 DEF vars, TrailInv
<1> QED
  BY <1>1, <1>2, <1>3, <1>4, <1>5, <1>6, <1>7, <1>8 DEF Next, Spoil, Open, Verdict

-----------------------------------------------------------------------------
(* The reader's register next to the trail.  At the first bit that has turned *)
(* over they part by Poly, whose highest bit the shifts can bring no lower    *)
(* than W bits further; by then the burst is over, and registers that are fed *)
(* the same bits never meet again.                                            *)

Apart == Xor(Serial(crc, pos, left), trail[pos + 1])
Turned == Xor(Fed(wire), Fed(sealed))

Follow(apart, turned, p) ==
  \/ apart = {} /\ \A q \in turned : p <= q
  \/ /\ apart # {}
     /\ \E f \in turned :
          /\ f < p
          /\ \A q \in turned : f <= q
          /\ p <= f + W => \E b \in apart : b + p >= W + f

CheckInv ==
  stage = "check" =>
    /\ FieldAt(0, wire) = Magic
    /\ Burst(Xor(wire, sealed)) => Follow(Apart, Turned, pos)

LEMMA SameField ==
  ASSUME NEW at \in Nat, NEW a, NEW b, FieldAt(at, a) = FieldAt(at, b)
  PROVE  Xor(a, b) \cap Span(at) = {}
<1> SUFFICES ASSUME NEW x \in Span(at) PROVE x \in a <=> x \in b
  BY InXor
<1>1. x - at \in Bits /\ at + (x - at) = x
  BY LayoutFacts DEF Span, Bits
<1> QED
  BY <1>1, InField

LEMMA TurnedBits ==
  ASSUME NEW a, NEW b
  PROVE  Xor(Fed(a), Fed(b)) = Xor(a, b) \cap Covered
<1>1. PutAt(0, Magic) \cap Covered = {}
  BY PutTyped, WordAssumption DEF Covered
<1> QED
  BY <1>1 DEF Fed, Xor

\* The bits fed that have turned over lie within one word.
LEMMA TurnedNarrow ==
  ASSUME NEW a, NEW b, Burst(Xor(a, b)), FieldAt(0, a) = FieldAt(0, b)
  PROVE  \A p, q \in Xor(Fed(a), Fed(b)) : q - p < W
<1>1. Xor(a, b) \cap Span(0) = {}
  BY SameField
<1>2. CASE Xor(a, b) \subseteq Span(CrcAt)
  <2>1. Xor(a, b) \cap Covered = {}
    BY <1>2 DEF Covered
  <2> QED
    BY <2>1, TurnedBits
<1>3. CASE \A p, q \in Xor(a, b) : q - p < W
  BY <1>3, TurnedBits
<1> QED
  BY <1>1, <1>2, <1>3 DEF Burst

\* Whenever Poly is put in, the highest bit is set.
LEMMA FoldTop ==
  ASSUME NEW a \in Word, NEW bit
  PROVE  /\ (0 \in a) # bit => W - 1 \in Fold(a, bit)
         /\ (0 \in a) = bit => Fold(a, bit) = Shr(a)
<1>1. a \in SUBSET Int /\ W - 1 \in Int /\ W \notin a /\ (W - 1) + 1 = W
  BY LayoutFacts DEF Word, Bits
<1>2. W - 1 \notin Shr(a)
  BY <1>1, InShr
<1> QED
  BY <1>2, PolyAssumption, InXor DEF Fold

LEMMA FollowStep ==
  ASSUME NEW a \in Word, NEW turned \in SUBSET Int, NEW p \in Nat,
         \A x, y \in turned : y - x < W,
         Follow(a, turned, p)
  PROVE  Follow(Fold(a, p \in turned), turned, p + 1)
<1> DEFINE next == Fold(a, p \in turned)
<1>1. a \in SUBSET Int /\ W \in Nat /\ \A b \in a : b >= 0
  BY LayoutFacts DEF Word, Bits
<1>2. ASSUME NEW b \in a, b > 0 PROVE b - 1 \in Shr(a)
  BY <1>2 DEF Shr
<1>3. CASE a = {} /\ (\A q \in turned : p <= q) /\ p \notin turned
  <2>1. next = {}
    BY <1>3, FoldTop DEF Shr
  <2>2. \A q \in turned : p + 1 <= q
    BY <1>3
  <2> QED
    BY <2>1, <2>2 DEF Follow
<1>4. CASE a = {} /\ (\A q \in turned : p <= q) /\ p \in turned
  <2>1. W - 1 \in next
    BY <1>4, FoldTop
  <2>2. (W - 1) + (p + 1) >= W + p /\ p < p + 1
    BY <1>1
  <2> QED
    BY <1>4, <2>1, <2>2 DEF Follow
<1>5. ASSUME a # {}, NEW f \in turned, f < p, \A q \in turned : f <= q,
             p <= f + W => \E b \in a : b + p >= W + f
      PROVE Follow(next, turned, p + 1)
  <2>1. f < p + 1 /\ f \in Int
    BY <1>5
  <2>2. CASE (0 \in a) # (p \in turned)
    <3>1. W - 1 \in next
      BY <2>2, FoldTop
    <3>2. (W - 1) + (p + 1) >= W + f
      BY <1>1, <1>5, <2>1
    <3> QED
      BY <1>5, <2>1, <3>1, <3>2 DEF Follow
  <2>3. CASE (0 \in a) = (p \in turned) /\ p < f + W
    <3>1. PICK b \in a : b + p >= W + f
      BY <1>1, <1>5, <2>1, <2>3
    <3>2. b > 0 /\ (b - 1) + (p + 1) >= W + f
      BY <1>1, <2>1, <2>3, <3>1
    <3>3. b - 1 \in next
      BY <1>2, <2>3, <3>2, FoldTop
    <3> QED
      BY <1>5, <2>1, <3>2, <3>3 DEF Follow
  <2>4. CASE (0 \in a) = (p \in turned) /\ ~(p < f + W)
    <3>1. p \notin turned
      <4>1. p \in turned => p - f < W
        BY <1>5
      <4> QED
        BY <1>1, <2>1, <2>4, <4>1
    <3>2. PICK b \in a : b > 0
      <4>1. PICK b \in a : TRUE
        BY <1>5
      <4>2. b # 0 /\ b >= 0 /\ b \in Int
        BY <1>1, <2>4, <3>1
      <4> QED
        BY <4>2
    <3>3. b - 1 \in next
      BY <1>2, <2>4, <3>2, FoldTop
    <3>4. ~(p + 1 <= f + W)
      BY <1>1, <2>1, <2>4
    <3> QED
      BY <1>5, <2>1, <3>3, <3>4 DEF Follow
  <2> QED
    BY <2>2, <2>3, <2>4
<1> QED
  BY <1>3, <1>4, <1>5 DEF Follow

LEMMA CheckShifts ==
  ASSUME TypeOK, TrailInv, CheckInv, stage = "check", ShiftBit
  PROVE  CheckInv'
<1>1. UNCHANGED <<wire, sealed, trail, stage>>
  BY DEF ShiftBit
<1>2. FieldAt(0, wire)' = Magic
  BY <1>1 DEF CheckInv, FieldAt
<1>3. ASSUME Burst(Xor(wire, sealed))
      PROVE Follow(Apart', Turned, pos + 1)
  <2>1. crc \in Word /\ pos \in Nat /\ left \in 1..8 /\ pos <= NBits - 1
    BY LayoutFacts DEF TypeOK, ShiftBit
  <2>2. crc' = Shifted(crc) /\ pos' = pos + 1 /\ left' = left - 1
    BY DEF ShiftBit
  <2>3. Sealed
    BY DEF TrailInv
  <2> DEFINE own == Serial(crc, pos, left)  old == trail[pos + 1]
  <2>4. own \in Word /\ old \in Word
    <3>1. pos + 1 \in 1..Len(trail) /\ trail \in Seq(Word)
      BY <2>1, <2>3, LayoutFacts DEF Sealed, TypeOK
    <3>2. old \in Word
      BY <3>1
    <3>3. left \in 0..8
      BY <2>1
    <3> QED
      BY <2>1, <3>2, <3>3, SerialTyped
  <2>5. Serial(crc, pos, left)' = Fold(own, pos \in Fed(wire))
    <3>1. Serial(Shifted(crc), pos + 1, left - 1) = Fold(own, pos \in Fed(wire))
      BY <2>1, SerialShift
    <3> QED
      BY <1>1, <2>2, <3>1 DEF Serial, Window, Fed
  <2>6. trail[pos + 2] = Fold(old, pos \in Fed(sealed))
    BY <2>1, <2>3, LayoutFacts DEF Sealed, Steps
  <2>7. Apart' = Xor(Fold(own, pos \in Fed(wire)), Fold(old, pos \in Fed(sealed)))
    <3>1. pos' + 1 = pos + 2
      BY <2>1, <2>2
    <3> QED
      BY <1>1, <2>5, <2>6, <3>1 DEF Apart
  <2>8. Apart' = Fold(Apart, pos \in Turned)
    <3>1. own \in SUBSET Int /\ old \in SUBSET Int
      BY <2>4 DEF Word, Bits
    <3> QED
      BY <2>7, <3>1, FoldLinear DEF Apart, Turned
  <2>9. Apart \in Word
    BY <2>4, XorWord DEF Apart
  <2>10. Turned \in SUBSET Int
    BY FedTyped, XorInt DEF Turned
  <2>11. \A x, y \in Turned : y - x < W
    BY <1>3, <2>3, TurnedNarrow DEF CheckInv, Sealed, Turned
  <2>12. Follow(Apart, Turned, pos)
    BY <1>3 DEF CheckInv
  <2> QED
    BY <2>1, <2>8, <2>9, <2>10, <2>11, <2>12, FollowStep
<1>4. Turned' = Turned /\ pos' = pos + 1 /\ (Burst(Xor(wire, sealed))' <=> Burst(Xor(wire, sealed)))
  BY <1>1 DEF Turned, Fed, ShiftBit
<1>5. Burst(Xor(wire, sealed))' => Follow(Apart, Turned, pos)'
  BY <1>3, <1>4 DEF Follow
<1> QED
  BY <1>2, <1>5 DEF CheckInv

LEMMA CheckStep == TypeOK /\ TrailInv /\ CheckInv /\ [Next]_vars => CheckInv'
<1> SUFFICES ASSUME TypeOK, TrailInv, CheckInv, [Next]_vars, stage' = "check"
             PROVE  CheckInv'
  BY DEF CheckInv
<1>1. CASE XorByte
  <2>1. /\ left = 0 /\ left' = 8 /\ UNCHANGED <<pos, wire, sealed, trail, stage>>
        /\ crc' = Xor(crc, Window(wire, pos, 8)) /\ pos \in Nat
    BY <1>1, LayoutFacts DEF XorByte, TypeOK
  <2>2. Serial(crc, pos, left)' = Serial(Xor(crc, Window(wire, pos, 8)), pos, 8)
    BY <2>1 DEF Serial, Window, Fed
  <2>3. Serial(Xor(crc, Window(wire, pos, 8)), pos, 8) = Serial(crc, pos, left)
    BY <2>1, SerialXor
  <2>4. Apart' = Apart /\ Turned' = Turned
    BY <2>1, <2>2, <2>3 DEF Apart, Turned, Fed
  <2> QED
    BY <2>1, <2>4 DEF CheckInv, FieldAt, Follow
<1>2. CASE ShiftBit
  BY <1>2, CheckShifts DEF ShiftBit
<1>3. CASE Open
  <2>1. /\ FieldAt(0, wire) = Magic /\ UNCHANGED <<wire, sealed, trail>>
        /\ crc' = Bits /\ pos' = 0 /\ left' = 0
    BY <1>3 DEF Open, StartCrc
  <2>2. Serial(crc, pos, left)' = Bits
    <3>1. Serial(Bits, 0, 0) = Bits
      BY SerialStart
    <3> QED
      BY <2>1, <3>1 DEF Serial, Window, Fed
  <2>3. trail'[1] = Bits
    BY <1>3, <2>1 DEF Open, TrailInv, Sealed
  <2>4. Apart' = {}
    <3>1. pos' + 1 = 1
      BY <2>1
    <3>2. Apart' = Xor(Serial(crc, pos, left)', trail'[pos' + 1])
      BY DEF Apart
    <3> QED
      BY <2>2, <2>3, <3>1, <3>2, XorFacts
  <2>5. \A q \in Turned' : 0 <= q
    BY FedTyped, InXor DEF Turned, Xor
  <2> QED
    BY <2>1, <2>4, <2>5 DEF CheckInv, Follow, FieldAt
<1>4. CASE UNCHANGED vars
  BY <1>4 DEF vars, crcVars, CheckInv, FieldAt, Follow, Apart, Turned, Serial, Window, Fed
<1> QED
  BY <1>1, <1>2, <1>3, <1>4
  DEF Next, Trigger, HashByte, HashEnd, TriggerNull, Commit, Seal, Spoil, Verdict, TypeOK

LEMMA VerdictRefuses ==
  ASSUME TypeOK, TrailInv, CheckInv, Verdict, stage' = "accepted",
         Burst(Xor(wire, sealed))
  PROVE  wire = sealed
<1>1. /\ FieldAt(CrcAt, wire) = Not(crc) /\ FieldAt(0, wire) = Magic
      /\ Sealed /\ Follow(Apart, Turned, NBits) /\ pos = NBits /\ left = 0
  BY DEF Verdict, CheckInv, TrailInv
<1>2. Xor(wire, sealed) \cap Span(0) = {}
  BY <1>1, SameField DEF Sealed
<1>3. Turned \subseteq 0..(NBits - 1) /\ Turned = Xor(wire, sealed) \cap Covered
  BY FedTyped, TurnedBits, InXor DEF Turned, Xor
<1> DEFINE last == trail[NBits + 1]
<1>4. crc \in Word /\ last \in Word /\ Apart = Xor(crc, last)
  <2>1. NBits + 1 \in 1..Len(trail)
    BY <1>1, LayoutFacts DEF Sealed
  <2> QED
    BY <1>1, <2>1, SerialStart, LayoutFacts DEF Apart, TypeOK
<1>5. Turned = {} => Apart = {}
  BY <1>1 DEF Follow
<1>6. Apart = {} => Turned = {}
  <2>1. Apart = {} => \A q \in Turned : NBits <= q
    BY <1>1 DEF Follow
  <2> QED
    BY <1>3, <2>1, LayoutFacts
<1>7. Apart = {} <=> FieldAt(CrcAt, wire) = FieldAt(CrcAt, sealed)
  <2>1. FieldAt(CrcAt, sealed) = Not(last)
    BY <1>1 DEF Sealed
  <2>2. Not(crc) = Not(last) <=> crc = last
    BY <1>4 DEF Not, Word
  <2>3. Apart = {} <=> crc = last
    BY <1>4, XorFacts
  <2> QED
    BY <1>1, <2>1, <2>2, <2>3
<1>8. Xor(wire, sealed) \cap Span(CrcAt) = {}
  <2>1. CASE Xor(wire, sealed) \subseteq Span(CrcAt)
    <3>1. Turned = {}
      BY <1>3, <2>1 DEF Covered
    <3> QED
      BY <1>5, <1>7, <3>1, SameField, LayoutFacts
  <2> QED
    BY <1>2, <2>1 DEF Burst
<1>9. FieldAt(CrcAt, wire) = FieldAt(CrcAt, sealed)
  <2> SUFFICES ASSUME NEW b \in Bits PROVE CrcAt + b \in wire <=> CrcAt + b \in sealed
    BY DEF FieldAt
  <2>1. CrcAt + b \in Span(CrcAt)
    BY LayoutFacts DEF Bits, Span
  <2> QED
    BY <1>8, <2>1, InXor
<1>10. Xor(wire, sealed) \cap Covered = {}
  BY <1>3, <1>6, <1>7, <1>9
<1>11. Xor(wire, sealed) = {}
  BY <1>2, <1>8, <1>10 DEF TypeOK, Covered, Xor
<1> QED
  BY <1>11, XorFacts

\* An image that changed in one burst since its commit is never accepted: whatever
\* the width, the polynomial, the layout, the contents and the place of the burst.
THEOREM BurstsAreRefused == Spec => []BurstsRefused
<1> DEFINE IInv == TypeOK /\ TrailInv /\ CheckInv /\ BurstsRefused
<1>1. Init => IInv
  BY InitTyped DEF Init, TrailInv, CheckInv, BurstsRefused
<1>2. IInv /\ [Next]_vars => IInv'
  <2> SUFFICES ASSUME IInv, [Next]_vars PROVE BurstsRefused'
    BY DigestStepTyped, TrailStep, CheckStep
  <2>1. CASE Verdict
    BY <2>1, VerdictRefuses DEF BurstsRefused, Verdict
  <2>2. CASE UNCHANGED vars
    BY <2>2 DEF vars, BurstsRefused
  <2>3. CASE ~Verdict /\ ~UNCHANGED vars
    <3>1. stage' # "accepted"
      BY <2>3 DEF Next, Trigger, HashByte, HashEnd, TriggerNull, Commit, XorByte, ShiftBit,
                  Seal, Spoil, Open, TypeOK
    <3> QED
      BY <3>1 DEF BurstsRefused
  <2> QED
    BY <2>1, <2>2, <2>3
<1>3. IInv => BurstsRefused
  OBVIOUS
<1> QED
  BY <1>1, <1>2, <1>3, PTL DEF Spec

-----------------------------------------------------------------------------
(* The host divides polynomials.  After k steps of the division, what is left *)
(* is the device's register after k bits, its lowest bit the highest          *)
(* coefficient, together with the bits not yet fed.                           *)

IsRegister(f, image) ==
  /\ f[0] = Bits
  /\ \A k \in 1..NBits : f[k] = Fold(f[k - 1], (k - 1) \in Fed(image))

LEMMA FoldWord ==
  ASSUME NEW a \in Word, NEW bit
  PROVE  Fold(a, bit) \in Word
BY XorWord, ShrWord, WordAssumption DEF Fold

LEMMA RegisterExists ==
  ASSUME NEW image
  PROVE  \E f \in [0..NBits -> Word] : IsRegister(f, image)
<1> DEFINE step == [k \in 1..NBits |-> [a \in Word |-> Fold(a, (k - 1) \in Fed(image))]]
<1>1. \A k \in 1..NBits, a \in Word : Fold(a, (k - 1) \in Fed(image)) \in Word
  BY FoldWord
<1>2. step \in [1..NBits -> [Word -> Word]]
  <2> DEFINE row(k) == [a \in Word |-> Fold(a, (k - 1) \in Fed(image))]
  <2>1. \A k \in 1..NBits : row(k) \in [Word -> Word]
    BY <1>1
  <2> HIDE DEF row
  <2>2. [k \in 1..NBits |-> row(k)] \in [1..NBits -> [Word -> Word]]
    BY <2>1
  <2> QED
    BY <2>2 DEF row
<1>3. \A k \in 1..NBits, a \in Word : step[k][a] = Fold(a, (k - 1) \in Fed(image))
  OBVIOUS
<1>0. Bits \in Word /\ NBits \in Nat
  BY BitsWord, LayoutFacts
<1> HIDE DEF step
<1>4. PICK f \in [0..NBits -> Word] : f[0] = Bits /\ \A k \in 1..NBits : f[k] = step[k][f[k - 1]]
  BY <1>0, <1>2, Recursion
<1>5. ASSUME NEW k \in 1..NBits PROVE f[k] = Fold(f[k - 1], (k - 1) \in Fed(image))
  <2>1. k - 1 \in 0..NBits /\ f[k - 1] \in Word
    BY LayoutFacts
  <2> QED
    BY <1>3, <1>4, <2>1
<1> QED
  BY <1>4, <1>5 DEF IsRegister

LEMMA InMirror ==
  ASSUME NEW a \in SUBSET Int, NEW t \in Int, NEW x \in Int
  PROVE  x \in {t - q : q \in a} <=> t - x \in a
<1>1. ASSUME t - x \in a PROVE x \in {t - q : q \in a}
  <2>1. x = t - (t - x)
    OBVIOUS
  <2> QED
    BY <1>1, <2>1
<1>2. ASSUME x \in {t - q : q \in a} PROVE t - x \in a
  <2>1. PICK q \in a : x = t - q
    BY <1>2
  <2>2. t - x = q
    BY <2>1
  <2> QED
    BY <2>2
<1> QED
  BY <1>1, <1>2

Top == NBits + W - 1
Data(image) == image \ Span(CrcAt)
Dividend(image) == Xor({Top - q : q \in Data(image)}, NBits..Top)
Divided(rest, k) ==
  IF Top - k + 1 \in rest THEN Xor(rest, {Top - k + 1 - W + d : d \in Generator}) ELSE rest

\* The rest after k steps, from the register after k bits.
Rest(register, image, k) ==
  Xor({Top - k - j : j \in register}, {Top - q : q \in {r \in Data(image) : r >= k}})

LEMMA InRest ==
  ASSUME NEW register \in Word, NEW image \in SUBSET Int, NEW k \in 0..NBits, NEW x \in Int
  PROVE  x \in Rest(register, image, k) <=>
           ~(Top - k - x \in register <=> (Top - x \in Data(image) /\ Top - x >= k))
<1> DEFINE late == {r \in Data(image) : r >= k}
<1>1. /\ register \in SUBSET Int /\ late \in SUBSET Int /\ k \in Int /\ Top \in Int
  <2>1. register \in SUBSET Int
    BY DEF Word, Bits
  <2>2. late \in SUBSET Int
    BY DEF Data
  <2>3. k \in Int /\ Top \in Int
    BY LayoutFacts DEF Top
  <2> QED
    BY <2>1, <2>2, <2>3
<1>2. x \in {Top - q : q \in late} <=> Top - x \in late
  <2> HIDE DEF late
  <2> QED
    BY <1>1, InMirror
<1>3. x \in {Top - k - j : j \in register} <=> Top - k - x \in register
  <2>1. Top - k \in Int
    BY <1>1
  <2> QED
    BY <1>1, <2>1, InMirror
<1> QED
  BY <1>2, <1>3, InXor DEF Rest

LEMMA RestInt ==
  ASSUME NEW register \in Word, NEW image \in SUBSET Int, NEW k \in 0..NBits
  PROVE  Rest(register, image, k) \in SUBSET Int
BY LayoutFacts DEF Rest, Xor, Data, Word, Bits, Top

LEMMA InAligned ==
  ASSUME NEW k \in 1..NBits, NEW x \in Int
  PROVE  x \in {Top - k + 1 - W + d : d \in Generator} <=> x = Top - k + 1 \/ Top - k - x \in Poly
<1>1. Top \in Int /\ k \in Int /\ W \in Int /\ Poly \in SUBSET Int
  BY LayoutFacts, WordAssumption DEF Top, Word, Bits
<1>2. ASSUME x \in {Top - k + 1 - W + d : d \in Generator}
      PROVE  x = Top - k + 1 \/ Top - k - x \in Poly
  <2>1. PICK d \in Generator : x = Top - k + 1 - W + d
    BY <1>2
  <2>2. CASE d = W
    BY <1>1, <2>1, <2>2
  <2>3. ASSUME NEW b \in Poly, d = W - 1 - b PROVE Top - k - x \in Poly
    <3>1. Top - k - x = b
      BY <1>1, <2>1, <2>3
    <3> QED
      BY <3>1
  <2> QED
    BY <2>1, <2>2, <2>3 DEF Generator
<1>3. ASSUME x = Top - k + 1 PROVE x \in {Top - k + 1 - W + d : d \in Generator}
  <2>1. W \in Generator /\ x = Top - k + 1 - W + W
    BY <1>1, <1>3 DEF Generator
  <2> QED
    BY <2>1
<1>4. ASSUME Top - k - x \in Poly PROVE x \in {Top - k + 1 - W + d : d \in Generator}
  <2> DEFINE d == W - 1 - (Top - k - x)
  <2>1. d \in Generator
    BY <1>4 DEF Generator
  <2>2. x = Top - k + 1 - W + d
    BY <1>1
  <2> HIDE DEF d
  <2> QED
    BY <2>1, <2>2
<1> QED
  BY <1>2, <1>3, <1>4

LEMMA InFold ==
  ASSUME NEW a \in Word, NEW bit \in BOOLEAN, NEW y \in Int
  PROVE  y \in Fold(a, bit) <=>
           ~((y # -1 /\ y + 1 \in a) <=> ((0 \in a) # bit /\ y \in Poly))
<1>1. a \in SUBSET Int
  BY DEF Word, Bits
<1>2. y \in Shr(a) <=> y # -1 /\ y + 1 \in a
  BY <1>1, InShr
<1> QED
  BY <1>2, InXor DEF Fold

LEMMA DivisionStep ==
  ASSUME NEW image \in SUBSET Int, NEW a \in Word, NEW k \in 1..NBits
  PROVE  Rest(Fold(a, (k - 1) \in Data(image)), image, k) = Divided(Rest(a, image, k - 1), k)
<1> DEFINE p == k - 1
           bit == p \in Data(image)
           next == Fold(a, bit)
           old == Rest(a, image, p)
           aligned == {Top - k + 1 - W + d : d \in Generator}
<1>0. next \in Word /\ p \in 0..NBits /\ k \in 0..NBits /\ Top \in Int /\ k \in Int /\ bit \in BOOLEAN
  BY FoldWord, LayoutFacts DEF Top
<1>1. \A y \in a : y >= 0 /\ y \in Int
  BY LayoutFacts DEF Word, Bits
<1>2. \A y \in next : y >= 0 /\ y \in Int
  <2> HIDE DEF next
  <2> QED
    BY <1>0, LayoutFacts DEF Word, Bits
<1>3. Top - p \in old <=> (0 \in a) # bit
  <2>1. Top - p - (Top - p) = 0 /\ Top - (Top - p) = p /\ Top - p \in Int /\ p >= p
    BY <1>0
  <2>2. Top - p \in old <=> ~(0 \in a <=> bit)
    <3> HIDE DEF p
    <3> QED
      BY <1>0, <2>1, InRest
  <2> QED
    BY <1>0, <2>2
<1>4. ASSUME NEW x \in Int
      PROVE x \in Rest(next, image, k) <=> x \in Divided(old, k)
  <2> DEFINE y == Top - k - x
             fed == Top - x \in Data(image)
  <2>1. x \in Rest(next, image, k) <=> ~(y \in next <=> (fed /\ Top - x >= k))
    <3> HIDE DEF next
    <3> QED
      BY <1>0, InRest
  <2>2. x \in old <=> ~(y + 1 \in a <=> (fed /\ Top - x >= p))
    <3>1. Top - p - x = y + 1
      BY <1>0
    <3>2. x \in old <=> ~(Top - p - x \in a <=> (Top - x \in Data(image) /\ Top - x >= p))
      <4> HIDE DEF p
      <4> QED
        BY <1>0, InRest
    <3> QED
      BY <3>1, <3>2
  <2>3. x \in aligned <=> x = Top - p \/ y \in Poly
    <3>1. Top - k + 1 = Top - p
      BY <1>0
    <3> QED
      BY <3>1, InAligned
  <2>4. y \in next <=> ~((y # -1 /\ y + 1 \in a) <=> ((0 \in a) # bit /\ y \in Poly))
    <3>1. y \in Int
      BY <1>0
    <3> HIDE DEF bit, y
    <3> QED
      BY <1>0, <3>1, InFold
  <2>5. x \in Divided(old, k) <=> ~(x \in old <=> ((0 \in a) # bit /\ x \in aligned))
    <3>1. Top - k + 1 = Top - p
      BY <1>0
    <3> HIDE DEF old, aligned
    <3>2. Top - k + 1 \in old <=> (0 \in a) # bit
      BY <1>3, <3>1
    <3> QED
      BY <3>2, InXor DEF Divided, aligned
  <2>6. CASE x = Top - p
    <3>1. y = -1 /\ ~(Top - x >= k) /\ Top - x = p
      BY <1>0, <2>6
    <3>2. y \notin next
      BY <1>2, <3>1
    <3>3. x \notin Rest(next, image, k)
      BY <2>1, <3>1, <3>2
    <3>4. x \in old <=> (0 \in a) # bit
      BY <1>3, <2>6
    <3>5. x \in aligned
      BY <2>3, <2>6
    <3> HIDE DEF next, old, aligned, bit
    <3> QED
      BY <2>5, <3>3, <3>4, <3>5
  <2>7. CASE x # Top - p
    <3>1. y # -1 /\ (Top - x >= k <=> Top - x >= p /\ Top - x # p) /\ Top - x # p
      BY <1>0, <2>7
    <3> HIDE DEF next, old, aligned, bit, y, fed, p
    <3> QED
      BY <2>1, <2>2, <2>3, <2>4, <2>5, <2>7, <3>1
  <2> QED
    BY <2>6, <2>7
<1>5. Rest(next, image, k) \in SUBSET Int /\ Divided(old, k) \in SUBSET Int
  <2>1. Rest(next, image, k) \in SUBSET Int /\ old \in SUBSET Int
    <3> HIDE DEF next
    <3> QED
      BY <1>0, RestInt
  <2>2. aligned \in SUBSET Int
    BY LayoutFacts, WordAssumption DEF Top, Generator, Word, Bits
  <2> HIDE DEF next, old, aligned
  <2> QED
    BY <2>1, <2>2, XorInt DEF Divided, aligned
<1> HIDE DEF next, old
<1>6. Rest(next, image, k) = Divided(old, k)
  BY <1>4, <1>5
<1> QED
  BY <1>6 DEF next, old

LEMMA RestStarts ==
  ASSUME NEW image \in SUBSET Int, \A q \in image : q >= 0
  PROVE  Rest(Bits, image, 0) = Dividend(image)
<1>1. {r \in Data(image) : r >= 0} = Data(image)
  BY DEF Data
<1>2. {Top - 0 - j : j \in Bits} = NBits..Top
  <2>1. Bits \in SUBSET Int /\ Top \in Int /\ NBits \in Int /\ W \in Int
    BY LayoutFacts DEF Bits, Top
  <2>2. ASSUME NEW x \in Int
        PROVE x \in {Top - j : j \in Bits} <=> x \in NBits..Top
    <3>1. x \in {Top - j : j \in Bits} <=> Top - x \in Bits
      BY <2>1, InMirror
    <3>2. Top - x \in Bits <=> x \in NBits..Top
      BY LayoutFacts DEF Bits, Top
    <3> QED
      BY <3>1, <3>2
  <2>3. {Top - j : j \in Bits} \subseteq Int
    BY <2>1
  <2>4. Top - 0 = Top
    BY <2>1
  <2> QED
    BY <2>2, <2>3, <2>4
<1> DEFINE bits == {Top - q : q \in Data(image)}
<1>3. Rest(Bits, image, 0) = Xor(NBits..Top, bits)
  BY <1>1, <1>2 DEF Rest
<1>4. Dividend(image) = Xor(bits, NBits..Top)
  BY DEF Dividend
<1> HIDE DEF bits
<1> QED
  BY <1>3, <1>4, XorFacts

LEMMA RestEnds ==
  ASSUME NEW register \in Word, NEW image, image \subseteq 0..(NBits - 1)
  PROVE  {W - 1 - d : d \in Rest(register, image, NBits)} = register
<1> DEFINE last == Rest(register, image, NBits)
<1>1. /\ NBits \in 0..NBits /\ NBits \in Int /\ W \in Int /\ image \in SUBSET Int
      /\ register \in SUBSET Int /\ Top = NBits + W - 1
  BY LayoutFacts DEF Word, Bits, Top
<1>2. last \in SUBSET Int
  BY <1>1, RestInt
<1>3. ASSUME NEW x \in Int PROVE x \in {W - 1 - d : d \in last} <=> x \in register
  <2> DEFINE y == W - 1 - x
  <2>1. x \in {W - 1 - d : d \in last} <=> y \in last
    <3> HIDE DEF last
    <3>1. W - 1 \in Int
      BY <1>1
    <3> QED
      BY <1>2, <3>1, InMirror
  <2>2. y \in last <=> ~(Top - NBits - y \in register <=> (Top - y \in Data(image) /\ Top - y >= NBits))
    <3>1. y \in Int
      BY <1>1
    <3> HIDE DEF y
    <3> QED
      BY <1>1, <3>1, InRest
  <2>3. Top - NBits - y = x
    BY <1>1
  <2>4. ~(Top - y \in Data(image) /\ Top - y >= NBits)
    BY <1>1 DEF Data
  <2> HIDE DEF y, last
  <2> QED
    BY <2>1, <2>2, <2>3, <2>4
<1>4. {W - 1 - d : d \in last} \in SUBSET Int
  <2> HIDE DEF last
  <2> QED
    BY <1>1, <1>2
<1> HIDE DEF last
<1>5. {W - 1 - d : d \in last} = register
  BY <1>1, <1>3, <1>4
<1> QED
  BY <1>5 DEF last

LEMMA HostIsDevice ==
  ASSUME NEW image, image \subseteq 0..(NBits - 1), FieldAt(0, image) = Magic,
         NEW f \in [0..NBits -> Word], IsRegister(f, image)
  PROVE  HostCrc(image) = Not(f[NBits])
<1> DEFINE R == CHOOSE g : g = [k \in 0..NBits |->
                  IF k = 0 THEN Dividend(image) ELSE Divided(g[k - 1], k)]
           h == [k \in 0..NBits |-> Rest(f[k], image, k)]
<1>1. HostCrc(image) = Not({W - 1 - d : d \in R[NBits]})
  BY DEF HostCrc, Dividend, Divided, Top, Data
<1>2. Fed(image) = Data(image)
  <2>1. image \cap Span(0) = PutAt(0, Magic)
    <3>1. ASSUME NEW x \in Span(0) PROVE x \in image <=> x \in PutAt(0, Magic)
      <4>1. x \in Bits /\ x \in Int /\ 0 + x = x /\ x - 0 = x
        BY LayoutFacts DEF Span, Bits
      <4>2. x \in Magic <=> x \in image
        <5>1. x \in FieldAt(0, image) <=> 0 + x \in image
          BY <4>1, InField
        <5> QED
          BY <4>1, <5>1
      <4>3. x \in PutAt(0, Magic) <=> x - 0 \in Magic
        BY <4>1, WordAssumption, InPut
      <4> QED
        BY <4>1, <4>2, <4>3
    <3>2. PutAt(0, Magic) \subseteq Span(0)
      BY PutTyped, WordAssumption
    <3> QED
      BY <3>1, <3>2
  <2>2. Span(0) \cap Span(CrcAt) = {} /\ Span(0) \subseteq 0..(NBits - 1)
    BY LayoutFacts DEF Span
  <2> QED
    BY <2>1, <2>2 DEF Fed, Covered, Data
<1>3. image \in SUBSET Int /\ (\A q \in image : q >= 0) /\ NBits \in Nat /\ f[0] = Bits
  BY LayoutFacts DEF IsRegister
<1>4. \A k \in 0..NBits : h[k] = IF k = 0 THEN Dividend(image) ELSE Divided(h[k - 1], k)
  <2> SUFFICES ASSUME NEW k \in 0..NBits
               PROVE h[k] = IF k = 0 THEN Dividend(image) ELSE Divided(h[k - 1], k)
    OBVIOUS
  <2>1. h[k] = Rest(f[k], image, k)
    OBVIOUS
  <2>2. CASE k = 0
    BY <1>3, <2>1, <2>2, RestStarts
  <2>3. CASE k # 0
    <3>1. k \in 1..NBits /\ k - 1 \in 0..NBits /\ f[k - 1] \in Word
      BY <1>3, <2>3
    <3>2. f[k] = Fold(f[k - 1], (k - 1) \in Data(image))
      BY <1>2, <3>1 DEF IsRegister
    <3>3. h[k - 1] = Rest(f[k - 1], image, k - 1)
      BY <3>1
    <3>4. h[k] = Divided(h[k - 1], k)
      <4> HIDE DEF h
      <4> QED
        BY <1>3, <2>1, <3>1, <3>2, <3>3, DivisionStep
    <3> QED
      BY <2>3, <3>4
  <2> QED
    BY <2>2, <2>3
<1>5. R = [k \in 0..NBits |-> IF k = 0 THEN Dividend(image) ELSE Divided(R[k - 1], k)]
  <2>1. h = [k \in 0..NBits |-> IF k = 0 THEN Dividend(image) ELSE Divided(h[k - 1], k)]
    <3>1. h = [k \in 0..NBits |-> h[k]]
      OBVIOUS
    <3> HIDE DEF h
    <3> QED
      BY <1>4, <3>1, Zenon
  <2> HIDE DEF h
  <2> QED
    BY <2>1, Zenon
<1>6. \A k \in 0..NBits : R[k] = IF k = 0 THEN Dividend(image) ELSE Divided(R[k - 1], k)
  <2> HIDE DEF R
  <2> QED
    BY <1>5, Zenon
<1> HIDE DEF R, h
<1> DEFINE T == {k \in Nat : k <= NBits => R[k] = h[k]}
<1>7. 0 \in T
  BY <1>3, <1>4, <1>6
<1>8. ASSUME NEW k \in Nat, k \in T PROVE k + 1 \in T
  <2> SUFFICES ASSUME k + 1 <= NBits PROVE R[k + 1] = h[k + 1]
    OBVIOUS
  <2>1. k + 1 \in 0..NBits /\ k + 1 # 0 /\ (k + 1) - 1 = k /\ R[k] = h[k]
    BY <1>3, <1>8
  <2> QED
    BY <1>4, <1>6, <2>1
<1>9. R[NBits] = h[NBits]
  <2>1. NBits \in T
    <3> HIDE DEF T
    <3> QED
      BY <1>3, <1>7, <1>8, Induction
  <2> QED
    BY <1>3, <2>1
<1>10. h[NBits] = Rest(f[NBits], image, NBits) /\ f[NBits] \in Word
  BY <1>3 DEF h
<1> QED
  BY <1>1, <1>9, <1>10, RestEnds

-----------------------------------------------------------------------------
(* The reader's register is the one of the image it reads. *)

RegisterInv ==
  stage = "check" =>
    /\ FieldAt(0, wire) = Magic
    /\ \A f \in [0..NBits -> Word] : IsRegister(f, wire) => Serial(crc, pos, left) = f[pos]

LEMMA RegisterStep == TypeOK /\ RegisterInv /\ [Next]_vars => RegisterInv'
<1> SUFFICES ASSUME TypeOK, RegisterInv, [Next]_vars, stage' = "check"
             PROVE  RegisterInv'
  BY DEF RegisterInv
<1>0. ASSUME UNCHANGED wire, NEW f PROVE IsRegister(f, wire)' <=> IsRegister(f, wire)
  BY <1>0 DEF IsRegister, Fed
<1>1. CASE XorByte
  <2>1. /\ left = 0 /\ left' = 8 /\ UNCHANGED <<pos, wire, stage>>
        /\ crc' = Xor(crc, Window(wire, pos, 8)) /\ pos \in Nat
    BY <1>1, LayoutFacts DEF XorByte, TypeOK
  <2>2. Serial(crc, pos, left)' = Serial(Xor(crc, Window(wire, pos, 8)), pos, 8)
    BY <2>1 DEF Serial, Window, Fed
  <2>3. Serial(Xor(crc, Window(wire, pos, 8)), pos, 8) = Serial(crc, pos, left)
    BY <2>1, SerialXor
  <2> QED
    BY <1>0, <2>1, <2>2, <2>3 DEF RegisterInv, FieldAt
<1>2. CASE ShiftBit
  <2>1. /\ crc \in Word /\ pos \in Nat /\ left \in 1..8 /\ pos + 1 \in 1..NBits
        /\ crc' = Shifted(crc) /\ pos' = pos + 1 /\ left' = left - 1
        /\ UNCHANGED <<wire, stage>>
    BY <1>2, LayoutFacts DEF ShiftBit, TypeOK
  <2>2. Serial(crc, pos, left)' = Fold(Serial(crc, pos, left), pos \in Fed(wire))
    <3>1. Serial(Shifted(crc), pos + 1, left - 1) = Fold(Serial(crc, pos, left), pos \in Fed(wire))
      BY <2>1, SerialShift
    <3> QED
      BY <2>1, <3>1 DEF Serial, Window, Fed
  <2>3. ASSUME NEW f \in [0..NBits -> Word], IsRegister(f, wire)
        PROVE  Serial(crc, pos, left)' = f[pos + 1]
    <3>1. f[pos + 1] = Fold(f[pos], pos \in Fed(wire))
      <4>1. (pos + 1) - 1 = pos
        BY <2>1
      <4> QED
        BY <2>1, <2>3, <4>1 DEF IsRegister
    <3>2. Serial(crc, pos, left) = f[pos]
      BY <1>2, <2>3 DEF RegisterInv, ShiftBit
    <3> QED
      BY <2>2, <3>1, <3>2
  <2> QED
    BY <1>0, <2>1, <2>3 DEF RegisterInv, FieldAt
<1>3. CASE Open
  <2>1. /\ FieldAt(0, wire) = Magic /\ UNCHANGED wire
        /\ crc' = Bits /\ pos' = 0 /\ left' = 0
    BY <1>3 DEF Open, StartCrc
  <2>2. Serial(crc, pos, left)' = Bits
    <3>1. Serial(Bits, 0, 0) = Bits
      BY SerialStart
    <3> QED
      BY <2>1, <3>1 DEF Serial, Window, Fed
  <2> QED
    BY <1>0, <2>1, <2>2 DEF RegisterInv, FieldAt, IsRegister
<1>4. CASE UNCHANGED vars
  BY <1>0, <1>4 DEF vars, crcVars, RegisterInv, FieldAt, Serial, Window, Fed
<1> QED
  BY <1>1, <1>2, <1>3, <1>4
  DEF Next, Trigger, HashByte, HashEnd, TriggerNull, Commit, Seal, Spoil, Verdict, TypeOK

LEMMA VerdictAgrees ==
  ASSUME TypeOK, RegisterInv, Verdict
  PROVE  ReadersAgree'
<1>1. /\ FieldAt(0, wire) = Magic /\ pos = NBits /\ left = 0 /\ UNCHANGED wire
      /\ stage' = IF FieldAt(CrcAt, wire) = Not(crc) THEN "accepted" ELSE "refused"
  BY DEF Verdict, RegisterInv
<1>2. PICK f \in [0..NBits -> Word] : IsRegister(f, wire)
  BY RegisterExists
<1>3. crc = f[NBits]
  <2>1. Serial(crc, pos, left) = f[pos]
    BY <1>2 DEF RegisterInv, Verdict
  <2> QED
    BY <1>1, <2>1, SerialStart, LayoutFacts
<1>4. HostCrc(wire) = Not(f[NBits])
  BY <1>1, <1>2, HostIsDevice DEF TypeOK
<1>5. HostCrc(wire') = HostCrc(wire) /\ FieldAt(0, wire') = Magic
      /\ FieldAt(CrcAt, wire') = FieldAt(CrcAt, wire)
  BY <1>1
<1>6. stage' = "accepted" <=> FieldAt(CrcAt, wire) = HostCrc(wire)
  BY <1>1, <1>3, <1>4
<1> QED
  BY <1>5, <1>6 DEF ReadersAgree

\* Device and host agree on every image: the register, reflected, seeded, shifted a
\* byte at a time over three pieces, is the remainder that the host's library computes.
THEOREM ReadersAlwaysAgree == Spec => []ReadersAgree
<1> DEFINE IInv == TypeOK /\ RegisterInv /\ ReadersAgree
<1>1. Init => IInv
  BY InitTyped DEF Init, RegisterInv, ReadersAgree
<1>2. IInv /\ [Next]_vars => IInv'
  <2> SUFFICES ASSUME IInv, [Next]_vars PROVE ReadersAgree'
    BY DigestStepTyped, RegisterStep
  <2>1. CASE Verdict
    BY <2>1, VerdictAgrees
  <2>2. CASE Open
    <3>1. stage' \in {"accepted", "refused"} => stage' = "refused" /\ FieldAt(0, wire') # Magic
      BY <2>2 DEF Open
    <3> QED
      BY <3>1 DEF ReadersAgree
  <2>3. CASE UNCHANGED vars
    BY <2>3 DEF vars, ReadersAgree
  <2>4. CASE ~Verdict /\ ~Open /\ ~UNCHANGED vars
    <3>1. stage' \notin {"accepted", "refused"}
      BY <2>4 DEF Next, Trigger, HashByte, HashEnd, TriggerNull, Commit, XorByte, ShiftBit,
                  Seal, Spoil
    <3> QED
      BY <3>1 DEF ReadersAgree
  <2> QED
    BY <2>1, <2>2, <2>3, <2>4
<1>3. IInv => ReadersAgree
  OBVIOUS
<1> QED
  BY <1>1, <1>2, <1>3, PTL DEF Spec

-----------------------------------------------------------------------------
(* The tag. *)

Text == Seq((SUBSET (0..7)) \ {{}})
Shown(r, n) == SubSeq(r, 1, IF Len(r) < n THEN Len(r) ELSE n)

IsHash(f, s) ==
  /\ f[0] = Basis
  /\ \A k \in 1..Len(s) : f[k] = Times(Xor(f[k - 1], s[k]), Prime)

LEMMA ShownFacts ==
  ASSUME NEW r \in Text, NEW n \in Nat
  PROVE  /\ Shown(r, n) \in Text /\ Len(Shown(r, n)) \in 0..Len(r)
         /\ Len(Shown(r, n)) = (IF Len(r) < n THEN Len(r) ELSE n)
         /\ \A k \in 1..Len(Shown(r, n)) : Shown(r, n)[k] = r[k]
<1> DEFINE m == IF Len(r) < n THEN Len(r) ELSE n
<1>1. m \in 0..Len(r) /\ Len(r) \in Nat
  BY DEF Text
<1>2. SubSeq(r, 1, m) \in Text /\ Len(SubSeq(r, 1, m)) = m
      /\ \A k \in 1..m : SubSeq(r, 1, m)[k] = r[k]
  <2> HIDE DEF m
  <2> QED
    BY <1>1 DEF Text
<1> QED
  BY <1>1, <1>2 DEF Shown

LEMMA HashExists ==
  ASSUME NEW s \in Text
  PROVE  \E f \in [0..Len(s) -> Word] : IsHash(f, s)
<1> DEFINE n == Len(s)
           step == [k \in 1..n |-> [a \in Word |-> Times(Xor(a, s[k]), Prime)]]
<1>1. \A k \in 1..n, a \in Word : Times(Xor(a, s[k]), Prime) \in Word
  BY TimesWord
<1>2. step \in [1..n -> [Word -> Word]]
  <2> DEFINE row(k) == [a \in Word |-> Times(Xor(a, s[k]), Prime)]
  <2>1. \A k \in 1..n : row(k) \in [Word -> Word]
    BY <1>1
  <2> HIDE DEF row
  <2>2. [k \in 1..n |-> row(k)] \in [1..n -> [Word -> Word]]
    BY <2>1
  <2> QED
    BY <2>2 DEF row
<1>3. \A k \in 1..n, a \in Word : step[k][a] = Times(Xor(a, s[k]), Prime)
  OBVIOUS
<1>4. Basis \in Word /\ n \in Nat
  BY WordAssumption DEF Text
<1> HIDE DEF step, n
<1>5. PICK f \in [0..n -> Word] : f[0] = Basis /\ \A k \in 1..n : f[k] = step[k][f[k - 1]]
  BY <1>2, <1>4, Recursion
<1>6. ASSUME NEW k \in 1..n PROVE f[k] = Times(Xor(f[k - 1], s[k]), Prime)
  <2>1. k - 1 \in 0..n /\ f[k - 1] \in Word
    BY <1>4
  <2> QED
    BY <1>3, <1>5, <2>1
<1> QED
  BY <1>5, <1>6 DEF IsHash, n

\* Both programs hash the same way.
LEMMA PyHashIs ==
  ASSUME NEW s \in Text, NEW g, IsHash(g, s)
  PROVE  PyHash(s) = g[Len(s)]
<1> DEFINE n == Len(s)
           H == CHOOSE h : h = [k \in 0..n |->
                  IF k = 0 THEN Basis ELSE Times(Xor(h[k - 1], s[k]), Prime)]
<1>1. PyHash(s) = H[n]
  BY DEF PyHash
<1>2. n \in Nat
  BY DEF Text
<1>3. PICK f \in [0..n -> Word] : IsHash(f, s)
  BY HashExists
<1>4. f = [k \in 0..n |-> IF k = 0 THEN Basis ELSE Times(Xor(f[k - 1], s[k]), Prime)]
  <2>1. \A k \in 0..n : f[k] = IF k = 0 THEN Basis ELSE Times(Xor(f[k - 1], s[k]), Prime)
    <3> SUFFICES ASSUME NEW k \in 0..n, k # 0
                 PROVE f[k] = Times(Xor(f[k - 1], s[k]), Prime)
      BY <1>3 DEF IsHash
    <3>1. k \in 1..Len(s)
      BY <1>2
    <3> QED
      BY <1>3, <3>1 DEF IsHash
  <2>2. f = [k \in 0..n |-> f[k]]
    OBVIOUS
  <2> QED
    BY <2>1, <2>2, Zenon
<1>5. H = [k \in 0..n |-> IF k = 0 THEN Basis ELSE Times(Xor(H[k - 1], s[k]), Prime)]
  BY <1>4, Zenon
<1>6. \A k \in 0..n : H[k] = IF k = 0 THEN Basis ELSE Times(Xor(H[k - 1], s[k]), Prime)
  <2> HIDE DEF H
  <2> QED
    BY <1>5, Zenon
<1> HIDE DEF H
<1> DEFINE T == {k \in Nat : k <= n => H[k] = g[k]}
<1>7. 0 \in T
  BY <1>2, <1>6 DEF IsHash
<1>8. ASSUME NEW k \in Nat, k \in T PROVE k + 1 \in T
  <2> SUFFICES ASSUME k + 1 <= n PROVE H[k + 1] = g[k + 1]
    OBVIOUS
  <2>1. k + 1 \in 0..n /\ k + 1 # 0 /\ (k + 1) - 1 = k /\ H[k] = g[k]
    BY <1>2, <1>8
  <2>2. H[k + 1] = Times(Xor(H[k], s[k + 1]), Prime)
    BY <1>6, <2>1
  <2>3. g[k + 1] = Times(Xor(g[k], s[k + 1]), Prime)
    <3>1. k + 1 \in 1..Len(s)
      BY <1>2
    <3> QED
      BY <2>1, <3>1 DEF IsHash
  <2> QED
    BY <2>1, <2>2, <2>3
<1>9. n \in T
  <2> HIDE DEF T
  <2> QED
    BY <1>2, <1>7, <1>8, Induction
<1> QED
  BY <1>1, <1>2, <1>9

HashInv ==
  /\ stage = "run" => reason = Null
  /\ stage = "hash" =>
       /\ read <= Len(reason) /\ limit \in Limits
       /\ \A f : IsHash(f, reason) => hash = f[read]
  /\ stage \in {"commit", "stored"} =>
       /\ FieldAt(TagAt, wire) = user_tag
       /\ reason # Null => /\ reason \in Reasons /\ limit \in Limits
                           /\ user_tag = PyHash(Shown(reason, limit))

LEMMA CommitPutsTag ==
  ASSUME NEW body \in Bodies, NEW tag \in Word, Commit(body, tag)
  PROVE  FieldAt(TagAt, wire)' = tag
<1> SUFFICES ASSUME NEW b \in Bits PROVE TagAt + b \in wire' <=> b \in tag
  <2>1. tag \subseteq Bits
    BY DEF Word
  <2> QED
    BY <2>1 DEF FieldAt
<1>1. TagAt + b \in Span(TagAt) /\ TagAt + b \in Int /\ (TagAt + b) - TagAt = b
  BY LayoutFacts DEF Span, Bits
<1>2. TagAt + b \in PutAt(TagAt, tag) <=> b \in tag
  BY <1>1, InPut, LayoutFacts
<1>3. TagAt + b \notin body
  BY <1>1, BodyAssumption
<1> QED
  BY <1>2, <1>3 DEF Commit

LEMMA SealKeepsTag ==
  ASSUME TypeOK, Seal
  PROVE  FieldAt(TagAt, wire)' = FieldAt(TagAt, wire)
<1> SUFFICES ASSUME NEW b \in Bits PROVE TagAt + b \in wire' <=> TagAt + b \in wire
  BY DEF FieldAt
<1>1. TagAt + b \in Span(TagAt) /\ TagAt + b \notin Span(0)
  BY LayoutFacts DEF Span, Bits
<1>2. TagAt + b \notin Span(CrcAt)
  BY <1>1, LayoutAssumption
<1>3. Not(crc) \in Word
  BY DEF Not, Word
<1>4. PutAt(CrcAt, Not(crc)) \subseteq Span(CrcAt) /\ PutAt(0, Magic) \subseteq Span(0)
  BY <1>3, PutTyped, WordAssumption
<1> QED
  BY <1>1, <1>2, <1>4 DEF Seal

LEMMA HashStep == TypeOK /\ HashInv /\ [Next]_vars => HashInv'
<1> SUFFICES ASSUME TypeOK, HashInv, [Next]_vars PROVE HashInv'
  OBVIOUS
<1>1. ASSUME NEW r \in Reasons, NEW n \in Limits, Trigger(r, n)
      PROVE HashInv'
  <2>1. r \in Text
    BY ReasonAssumption DEF Text
  <2>2. 0 <= Len(r)
    BY <2>1 DEF Text
  <2> QED
    BY <1>1, <2>2 DEF Trigger, HashInv, IsHash
<1>2. CASE HashByte
  <2>1. reason \in Text /\ read \in Nat
    BY <1>2, ReasonAssumption DEF HashByte, TypeOK, Text
  <2>2. read + 1 \in 1..Len(reason) /\ CharAt(reason, read) = reason[read + 1]
    BY <1>2, <2>1 DEF HashByte, More, CharAt, Text
  <2>3. ASSUME NEW f, IsHash(f, reason) PROVE hash' = f[read + 1]
    <3>1. f[read + 1] = Times(Xor(f[read], reason[read + 1]), Prime)
      <4>1. (read + 1) - 1 = read
        BY <2>1
      <4> QED
        BY <2>2, <2>3, <4>1 DEF IsHash
    <3>2. hash = f[read]
      BY <1>2, <2>3 DEF HashByte, HashInv
    <3> QED
      BY <1>2, <2>2, <3>1, <3>2 DEF HashByte
  <2>4. read + 1 <= Len(reason)
    BY <2>2
  <2> QED
    BY <1>2, <2>3, <2>4 DEF HashByte, HashInv
<1>3. ASSUME NEW body \in Bodies, HashEnd(body)
      PROVE HashInv'
  <2>1. reason \in Reasons /\ reason \in Text /\ read \in Nat /\ limit \in Nat /\ hash \in Word
        /\ limit \in Limits
        /\ read <= limit /\ read <= Len(reason)
    BY <1>3, ReasonAssumption DEF HashEnd, HashInv, TypeOK, Text
  <2>2. read >= Len(reason) \/ read >= limit
    <3>1. CASE read < Len(reason)
      <4>1. reason[read + 1] # {}
        BY <2>1, <3>1 DEF Text
      <4> QED
        BY <1>3, <2>1, <3>1, <4>1 DEF HashEnd, More, CharAt
    <3>2. CASE ~(read < Len(reason))
      BY <2>1, <3>2 DEF Text
    <3> QED
      BY <3>1, <3>2
  <2> DEFINE s == Shown(reason, limit)
  <2>3. s \in Text /\ Len(s) = read /\ (\A k \in 1..Len(s) : s[k] = reason[k])
        /\ Len(s) <= Len(reason) /\ Len(reason) \in Nat
    <3>1. Len(reason) \in Nat
      BY <2>1 DEF Text
    <3>2. Len(s) = (IF Len(reason) < limit THEN Len(reason) ELSE limit)
      BY <2>1, ShownFacts
    <3>3. Len(s) = read
      BY <2>1, <2>2, <3>1, <3>2
    <3> QED
      BY <2>1, <3>1, <3>3, ShownFacts
  <2> HIDE DEF s
  <2>4. PICK f \in [0..Len(reason) -> Word] : IsHash(f, reason)
    BY <2>1, HashExists
  <2>5. IsHash(f, s)
    <3>1. \A k \in 1..Len(s) : k \in 1..Len(reason)
      BY <2>1, <2>3
    <3> QED
      BY <2>3, <2>4, <3>1 DEF IsHash
  <2>6. hash = PyHash(s)
    <3>1. hash = f[read]
      BY <1>3, <2>4 DEF HashInv, HashEnd
    <3> QED
      BY <2>3, <2>5, <3>1, PyHashIs
  <2>7. FieldAt(TagAt, wire)' = hash /\ user_tag' = hash /\ stage' = "commit"
        /\ UNCHANGED <<reason, limit>>
    BY <1>3, <2>1, CommitPutsTag DEF HashEnd, Commit
  <2> QED
    BY <2>1, <2>6, <2>7 DEF HashInv, s
<1>4. ASSUME NEW body \in Bodies, TriggerNull(body)
      PROVE HashInv'
  <2>1. user_tag \in Word /\ Commit(body, user_tag) /\ reason' = Null
    BY <1>4 DEF TriggerNull, TypeOK, HashInv
  <2>2. FieldAt(TagAt, wire)' = user_tag /\ user_tag' = user_tag /\ stage' = "commit"
    BY <2>1, CommitPutsTag DEF Commit
  <2> QED
    BY <2>1, <2>2 DEF HashInv
<1>5. CASE XorByte \/ ShiftBit
  BY <1>5 DEF XorByte, ShiftBit, HashInv, hashVars, FieldAt
<1>6. CASE Seal
  <2>1. FieldAt(TagAt, wire)' = FieldAt(TagAt, wire)
    BY <1>6, SealKeepsTag
  <2> QED
    BY <1>6, <2>1 DEF Seal, HashInv, hashVars
<1>7. CASE (\E e \in Spoils : Spoil(e)) \/ Open \/ Verdict
  BY <1>7 DEF Spoil, Open, Verdict, HashInv
<1>8. CASE UNCHANGED vars
  BY <1>8 DEF vars, hashVars, HashInv, FieldAt
<1> QED
  BY <1>1, <1>2, <1>3, <1>4, <1>5, <1>6, <1>7, <1>8 DEF Next

\* No two texts share a hash, of which one is in the table and the other is what is
\* left of a reason.
Distinct ==
  \A r \in Reasons, n \in Limits, s \in KnownReasons :
    PyHash(s) = PyHash(Shown(r, n)) => s = Shown(r, n)

\* The host names the reason of every trigger and never another, provided only that
\* the reasons in use do not collide with the table: the device's hash is the host's.
THEOREM ReasonsAreNamed == Distinct => (Spec => []ReasonNamed)
<1> SUFFICES ASSUME Distinct PROVE Spec => []ReasonNamed
  OBVIOUS
<1> DEFINE IInv == TypeOK /\ HashInv
<1>1. Init => IInv
  BY InitTyped DEF Init, HashInv
<1>2. IInv /\ [Next]_vars => IInv'
  BY DigestStepTyped, HashStep
<1>3. IInv => ReasonNamed
  <2> SUFFICES ASSUME TypeOK, HashInv, stage = "stored", reason # Null
               PROVE Named(FieldAt(TagAt, wire)) = {Shown(reason, limit)} \cap KnownReasons
    BY DEF ReasonNamed, Shown
  <2>1. FieldAt(TagAt, wire) = PyHash(Shown(reason, limit)) /\ reason \in Reasons
        /\ limit \in Limits
    BY DEF HashInv
  <2>2. ASSUME NEW s \in KnownReasons
        PROVE PyHash(s) = PyHash(Shown(reason, limit)) <=> s = Shown(reason, limit)
    BY <2>1 DEF Distinct
  <2> QED
    BY <2>1, <2>2 DEF Named
<1> QED
  BY <1>1, <1>2, <1>3, PTL DEF Spec
=============================================================================
