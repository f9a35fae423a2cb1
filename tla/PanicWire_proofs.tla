-------------------------- MODULE PanicWire_proofs --------------------------
(***************************************************************************)
(* Theorems on PanicWire: for every magic, CRC, image, number of commits   *)
(* and arguments of theirs, with bytes of eight bits.                      *)
(***************************************************************************)
EXTENDS PanicWire, DataInduction

\* Bytes are those of C, and PANICDUMP_MAGIC is a word that is not zero.
CBytes == ByteMod = 256 /\ Magic \in Words /\ Magic # 0

CrcIsWord == \A w \in Wires : Crc(w) \in Words

\* Callers pass the flags and reasons that exist, words, and no slice or a whole one.
TypedCommits ==
  \A c \in Commits :
    /\ c.flags \in 0..15 /\ c.fault_reason \in 0..5
    /\ c.sequence \in Words /\ c.user_tag \in Words /\ c.captured_sp \in Words
    /\ c.stack_bytes \in {0, StackBytes}
    /\ c.regs \in [RegNames -> Words]
    /\ c.data \in [SliceOffsets -> Bytes]

TypedInputs ==
  /\ PortArch \in {3, 4}
  /\ TypedCommits
  /\ PowerOnImages \subseteq Wires
  /\ DecayBytes \subseteq Bytes
  /\ MaxDecays \in Nat

-----------------------------------------------------------------------------
(* Words and bytes. *)

LEMMA WordSet ==
  ASSUME CBytes
  PROVE  /\ \A v \in Words : v \in Nat /\ v <= 4294967295
         /\ \A v \in Nat : v <= 4294967295 => v \in Words
         /\ \A b : b \in Bytes <=> b \in 0..255
<1>1. PICK m \in Int : m = 256 * 256 * 256 * 256 - 1
  BY SMT
<1>2. Words = 0..m
  BY <1>1, Zenon DEF CBytes, Words
<1>3. m = 4294967295
  BY SMT, <1>1
<1>4. \A v : v \in 0..m => v \in Nat /\ v <= m
  BY SMT
<1>5. \A v \in Nat : v <= m => v \in 0..m
  BY SMT
<1>6. \A b : b \in Bytes <=> b \in 0..255
  BY SMT DEF CBytes, Bytes
<1>7. \A v \in Words : v \in Nat /\ v <= m
  BY <1>2, <1>4, Zenon
<1>8. \A v \in Nat : v <= m => v \in Words
  BY <1>2, <1>5, Zenon
<1> QED
  BY SMT, <1>3, <1>6, <1>7, <1>8

LEMMA Places ==
  ASSUME CBytes
  PROVE  Place[0] = 1 /\ Place[1] = 256 /\ Place[2] = 65536 /\ Place[3] = 16777216
BY SMT DEF CBytes, Place

\* A number is its last digit and the number the other digits make.
Digits == 0..255
Low(v) == v % 256
High(v) == v \div 256
Join(q, r) == 256 * q + r

LEMMA Divide ==
  ASSUME NEW v \in Nat
  PROVE  \E q \in Nat, r \in Digits : High(v) = q /\ Low(v) = r /\ v = Join(q, r)
<1>1. v \div 256 \in Nat /\ v % 256 \in 0..255
  BY SMT
<1>2. ASSUME NEW q \in Nat, q = v \div 256, NEW r \in 0..255, r = v % 256
      PROVE  v = 256 * q + r
  BY SMT, <1>2
<1> QED
  BY SMT, <1>1, <1>2 DEF High, Low, Join, Digits

LEMMA Undivide ==
  ASSUME NEW q \in Nat, NEW r \in Digits, NEW v \in Nat, Join(q, r) = v
  PROVE  High(v) = q /\ Low(v) = r
<1>1. PICK q1 \in Nat, r1 \in Digits : High(v) = q1 /\ Low(v) = r1 /\ v = Join(q1, r1)
  BY Divide, Zenon
<1>2. Join(q, r) = Join(q1, r1)
  BY <1>1, Zenon
<1>3. q = q1 /\ r = r1
  BY SMT, <1>2 DEF Join, Digits
<1> QED
  BY <1>1, <1>3, Zenon

LEMMA DivideTwice ==
  ASSUME NEW v \in Nat
  PROVE  /\ v \div 65536 = (v \div 256) \div 256
         /\ v \div 16777216 = ((v \div 256) \div 256) \div 256
BY SMT

LEMMA ByteIs ==
  ASSUME CBytes, NEW v \in Nat
  PROVE  /\ Byte(v, 0) = Low(v)
         /\ Byte(v, 1) = Low(High(v))
         /\ Byte(v, 2) = Low(High(High(v)))
         /\ Byte(v, 3) = Low(High(High(High(v))))
<1>1. v \div 1 = v
  BY SMT
<1> QED
  BY SMT, <1>1, Places, DivideTwice DEF CBytes, Byte, High, Low

LEMMA ByteDigits ==
  ASSUME CBytes, NEW v \in Nat,
         NEW q1, NEW q2, NEW q3, NEW r0, NEW r1, NEW r2, NEW r3,
         High(v) = q1, Low(v) = r0, High(q1) = q2, Low(q1) = r1,
         High(q2) = q3, Low(q2) = r2, Low(q3) = r3
  PROVE  Byte(v, 0) = r0 /\ Byte(v, 1) = r1 /\ Byte(v, 2) = r2 /\ Byte(v, 3) = r3
BY ByteIs, Zenon

LEMMA ByteTyped ==
  ASSUME CBytes, NEW v \in Nat, NEW i \in 0..3
  PROVE  Byte(v, i) \in Bytes
<1>1. PICK q1 \in Nat, r0 \in Digits : High(v) = q1 /\ Low(v) = r0 /\ v = Join(q1, r0)
  BY Divide, Zenon
<1>2. PICK q2 \in Nat, r1 \in Digits : High(q1) = q2 /\ Low(q1) = r1 /\ q1 = Join(q2, r1)
  BY Divide, Zenon
<1>3. PICK q3 \in Nat, r2 \in Digits : High(q2) = q3 /\ Low(q2) = r2 /\ q2 = Join(q3, r2)
  BY Divide, Zenon
<1>4. PICK q4 \in Nat, r3 \in Digits : High(q3) = q4 /\ Low(q3) = r3 /\ q3 = Join(q4, r3)
  BY Divide, Zenon
<1>5. Byte(v, 0) = r0 /\ Byte(v, 1) = r1 /\ Byte(v, 2) = r2 /\ Byte(v, 3) = r3
  BY ByteDigits, <1>1, <1>2, <1>3, <1>4, SMT
<1>6. i = 0 \/ i = 1 \/ i = 2 \/ i = 3
  BY SMT
<1>7. {r0, r1, r2, r3} \subseteq Bytes
  BY SMT, WordSet DEF Digits
<1> QED
  BY <1>5, <1>6, <1>7, Zenon

\* The four bytes of a word make up the word again (store_u32, load_u32).
LEMMA WordOfBytes ==
  ASSUME CBytes, NEW v \in Words
  PROVE  Byte(v, 0) + 256 * (Byte(v, 1) + 256 * (Byte(v, 2) + 256 * Byte(v, 3))) = v
<1>0. v \in Nat
  BY SMT, WordSet
<1>1. PICK q1 \in Nat, r0 \in Digits : High(v) = q1 /\ Low(v) = r0 /\ v = Join(q1, r0)
  BY <1>0, Divide, Zenon
<1>2. PICK q2 \in Nat, r1 \in Digits : High(q1) = q2 /\ Low(q1) = r1 /\ q1 = Join(q2, r1)
  BY Divide, Zenon
<1>3. PICK q3 \in Nat, r2 \in Digits : High(q2) = q3 /\ Low(q2) = r2 /\ q2 = Join(q3, r2)
  BY Divide, Zenon
<1>4. Low(q3) = q3
  <2>1. q3 \in 0..255
    BY SMT, WordSet, <1>1, <1>2, <1>3 DEF Join, Digits
  <2> QED
    BY SMT, <2>1 DEF Low
<1>5. Byte(v, 0) = r0 /\ Byte(v, 1) = r1 /\ Byte(v, 2) = r2 /\ Byte(v, 3) = q3
  BY <1>0, <1>1, <1>2, <1>3, <1>4, ByteDigits, SMT
<1>6. r0 + 256 * (r1 + 256 * (r2 + 256 * q3)) = v
  BY SMT, <1>1, <1>2, <1>3 DEF Join, Digits
<1> QED
  BY <1>5, <1>6, SMT

\* And the word made of four bytes has these bytes.
LEMMA BytesOfWord ==
  ASSUME CBytes, NEW a \in Bytes, NEW b \in Bytes, NEW c \in Bytes, NEW d \in Bytes,
         NEW v \in Nat, a + 256 * (b + 256 * (c + 256 * d)) = v
  PROVE  /\ Byte(v, 0) = a /\ Byte(v, 1) = b /\ Byte(v, 2) = c /\ Byte(v, 3) = d
         /\ v \in Words
<1>0. a \in Digits /\ b \in Digits /\ c \in Digits /\ d \in Digits
  BY SMT, WordSet DEF Digits
<1>1. PICK x \in Nat : x = d
  BY SMT, <1>0 DEF Digits
<1>2. PICK y \in Nat : Join(x, c) = y
  BY SMT, <1>0 DEF Join, Digits
<1>3. PICK z \in Nat : Join(y, b) = z
  BY SMT, <1>0 DEF Join, Digits
<1>4. Join(z, a) = v
  BY SMT, <1>0, <1>1, <1>2, <1>3 DEF Join, Digits
<1>5. High(v) = z /\ Low(v) = a
  BY <1>0, <1>4, Undivide, Zenon
<1>6. High(z) = y /\ Low(z) = b
  BY <1>0, <1>3, Undivide, Zenon
<1>7. High(y) = x /\ Low(y) = c
  BY <1>0, <1>2, Undivide, Zenon
<1>8. Low(x) = d
  BY SMT, <1>0, <1>1 DEF Low, Digits
<1>9. v <= 4294967295
  BY SMT, <1>0, <1>1, <1>2, <1>3, <1>4 DEF Join, Digits
<1>10. Byte(v, 0) = a /\ Byte(v, 1) = b /\ Byte(v, 2) = c /\ Byte(v, 3) = d
  BY <1>5, <1>6, <1>7, <1>8, ByteDigits, SMT
<1> QED
  BY SMT, <1>9, <1>10, WordSet

-----------------------------------------------------------------------------
(* Words in an image. *)

LEMMA LoadIs ==
  ASSUME CBytes, NEW w \in Wires, NEW at \in 0..188
  PROVE  /\ w[at] \in Bytes /\ w[at + 1] \in Bytes
         /\ w[at + 2] \in Bytes /\ w[at + 3] \in Bytes
         /\ Load16(w, at) = w[at] + 256 * w[at + 1]
         /\ Load32(w, at) = w[at] + 256 * (w[at + 1] + 256 * (w[at + 2] + 256 * w[at + 3]))
<1>1. at \in Offsets /\ at + 1 \in Offsets /\ at + 2 \in Offsets /\ at + 3 \in Offsets
  BY SMT DEF Offsets, TotalSize
<1>2. w[at] \in Bytes /\ w[at + 1] \in Bytes /\ w[at + 2] \in Bytes /\ w[at + 3] \in Bytes
  BY <1>1, Zenon DEF Wires
<1>0. Bytes = Digits
  BY SMT DEF Bytes, CBytes, Digits
<1>3. PICK a \in Digits : w[at] = a
  BY <1>0, <1>2, Zenon
<1>31. PICK b \in Digits : w[at + 1] = b
  BY <1>0, <1>2, Zenon
<1>32. PICK c \in Digits : w[at + 2] = c
  BY <1>0, <1>2, Zenon
<1>33. PICK d \in Digits : w[at + 3] = d
  BY <1>0, <1>2, Zenon
<1>4. (at + 2) + 1 = at + 3
  BY SMT
<1>5. Load16(w, at) = a + 256 * b /\ Load16(w, at + 2) = c + 256 * d
  BY <1>3, <1>31, <1>32, <1>33, <1>4, SMT DEF Load16, CBytes
<1>6. Load32(w, at) = (a + 256 * b) + 256 * 256 * (c + 256 * d)
  BY <1>5, SMT DEF Load32, CBytes
<1>7. (a + 256 * b) + 256 * 256 * (c + 256 * d) = a + 256 * (b + 256 * (c + 256 * d))
  BY SMT DEF Digits
<1> QED
  BY <1>2, <1>3, <1>31, <1>32, <1>33, <1>5, <1>6, <1>7, SMT

LEMMA LoadWord ==
  ASSUME CBytes, NEW w \in Wires, NEW at \in 0..188
  PROVE  /\ Load32(w, at) \in Words
         /\ \A i \in 0..3 : Byte(Load32(w, at), i) = w[at + i]
<1>0. /\ w[at] \in Bytes /\ w[at + 1] \in Bytes
      /\ w[at + 2] \in Bytes /\ w[at + 3] \in Bytes
  BY LoadIs, SMT
<1>a. PICK a \in Bytes : w[at] = a
  BY <1>0, Zenon
<1>b. PICK b \in Bytes : w[at + 1] = b
  BY <1>0, Zenon
<1>c. PICK c \in Bytes : w[at + 2] = c
  BY <1>0, Zenon
<1>d. PICK d \in Bytes : w[at + 3] = d
  BY <1>0, Zenon
<1>1. w[at] = a /\ w[at + 1] = b /\ w[at + 2] = c /\ w[at + 3] = d
  BY <1>a, <1>b, <1>c, <1>d, Zenon
<1>2. PICK v \in Nat : a + 256 * (b + 256 * (c + 256 * d)) = v
  <2>1. a \in 0..255 /\ b \in 0..255 /\ c \in 0..255 /\ d \in 0..255
    BY WordSet, SMT
  <2> QED
    BY <2>1, SMT
<1>3. Load32(w, at) = v
  <2>1. Load32(w, at) = w[at] + 256 * (w[at + 1] + 256 * (w[at + 2] + 256 * w[at + 3]))
    BY LoadIs, SMT
  <2> QED
    BY <1>1, <1>2, <2>1, SMT
<1>4. /\ Byte(v, 0) = a /\ Byte(v, 1) = b /\ Byte(v, 2) = c /\ Byte(v, 3) = d
      /\ v \in Words
  BY <1>2, BytesOfWord, SMT
<1>5. at + 0 = at
  BY SMT
<1>6. \A i \in 0..3 : i = 0 \/ i = 1 \/ i = 2 \/ i = 3
  BY SMT
<1> QED
  BY <1>1, <1>3, <1>4, <1>5, <1>6, ZenonT(30)

-----------------------------------------------------------------------------
(* An erased slot is not valid. *)

LEMMA ZeroWireInvalid ==
  ASSUME CBytes
  PROVE  ~ValidWire(ZeroWire)
<1>1. ZeroWire[0] = 0 /\ ZeroWire[1] = 0 /\ ZeroWire[2] = 0 /\ ZeroWire[3] = 0
  BY SMT DEF ZeroWire, Offsets, TotalSize
<1>2. ZeroWire \in Wires
  BY WordSet, SMT DEF ZeroWire, Wires
<1>3. Load32(ZeroWire, 0) = 0
  BY <1>1, <1>2, LoadIs, SMT
<1>4. Field(ZeroWire, "magic") = 0
  BY <1>3, SMT DEF Field, At, Width
<1> QED
  BY <1>4, Zenon DEF ValidWire, CBytes

-----------------------------------------------------------------------------
(* Every writer fills the image with bytes. *)

HeaderFields == {"version", "header_size", "total_size", "flags", "arch_id",
                 "fault_reason", "sequence", "user_tag", "crc32"}

LEMMA PutTyped ==
  ASSUME CBytes, NEW w \in Wires, NEW at \in Nat, NEW width \in {2, 4}, NEW v \in Nat
  PROVE  Put(w, at, width, v) \in Wires
<1>1. ASSUME NEW o \in Offsets
      PROVE  (IF o \in at..(at + width - 1) THEN Byte(v, o - at) ELSE w[o]) \in Bytes
  <2>1. CASE o \in at..(at + width - 1)
    <3>1. o - at \in 0..3
      BY <2>1, SMT
    <3> QED
      BY <2>1, <3>1, ByteTyped, Zenon
  <2>2. CASE o \notin at..(at + width - 1)
    BY <2>2, Zenon DEF Wires
  <2> QED
    BY <2>1, <2>2, Zenon
<1> QED
  BY <1>1, Zenon DEF Put, Wires

LEMMA FieldCover ==
  ASSUME NEW o \in 4..35
  PROVE  /\ FieldAt(o) \in HeaderFields
         /\ o - At[FieldAt(o)] \in 0..3
         /\ At[FieldAt(o)] <= o /\ o < At[FieldAt(o)] + Width[FieldAt(o)]
<1>1. DOMAIN At = HeaderFields \cup {"magic"}
  BY SMT DEF At, HeaderFields
<1>2. \E f \in DOMAIN At : At[f] <= o /\ o < At[f] + Width[f]
  <2>1. \/ o \in 4..5 \/ o \in 6..7 \/ o \in 8..11 \/ o \in 12..15 \/ o \in 16..19
        \/ o \in 20..23 \/ o \in 24..27 \/ o \in 28..31 \/ o \in 32..35
    BY SMT
  <2> QED
    BY <1>1, <2>1, SMT DEF At, Width, HeaderFields
<1>3. /\ FieldAt(o) \in DOMAIN At
      /\ At[FieldAt(o)] <= o
      /\ o < At[FieldAt(o)] + Width[FieldAt(o)]
  BY <1>2, Zenon DEF FieldAt
<1>4. FieldAt(o) # "magic"
  BY <1>3, SMT DEF At, Width
<1>5. FieldAt(o) \in HeaderFields
  BY <1>1, <1>3, <1>4, Zenon
<1>6. \A f \in HeaderFields : At[f] \in Nat /\ Width[f] \in {2, 4}
  BY SMT DEF At, Width, HeaderFields
<1> QED
  BY <1>3, <1>5, <1>6, SMT

LEMMA HeaderTyped ==
  ASSUME CBytes, NEW w \in Wires, NEW d, \A f \in HeaderFields : d[f] \in Nat
  PROVE  PutHeader(w, d) \in Wires
<1>1. ASSUME NEW o \in Offsets
      PROVE  (IF o \in 4..(HeaderSize - 1)
              THEN Byte(d[FieldAt(o)], o - At[FieldAt(o)]) ELSE w[o]) \in Bytes
  <2>1. HeaderSize - 1 = 35
    BY SMT DEF HeaderSize
  <2>2. CASE o \in 4..35
    BY <2>1, <2>2, FieldCover, ByteTyped, Zenon
  <2>3. CASE o \notin 4..35
    BY <2>1, <2>3, Zenon DEF Wires
  <2> QED
    BY <2>2, <2>3, Zenon
<1> QED
  BY <1>1, Zenon DEF PutHeader, Wires

LEMMA RegsTyped ==
  ASSUME CBytes, NEW w \in Wires, NEW regs \in [RegNames -> Words]
  PROVE  PutRegs(w, regs) \in Wires
<1>1. ASSUME NEW o \in Offsets
      PROVE  (IF o \in RegsAt..(StackAt - 1)
              THEN Byte(regs[WriteOrder[(o - RegsAt) \div 4 + 1]], (o - RegsAt) % 4)
              ELSE w[o]) \in Bytes
  <2>1. CASE o \in RegsAt..(StackAt - 1)
    <3>1. (o - RegsAt) \div 4 + 1 \in 1..21 /\ (o - RegsAt) % 4 \in 0..3
      BY <2>1, SMT DEF RegsAt, StackAt
    <3>2. \A k \in 1..21 : WriteOrder[k] \in RegNames
      BY SMT DEF WriteOrder, RegNames
    <3>3. regs[WriteOrder[(o - RegsAt) \div 4 + 1]] \in Words
      BY <3>1, <3>2, Zenon
    <3>4. regs[WriteOrder[(o - RegsAt) \div 4 + 1]] \in Nat
      BY <3>3, WordSet, SMT
    <3> QED
      BY <2>1, <3>1, <3>4, ByteTyped, Zenon
  <2>2. CASE o \notin RegsAt..(StackAt - 1)
    BY <2>2, Zenon DEF Wires
  <2> QED
    BY <2>1, <2>2, Zenon
<1> QED
  BY <1>1, Zenon DEF PutRegs, Wires

LEMMA StackTyped ==
  ASSUME CBytes, NEW w \in Wires, NEW d, d.captured_sp \in Nat, d.stack_bytes \in Nat,
         d.data \in [SliceOffsets -> Bytes]
  PROVE  PutStack(w, d) \in Wires
<1> DEFINE filled == [o \in Offsets |->
        IF o < StackAt + 8 THEN w[o]
        ELSE IF d.stack_bytes = 0 THEN 0 ELSE d.data[o - StackAt - 8]]
<1>1. ASSUME NEW o \in Offsets
      PROVE  (IF o < StackAt + 8 THEN w[o]
              ELSE IF d.stack_bytes = 0 THEN 0 ELSE d.data[o - StackAt - 8]) \in Bytes
  <2>1. ~(o < StackAt + 8) => o - StackAt - 8 \in SliceOffsets
    BY SMT DEF StackAt, SliceOffsets, StackBytes, Offsets, TotalSize
  <2>2. w[o] \in Bytes
    BY Zenon DEF Wires
  <2>3. 0 \in Bytes
    BY WordSet, SMT
  <2> QED
    BY <2>1, <2>2, <2>3, Zenon
<1>2. filled \in Wires
  BY <1>1, Zenon DEF Wires
<1>3. PutStack(w, d) = Put(Put(filled, StackAt, 4, d.captured_sp), StackAt + 4, 4, d.stack_bytes)
  BY Zenon DEF PutStack
<1>4. StackAt \in Nat /\ StackAt + 4 \in Nat
  BY SMT DEF StackAt
<1> HIDE DEF filled
<1>5. Put(filled, StackAt, 4, d.captured_sp) \in Wires
  BY <1>2, <1>4, PutTyped, Zenon
<1> QED
  BY <1>3, <1>4, <1>5, PutTyped, Zenon

LEMMA CrcTyped ==
  ASSUME CBytes, CrcIsWord, NEW w \in Wires
  PROVE  CrcOf(w) \in Words /\ Sealed(w) \in Wires
<1>1. At.magic \in Nat /\ At.crc32 \in Nat /\ 0 \in Nat
  BY SMT DEF At
<1>2. Magic \in Nat
  BY WordSet, SMT DEF CBytes
<1>3. Put(w, At.magic, 4, Magic) \in Wires
  BY <1>1, <1>2, PutTyped, Zenon
<1>4. CrcOf(w) \in Words
  BY <1>1, <1>3, PutTyped, Zenon DEF CrcOf, CrcIsWord
<1>5. CrcOf(w) \in Nat
  BY <1>4, WordSet, SMT
<1> QED
  BY <1>1, <1>4, <1>5, PutTyped, Zenon DEF Sealed

LEMMA DumpTyped ==
  ASSUME CBytes, TypedInputs, NEW c \in Commits
  PROVE  /\ \A f \in HeaderFields : CommitDump(c)[f] \in Nat
         /\ CommitDump(c).captured_sp \in Nat /\ CommitDump(c).stack_bytes \in Nat
         /\ CommitDump(c).data \in [SliceOffsets -> Bytes]
         /\ c.regs \in [RegNames -> Words]
<1>1. /\ c.flags \in 0..15 /\ c.fault_reason \in 0..5
      /\ c.sequence \in Words /\ c.user_tag \in Words /\ c.captured_sp \in Words
      /\ c.stack_bytes \in {0, StackBytes}
      /\ c.regs \in [RegNames -> Words]
      /\ c.data \in [SliceOffsets -> Bytes]
  BY Zenon DEF TypedInputs, TypedCommits
<1>2. /\ c.flags \in Nat /\ c.fault_reason \in Nat /\ c.sequence \in Nat
      /\ c.user_tag \in Nat /\ c.captured_sp \in Nat /\ c.stack_bytes \in Nat
      /\ PortArch \in Nat
  BY <1>1, WordSet, SMT DEF StackBytes, TypedInputs
<1> QED
  BY <1>1, <1>2, SMT DEF CommitDump, HeaderFields, HeaderSize, TotalSize

LEMMA CommittedTyped ==
  ASSUME CBytes, CrcIsWord, TypedInputs, NEW w \in Wires, NEW c \in Commits
  PROVE  Committed(w, c) \in Wires
<1> DEFINE d == CommitDump(c)
           w1 == Put(w, At.magic, 4, 0)
           w2 == PutHeader(w1, d)
           w3 == PutRegs(w2, c.regs)
           w4 == PutStack(w3, d)
<1>1. At.magic \in Nat /\ 0 \in Nat
  BY SMT DEF At
<1>2. Magic \in Nat
  BY WordSet, SMT DEF CBytes
<1>3. w1 \in Wires
  BY <1>1, PutTyped, Zenon
<1>4. w2 \in Wires
  BY <1>3, DumpTyped, HeaderTyped, Zenon
<1>5. w3 \in Wires
  BY <1>4, DumpTyped, RegsTyped, Zenon
<1>6. w4 \in Wires
  BY <1>5, DumpTyped, StackTyped, Zenon
<1>7. Sealed(w4) \in Wires
  BY <1>6, CrcTyped, Zenon
<1>8. Committed(w, c) = Put(Sealed(w4), At.magic, 4, Magic)
  BY Zenon DEF Committed
<1> QED
  BY <1>1, <1>2, <1>7, <1>8, PutTyped, Zenon

LEMMA ZeroWireTyped ==
  ASSUME CBytes
  PROVE  ZeroWire \in Wires
<1>1. 0 \in Bytes
  BY WordSet, SMT
<1> QED
  BY <1>1, Zenon DEF ZeroWire, Wires

-----------------------------------------------------------------------------
(* The image stays an image, and a pointer that panicdump_get returned stays *)
(* true of this boot: while the boot runs the slot is as it was found, or    *)
(* erased, and an erased slot is never decoded.                              *)

BootInv ==
  /\ wire \in Wires /\ atBoot \in Wires
  /\ wire \in {atBoot, ZeroWire}
  /\ PointerShowsBootDump

LEMMA BootInvInit ==
  ASSUME TypedInputs, Init
  PROVE  BootInv
BY Zenon DEF TypedInputs, Init, BootInv, PointerShowsBootDump

LEMMA BootInvNext ==
  ASSUME CBytes, CrcIsWord, TypedInputs, BootInv, [Next]_vars
  PROVE  BootInv'
<1>1. ASSUME NEW c \in Commits, Commit(c)
      PROVE  BootInv'
  BY <1>1, CommittedTyped, Zenon DEF Commit, Reset, BootInv, PointerShowsBootDump
<1>2. ASSUME Get
      PROVE  BootInv'
  <2>1. wire = atBoot
    BY <1>2, ZeroWireInvalid, Zenon DEF Get, BootInv
  <2> QED
    BY <1>2, <2>1, Zenon DEF Get, BootInv, PointerShowsBootDump
<1>3. ASSUME Clear
      PROVE  BootInv'
  BY <1>3, ZeroWireTyped, Zenon DEF Clear, BootInv, PointerShowsBootDump
<1>4. ASSUME NEW o \in DecayOffsets, NEW b \in DecayBytes, PowerCycle(o, b)
      PROVE  BootInv'
  <2>1. wire' \in Wires
    BY <1>4, Zenon DEF PowerCycle, TypedInputs, BootInv, Wires
  <2> QED
    BY <1>4, <2>1, Zenon DEF PowerCycle, Reset, BootInv, PointerShowsBootDump
<1>5. ASSUME UNCHANGED vars
      PROVE  BootInv'
  BY <1>5, Zenon DEF vars, BootInv, PointerShowsBootDump
<1> QED
  BY <1>1, <1>2, <1>3, <1>4, <1>5, Zenon DEF Next

LEMMA BootInvAlways ==
  ASSUME CBytes, CrcIsWord, TypedInputs
  PROVE  Spec => []BootInv
<1>1. Init => BootInv
  BY BootInvInit
<1>2. BootInv /\ [Next]_vars => BootInv'
  BY BootInvNext
<1> QED
  BY <1>1, <1>2, PTL DEF Spec

\* For every CRC, image and commit: a pointer panicdump_get returned goes on
\* showing the dump this boot found, whatever is cleared after it (line 309).
THEOREM PointersStayTrue ==
  ASSUME CBytes, CrcIsWord, TypedInputs
  PROVE  Spec => []PointerShowsBootDump
<1>1. BootInv => PointerShowsBootDump
  BY Zenon DEF BootInv
<1> QED
  BY <1>1, BootInvAlways, PTL

-----------------------------------------------------------------------------
(* The two readers of the format. *)

\* The C validator runs the CRC over the constant, the host over the bytes.
LEMMA CrcSame ==
  ASSUME CBytes, NEW w \in Wires, Field(w, "magic") = Magic
  PROVE  CrcOf(w) = Crc(Put(w, 32, 4, 0))
<1>1. Load32(w, 0) = Magic
  BY SMT DEF Field, At, Width
<1>2. \A i \in 0..3 : Byte(Magic, i) = w[i]
  <2>1. ASSUME NEW i \in 0..3
        PROVE  Byte(Magic, i) = w[i]
    <3>1. 0 + i = i /\ 0 \in 0..188
      BY SMT
    <3> QED
      BY <1>1, <3>1, LoadWord, SMT
  <2> QED
    BY <2>1, Zenon
<1>3. At.magic = 0 /\ At.crc32 = 32
  BY SMT DEF At
<1>4. ASSUME NEW o \in Offsets
      PROVE  (IF o \in 0..(0 + 4 - 1) THEN Byte(Magic, o - 0) ELSE w[o]) = w[o]
  <2>1. o \in 0..(0 + 4 - 1) => o \in 0..3 /\ o - 0 = o
    BY SMT DEF Offsets, TotalSize
  <2> QED
    BY <1>2, <2>1, Zenon
<1>5. w = [o \in Offsets |-> w[o]]
  BY Zenon DEF Wires
<1>6. Put(w, 0, 4, Magic) = w
  BY <1>4, <1>5, Zenon DEF Put
<1> QED
  BY <1>3, <1>6, Zenon DEF CrcOf

LEMMA SameFields ==
  ASSUME NEW w \in Wires
  PROVE  \A f \in DOMAIN PyHeader : PyField(w, f) = Field(w, f)
<1>1. DOMAIN PyHeader = DOMAIN At
  BY SMT DEF PyHeader, At
<1>2. \A f \in DOMAIN At : PyHeader[f] = At[f]
  BY SMT DEF PyHeader, At
<1>3. \A f \in DOMAIN At : Width[f] = IF f \in {"version", "header_size"} THEN 2 ELSE 4
  BY Zenon DEF Width
<1>4. 2 # 4
  BY SMT
<1> QED
  BY <1>1, <1>2, <1>3, <1>4, Zenon DEF PyField, Field

LEMMA ReadersAgree ==
  ASSUME CBytes, NEW w \in Wires
  PROVE  (Parses(w) /\ CrcOk(w)) = ValidWire(w)
<1>1. /\ PyField(w, "magic") = Field(w, "magic")
      /\ PyField(w, "version") = Field(w, "version")
      /\ PyField(w, "header_size") = Field(w, "header_size")
      /\ PyField(w, "total_size") = Field(w, "total_size")
      /\ PyField(w, "flags") = Field(w, "flags")
      /\ PyField(w, "arch_id") = Field(w, "arch_id")
      /\ PyField(w, "fault_reason") = Field(w, "fault_reason")
      /\ PyField(w, "crc32") = Field(w, "crc32")
  BY SameFields, SMT DEF PyHeader
<1>2. Field(w, "fault_reason") \in 0..5 <=> Field(w, "fault_reason") <= 5
  <2>1. Field(w, "fault_reason") = Load32(w, 20) /\ 20 \in 0..188
    BY SMT DEF Field, At, Width
  <2>2. Field(w, "fault_reason") \in Nat
    BY <2>1, LoadWord, WordSet, SMT
  <2> QED
    BY <2>2, SMT
<1>3. Load32(w, HeaderSize + 84 + 4) = StackSize(w)
  <2>1. HeaderSize + 84 + 4 = StackAt + 4
    BY SMT DEF HeaderSize, StackAt
  <2> QED
    BY <2>1, Zenon DEF StackSize
<1>4. Parses(w) /\ CrcOk(w) => ValidWire(w)
  <2> SUFFICES ASSUME Parses(w), CrcOk(w)
               PROVE  ValidWire(w)
    OBVIOUS
  <2>1. Field(w, "magic") = Magic
    BY <1>1, Zenon DEF Parses
  <2>2. Field(w, "crc32") = CrcOf(w)
    BY <1>1, <2>1, CrcSame, Zenon DEF CrcOk
  <2> QED
    BY <1>1, <1>2, <1>3, <2>1, <2>2, Zenon DEF Parses, ValidWire
<1>5. ValidWire(w) => Parses(w) /\ CrcOk(w)
  <2> SUFFICES ASSUME ValidWire(w)
               PROVE  Parses(w) /\ CrcOk(w)
    OBVIOUS
  <2>1. Field(w, "magic") = Magic
    BY Zenon DEF ValidWire
  <2>2. CrcOk(w)
    BY <1>1, <2>1, CrcSame, Zenon DEF CrcOk, ValidWire
  <2> QED
    BY <1>1, <1>2, <1>3, <2>2, Zenon DEF Parses, ValidWire
<1>6. (Parses(w) /\ CrcOk(w)) \in BOOLEAN /\ ValidWire(w) \in BOOLEAN
  BY Zenon DEF Parses, CrcOk, ValidWire
<1> QED
  BY <1>4, <1>5, <1>6, Zenon

LEMMA SameDump ==
  ASSUME CBytes, NEW w \in Wires, ValidWire(w)
  PROVE  /\ \A k \in DOMAIN PyRegs : PyRegAt(w, k) = Decoded(w).regs[PyRegs[k]]
         /\ \A f \in DOMAIN PyHeader : PyField(w, f) = Decoded(w)[f]
         /\ PyStack(w) = [sp |-> Decoded(w).captured_sp, bytes |-> Decoded(w).stack_bytes,
                          data |-> [i \in 0..(Decoded(w).stack_bytes - 1) |-> Decoded(w).data[i]]]
<1>1. ASSUME NEW k \in DOMAIN PyRegs
      PROVE  PyRegAt(w, k) = Decoded(w).regs[PyRegs[k]]
  <2>1. k \in 1..21
    BY SMT DEF PyRegs
  <2>2. PyRegs[k] \in RegNames /\ HeaderSize + 4 * (k - 1) = RegsAt + ReadAt[PyRegs[k]]
    BY <2>1, SMT DEF PyRegs, RegNames, ReadAt, HeaderSize, RegsAt
  <2>3. Decoded(w).regs = [r \in RegNames |-> Load32(w, RegsAt + ReadAt[r])]
    BY Zenon DEF Decoded
  <2> QED
    BY <2>2, <2>3, Zenon DEF PyRegAt
<1>2. ASSUME NEW f \in DOMAIN PyHeader
      PROVE  PyField(w, f) = Decoded(w)[f]
  <2>1. PyField(w, f) = Field(w, f)
    BY SameFields, Zenon
  <2>2. f \in HeaderFields \cup {"magic"}
    BY SMT DEF PyHeader, HeaderFields
  <2>3. Decoded(w)[f] = Field(w, f)
    BY <2>2, SMT DEF Decoded, HeaderFields
  <2> QED
    BY <2>1, <2>3, Zenon
<1>3. PyStackBytes(w) = Decoded(w).stack_bytes /\ Decoded(w).stack_bytes \in {0, StackBytes}
  <2>1. HeaderSize + 84 + 4 = StackAt + 4
    BY SMT DEF HeaderSize, StackAt
  <2>2. PyStackBytes(w) = StackSize(w)
    BY <2>1, Zenon DEF PyStackBytes, StackSize
  <2>3. StackSize(w) \in {0, StackBytes}
    BY Zenon DEF ValidWire
  <2>4. ~(StackSize(w) > StackBytes)
    BY <2>3, SMT DEF StackBytes
  <2> QED
    BY <2>2, <2>3, <2>4, Zenon DEF Decoded
<1>4. Load32(w, HeaderSize + 84) = Decoded(w).captured_sp
  <2>1. HeaderSize + 84 = StackAt
    BY SMT DEF HeaderSize, StackAt
  <2> QED
    BY <2>1, Zenon DEF Decoded
<1>5. ASSUME NEW n \in {0, StackBytes}, NEW i \in 0..(n - 1)
      PROVE  w[HeaderSize + 84 + 8 + i] = Decoded(w).data[i]
  <2>1. i \in SliceOffsets /\ HeaderSize + 84 + 8 + i = StackAt + 8 + i
    BY SMT DEF SliceOffsets, StackBytes, HeaderSize, StackAt
  <2>2. Decoded(w).data = [j \in SliceOffsets |-> w[StackAt + 8 + j]]
    BY Zenon DEF Decoded
  <2> QED
    BY <2>1, <2>2, Zenon
<1>6. PICK n \in {0, StackBytes} : n = PyStackBytes(w) /\ n = Decoded(w).stack_bytes
  BY <1>3
<1>7. PyStack(w) = [sp |-> Decoded(w).captured_sp, bytes |-> Decoded(w).stack_bytes,
                    data |-> [i \in 0..(n - 1) |-> Decoded(w).data[i]]]
  BY <1>4, <1>5, <1>6, Zenon DEF PyStack
<1>8. PyStack(w) = [sp |-> Decoded(w).captured_sp, bytes |-> Decoded(w).stack_bytes,
                    data |-> [i \in 0..(Decoded(w).stack_bytes - 1) |-> Decoded(w).data[i]]]
  BY <1>6, <1>7, Zenon
<1> QED
  BY <1>1, <1>2, <1>8, Zenon

\* For every CRC, image and commit: the host accepts what the device accepts and
\* shows what the device decodes (decode_panicdump.py:125-172).
THEOREM ReadersAlwaysAgree ==
  ASSUME CBytes, CrcIsWord, TypedInputs
  PROVE  Spec => []HostAgrees
<1>1. BootInv => HostAgrees
  BY ReadersAgree, SameDump, Zenon DEF BootInv, HostAgrees
<1> QED
  BY <1>1, BootInvAlways, PTL

-----------------------------------------------------------------------------
(* What a commit writes is what a reader reads. *)

LEMMA LoadOfBytes ==
  ASSUME CBytes, NEW w \in Wires, NEW at \in 0..188, NEW v \in Words,
         \A i \in 0..3 : w[at + i] = Byte(v, i)
  PROVE  Load32(w, at) = v
<1>1. w[at] = Byte(v, 0) /\ w[at + 1] = Byte(v, 1) /\ w[at + 2] = Byte(v, 2) /\ w[at + 3] = Byte(v, 3)
  <2>1. at + 0 = at /\ 0 \in 0..3 /\ 1 \in 0..3 /\ 2 \in 0..3 /\ 3 \in 0..3
    BY SMT
  <2> QED
    BY <2>1, Zenon
<1>2. Load32(w, at) = w[at] + 256 * (w[at + 1] + 256 * (w[at + 2] + 256 * w[at + 3]))
  BY LoadIs, SMT
<1> QED
  BY <1>1, <1>2, WordOfBytes, SMT

LEMMA LoadSmall ==
  ASSUME CBytes, NEW w \in Wires, NEW at \in 0..188, NEW v \in 0..255,
         w[at] = Byte(v, 0), w[at + 1] = Byte(v, 1)
  PROVE  Load16(w, at) = v
<1>1. High(v) = 0 /\ Low(v) = v /\ High(0) = 0 /\ Low(0) = 0 /\ v \in Nat
  BY SMT DEF High, Low
<1>2. Byte(v, 0) = v /\ Byte(v, 1) = 0
  BY <1>1, ByteIs, SMT
<1>3. Load16(w, at) = w[at] + 256 * w[at + 1]
  BY LoadIs, SMTT(30)
<1> QED
  BY <1>1, <1>2, <1>3, SMT

LEMMA FieldAtIs ==
  ASSUME NEW f \in DOMAIN At, NEW o \in At[f]..(At[f] + Width[f] - 1)
  PROVE  FieldAt(o) = f
<1>1. DOMAIN At = HeaderFields \cup {"magic"}
  BY SMT DEF At, HeaderFields
<1>2. \A g \in DOMAIN At : At[g] \in Nat /\ Width[g] \in {2, 4}
  BY SMT DEF At, Width
<1>3. At[f] <= o /\ o < At[f] + Width[f]
  BY <1>2, SMT
<1>4. ASSUME NEW g \in DOMAIN At, At[g] <= o, o < At[g] + Width[g]
      PROVE  g = f
  BY <1>1, <1>2, <1>3, <1>4, SMT DEF At, Width, HeaderFields
<1> QED
  BY <1>3, <1>4, Zenon DEF FieldAt

LEMMA PutAt ==
  ASSUME NEW w, NEW at \in Nat, NEW v, NEW o \in Offsets
  PROVE  /\ o \in at..(at + 3) => Put(w, at, 4, v)[o] = Byte(v, o - at)
         /\ o \notin at..(at + 3) => Put(w, at, 4, v)[o] = w[o]
<1>1. at + 4 - 1 = at + 3
  BY SMT
<1> QED
  BY <1>1, Zenon DEF Put

LEMMA PutWord ==
  ASSUME NEW w, NEW at \in 0..188, NEW v, NEW i \in 0..3
  PROVE  Put(w, at, 4, v)[at + i] = Byte(v, i)
<1>1. PICK o \in Offsets : o = at + i /\ o \in at..(at + 3) /\ o - at = i
  BY SMT DEF Offsets, TotalSize
<1>2. at \in Nat
  BY SMT
<1>3. Put(w, at, 4, v)[o] = Byte(v, o - at)
  <2>1. o \in at..(at + 3) => Put(w, at, 4, v)[o] = Byte(v, o - at)
    BY <1>2, PutAt, ZenonT(30)
  <2> QED
    BY <1>1, <2>1, Zenon
<1> QED
  BY <1>1, <1>3, Zenon

LEMMA StoredLoads ==
  ASSUME CBytes, NEW w, NEW at \in 0..188, NEW v \in Words, NEW x \in Wires,
         x = Put(w, at, 4, v)
  PROVE  Load32(x, at) = v
<1>1. \A i \in 0..3 : x[at + i] = Byte(v, i)
  BY PutWord, Zenon
<1> QED
  BY <1>1, LoadOfBytes, Zenon

LEMMA PutStackAt ==
  ASSUME NEW w, NEW d, NEW o \in Offsets
  PROVE  /\ o \in 0..119 => PutStack(w, d)[o] = w[o]
         /\ o \in 120..123 => PutStack(w, d)[o] = Byte(d.captured_sp, o - 120)
         /\ o \in 124..127 => PutStack(w, d)[o] = Byte(d.stack_bytes, o - 124)
         /\ o \in 128..191 =>
              PutStack(w, d)[o] = IF d.stack_bytes = 0 THEN 0 ELSE d.data[o - 128]
<1> DEFINE filled == [p \in Offsets |->
        IF p < StackAt + 8 THEN w[p]
        ELSE IF d.stack_bytes = 0 THEN 0 ELSE d.data[p - StackAt - 8]]
           low == Put(filled, StackAt, 4, d.captured_sp)
<1>1. StackAt = 120 /\ StackAt \in Nat /\ StackAt + 4 \in Nat
  BY SMT DEF StackAt
<1>2. PutStack(w, d) = Put(low, StackAt + 4, 4, d.stack_bytes)
  BY Zenon DEF PutStack
<1>3. filled[o] = IF o < StackAt + 8 THEN w[o]
                  ELSE IF d.stack_bytes = 0 THEN 0 ELSE d.data[o - StackAt - 8]
  BY Zenon
<1>a. low = Put(filled, StackAt, 4, d.captured_sp)
  OBVIOUS
<1> HIDE DEF filled, low
<1>4. /\ o \in StackAt..(StackAt + 3) => low[o] = Byte(d.captured_sp, o - StackAt)
      /\ o \notin StackAt..(StackAt + 3) => low[o] = filled[o]
  BY <1>1, <1>a, PutAt, SMT
<1>5. /\ o \in (StackAt + 4)..(StackAt + 4 + 3) =>
           PutStack(w, d)[o] = Byte(d.stack_bytes, o - (StackAt + 4))
      /\ o \notin (StackAt + 4)..(StackAt + 4 + 3) => PutStack(w, d)[o] = low[o]
  BY <1>1, <1>2, PutAt, SMT
<1>6. CASE o \in 0..119
  <2>1. /\ o < StackAt + 8 /\ o \notin StackAt..(StackAt + 3)
        /\ o \notin (StackAt + 4)..(StackAt + 4 + 3)
        /\ o \notin 120..123 /\ o \notin 124..127 /\ o \notin 128..191
    BY <1>1, <1>6, SMT
  <2> QED
    BY <1>3, <1>4, <1>5, <2>1, SMT
<1>7. CASE o \in 120..123
  <2>1. /\ o \in StackAt..(StackAt + 3) /\ o \notin (StackAt + 4)..(StackAt + 4 + 3)
        /\ o - StackAt = o - 120
        /\ o \notin 0..119 /\ o \notin 124..127 /\ o \notin 128..191
    BY <1>1, <1>7, SMT
  <2> QED
    BY <1>4, <1>5, <2>1, SMT
<1>8. CASE o \in 124..127
  <2>1. /\ o \in (StackAt + 4)..(StackAt + 4 + 3) /\ o - (StackAt + 4) = o - 124
        /\ o \notin 0..119 /\ o \notin 120..123 /\ o \notin 128..191
    BY <1>1, <1>8, SMT
  <2> QED
    BY <1>5, <2>1, SMT
<1>9. CASE o \in 128..191
  <2>1. /\ ~(o < StackAt + 8) /\ o - StackAt - 8 = o - 128
        /\ o \notin StackAt..(StackAt + 3) /\ o \notin (StackAt + 4)..(StackAt + 4 + 3)
        /\ o \notin 0..119 /\ o \notin 120..123 /\ o \notin 124..127
    BY <1>1, <1>9, SMT
  <2> QED
    BY <1>3, <1>4, <1>5, <2>1, SMT
<1>10. o \in 0..119 \/ o \in 120..123 \/ o \in 124..127 \/ o \in 128..191
  BY SMT DEF Offsets, TotalSize
<1> QED
  BY <1>6, <1>7, <1>8, <1>9, <1>10

\* The CRC sees neither the magic nor the CRC field.
Covered(w) == Put(Put(w, At.magic, 4, Magic), At.crc32, 4, 0)

LEMMA CoveredAt ==
  ASSUME NEW w, NEW o \in Offsets
  PROVE  /\ o \in (At.crc32)..(At.crc32 + 3) => Covered(w)[o] = Byte(0, o - At.crc32)
         /\ o \notin (At.crc32)..(At.crc32 + 3) =>
              /\ o \in (At.magic)..(At.magic + 3) => Covered(w)[o] = Byte(Magic, o - At.magic)
              /\ o \notin (At.magic)..(At.magic + 3) => Covered(w)[o] = w[o]
<1> DEFINE y == Put(w, At.magic, 4, Magic)
<1>1. At.magic + 4 - 1 = At.magic + 3 /\ At.crc32 + 4 - 1 = At.crc32 + 3
  BY SMT DEF At
<1>2. y[o] = IF o \in (At.magic)..(At.magic + 4 - 1) THEN Byte(Magic, o - At.magic) ELSE w[o]
  BY Zenon DEF Put
<1>3. Covered(w)[o] = IF o \in (At.crc32)..(At.crc32 + 4 - 1) THEN Byte(0, o - At.crc32) ELSE y[o]
  BY Zenon DEF Covered, Put
<1> HIDE DEF y
<1> QED
  BY <1>1, <1>2, <1>3, Zenon

LEMMA CrcIgnores ==
  ASSUME NEW w, NEW crc
  PROVE  CrcOf(Put(Put(w, At.crc32, 4, crc), At.magic, 4, Magic)) = CrcOf(w)
<1> DEFINE y == Put(w, At.crc32, 4, crc)
           x == Put(y, At.magic, 4, Magic)
<1>1. At.magic \in Nat /\ At.crc32 \in Nat
  BY SMT DEF At
<1>2. ASSUME NEW o \in Offsets
      PROVE  Covered(x)[o] = Covered(w)[o]
  <2>1. CASE o \in (At.crc32)..(At.crc32 + 3)
    BY <2>1, CoveredAt, SMT
  <2>2. CASE o \notin (At.crc32)..(At.crc32 + 3) /\ o \in (At.magic)..(At.magic + 3)
    BY <2>2, CoveredAt, SMT
  <2>3. CASE o \notin (At.crc32)..(At.crc32 + 3) /\ o \notin (At.magic)..(At.magic + 3)
    <3>1. Covered(x)[o] = x[o] /\ Covered(w)[o] = w[o]
      BY <2>3, CoveredAt, SMT
    <3>2. x[o] = y[o] /\ y[o] = w[o]
      BY <1>1, <2>3, PutAt, SMT
    <3> QED
      BY <3>1, <3>2, Zenon
  <2> QED
    BY <2>1, <2>2, <2>3, Zenon
<1>3. Covered(x) = Covered(w)
  BY <1>2, Zenon DEF Put, Covered
<1> QED
  BY <1>3, Zenon DEF CrcOf, Covered

-----------------------------------------------------------------------------
(* The image a commit leaves, byte by byte. *)

LEMMA CommittedAt ==
  ASSUME CBytes, CrcIsWord, TypedInputs, NEW w \in Wires, NEW c \in Commits
  PROVE  \E x \in Wires, crc \in Words :
           /\ x = Committed(w, c) /\ crc = CrcOf(x)
           /\ \A o \in 0..3 : x[o] = Byte(Magic, o - 0)
           /\ \A o \in 4..31 :
                x[o] = Byte(CommitDump(c)[FieldAt(o)], o - At[FieldAt(o)])
           /\ \A o \in 32..35 : x[o] = Byte(crc, o - 32)
           /\ \A o \in 36..119 :
                x[o] = Byte(c.regs[WriteOrder[(o - RegsAt) \div 4 + 1]], (o - RegsAt) % 4)
           /\ \A o \in 120..123 : x[o] = Byte(c.captured_sp, o - 120)
           /\ \A o \in 124..127 : x[o] = Byte(c.stack_bytes, o - 124)
           /\ \A o \in 128..191 : x[o] = IF c.stack_bytes = 0 THEN 0 ELSE c.data[o - 128]
<1> DEFINE d == CommitDump(c)
           w1 == Put(w, At.magic, 4, 0)
           w2 == PutHeader(w1, d)
           w3 == PutRegs(w2, c.regs)
           w4 == PutStack(w3, d)
           w5 == Put(w4, At.crc32, 4, CrcOf(w4))
           x == Put(w5, At.magic, 4, Magic)
<1>1. /\ At.magic = 0 /\ At.crc32 = 32 /\ RegsAt = 36 /\ StackAt - 1 = 119
      /\ HeaderSize - 1 = 35 /\ At.magic \in Nat /\ At.crc32 \in Nat
  BY SMT DEF At, StackAt, RegsAt, HeaderSize
<1>2. x = Committed(w, c)
  BY Zenon DEF Committed, Sealed
<1>3. d.captured_sp = c.captured_sp /\ d.stack_bytes = c.stack_bytes /\ d.data = c.data
  BY Zenon DEF CommitDump
<1>4. CrcOf(w4) = CrcOf(x)
  BY CrcIgnores, Zenon
<1>5. x \in Wires
  BY <1>2, CommittedTyped, Zenon
<1>6. CrcOf(x) \in Words
  BY <1>5, CrcTyped, Zenon
<1>7. ASSUME NEW o \in Offsets
      PROVE  /\ o \in 4..35 => w2[o] = Byte(d[FieldAt(o)], o - At[FieldAt(o)])
             /\ o \in 36..119 =>
                  w3[o] = Byte(c.regs[WriteOrder[(o - RegsAt) \div 4 + 1]], (o - RegsAt) % 4)
             /\ o \notin 36..119 => w3[o] = w2[o]
  <2>1. w2[o] = IF o \in 4..(HeaderSize - 1)
                THEN Byte(d[FieldAt(o)], o - At[FieldAt(o)]) ELSE w1[o]
    BY Zenon DEF PutHeader
  <2>2. w3[o] = IF o \in RegsAt..(StackAt - 1)
                THEN Byte(c.regs[WriteOrder[(o - RegsAt) \div 4 + 1]], (o - RegsAt) % 4)
                ELSE w2[o]
    BY Zenon DEF PutRegs
  <2>3. 4..(HeaderSize - 1) = 4..35 /\ RegsAt..(StackAt - 1) = 36..119
    BY <1>1, Zenon
  <2> HIDE DEF w1, w2, w3
  <2> QED
    BY <2>1, <2>2, <2>3, Zenon
<1>8. w5 = Put(w4, At.crc32, 4, CrcOf(w4)) /\ x = Put(w5, At.magic, 4, Magic)
  OBVIOUS
<1>9. w4 = PutStack(w3, d)
  OBVIOUS
<1> HIDE DEF d, w1, w2, w3, w4, w5, x
<1>10. ASSUME NEW o \in Offsets
       PROVE  /\ o \in 0..3 => x[o] = Byte(Magic, o - 0)
              /\ o \in 32..35 => x[o] = Byte(CrcOf(x), o - 32)
              /\ o \notin 0..3 /\ o \notin 32..35 => x[o] = w4[o]
  <2>1. /\ o \in (At.magic)..(At.magic + 3) => x[o] = Byte(Magic, o - At.magic)
        /\ o \notin (At.magic)..(At.magic + 3) => x[o] = w5[o]
    BY <1>1, <1>8, PutAt, SMT
  <2>2. /\ o \in (At.crc32)..(At.crc32 + 3) => w5[o] = Byte(CrcOf(w4), o - At.crc32)
        /\ o \notin (At.crc32)..(At.crc32 + 3) => w5[o] = w4[o]
    BY <1>1, <1>8, PutAt, SMT
  <2> QED
    BY <1>1, <1>4, <2>1, <2>2, SMT
<1>11. ASSUME NEW o \in Offsets
       PROVE  /\ o \in 0..119 => w4[o] = w3[o]
              /\ o \in 120..123 => w4[o] = Byte(c.captured_sp, o - 120)
              /\ o \in 124..127 => w4[o] = Byte(c.stack_bytes, o - 124)
              /\ o \in 128..191 => w4[o] = IF c.stack_bytes = 0 THEN 0 ELSE c.data[o - 128]
  BY <1>3, <1>9, PutStackAt, SMT
<1>12. \A o \in 0..191 : o \in Offsets
  BY SMT DEF Offsets, TotalSize
<1>13. \A o \in 4..31 : x[o] = Byte(d[FieldAt(o)], o - At[FieldAt(o)])
  BY <1>7, <1>10, <1>11, <1>12, SMT
<1>14. \A o \in 36..119 :
         x[o] = Byte(c.regs[WriteOrder[(o - RegsAt) \div 4 + 1]], (o - RegsAt) % 4)
  BY <1>7, <1>10, <1>11, <1>12, SMTT(30)
<1>15. /\ \A o \in 0..3 : x[o] = Byte(Magic, o - 0)
       /\ \A o \in 32..35 : x[o] = Byte(CrcOf(x), o - 32)
       /\ \A o \in 120..123 : x[o] = Byte(c.captured_sp, o - 120)
       /\ \A o \in 124..127 : x[o] = Byte(c.stack_bytes, o - 124)
       /\ \A o \in 128..191 : x[o] = IF c.stack_bytes = 0 THEN 0 ELSE c.data[o - 128]
  BY <1>10, <1>11, <1>12, SMTT(30)
<1> QED
  BY <1>2, <1>5, <1>6, <1>13, <1>14, <1>15, Zenon DEF d

LEMMA WordFieldRead ==
  ASSUME CBytes, NEW x \in Wires, NEW d,
         NEW f \in {"total_size", "flags", "arch_id", "fault_reason", "sequence", "user_tag"},
         d[f] \in Words,
         \A o \in 4..31 : x[o] = Byte(d[FieldAt(o)], o - At[FieldAt(o)])
  PROVE  Field(x, f) = d[f]
<1>1. At[f] \in 8..28 /\ At[f] \in 0..188 /\ Width[f] = 4 /\ f \in DOMAIN At
  BY SMT DEF At, Width
<1>2. ASSUME NEW i \in 0..3
      PROVE  x[At[f] + i] = Byte(d[f], i)
  <2>1. PICK o \in 4..31 : o = At[f] + i
    BY <1>1, SMT
  <2>2. o \in (At[f])..(At[f] + Width[f] - 1) /\ o - At[f] = i
    BY <1>1, <2>1, SMT
  <2>3. FieldAt(o) = f
    BY <1>1, <2>2, FieldAtIs, Zenon
  <2> QED
    BY <2>1, <2>2, <2>3, Zenon
<1>3. Load32(x, At[f]) = d[f]
  BY <1>1, <1>2, LoadOfBytes, Zenon
<1>4. 4 # 2
  BY SMT
<1> QED
  BY <1>1, <1>3, <1>4, Zenon DEF Field

LEMMA SmallFieldRead ==
  ASSUME CBytes, NEW x \in Wires, NEW d, NEW f \in {"version", "header_size"},
         d[f] \in 0..255,
         \A o \in 4..31 : x[o] = Byte(d[FieldAt(o)], o - At[FieldAt(o)])
  PROVE  Field(x, f) = d[f]
<1>1. At[f] \in {4, 6} /\ At[f] \in 0..188 /\ Width[f] = 2 /\ f \in DOMAIN At
  BY SMT DEF At, Width
<1>2. PICK o \in 4..31, p \in 4..31 : o = At[f] /\ p = At[f] + 1
  BY <1>1, SMT
<1>3. /\ o \in (At[f])..(At[f] + Width[f] - 1) /\ o - At[f] = 0
      /\ p \in (At[f])..(At[f] + Width[f] - 1) /\ p - At[f] = 1
  BY <1>1, <1>2, SMT
<1>a. FieldAt(o) = f
  BY <1>1, <1>3, FieldAtIs, ZenonT(60)
<1>b. FieldAt(p) = f
  BY <1>1, <1>3, FieldAtIs, ZenonT(60)
<1>5. x[At[f]] = Byte(d[f], 0) /\ x[At[f] + 1] = Byte(d[f], 1)
  BY <1>2, <1>3, <1>a, <1>b, ZenonT(60)
<1>6. Load16(x, At[f]) = d[f]
  BY <1>1, <1>5, LoadSmall, ZenonT(30)
<1> QED
  BY <1>1, <1>6, Zenon DEF Field

LEMMA RegRead ==
  ASSUME CBytes, NEW x \in Wires, NEW regs \in [RegNames -> Words], NEW r \in RegNames,
         \A o \in 36..119 :
           x[o] = Byte(regs[WriteOrder[(o - RegsAt) \div 4 + 1]], (o - RegsAt) % 4)
  PROVE  Load32(x, RegsAt + ReadAt[r]) = regs[r]
<1>1. PICK k \in 1..21 : WriteOrder[k] = r /\ ReadAt[r] = 4 * (k - 1)
  <2>1. \A k \in 1..21 : ReadAt[WriteOrder[k]] = 4 * (k - 1)
    BY SMT DEF WriteOrder, ReadAt
  <2>2. \E k \in 1..21 : WriteOrder[k] = r
    <3>1. /\ WriteOrder[1] = "r0" /\ WriteOrder[2] = "r1" /\ WriteOrder[3] = "r2"
          /\ WriteOrder[4] = "r3" /\ WriteOrder[5] = "r12" /\ WriteOrder[6] = "lr"
          /\ WriteOrder[7] = "pc" /\ WriteOrder[8] = "xpsr" /\ WriteOrder[9] = "msp"
          /\ WriteOrder[10] = "psp" /\ WriteOrder[11] = "control" /\ WriteOrder[12] = "primask"
          /\ WriteOrder[13] = "basepri" /\ WriteOrder[14] = "faultmask" /\ WriteOrder[15] = "cfsr"
          /\ WriteOrder[16] = "hfsr" /\ WriteOrder[17] = "dfsr" /\ WriteOrder[18] = "mmfar"
          /\ WriteOrder[19] = "bfar" /\ WriteOrder[20] = "afsr" /\ WriteOrder[21] = "shcsr"
      BY SMT DEF WriteOrder
    <3>2. \/ r \in {"r0", "r1", "r2", "r3", "r12", "lr", "pc"}
          \/ r \in {"xpsr", "msp", "psp", "control", "primask", "basepri", "faultmask"}
          \/ r \in {"cfsr", "hfsr", "dfsr", "mmfar", "bfar", "afsr", "shcsr"}
      BY ZenonT(30) DEF RegNames
    <3>3. CASE r \in {"r0", "r1", "r2", "r3", "r12", "lr", "pc"}
      <4>1. 1 \in 1..21 /\ 2 \in 1..21 /\ 3 \in 1..21 /\ 4 \in 1..21 /\ 5 \in 1..21
            /\ 6 \in 1..21 /\ 7 \in 1..21
        OBVIOUS
      <4> QED
        BY <3>1, <3>3, <4>1, SMT
    <3>4. CASE r \in {"xpsr", "msp", "psp", "control", "primask", "basepri", "faultmask"}
      <4>1. 8 \in 1..21 /\ 9 \in 1..21 /\ 10 \in 1..21 /\ 11 \in 1..21 /\ 12 \in 1..21
            /\ 13 \in 1..21 /\ 14 \in 1..21
        OBVIOUS
      <4> QED
        BY <3>1, <3>4, <4>1, SMT
    <3>5. CASE r \in {"cfsr", "hfsr", "dfsr", "mmfar", "bfar", "afsr", "shcsr"}
      <4>1. 15 \in 1..21 /\ 16 \in 1..21 /\ 17 \in 1..21 /\ 18 \in 1..21 /\ 19 \in 1..21
            /\ 20 \in 1..21 /\ 21 \in 1..21
        OBVIOUS
      <4> QED
        BY <3>1, <3>5, <4>1, SMT
    <3> QED
      BY <3>2, <3>3, <3>4, <3>5, Zenon
  <2> QED
    BY <2>1, <2>2, Zenon
<1>2. RegsAt + ReadAt[r] \in 0..188 /\ RegsAt = 36
  BY <1>1, SMT DEF RegsAt
<1>3. ASSUME NEW i \in 0..3
      PROVE  x[RegsAt + ReadAt[r] + i] = Byte(regs[r], i)
  <2>1. PICK o \in 36..119 : o = RegsAt + ReadAt[r] + i
    BY <1>1, <1>2, SMT
  <2>2. o - RegsAt = 4 * (k - 1) + i
    BY <1>1, <1>2, <2>1, SMT
  <2>3. (o - RegsAt) \div 4 + 1 = k /\ (o - RegsAt) % 4 = i
    BY <2>2, SMT
  <2> QED
    BY <1>1, <2>1, <2>3, Zenon
<1>4. PICK at \in 0..188 : at = RegsAt + ReadAt[r]
  BY <1>2, Zenon
<1>5. \A i \in 0..3 : x[at + i] = Byte(regs[r], i)
  BY <1>3, <1>4, Zenon
<1>6. regs[r] \in Words
  BY Zenon
<1>7. Load32(x, at) = regs[r]
  BY <1>5, <1>6, LoadOfBytes, Zenon
<1> QED
  BY <1>4, <1>7, Zenon

\* A commit over any image leaves a valid one that decodes to its arguments.
LEMMA CommittedReads ==
  ASSUME CBytes, CrcIsWord, TypedInputs, NEW w \in Wires, NEW c \in Commits
  PROVE  /\ ValidWire(Committed(w, c))
         /\ Decoded(Committed(w, c)).regs = c.regs
         /\ \A f \in {"flags", "fault_reason", "sequence", "user_tag",
                      "captured_sp", "stack_bytes"} : Decoded(Committed(w, c))[f] = c[f]
         /\ Decoded(Committed(w, c)).data = IF c.stack_bytes = 0 THEN ZeroData ELSE c.data
<1>1. PICK x \in Wires, crc \in Words :
           /\ x = Committed(w, c) /\ crc = CrcOf(x)
           /\ \A o \in 0..3 : x[o] = Byte(Magic, o - 0)
           /\ \A o \in 4..31 :
                x[o] = Byte(CommitDump(c)[FieldAt(o)], o - At[FieldAt(o)])
           /\ \A o \in 32..35 : x[o] = Byte(crc, o - 32)
           /\ \A o \in 36..119 :
                x[o] = Byte(c.regs[WriteOrder[(o - RegsAt) \div 4 + 1]], (o - RegsAt) % 4)
           /\ \A o \in 120..123 : x[o] = Byte(c.captured_sp, o - 120)
           /\ \A o \in 124..127 : x[o] = Byte(c.stack_bytes, o - 124)
           /\ \A o \in 128..191 : x[o] = IF c.stack_bytes = 0 THEN 0 ELSE c.data[o - 128]
  BY CommittedAt, ZenonT(60)
<1> DEFINE d == CommitDump(c)
<1>a. x = Committed(w, c) /\ crc = CrcOf(x)
  BY <1>1
<1>b. \A o \in 4..31 : x[o] = Byte(d[FieldAt(o)], o - At[FieldAt(o)])
  BY <1>1
<1>c. \A o \in 128..191 : x[o] = IF c.stack_bytes = 0 THEN 0 ELSE c.data[o - 128]
  BY <1>1
<1>2. /\ c.flags \in 0..15 /\ c.fault_reason \in 0..5
      /\ c.sequence \in Words /\ c.user_tag \in Words /\ c.captured_sp \in Words
      /\ c.stack_bytes \in {0, StackBytes}
      /\ c.regs \in [RegNames -> Words]
      /\ c.data \in [SliceOffsets -> Bytes]
      /\ PortArch \in {3, 4}
  BY Zenon DEF TypedInputs, TypedCommits
<1>3. \A v \in 0..255 : v \in Words
  BY WordSet, SMT
<1>4. c.flags \in Words /\ c.fault_reason \in Words /\ c.stack_bytes \in Words /\ PortArch \in Words
      /\ TotalSize \in Words /\ Magic \in Words
  BY <1>2, <1>3, SMT DEF StackBytes, TotalSize, CBytes
<1>5. /\ d["version"] = 1 /\ d["header_size"] = HeaderSize /\ d["total_size"] = TotalSize
      /\ d["flags"] = c.flags /\ d["arch_id"] = PortArch /\ d["fault_reason"] = c.fault_reason
      /\ d["sequence"] = c.sequence /\ d["user_tag"] = c.user_tag
  BY SMT DEF CommitDump
<1> HIDE DEF d
<1>6. Field(x, "version") = 1 /\ Field(x, "header_size") = HeaderSize
  <2>1. d["version"] \in 0..255 /\ d["header_size"] \in 0..255
    BY <1>5, SMT DEF HeaderSize
  <2>2. \A f \in {"version", "header_size"} : d[f] \in 0..255 => Field(x, f) = d[f]
    BY <1>b, SmallFieldRead, Zenon
  <2> QED
    BY <1>5, <2>1, <2>2, Zenon
<1>7. /\ Field(x, "total_size") = TotalSize /\ Field(x, "flags") = c.flags
      /\ Field(x, "arch_id") = PortArch /\ Field(x, "fault_reason") = c.fault_reason
      /\ Field(x, "sequence") = c.sequence /\ Field(x, "user_tag") = c.user_tag
  <2>1. \A f \in {"total_size", "flags", "arch_id", "fault_reason", "sequence", "user_tag"} :
          d[f] \in Words => Field(x, f) = d[f]
    BY <1>b, WordFieldRead, Zenon
  <2> QED
    BY <1>2, <1>4, <1>5, <2>1, Zenon
<1>8. Field(x, "magic") = Magic /\ Field(x, "crc32") = crc
  <2>1. Load32(x, 0) = Magic
    <3>1. \A i \in 0..3 : 0 + i \in 0..3 /\ (0 + i) - 0 = i
      BY SMT
    <3>2. \A i \in 0..3 : x[0 + i] = Byte(Magic, i)
      BY <1>1, <3>1, ZenonT(60)
    <3> QED
      BY <1>4, <3>2, LoadOfBytes, SMT
  <2>2. Load32(x, 32) = crc
    <3>1. \A i \in 0..3 : 32 + i \in 32..35 /\ (32 + i) - 32 = i
      BY SMT
    <3>2. \A i \in 0..3 : x[32 + i] = Byte(crc, i)
      BY <1>1, <3>1, ZenonT(60)
    <3> QED
      BY <3>2, LoadOfBytes, SMT
  <2> QED
    BY <2>1, <2>2, SMT DEF Field, At, Width
<1>9. Load32(x, StackAt) = c.captured_sp /\ StackSize(x) = c.stack_bytes
  <2>0. StackAt = 120 /\ StackAt + 4 = 124
    BY SMT DEF StackAt
  <2>1. Load32(x, 120) = c.captured_sp
    <3>1. \A i \in 0..3 : 120 + i \in 120..123 /\ (120 + i) - 120 = i
      BY SMT
    <3>2. \A i \in 0..3 : x[120 + i] = Byte(c.captured_sp, i)
      BY <1>1, <3>1, ZenonT(60)
    <3> QED
      BY <1>2, <3>2, LoadOfBytes, SMT
  <2>2. Load32(x, 124) = c.stack_bytes
    <3>1. \A i \in 0..3 : 124 + i \in 124..127 /\ (124 + i) - 124 = i
      BY SMT
    <3>2. \A i \in 0..3 : x[124 + i] = Byte(c.stack_bytes, i)
      BY <1>1, <3>1, ZenonT(60)
    <3> QED
      BY <1>4, <3>2, LoadOfBytes, SMT
  <2> QED
    BY <2>0, <2>1, <2>2, Zenon DEF StackSize
<1>10. ValidWire(x)
  <2>1. c.flags \div 16 = 0 /\ c.fault_reason <= 5
    BY <1>2, SMT
  <2> QED
    BY <1>a, <1>2, <1>6, <1>7, <1>8, <1>9, <2>1, Zenon DEF ValidWire
<1>11. Decoded(x).regs = c.regs
  <2>1. \A r \in RegNames : Load32(x, RegsAt + ReadAt[r]) = c.regs[r]
    BY <1>1, <1>2, RegRead, ZenonT(60)
  <2>2. c.regs = [r \in RegNames |-> c.regs[r]]
    BY <1>2, Zenon
  <2> QED
    BY <2>1, <2>2, Zenon DEF Decoded
<1>12. \A f \in {"flags", "fault_reason", "sequence", "user_tag",
                 "captured_sp", "stack_bytes"} : Decoded(x)[f] = c[f]
  <2>1. ~(StackSize(x) > StackBytes)
    BY <1>2, <1>9, SMT DEF StackBytes
  <2>2. Decoded(x).captured_sp = c.captured_sp /\ Decoded(x).stack_bytes = c.stack_bytes
    BY <1>9, <2>1, Zenon DEF Decoded
  <2>3. /\ Decoded(x).flags = Field(x, "flags") /\ Decoded(x).fault_reason = Field(x, "fault_reason")
        /\ Decoded(x).sequence = Field(x, "sequence") /\ Decoded(x).user_tag = Field(x, "user_tag")
    BY Zenon DEF Decoded
  <2> QED
    BY <1>7, <2>2, <2>3, SMT
<1>13. Decoded(x).data = IF c.stack_bytes = 0 THEN ZeroData ELSE c.data
  <2>1. \A i \in SliceOffsets :
          x[StackAt + 8 + i] = IF c.stack_bytes = 0 THEN 0 ELSE c.data[i]
    <3>1. ASSUME NEW i \in SliceOffsets
          PROVE  x[StackAt + 8 + i] = IF c.stack_bytes = 0 THEN 0 ELSE c.data[i]
      <4>1. PICK o \in 128..191 : o = StackAt + 8 + i /\ o - 128 = i
        BY SMT DEF SliceOffsets, StackBytes, StackAt
      <4>2. x[o] = IF c.stack_bytes = 0 THEN 0 ELSE c.data[o - 128]
        BY <1>c, Zenon
      <4> QED
        BY <4>1, <4>2, Zenon
    <3> QED
      BY <3>1, Zenon
  <2>2. Decoded(x).data = [i \in SliceOffsets |-> IF c.stack_bytes = 0 THEN 0 ELSE c.data[i]]
    BY <2>1, Zenon DEF Decoded
  <2>3. c.data = [i \in SliceOffsets |-> c.data[i]]
    BY <1>2, Zenon
  <2> QED
    BY <2>2, <2>3, Zenon DEF ZeroData
<1> QED
  BY <1>1, <1>10, <1>11, <1>12, <1>13, Zenon

HoldsInv ==
  /\ BootInv
  /\ holds \subseteq Commits
  /\ \A last \in holds : \E w \in Wires : wire = Committed(w, last)

LEMMA HoldsInvAlways ==
  ASSUME CBytes, CrcIsWord, TypedInputs
  PROVE  Spec => []HoldsInv
<1>1. Init => HoldsInv
  BY BootInvInit, Zenon DEF Init, HoldsInv
<1>2. HoldsInv /\ [Next]_vars => HoldsInv'
  <2> SUFFICES ASSUME HoldsInv, [Next]_vars
               PROVE  HoldsInv'
    OBVIOUS
  <2>0. BootInv'
    BY BootInvNext, Zenon DEF HoldsInv
  <2>1. ASSUME NEW c \in Commits, Commit(c)
        PROVE  HoldsInv'
    BY <2>0, <2>1, Zenon DEF Commit, HoldsInv, BootInv
  <2>2. ASSUME Get
        PROVE  HoldsInv'
    BY <2>0, <2>2, Zenon DEF Get, HoldsInv
  <2>3. ASSUME Clear
        PROVE  HoldsInv'
    BY <2>0, <2>3, Zenon DEF Clear, HoldsInv
  <2>4. ASSUME NEW o \in DecayOffsets, NEW b \in DecayBytes, PowerCycle(o, b)
        PROVE  HoldsInv'
    <3>1. CASE wire[o] = b
      <4>1. wire' = wire
        BY <2>4, <3>1, Zenon DEF PowerCycle, HoldsInv, BootInv, Wires
      <4> QED
        BY <2>0, <2>4, <3>1, <4>1, Zenon DEF PowerCycle, HoldsInv
    <3>2. CASE wire[o] # b
      BY <2>0, <2>4, <3>2, Zenon DEF PowerCycle, HoldsInv
    <3> QED
      BY <3>1, <3>2
  <2>5. ASSUME UNCHANGED vars
        PROVE  HoldsInv'
    BY <2>0, <2>5, Zenon DEF vars, HoldsInv
  <2> QED
    BY <2>1, <2>2, <2>3, <2>4, <2>5, Zenon DEF Next
<1> QED
  BY <1>1, <1>2, PTL DEF Spec

\* For every CRC, image and commit: the slot a commit wrote validates and reads
\* back as the commit's arguments, register by register (write_regs lines 47-57
\* against read_regs lines 77-97).
THEOREM CommitsReadBack ==
  ASSUME CBytes, CrcIsWord, TypedInputs
  PROVE  Spec => []CommitReadsBack
<1>1. HoldsInv => CommitReadsBack
  <2> SUFFICES ASSUME HoldsInv, NEW last \in holds
               PROVE  /\ ValidWire(wire)
                      /\ Decoded(wire).regs = last.regs
                      /\ \A f \in {"flags", "fault_reason", "sequence", "user_tag",
                                   "captured_sp", "stack_bytes"} : Decoded(wire)[f] = last[f]
                      /\ Decoded(wire).data = IF last.stack_bytes = 0 THEN ZeroData ELSE last.data
    BY Zenon DEF CommitReadsBack
  <2>1. PICK w \in Wires : wire = Committed(w, last)
    BY Zenon DEF HoldsInv
  <2>2. last \in Commits
    BY Zenon DEF HoldsInv
  <2> QED
    BY <2>1, <2>2, CommittedReads, Zenon
<1> QED
  BY <1>1, HoldsInvAlways, PTL

LEMMA SameShape ==
  ASSUME NEW w
  PROVE  DOMAIN Decoded(w) = DOMAIN ZeroDump
BY SMT DEF Decoded, ZeroDump

\* Type correctness for every CRC, image and commit.
THEOREM WireTyped ==
  ASSUME CBytes, CrcIsWord, TypedInputs
  PROVE  Spec => []TypeOK
<1> DEFINE Rest == /\ got \in BOOLEAN
                   /\ DOMAIN cached = DOMAIN ZeroDump
                   /\ holds \subseteq Commits
                   /\ decays \in 0..MaxDecays
<1>1. Init => Rest
  <2>1. 0 \in 0..MaxDecays
    BY SMT DEF TypedInputs
  <2> QED
    BY <2>1, Zenon DEF Init
<1>2. Rest /\ [Next]_vars => Rest'
  <2> SUFFICES ASSUME Rest, [Next]_vars
               PROVE  Rest'
    OBVIOUS
  <2>1. ASSUME NEW c \in Commits, Commit(c)
        PROVE  Rest'
    BY <2>1, Zenon DEF Commit, Reset
  <2>2. ASSUME Get
        PROVE  Rest'
    BY <2>2, SameShape, Zenon DEF Get
  <2>3. ASSUME Clear
        PROVE  Rest'
    BY <2>3, Zenon DEF Clear
  <2>4. ASSUME NEW o \in DecayOffsets, NEW b \in DecayBytes, PowerCycle(o, b)
        PROVE  Rest'
    <3>1. decays' \in 0..MaxDecays
      BY <2>4, SMT DEF PowerCycle, TypedInputs
    <3>2. holds' \subseteq Commits
      BY <2>4, Zenon DEF PowerCycle
    <3> QED
      BY <2>4, <3>1, <3>2, Zenon DEF PowerCycle, Reset
  <2>5. ASSUME UNCHANGED vars
        PROVE  Rest'
    BY <2>5, Zenon DEF vars
  <2> QED
    BY <2>1, <2>2, <2>3, <2>4, <2>5, Zenon DEF Next
<1>3. BootInv /\ Rest => TypeOK
  BY Zenon DEF BootInv, TypeOK
<1> HIDE DEF Rest
<1> QED
  BY <1>1, <1>2, <1>3, BootInvAlways, PTL DEF Spec

-----------------------------------------------------------------------------
(* What decodes can be encoded again. *)

LEMMA LoadHalf ==
  ASSUME CBytes, NEW w \in Wires, NEW at \in 0..188
  PROVE  /\ Load16(w, at) \in Words
         /\ \A i \in 0..1 : Byte(Load16(w, at), i) = w[at + i]
<1>0. w[at] \in Bytes /\ w[at + 1] \in Bytes /\ 0 \in Bytes
  <2>1. 0 \in Bytes
    BY SMT DEF Bytes, CBytes
  <2>2. w[at] \in Bytes /\ w[at + 1] \in Bytes
    BY LoadIs, SMT
  <2> QED
    BY <2>1, <2>2, Zenon
<1>1. PICK a \in Bytes, b \in Bytes : w[at] = a /\ w[at + 1] = b
  BY <1>0, Zenon
<1>2. PICK v \in Nat : a + 256 * (b + 256 * (0 + 256 * 0)) = v
  <2>1. a \in 0..255 /\ b \in 0..255
    BY WordSet, SMT
  <2> QED
    BY <2>1, SMT
<1>3. Load16(w, at) = v
  <2>1. a \in 0..255 /\ b \in 0..255
    BY WordSet, SMT
  <2>2. Load16(w, at) = w[at] + 256 * w[at + 1]
    BY LoadIs, SMT
  <2> QED
    BY <1>1, <1>2, <2>1, <2>2, SMT
<1>4. Byte(v, 0) = a /\ Byte(v, 1) = b /\ v \in Words
  BY <1>0, <1>2, BytesOfWord, SMT
<1>5. at + 0 = at /\ \A i \in 0..1 : i = 0 \/ i = 1
  BY SMT
<1> QED
  BY <1>1, <1>3, <1>4, <1>5, Zenon

\* A field of the header has the bytes at its place.
LEMMA FieldBytes ==
  ASSUME CBytes, NEW w \in Wires, NEW f \in DOMAIN At, NEW i \in 0..(Width[f] - 1)
  PROVE  Field(w, f) \in Words /\ Byte(Field(w, f), i) = w[At[f] + i]
<1>1. PICK at \in 0..188 : at = At[f]
  BY SMT DEF At
<1>2. CASE Width[f] = 2
  <2>1. i \in 0..1
    BY <1>2, SMT
  <2>2. Load16(w, at) \in Words /\ Byte(Load16(w, at), i) = w[at + i]
    BY <2>1, LoadHalf, Zenon
  <2> QED
    BY <1>1, <1>2, <2>2, Zenon DEF Field
<1>3. CASE Width[f] # 2
  <2>1. i \in 0..3
    BY <1>3, SMT DEF Width
  <2>2. Load32(w, at) \in Words /\ Byte(Load32(w, at), i) = w[at + i]
    BY <2>1, LoadWord, Zenon
  <2> QED
    BY <1>1, <1>3, <2>2, Zenon DEF Field
<1> QED
  BY <1>2, <1>3, Zenon

LEMMA DecodedFields ==
  ASSUME CBytes, NEW w \in Wires, ValidWire(w)
  PROVE  /\ \A f \in DOMAIN At : Decoded(w)[f] = Field(w, f) /\ Field(w, f) \in Words
         /\ Decoded(w).captured_sp = Load32(w, StackAt)
         /\ Decoded(w).stack_bytes = StackSize(w)
         /\ Decoded(w).regs \in [RegNames -> Words]
         /\ \A r \in RegNames : Decoded(w).regs[r] = Load32(w, RegsAt + ReadAt[r])
         /\ Decoded(w).data \in [SliceOffsets -> Bytes]
         /\ \A o \in 128..191 : Decoded(w).data[o - 128] = w[o]
<1>1. \A f \in DOMAIN At : Decoded(w)[f] = Field(w, f)
  BY SMT DEF Decoded, At
<1>2. \A f \in DOMAIN At : Field(w, f) \in Words
  <2>1. ASSUME NEW f \in DOMAIN At
        PROVE  Field(w, f) \in Words
    <3>1. 0 \in 0..(Width[f] - 1)
      BY SMT DEF Width, At
    <3> QED
      BY <3>1, FieldBytes, Zenon
  <2> QED
    BY <2>1, Zenon
<1>3. Decoded(w).captured_sp = Load32(w, StackAt)
  BY Zenon DEF Decoded
<1>4. Decoded(w).stack_bytes = StackSize(w)
  <2>1. StackSize(w) \in {0, StackBytes}
    BY Zenon DEF ValidWire
  <2>2. ~(StackSize(w) > StackBytes)
    BY <2>1, SMT DEF StackBytes
  <2> QED
    BY <2>2, Zenon DEF Decoded
<1>5. ASSUME NEW r \in RegNames
      PROVE  Load32(w, RegsAt + ReadAt[r]) \in Words
  <2>1. PICK at \in 0..188 : at = RegsAt + ReadAt[r]
    BY SMT DEF RegsAt, ReadAt, RegNames
  <2> QED
    BY <2>1, LoadWord, Zenon
<1>6. Decoded(w).regs = [r \in RegNames |-> Load32(w, RegsAt + ReadAt[r])]
  BY Zenon DEF Decoded
<1>7. Decoded(w).data = [i \in SliceOffsets |-> w[StackAt + 8 + i]]
  BY Zenon DEF Decoded
<1>8. ASSUME NEW i \in SliceOffsets
      PROVE  StackAt + 8 + i \in Offsets
  BY SMT DEF SliceOffsets, StackBytes, StackAt, Offsets, TotalSize
<1>9. ASSUME NEW o \in 128..191
      PROVE  o - 128 \in SliceOffsets /\ StackAt + 8 + (o - 128) = o
  BY SMT DEF SliceOffsets, StackBytes, StackAt
<1>10. Decoded(w).data \in [SliceOffsets -> Bytes]
  BY <1>7, <1>8, Zenon DEF Wires
<1>11. \A o \in 128..191 : Decoded(w).data[o - 128] = w[o]
  <2>1. ASSUME NEW o \in 128..191
        PROVE  Decoded(w).data[o - 128] = w[o]
    <3>1. PICK i \in SliceOffsets : i = o - 128 /\ StackAt + 8 + i = o
      BY <1>9, Zenon
    <3>2. Decoded(w).data[i] = w[StackAt + 8 + i]
      BY <1>7, Zenon
    <3> QED
      BY <3>1, <3>2, Zenon
  <2> QED
    BY <2>1, Zenon
<1>12. /\ Decoded(w).regs \in [RegNames -> Words]
       /\ \A r \in RegNames : Decoded(w).regs[r] = Load32(w, RegsAt + ReadAt[r])
  BY <1>5, <1>6, Zenon
<1> QED
  BY <1>1, <1>2, <1>3, <1>4, <1>10, <1>11, <1>12, Zenon

LEMMA CrcIgnoresItself ==
  ASSUME NEW w, NEW crc
  PROVE  CrcOf(Put(w, At.crc32, 4, crc)) = CrcOf(w)
<1> DEFINE y == Put(w, At.crc32, 4, crc)
<1>1. At.crc32 \in Nat
  BY SMT DEF At
<1>2. ASSUME NEW o \in Offsets
      PROVE  Covered(y)[o] = Covered(w)[o]
  <2>1. CASE o \in (At.crc32)..(At.crc32 + 3)
    BY <2>1, CoveredAt, SMT
  <2>2. CASE o \notin (At.crc32)..(At.crc32 + 3)
    <3>1. y[o] = w[o]
      BY <1>1, <2>2, PutAt, SMT
    <3> QED
      BY <2>2, <3>1, CoveredAt, SMT
  <2> QED
    BY <2>1, <2>2, Zenon
<1>3. Covered(y) = Covered(w)
  BY <1>2, Zenon DEF Put, Covered
<1> QED
  BY <1>3, Zenon DEF CrcOf, Covered

\* The image made of a decoded dump, byte by byte.
LEMMA EncodedAt ==
  ASSUME CBytes, CrcIsWord, NEW w \in Wires, ValidWire(w)
  PROVE  \E x \in Wires, crc \in Words :
           /\ x = Encoded(Decoded(w)) /\ crc = CrcOf(x)
           /\ \A o \in 0..3 : x[o] = Byte(Decoded(w).magic, o - 0)
           /\ \A o \in 4..31 :
                x[o] = Byte(Decoded(w)[FieldAt(o)], o - At[FieldAt(o)])
           /\ \A o \in 32..35 : x[o] = Byte(crc, o - 32)
           /\ \A o \in 36..119 :
                x[o] = Byte(Decoded(w).regs[WriteOrder[(o - RegsAt) \div 4 + 1]],
                            (o - RegsAt) % 4)
           /\ \A o \in 120..123 : x[o] = Byte(Decoded(w).captured_sp, o - 120)
           /\ \A o \in 124..127 : x[o] = Byte(Decoded(w).stack_bytes, o - 124)
           /\ \A o \in 128..191 :
                x[o] = IF Decoded(w).stack_bytes = 0 THEN 0 ELSE Decoded(w).data[o - 128]
<1> DEFINE d == Decoded(w)
           w1 == Put(ZeroWire, At.magic, 4, d.magic)
           w2 == PutHeader(w1, d)
           w3 == PutRegs(w2, d.regs)
           w4 == PutStack(w3, d)
           x == Put(w4, At.crc32, 4, CrcOf(w4))
<1>1. /\ At.magic = 0 /\ At.crc32 = 32 /\ RegsAt = 36 /\ StackAt - 1 = 119
      /\ HeaderSize - 1 = 35 /\ At.magic \in Nat /\ At.crc32 \in Nat
  BY SMT DEF At, StackAt, RegsAt, HeaderSize
<1>2. x = Encoded(Decoded(w)) /\ x = Sealed(w4)
  BY Zenon DEF Encoded, Sealed
<1>3. /\ \A f \in HeaderFields : d[f] \in Nat
      /\ d.magic \in Nat /\ d.captured_sp \in Nat /\ d.stack_bytes \in Nat
      /\ d.regs \in [RegNames -> Words] /\ d.data \in [SliceOffsets -> Bytes]
  <2>1. /\ \A f \in DOMAIN At : d[f] \in Words
        /\ d.regs \in [RegNames -> Words] /\ d.data \in [SliceOffsets -> Bytes]
        /\ d.captured_sp = Load32(w, StackAt) /\ d.stack_bytes = StackSize(w)
    BY DecodedFields, Zenon
  <2>2. \A f \in HeaderFields : f \in DOMAIN At
    BY SMT DEF At, HeaderFields
  <2>3. "magic" \in DOMAIN At
    BY SMT DEF At
  <2>4. d.captured_sp \in Words
    <3>1. StackAt \in 0..188
      BY SMT DEF StackAt
    <3> QED
      BY <2>1, <3>1, LoadWord, Zenon
  <2>5. StackSize(w) \in {0, StackBytes}
    BY Zenon DEF ValidWire
  <2> HIDE DEF d
  <2>6. \A v \in Words : v \in Nat
    BY WordSet, SMT
  <2>7. StackSize(w) \in Nat
    BY <2>5, SMT DEF StackBytes
  <2> QED
    BY <2>1, <2>2, <2>3, <2>4, <2>6, <2>7, Zenon
<1> HIDE DEF d
<1>4. w4 \in Wires
  <2>1. w1 \in Wires
    <3>1. 4 \in {2, 4}
      BY SMT
    <3> QED
      BY <1>1, <1>3, <3>1, ZeroWireTyped, PutTyped, ZenonT(60)
  <2>2. w2 \in Wires
    BY <1>3, <2>1, HeaderTyped, Zenon
  <2>3. w3 \in Wires
    BY <1>3, <2>2, RegsTyped, Zenon
  <2> QED
    BY <1>3, <2>3, StackTyped, Zenon
<1>5. x \in Wires
  BY <1>2, <1>4, CrcTyped, Zenon
<1>6. CrcOf(x) \in Words /\ CrcOf(w4) = CrcOf(x)
  BY <1>5, CrcTyped, CrcIgnoresItself, Zenon
<1>7. ASSUME NEW o \in Offsets
      PROVE  /\ o \in 0..3 => w3[o] = Byte(d.magic, o - 0)
             /\ o \in 4..35 => w3[o] = Byte(d[FieldAt(o)], o - At[FieldAt(o)])
             /\ o \in 36..119 =>
                  w3[o] = Byte(d.regs[WriteOrder[(o - RegsAt) \div 4 + 1]], (o - RegsAt) % 4)
  <2>1. o \in 0..3 => w1[o] = Byte(d.magic, o - 0)
    <3>1. w1[o] = IF o \in (At.magic)..(At.magic + 4 - 1)
                  THEN Byte(d.magic, o - At.magic) ELSE ZeroWire[o]
      BY Zenon DEF Put
    <3>2. 0 + 4 - 1 = 3
      BY SMT
    <3> HIDE DEF w1
    <3> QED
      BY <1>1, <3>1, <3>2, Zenon
  <2>2. w2[o] = IF o \in 4..(HeaderSize - 1)
                THEN Byte(d[FieldAt(o)], o - At[FieldAt(o)]) ELSE w1[o]
    BY Zenon DEF PutHeader
  <2>3. w3[o] = IF o \in RegsAt..(StackAt - 1)
                THEN Byte(d.regs[WriteOrder[(o - RegsAt) \div 4 + 1]], (o - RegsAt) % 4)
                ELSE w2[o]
    BY Zenon DEF PutRegs
  <2>4. 4..(HeaderSize - 1) = 4..35 /\ RegsAt..(StackAt - 1) = 36..119
    BY <1>1, Zenon
  <2>5. /\ o \in 0..3 => o \notin 4..35 /\ o \notin 36..119
        /\ o \in 4..35 => o \notin 36..119
    BY SMT
  <2> HIDE DEF w1, w2, w3
  <2> QED
    BY <2>1, <2>2, <2>3, <2>4, <2>5, Zenon
<1>8. x = Put(w4, At.crc32, 4, CrcOf(w4)) /\ w4 = PutStack(w3, d)
  OBVIOUS
<1> HIDE DEF w1, w2, w3, w4, x
<1>9. ASSUME NEW o \in Offsets
      PROVE  /\ o \in 32..35 => x[o] = Byte(CrcOf(x), o - 32)
             /\ o \notin 32..35 => x[o] = w4[o]
  <2>1. /\ o \in (At.crc32)..(At.crc32 + 3) => x[o] = Byte(CrcOf(w4), o - At.crc32)
        /\ o \notin (At.crc32)..(At.crc32 + 3) => x[o] = w4[o]
    <3>1. At.crc32 \in Nat
      BY <1>1, SMT
    <3>2. LET y == Put(w4, At.crc32, 4, CrcOf(w4))
          IN /\ o \in (At.crc32)..(At.crc32 + 3) => y[o] = Byte(CrcOf(w4), o - At.crc32)
             /\ o \notin (At.crc32)..(At.crc32 + 3) => y[o] = w4[o]
      BY <3>1, PutAt, Zenon
    <3> QED
      BY <1>8, <3>2, Zenon
  <2>2. 32 + 3 = 35
    BY SMT
  <2> QED
    BY <1>1, <1>6, <2>1, <2>2, Zenon
<1>10. ASSUME NEW o \in Offsets
       PROVE  /\ o \in 0..119 => w4[o] = w3[o]
              /\ o \in 120..123 => w4[o] = Byte(d.captured_sp, o - 120)
              /\ o \in 124..127 => w4[o] = Byte(d.stack_bytes, o - 124)
              /\ o \in 128..191 => w4[o] = IF d.stack_bytes = 0 THEN 0 ELSE d.data[o - 128]
  BY <1>8, PutStackAt, SMT
<1>11. \A o \in 0..191 : o \in Offsets
  BY SMT DEF Offsets, TotalSize
<1>12. /\ \A o \in 0..3 : x[o] = Byte(d.magic, o - 0)
       /\ \A o \in 4..31 : x[o] = Byte(d[FieldAt(o)], o - At[FieldAt(o)])
       /\ \A o \in 36..119 :
            x[o] = Byte(d.regs[WriteOrder[(o - RegsAt) \div 4 + 1]], (o - RegsAt) % 4)
  <2>1. \A o \in 0..119 : o \notin 32..35 => x[o] = w3[o]
    BY <1>9, <1>10, <1>11, SMT
  <2>2. \A o \in 4..31 : o \in 4..35
    BY SMT
  <2>3. ASSUME NEW o \in 0..3
        PROVE  x[o] = Byte(d.magic, o - 0)
    <3>1. o \in 0..119 /\ o \notin 32..35 /\ o \in 0..191
      BY SMT
    <3>2. x[o] = w3[o]
      BY <2>1, <3>1, Zenon
    <3>3. w3[o] = Byte(d.magic, o - 0)
      BY <1>7, <1>11, <3>1, Zenon
    <3> QED
      BY <3>2, <3>3, Zenon
  <2>4. ASSUME NEW o \in 4..31
        PROVE  x[o] = Byte(d[FieldAt(o)], o - At[FieldAt(o)])
    <3>1. o \in 0..119 /\ o \notin 32..35 /\ o \in 0..191
      BY SMT
    <3>2. x[o] = w3[o]
      BY <2>1, <3>1, Zenon
    <3>3. w3[o] = Byte(d[FieldAt(o)], o - At[FieldAt(o)])
      BY <1>7, <1>11, <3>1, <2>2, Zenon
    <3> QED
      BY <3>2, <3>3, Zenon
  <2>5. ASSUME NEW o \in 36..119
        PROVE  x[o] = Byte(d.regs[WriteOrder[(o - RegsAt) \div 4 + 1]], (o - RegsAt) % 4)
    <3>1. o \in 0..119 /\ o \notin 32..35 /\ o \in 0..191
      BY SMT
    <3>2. x[o] = w3[o]
      BY <2>1, <3>1, Zenon
    <3>3. w3[o] = Byte(d.regs[WriteOrder[(o - RegsAt) \div 4 + 1]], (o - RegsAt) % 4)
      BY <1>7, <1>11, <3>1, Zenon
    <3> QED
      BY <3>2, <3>3, Zenon
  <2> QED
    BY <2>3, <2>4, <2>5, Zenon
<1>13. /\ \A o \in 32..35 : x[o] = Byte(CrcOf(x), o - 32)
       /\ \A o \in 120..123 : x[o] = Byte(d.captured_sp, o - 120)
       /\ \A o \in 124..127 : x[o] = Byte(d.stack_bytes, o - 124)
       /\ \A o \in 128..191 : x[o] = IF d.stack_bytes = 0 THEN 0 ELSE d.data[o - 128]
  BY <1>9, <1>10, <1>11, SMTT(30)
<1> QED
  BY <1>2, <1>5, <1>6, <1>12, <1>13, ZenonT(60) DEF d

LEMMA RegisterPlace ==
  ASSUME NEW o \in 36..119
  PROVE  \E k \in 1..21, i \in 0..3 :
           /\ (o - RegsAt) \div 4 + 1 = k /\ (o - RegsAt) % 4 = i
           /\ o = 36 + 4 * (k - 1) + i
           /\ WriteOrder[k] \in RegNames /\ ReadAt[WriteOrder[k]] = 4 * (k - 1)
<1>1. RegsAt = 36
  BY SMT DEF RegsAt
<1>2. \E k \in 1..21, i \in 0..3 :
           /\ (o - 36) \div 4 + 1 = k /\ (o - 36) % 4 = i
           /\ o = 36 + 4 * (k - 1) + i
  BY SMT
<1>3. \A k \in 1..21 : WriteOrder[k] \in RegNames /\ ReadAt[WriteOrder[k]] = 4 * (k - 1)
  BY SMT DEF WriteOrder, ReadAt, RegNames
<1> QED
  BY <1>1, <1>2, <1>3, Zenon

\* The encoder puts every byte back, but for the seal and an absent slice.
LEMMA EncodedKeeps ==
  ASSUME CBytes, CrcIsWord, NEW w \in Wires, ValidWire(w)
  PROVE  \E x \in Wires, crc \in Words :
           /\ x = Encoded(Decoded(w)) /\ crc = CrcOf(x)
           /\ \A o \in 0..31 : x[o] = w[o]
           /\ \A o \in 32..35 : x[o] = Byte(crc, o - 32)
           /\ \A o \in 36..127 : x[o] = w[o]
           /\ Decoded(w).stack_bytes # 0 \/ Decoded(w).data = ZeroData =>
                \A o \in 128..191 : x[o] = w[o]
<1> DEFINE d == Decoded(w)
<1>1. PICK x \in Wires, crc \in Words :
           /\ x = Encoded(d) /\ crc = CrcOf(x)
           /\ \A o \in 0..3 : x[o] = Byte(d.magic, o - 0)
           /\ \A o \in 4..31 : x[o] = Byte(d[FieldAt(o)], o - At[FieldAt(o)])
           /\ \A o \in 32..35 : x[o] = Byte(crc, o - 32)
           /\ \A o \in 36..119 :
                x[o] = Byte(d.regs[WriteOrder[(o - RegsAt) \div 4 + 1]], (o - RegsAt) % 4)
           /\ \A o \in 120..123 : x[o] = Byte(d.captured_sp, o - 120)
           /\ \A o \in 124..127 : x[o] = Byte(d.stack_bytes, o - 124)
           /\ \A o \in 128..191 : x[o] = IF d.stack_bytes = 0 THEN 0 ELSE d.data[o - 128]
  BY EncodedAt
<1>2. /\ \A f \in DOMAIN At : d[f] = Field(w, f)
      /\ d.captured_sp = Load32(w, StackAt) /\ d.stack_bytes = StackSize(w)
      /\ \A r \in RegNames : d.regs[r] = Load32(w, RegsAt + ReadAt[r])
      /\ \A o \in 128..191 : d.data[o - 128] = w[o]
  BY DecodedFields, Zenon
<1> HIDE DEF d
<1>3. ASSUME NEW o \in 0..3
      PROVE  x[o] = w[o]
  <2>1. PICK f \in DOMAIN At : f = "magic" /\ At[f] = 0 /\ Width[f] = 4
    BY SMT DEF At, Width
  <2>2. PICK i \in 0..(Width[f] - 1) : i = o - 0 /\ At[f] + i = o
    BY <2>1, SMT
  <2>3. Byte(Field(w, f), i) = w[At[f] + i]
    BY FieldBytes, Zenon
  <2>4. d.magic = Field(w, f)
    BY <1>2, <2>1, SMT
  <2>5. x[o] = Byte(d.magic, o - 0)
    BY <1>1, Zenon
  <2> QED
    BY <2>2, <2>3, <2>4, <2>5, Zenon
<1>4. ASSUME NEW o \in 4..31
      PROVE  x[o] = w[o]
  <2>1. o \in 4..35
    BY SMT
  <2>2. PICK f : f = FieldAt(o)
    OBVIOUS
  <2>3. f \in HeaderFields /\ At[f] <= o /\ o < At[f] + Width[f]
    BY <2>1, <2>2, FieldCover, Zenon
  <2>4. f \in DOMAIN At /\ At[f] \in Nat /\ Width[f] \in {2, 4}
    BY <2>3, SMT DEF HeaderFields, At, Width
  <2>5. PICK i \in 0..(Width[f] - 1) : i = o - At[f] /\ At[f] + i = o
    BY <2>3, <2>4, SMT
  <2>6. Byte(Field(w, f), i) = w[At[f] + i]
    BY <2>4, FieldBytes, Zenon
  <2> QED
    BY <1>1, <1>2, <2>2, <2>4, <2>5, <2>6, Zenon
<1>5. ASSUME NEW o \in 36..119
      PROVE  x[o] = w[o]
  <2>1. PICK k \in 1..21, i \in 0..3 :
           /\ (o - RegsAt) \div 4 + 1 = k /\ (o - RegsAt) % 4 = i
           /\ o = 36 + 4 * (k - 1) + i
           /\ WriteOrder[k] \in RegNames /\ ReadAt[WriteOrder[k]] = 4 * (k - 1)
    BY RegisterPlace, Zenon
  <2>2. PICK at \in 0..188 : at = RegsAt + ReadAt[WriteOrder[k]] /\ at + i = o
    BY <2>1, SMT DEF RegsAt
  <2>3. Byte(Load32(w, at), i) = w[at + i]
    BY LoadWord, Zenon
  <2>4. x[o] = Byte(d.regs[WriteOrder[k]], i)
    BY <1>1, <2>1, Zenon
  <2> QED
    BY <1>2, <2>1, <2>2, <2>3, <2>4, Zenon
<1>6. ASSUME NEW o \in 120..127
      PROVE  x[o] = w[o]
  <2>1. StackAt = 120 /\ StackAt + 4 = 124 /\ 120 \in 0..188 /\ 124 \in 0..188
    BY SMT DEF StackAt
  <2>2. CASE o \in 120..123
    <3>1. PICK at \in 0..188, i \in 0..3 : at = 120 /\ i = o - 120 /\ at + i = o
      BY <2>1, <2>2, SMT
    <3>2. Byte(Load32(w, at), i) = w[at + i]
      BY LoadWord, Zenon
    <3>3. d.captured_sp = Load32(w, at)
      BY <1>2, <2>1, <3>1, Zenon
    <3>4. x[o] = Byte(d.captured_sp, o - 120)
      BY <1>1, <2>2, ZenonT(30)
    <3> QED
      BY <3>1, <3>2, <3>3, <3>4, Zenon
  <2>3. CASE o \in 124..127
    <3>1. PICK at \in 0..188, i \in 0..3 : at = 124 /\ i = o - 124 /\ at + i = o
      BY <2>1, <2>3, SMT
    <3>2. Byte(Load32(w, at), i) = w[at + i]
      BY LoadWord, Zenon
    <3>3. d.stack_bytes = Load32(w, at)
      BY <1>2, <2>1, <3>1, Zenon DEF StackSize
    <3>4. x[o] = Byte(d.stack_bytes, o - 124)
      BY <1>1, <2>3, Zenon
    <3> QED
      BY <3>1, <3>2, <3>3, <3>4, Zenon
  <2> QED
    BY <2>2, <2>3, SMT
<1>7. ASSUME d.stack_bytes # 0 \/ d.data = ZeroData, NEW o \in 128..191
      PROVE  x[o] = w[o]
  <2>1. CASE d.stack_bytes # 0
    BY <1>1, <1>2, <2>1, Zenon
  <2>2. CASE d.stack_bytes = 0 /\ d.data = ZeroData
    <3>1. PICK i \in SliceOffsets : i = o - 128
      BY SMT DEF SliceOffsets, StackBytes
    <3>2. d.data[i] = 0
      BY <2>2, Zenon DEF ZeroData
    <3> QED
      BY <1>1, <1>2, <2>2, <3>1, <3>2, ZenonT(60)
  <2> QED
    BY <1>7, <2>1, <2>2, Zenon
<1>8. /\ \A o \in 0..31 : x[o] = w[o]
      /\ \A o \in 36..127 : x[o] = w[o]
  <2>1. \A o \in 0..31 : o \in 0..3 \/ o \in 4..31
    BY SMT
  <2>2. \A o \in 36..127 : o \in 36..119 \/ o \in 120..127
    BY SMT
  <2> QED
    BY <1>3, <1>4, <1>5, <1>6, <2>1, <2>2, ZenonT(60)
<1> QED
  BY <1>1, <1>7, <1>8, ZenonT(30) DEF d

LEMMA SameLoads ==
  ASSUME CBytes, NEW w \in Wires, NEW x \in Wires, NEW at \in 0..188,
         \A i \in 0..3 : x[at + i] = w[at + i]
  PROVE  Load16(x, at) = Load16(w, at) /\ Load32(x, at) = Load32(w, at)
<1>1. Load32(w, at) \in Words /\ \A i \in 0..3 : Byte(Load32(w, at), i) = w[at + i]
  BY LoadWord, Zenon
<1>2. Load32(x, at) = Load32(w, at)
  BY <1>1, LoadOfBytes, Zenon
<1>3. x[at] = w[at] /\ x[at + 1] = w[at + 1]
  <2>1. at + 0 = at /\ 0 \in 0..3 /\ 1 \in 0..3
    BY SMT
  <2> QED
    BY <2>1, Zenon
<1>4. Load16(x, at) = Load16(w, at)
  BY <1>3, Zenon DEF Load16
<1> QED
  BY <1>2, <1>4

LEMMA EncodedRestores ==
  ASSUME CBytes, CrcIsWord, NEW w \in Wires, ValidWire(w)
  PROVE  /\ EncodeAccepts(Decoded(w))
         /\ \/ Encoded(Decoded(w)) = w
            \/ Decoded(w).stack_bytes = 0 /\ Decoded(w).data # ZeroData
<1>1. PICK x \in Wires, crc \in Words :
           /\ x = Encoded(Decoded(w)) /\ crc = CrcOf(x)
           /\ \A o \in 0..31 : x[o] = w[o]
           /\ \A o \in 32..35 : x[o] = Byte(crc, o - 32)
           /\ \A o \in 36..127 : x[o] = w[o]
           /\ Decoded(w).stack_bytes # 0 \/ Decoded(w).data = ZeroData =>
                \A o \in 128..191 : x[o] = w[o]
  BY EncodedKeeps
<1>2. \A f \in DOMAIN At : f # "crc32" => Field(x, f) = Field(w, f)
  <2>1. ASSUME NEW f \in DOMAIN At, f # "crc32"
        PROVE  Field(x, f) = Field(w, f)
    <3>1. PICK at \in 0..188 : at = At[f] /\ at \in 0..28
      BY <2>1, SMT DEF At
    <3>2. \A i \in 0..3 : at + i \in 0..31
      BY <3>1, SMT
    <3>3. Load16(x, at) = Load16(w, at) /\ Load32(x, at) = Load32(w, at)
      BY <1>1, <3>2, SameLoads, Zenon
    <3> QED
      BY <3>1, <3>3, Zenon DEF Field
  <2> QED
    BY <2>1, Zenon
<1>3. StackSize(x) = StackSize(w)
  <2>1. PICK at \in 0..188 : at = StackAt + 4 /\ \A i \in 0..3 : at + i \in 36..127
    BY SMT DEF StackAt
  <2>2. Load32(x, at) = Load32(w, at)
    BY <1>1, <2>1, SameLoads, Zenon
  <2> QED
    BY <2>1, <2>2, Zenon DEF StackSize
<1>4. Load32(x, 32) = crc
  <2>1. 32 \in 0..188 /\ \A i \in 0..3 : 32 + i \in 32..35 /\ (32 + i) - 32 = i
    BY SMT
  <2>2. \A i \in 0..3 : x[32 + i] = Byte(crc, i)
    BY <1>1, <2>1, Zenon
  <2> QED
    BY <2>1, <2>2, LoadOfBytes, Zenon
<1>5. \A v \in Wires : Field(v, "crc32") = Load32(v, 32)
  BY SMT DEF Field, At, Width
<1>6. ValidWire(x)
  <2>1. {"magic", "version", "header_size", "total_size", "flags", "arch_id", "fault_reason"}
          \subseteq DOMAIN At \ {"crc32"}
    BY SMT DEF At
  <2>2. \A f \in {"magic", "version", "header_size", "total_size", "flags", "arch_id",
                  "fault_reason"} : Field(x, f) = Field(w, f)
    BY <1>2, <2>1, Zenon
  <2>3. Field(x, "crc32") = CrcOf(x)
    BY <1>1, <1>4, <1>5, Zenon
  <2> QED
    BY <1>3, <2>2, <2>3, Zenon DEF ValidWire
<1>7. FieldsValid(Decoded(w))
  <2>1. Decoded(w).stack_bytes = StackSize(w)
    BY DecodedFields, Zenon
  <2>2. /\ Decoded(w).magic = Field(w, "magic") /\ Decoded(w).version = Field(w, "version")
        /\ Decoded(w).header_size = Field(w, "header_size")
        /\ Decoded(w).total_size = Field(w, "total_size")
        /\ Decoded(w).flags = Field(w, "flags") /\ Decoded(w).arch_id = Field(w, "arch_id")
        /\ Decoded(w).fault_reason = Field(w, "fault_reason")
    BY Zenon DEF Decoded
  <2> QED
    BY <2>1, <2>2, Zenon DEF FieldsValid, ValidWire
<1>8. ASSUME Decoded(w).stack_bytes # 0 \/ Decoded(w).data = ZeroData
      PROVE  x = w
  <2>1. \A o \in Offsets : o \notin 32..35 => x[o] = w[o]
    <3>1. \A o \in Offsets : o \in 0..31 \/ o \in 32..35 \/ o \in 36..127 \/ o \in 128..191
      BY SMT DEF Offsets, TotalSize
    <3>2. \A o \in 128..191 : x[o] = w[o]
      BY <1>1, <1>8, Zenon
    <3>3. (\A o \in 0..31 : x[o] = w[o]) /\ (\A o \in 36..127 : x[o] = w[o])
      BY <1>1
    <3> QED
      BY <3>1, <3>2, <3>3
  <2>2. CrcOf(x) = CrcOf(w)
    <3>1. At.crc32 = 32 /\ At.crc32 + 3 = 35
      BY SMT DEF At
    <3>2. ASSUME NEW o \in Offsets
          PROVE  Covered(x)[o] = Covered(w)[o]
      <4>1. CASE o \in 32..35
        BY <3>1, <4>1, CoveredAt, SMT
      <4>2. CASE o \notin 32..35
        BY <2>1, <3>1, <4>2, CoveredAt, SMT
      <4> QED
        BY <4>1, <4>2, Zenon
    <3>3. Covered(x) = Covered(w)
      BY <3>2, Zenon DEF Put, Covered
    <3> QED
      BY <3>3, Zenon DEF CrcOf, Covered
  <2>3. Load32(w, 32) = crc
    BY <1>1, <1>5, <2>2, Zenon DEF ValidWire
  <2>4. \A o \in 32..35 : x[o] = w[o]
    <3>1. ASSUME NEW o \in 32..35
          PROVE  x[o] = w[o]
      <4>1. PICK i \in 0..3 : i = o - 32 /\ 32 + i = o /\ 32 \in 0..188
        BY SMT
      <4>2. Byte(Load32(w, 32), i) = w[32 + i]
        <5>1. PICK at \in 0..188 : at = 32
          BY <4>1, Zenon
        <5>2. Byte(Load32(w, at), i) = w[at + i]
          BY LoadWord, Zenon
        <5> QED
          BY <4>1, <5>1, <5>2, Zenon
      <4>3. x[o] = Byte(crc, o - 32)
        BY <1>1, Zenon
      <4> QED
        BY <2>3, <4>1, <4>2, <4>3, Zenon
    <3> QED
      BY <3>1, Zenon
  <2>5. \A o \in Offsets : x[o] = w[o]
    BY <2>1, <2>4, Zenon
  <2>6. x = [o \in Offsets |-> x[o]] /\ w = [o \in Offsets |-> w[o]]
    BY Zenon DEF Wires
  <2> QED
    BY <2>5, <2>6, Zenon
<1> QED
  BY <1>1, <1>6, <1>7, <1>8, Zenon DEF EncodeAccepts

\* For every CRC and image: what decodes can be encoded again, to the image it came
\* from unless that carried bytes in a slice it calls absent (lines 266-291).
THEOREM DecodedEncodesAgain ==
  ASSUME CBytes, CrcIsWord, TypedInputs
  PROVE  Spec => []EncodeRestores
<1>1. BootInv => EncodeRestores
  BY EncodedRestores, Zenon DEF BootInv, EncodeRestores
<1> QED
  BY <1>1, BootInvAlways, PTL

-----------------------------------------------------------------------------
(* The files that test the decoder. *)

LEMMA NextPlace ==
  ASSUME NEW p \in Nat, NEW q \in Nat, NEW i \in 0..(q - 1)
  PROVE  i + 1 \in 1..q /\ p + i + 1 = p + (i + 1)
OBVIOUS

\* The places of the fields, each where the one before it ends.
NoPadding(at, fields) ==
  at[0] = 0 /\ \A k \in 1..Len(fields) : at[k] = at[k - 1] + fields[k][1]

\* struct.pack: field after field, each with the bytes of its value.
LEMMA PackAt ==
  ASSUME CBytes, NEW fields \in Seq({2, 4} \X Nat), NEW at \in [0..Len(fields) -> Nat],
         NoPadding(at, fields)
  PROVE  /\ Pack(fields) \in Seq(Bytes) /\ Len(Pack(fields)) = at[Len(fields)]
         /\ \A k \in 1..Len(fields) : \A i \in 0..(fields[k][1] - 1) :
              /\ at[k - 1] + i + 1 \in 1..Len(Pack(fields))
              /\ Pack(fields)[at[k - 1] + i + 1] = Byte(fields[k][2], i)
<1> DEFINE n == Len(fields)
           octets(k) == [i \in 1..fields[k][1] |-> Byte(fields[k][2], i - 1)]
           ss == [k \in DOMAIN fields |-> octets(k)]
<1>1. n \in Nat /\ DOMAIN fields = 1..n
  OBVIOUS
<1>2. \A k \in 1..n : fields[k][1] \in {2, 4} /\ fields[k][2] \in Nat
  OBVIOUS
<1>3. ASSUME NEW k \in 1..n
      PROVE  /\ octets(k) \in Seq(Bytes) /\ Len(octets(k)) = fields[k][1]
             /\ \A i \in 0..(fields[k][1] - 1) : octets(k)[i + 1] = Byte(fields[k][2], i)
  <2>1. PICK wd \in {2, 4}, v \in Nat : wd = fields[k][1] /\ v = fields[k][2]
    BY <1>2
  <2>2. \A i \in 1..wd : i - 1 \in 0..3
    BY <2>1
  <2>3. \A i \in 1..wd : Byte(v, i - 1) \in Bytes
    BY <2>1, <2>2, ByteTyped, Zenon
  <2> DEFINE t == [i \in 1..wd |-> Byte(v, i - 1)]
  <2>4. t \in [1..wd -> Bytes]
    BY <2>3, Zenon
  <2>5. t \in Seq(Bytes) /\ Len(t) = wd
    <3>1. wd \in Nat
      BY <2>1
    <3> HIDE DEF t
    <3> QED
      BY <2>4, <3>1
  <2>6. ASSUME NEW i \in 0..(wd - 1) PROVE t[i + 1] = Byte(v, i)
    <3>1. i + 1 \in 1..wd /\ (i + 1) - 1 = i
      BY <2>1
    <3> QED
      BY <3>1, Zenon
  <2>7. octets(k) = t
    BY <2>1, Zenon
  <2> HIDE DEF t
  <2> QED
    BY <2>1, <2>5, <2>6, <2>7, Zenon
<1>4. ss \in Seq(Seq(Bytes)) /\ Len(ss) = n /\ \A k \in 1..n : ss[k] = octets(k)
  <2> HIDE DEF octets
  <2>1. ss = [k \in 1..n |-> octets(k)]
    BY <1>1, Zenon
  <2>2. \A k \in 1..n : octets(k) \in Seq(Bytes)
    BY <1>3, Zenon
  <2>3. ss \in [1..n -> Seq(Bytes)] /\ \A k \in 1..n : ss[k] = octets(k)
    BY <2>1, <2>2, Zenon
  <2> HIDE DEF ss, n
  <2> QED
    BY <1>1, <2>3
<1>5. Pack(fields) = FlattenSeq(ss)
  BY Zenon DEF Pack
<1> HIDE DEF octets, ss, n
<1>6. \A k \in 0..n : at[k] \in Nat
  BY Zenon DEF n
<1>7. PICK f \in [0..n -> Seq(Bytes)] : Accumulates(f, ss)
  BY <1>4, FlattenPrefixes
<1>8. FlattenSeq(ss) = f[n]
  BY <1>4, <1>7, FlattenIsPrefix
<1> DEFINE Reads(m) ==
             /\ Len(f[m]) = at[m]
             /\ \A k \in 1..m : \A i \in 0..(fields[k][1] - 1) :
                  /\ at[k - 1] + i + 1 \in 1..Len(f[m])
                  /\ f[m][at[k - 1] + i + 1] = Byte(fields[k][2], i)
           T == {m \in Nat : m <= n => Reads(m)}
<1>9. 0 \in T
  <2>1. f[0] = <<>> /\ at[0] = 0 /\ \A k \in 1..0 : FALSE
    BY <1>7 DEF Accumulates, NoPadding
  <2>2. Reads(0)
    BY <2>1
  <2> HIDE DEF Reads
  <2> QED
    BY <2>2
<1>10. ASSUME NEW m \in Nat, m \in T PROVE m + 1 \in T
  <2> SUFFICES ASSUME m + 1 <= n PROVE Reads(m + 1)
    BY <1>10, SMTT(30)
  <2>1. Reads(m)
    <3>1. m <= n
      BY <1>1
    <3> QED
      BY <1>10, <3>1, Zenon
  <2>2. m + 1 \in 1..n /\ (m + 1) - 1 = m /\ m \in 0..n /\ m + 1 \in 0..n
    BY <1>1
  <2>3. f[m + 1] = f[m] \o octets(m + 1)
    BY <1>4, <1>7, <2>2 DEF Accumulates
  <2> DEFINE a == f[m]  b == octets(m + 1)  c == f[m + 1]  wd == fields[m + 1][1]
             v == fields[m + 1][2]
  <2>4. a \in Seq(Bytes) /\ b \in Seq(Bytes) /\ c = a \o b
    BY <1>3, <1>7, <2>2, <2>3
  <2>5. Len(a) = at[m] /\ Len(b) = wd /\ wd \in Nat /\ at[m + 1] = at[m] + wd /\ at[m] \in Nat
    <3>1. Len(a) = at[m] /\ at[m] \in Nat
      BY <1>6, <2>1, <2>2, Zenon
    <3>2. wd \in {2, 4} /\ Len(b) = wd
      BY <1>2, <1>3, <2>2, Zenon
    <3>3. at[m + 1] = at[m] + wd
      BY <2>2, Zenon DEF n, NoPadding
    <3> HIDE DEF wd, a, b
    <3> QED
      BY <3>1, <3>2, <3>3
  <2>6. \A k \in 1..m : \A i \in 0..(fields[k][1] - 1) :
          at[k - 1] + i + 1 \in 1..Len(a) /\ a[at[k - 1] + i + 1] = Byte(fields[k][2], i)
    BY <2>1
  <2>7. \A i \in 0..(wd - 1) : b[i + 1] = Byte(v, i)
    BY <1>3, <2>2
  <2> HIDE DEF a, b, c, wd
  <2>8. /\ Len(c) = Len(a) + Len(b) /\ Len(a) \in Nat /\ Len(b) \in Nat
        /\ \A k \in 1..Len(a) : c[k] = a[k]
        /\ \A k \in 1..Len(b) : c[Len(a) + k] = b[k]
    BY <2>4, JoinFacts
  <2>9. Len(c) = at[m + 1]
    BY <2>5, <2>8
  <2>10. ASSUME NEW k \in 1..m, NEW i \in 0..(fields[k][1] - 1)
         PROVE  /\ at[k - 1] + i + 1 \in 1..Len(c)
                /\ c[at[k - 1] + i + 1] = Byte(fields[k][2], i)
    <3>1. PICK p \in 1..Len(a) : p = at[k - 1] + i + 1 /\ a[p] = Byte(fields[k][2], i)
      BY <2>6, Zenon
    <3>2. p \in 1..Len(c) /\ c[p] = a[p]
      BY <2>8
    <3> QED
      BY <3>1, <3>2, Zenon
  <2>11. ASSUME NEW i \in 0..(wd - 1)
         PROVE  at[m] + i + 1 \in 1..Len(c) /\ c[at[m] + i + 1] = Byte(v, i)
    <3>1. i + 1 \in 1..Len(b) /\ at[m] + i + 1 = Len(a) + (i + 1)
      <4>1. PICK p \in Nat, q \in Nat : p = at[m] /\ q = wd
        BY <2>5, Zenon
      <4>2. i + 1 \in 1..q /\ p + i + 1 = p + (i + 1)
        BY <4>1, NextPlace, Zenon
      <4>3. Len(a) = p /\ Len(b) = q
        BY <2>5, <4>1, Zenon
      <4> QED
        BY <4>1, <4>2, <4>3, Zenon
    <3>2. Len(a) + (i + 1) \in 1..Len(c)
      BY <2>8, <3>1
    <3>3. c[Len(a) + (i + 1)] = b[i + 1]
      BY <2>8, <3>1, Zenon
    <3> QED
      BY <2>7, <3>1, <3>2, <3>3, Zenon
  <2>12. ASSUME NEW k \in 1..(m + 1), NEW i \in 0..(fields[k][1] - 1)
         PROVE  /\ at[k - 1] + i + 1 \in 1..Len(c)
                /\ c[at[k - 1] + i + 1] = Byte(fields[k][2], i)
    <3>1. CASE k = m + 1
      <4>1. k - 1 = m
        BY <2>2, <3>1, Zenon
      <4>2. i \in 0..(wd - 1)
        BY <3>1, Zenon DEF wd
      <4> QED
        BY <2>11, <3>1, <4>1, <4>2, Zenon
    <3>2. CASE k # m + 1
      <4>1. k \in 1..m
        BY <3>2
      <4> QED
        BY <2>10, <4>1, Zenon
    <3> QED
      BY <3>1, <3>2
  <2> QED
    BY <2>9, <2>12, Zenon DEF c
<1>11. n \in T
  <2> HIDE DEF T
  <2> QED
    BY <1>1, <1>9, <1>10, Induction
<1>12. Reads(n) /\ n \in 0..n
  <2>1. n <= n /\ n \in 0..n
    BY <1>1
  <2> QED
    BY <1>11, <2>1, Zenon
<1>13. f[n] \in Seq(Bytes)
  BY <1>7, <1>12, Zenon
<1> HIDE DEF T
<1> QED
  BY <1>5, <1>8, <1>12, <1>13, Zenon DEF n

\* Words one after another.
LEMMA WordsPacked ==
  ASSUME CBytes, NEW n \in Nat, NEW values \in [1..n -> Nat], NEW octets,
         octets = Pack([k \in 1..n |-> <<4, values[k]>>])
  PROVE  /\ octets \in Seq(Bytes) /\ Len(octets) = 4 * n
         /\ \A k \in 1..n : \A i \in 0..3 :
              /\ 4 * (k - 1) + i + 1 \in 1..(4 * n)
              /\ octets[4 * (k - 1) + i + 1] = Byte(values[k], i)
<1> DEFINE fields == [k \in 1..n |-> <<4, values[k]>>]
           at == [k \in 0..n |-> 4 * k]
<1>1. fields \in Seq({2, 4} \X Nat) /\ Len(fields) = n
  OBVIOUS
<1>2. \A k \in 1..n : fields[k][1] = 4 /\ fields[k][2] = values[k]
  OBVIOUS
<1>3. \A k \in 0..n : at[k] = 4 * k
  BY Zenon
<1>4. at \in [0..n -> Nat]
  OBVIOUS
<1>5. octets = Pack(fields)
  BY Zenon
<1> HIDE DEF fields, at
<1>6. NoPadding(at, fields)
  <2>1. at[0] = 0
    <3>1. 0 \in 0..n /\ 4 * 0 = 0
      OBVIOUS
    <3> QED
      BY <1>3, <3>1, Zenon
  <2>2. ASSUME NEW k \in 1..n PROVE at[k] = at[k - 1] + fields[k][1]
    <3>1. k \in 0..n /\ k - 1 \in 0..n /\ 4 * k = 4 * (k - 1) + 4
      OBVIOUS
    <3> QED
      BY <1>2, <1>3, <3>1, Zenon
  <2> QED
    BY <1>1, <2>1, <2>2, Zenon DEF NoPadding
<1>7. /\ Pack(fields) \in Seq(Bytes) /\ Len(Pack(fields)) = at[Len(fields)]
      /\ \A k \in 1..Len(fields) : \A i \in 0..(fields[k][1] - 1) :
           /\ at[k - 1] + i + 1 \in 1..Len(Pack(fields))
           /\ Pack(fields)[at[k - 1] + i + 1] = Byte(fields[k][2], i)
  BY <1>1, <1>4, <1>6, PackAt, Zenon
<1>8. Len(octets) = 4 * n
  <2>1. n \in 0..n
    OBVIOUS
  <2> QED
    BY <1>1, <1>3, <1>5, <1>7, <2>1, Zenon
<1>9. ASSUME NEW k \in 1..n, NEW i \in 0..3
      PROVE  /\ 4 * (k - 1) + i + 1 \in 1..(4 * n)
             /\ octets[4 * (k - 1) + i + 1] = Byte(values[k], i)
  <2>1. k - 1 \in 0..n /\ 4 - 1 = 3
    OBVIOUS
  <2>2. at[k - 1] = 4 * (k - 1) /\ i \in 0..(fields[k][1] - 1)
    BY <1>2, <1>3, <2>1, Zenon
  <2> QED
    BY <1>1, <1>2, <1>5, <1>7, <1>8, <2>2, Zenon
<1> QED
  BY <1>5, <1>7, <1>8, <1>9, Zenon

\* The header, with HEADER_FMT: each field is where the device has it.
LEMMA HeaderPacked ==
  ASSUME CBytes, NEW v \in [DOMAIN At -> Nat], NEW octets,
         octets = Pack(<<<<4, v["magic"]>>, <<2, v["version"]>>, <<2, v["header_size"]>>,
                         <<4, v["total_size"]>>, <<4, v["flags"]>>, <<4, v["arch_id"]>>,
                         <<4, v["fault_reason"]>>, <<4, v["sequence"]>>,
                         <<4, v["user_tag"]>>, <<4, v["crc32"]>>>>)
  PROVE  /\ octets \in Seq(Bytes) /\ Len(octets) = 36
         /\ \A f \in DOMAIN At : \A i \in 0..(Width[f] - 1) :
              At[f] + i + 1 \in 1..36 /\ octets[At[f] + i + 1] = Byte(v[f], i)
<1> DEFINE names == <<"magic", "version", "header_size", "total_size", "flags", "arch_id",
                      "fault_reason", "sequence", "user_tag", "crc32">>
           fields == <<<<4, v["magic"]>>, <<2, v["version"]>>, <<2, v["header_size"]>>,
                       <<4, v["total_size"]>>, <<4, v["flags"]>>, <<4, v["arch_id"]>>,
                       <<4, v["fault_reason"]>>, <<4, v["sequence"]>>,
                       <<4, v["user_tag"]>>, <<4, v["crc32"]>>>>
           at == [k \in 0..10 |-> IF k = 10 THEN 36 ELSE At[names[k + 1]]]
<1>1. DOMAIN At = {"magic", "version", "header_size", "total_size", "flags", "arch_id",
                   "fault_reason", "sequence", "user_tag", "crc32"}
  BY SMT DEF At
<1>2. \A f \in DOMAIN At : v[f] \in Nat /\ Width[f] \in {2, 4} /\ At[f] \in Nat
  BY SMT DEF At, Width
<1>3. fields \in Seq({2, 4} \X Nat) /\ Len(fields) = 10
  BY <1>1, <1>2
<1>4. \A k \in 1..10 : /\ names[k] \in DOMAIN At
                       /\ fields[k][1] = Width[names[k]] /\ fields[k][2] = v[names[k]]
  BY <1>1 DEF Width
<1>5. \A f \in DOMAIN At : \E k \in 1..10 : names[k] = f
  BY <1>1
<1>6. at \in [0..10 -> Nat]
  <2>1. \A k \in 0..10 : k # 10 => k + 1 \in 1..10
    OBVIOUS
  <2> HIDE DEF names, fields
  <2> QED
    BY <1>2, <1>4, <2>1
<1>7. at[10] = 36 /\ \A k \in 1..10 : at[k - 1] = At[names[k]]
  <2>1. \A k \in 1..10 : k - 1 \in 0..10 /\ k - 1 # 10 /\ (k - 1) + 1 = k
    OBVIOUS
  <2>2. 10 \in 0..10
    OBVIOUS
  <2> HIDE DEF names, fields
  <2> QED
    BY <2>1, <2>2, Zenon
<1>8. \A k \in 1..9 : At[names[k + 1]] = At[names[k]] + Width[names[k]]
  BY <1>1 DEF At, Width
<1>9. At[names[1]] = 0 /\ At[names[10]] + Width[names[10]] = 36
  BY <1>1 DEF At, Width
<1>10. octets = Pack(fields)
  BY Zenon
<1> HIDE DEF names, fields, at
<1>11. NoPadding(at, fields)
  <2>1. at[0] = 0
    <3>1. 1 \in 1..10 /\ 1 - 1 = 0
      OBVIOUS
    <3> QED
      BY <1>7, <1>9, <3>1, Zenon
  <2>2. ASSUME NEW k \in 1..10 PROVE at[k] = at[k - 1] + fields[k][1]
    <3>1. CASE k = 10
      BY <1>4, <1>7, <1>9, <3>1, Zenon
    <3>2. CASE k # 10
      <4>1. k \in 1..9 /\ k + 1 \in 1..10 /\ (k + 1) - 1 = k
        BY <3>2
      <4>2. at[k] = At[names[k + 1]] /\ at[k - 1] = At[names[k]]
        BY <1>7, <4>1, Zenon
      <4> QED
        BY <1>4, <1>8, <4>1, <4>2, Zenon
    <3> QED
      BY <3>1, <3>2
  <2> QED
    BY <1>3, <2>1, <2>2, Zenon DEF NoPadding
<1>12. /\ Pack(fields) \in Seq(Bytes) /\ Len(Pack(fields)) = at[Len(fields)]
       /\ \A k \in 1..Len(fields) : \A i \in 0..(fields[k][1] - 1) :
            /\ at[k - 1] + i + 1 \in 1..Len(Pack(fields))
            /\ Pack(fields)[at[k - 1] + i + 1] = Byte(fields[k][2], i)
  BY <1>3, <1>6, <1>11, PackAt, Zenon
<1>13. ASSUME NEW f \in DOMAIN At, NEW i \in 0..(Width[f] - 1)
       PROVE  At[f] + i + 1 \in 1..36 /\ octets[At[f] + i + 1] = Byte(v[f], i)
  <2>1. PICK k \in 1..10 : names[k] = f
    BY <1>5, Zenon
  <2>2. at[k - 1] = At[f] /\ fields[k][1] = Width[f] /\ fields[k][2] = v[f]
    BY <1>4, <1>7, <2>1, Zenon
  <2>3. k \in 1..Len(fields) /\ i \in 0..(fields[k][1] - 1) /\ Len(Pack(fields)) = 36
    BY <1>3, <1>7, <1>12, <2>2, Zenon
  <2>4. /\ at[k - 1] + i + 1 \in 1..Len(Pack(fields))
        /\ Pack(fields)[at[k - 1] + i + 1] = Byte(fields[k][2], i)
    BY <1>12, <2>3, Zenon
  <2> QED
    BY <1>10, <2>2, <2>3, <2>4, Zenon
<1> QED
  BY <1>3, <1>7, <1>10, <1>12, <1>13, Zenon

\* The header of a test file, with that magic, these flags and this CRC.
MockHeader(c, magic, flags, crc) ==
  [magic |-> magic, version |-> 1, header_size |-> HeaderSize, total_size |-> TotalSize,
   flags |-> flags, arch_id |-> 4, fault_reason |-> c.fault_reason,
   sequence |-> c.sequence, user_tag |-> c.user_tag, crc32 |-> crc]

LEMMA MockHeaderTyped ==
  ASSUME CBytes, TypedInputs, NEW c \in Commits, NEW magic \in Words, NEW flags \in Words,
         NEW crc \in Words
  PROVE  MockHeader(c, magic, flags, crc) \in [DOMAIN At -> Nat]
<1>1. c.fault_reason \in 0..5 /\ c.sequence \in Words /\ c.user_tag \in Words
  BY Zenon DEF TypedInputs, TypedCommits
<1>2. /\ c.fault_reason \in Nat /\ c.sequence \in Nat /\ c.user_tag \in Nat
      /\ magic \in Nat /\ flags \in Nat /\ crc \in Nat
      /\ 1 \in Nat /\ 4 \in Nat /\ HeaderSize \in Nat /\ TotalSize \in Nat
  BY <1>1, WordSet, SMT DEF HeaderSize, TotalSize
<1> QED
  BY <1>2 DEF MockHeader, At

\* Every byte of a test file.
MockBytes(x, c, magic, flags, crc) ==
  /\ \A f \in DOMAIN At : \A i \in 0..(Width[f] - 1) :
       x[At[f] + i] = Byte(MockHeader(c, magic, flags, crc)[f], i)
  /\ \A k \in 1..21 : \A i \in 0..3 : x[36 + (4 * (k - 1) + i)] = Byte(c.regs[MockFields[k]], i)
  /\ \A i \in 0..3 : x[120 + i] = Byte(c.regs["msp"], i)
  /\ \A i \in 0..3 : x[124 + i] = Byte(StackBytes, i)
  /\ \A i \in 0..63 : x[128 + i] = c.data[i]

LEMMA MockRegister ==
  ASSUME NEW c, NEW magic, NEW flags, NEW crc, NEW x, MockBytes(x, c, magic, flags, crc),
         NEW k \in 1..21, NEW i \in 0..3, NEW o, o = 36 + (4 * (k - 1) + i)
  PROVE  x[o] = Byte(c.regs[MockFields[k]], i)
  BY Zenon DEF MockBytes

LEMMA MockAt ==
  ASSUME CBytes, TypedInputs, NEW c \in Commits, NEW magic \in Words, NEW flags \in Words,
         NEW crc \in Words
  PROVE  /\ MockFile(c, magic, flags, crc) \in Wires
         /\ MockBytes(MockFile(c, magic, flags, crc), c, magic, flags, crc)
<1> DEFINE v == MockHeader(c, magic, flags, crc)
           h == Pack(<<<<4, magic>>, <<2, 1>>, <<2, HeaderSize>>, <<4, TotalSize>>, <<4, flags>>,
                       <<4, 4>>, <<4, c.fault_reason>>, <<4, c.sequence>>, <<4, c.user_tag>>,
                       <<4, crc>>>>)
           regs == [k \in 1..21 |-> c.regs[MockFields[k]]]
           r == Pack([k \in DOMAIN MockFields |-> <<4, c.regs[MockFields[k]]>>])
           words == <<c.regs["msp"], StackBytes>>
           s == Pack(<<<<4, c.regs["msp"]>>, <<4, StackBytes>>>>)
           t == [i \in 1..StackBytes |-> c.data[i - 1]]
           hr == h \o r
           hrs == hr \o s
           octets == hrs \o t
           x == [o \in Offsets |-> octets[o + 1]]
<1>1. MockFile(c, magic, flags, crc) = x
  BY Zenon DEF MockFile
<1>2. c.regs \in [RegNames -> Words] /\ c.data \in [SliceOffsets -> Bytes]
  BY Zenon DEF TypedInputs, TypedCommits
<1>3. /\ h \in Seq(Bytes) /\ Len(h) = 36
      /\ \A f \in DOMAIN At : \A i \in 0..(Width[f] - 1) :
           At[f] + i + 1 \in 1..36 /\ h[At[f] + i + 1] = Byte(v[f], i)
  <2>1. v \in [DOMAIN At -> Nat]
    BY MockHeaderTyped, Zenon
  <2>2. /\ v["magic"] = magic /\ v["version"] = 1 /\ v["header_size"] = HeaderSize
        /\ v["total_size"] = TotalSize /\ v["flags"] = flags /\ v["arch_id"] = 4
        /\ v["fault_reason"] = c.fault_reason /\ v["sequence"] = c.sequence
        /\ v["user_tag"] = c.user_tag /\ v["crc32"] = crc
    BY SMT DEF MockHeader
  <2> HIDE DEF v
  <2>3. h = Pack(<<<<4, v["magic"]>>, <<2, v["version"]>>, <<2, v["header_size"]>>,
                   <<4, v["total_size"]>>, <<4, v["flags"]>>, <<4, v["arch_id"]>>,
                   <<4, v["fault_reason"]>>, <<4, v["sequence"]>>,
                   <<4, v["user_tag"]>>, <<4, v["crc32"]>>>>)
    BY <2>2, Zenon
  <2> HIDE DEF h
  <2> QED
    BY <2>1, <2>3, HeaderPacked, Zenon
<1>4. DOMAIN MockFields = 1..21 /\ \A k \in 1..21 : MockFields[k] \in RegNames
  BY SMT DEF MockFields, RegNames
<1>5. /\ r \in Seq(Bytes) /\ Len(r) = 84
      /\ \A k \in 1..21 : \A i \in 0..3 :
           /\ 4 * (k - 1) + i + 1 \in 1..84
           /\ r[4 * (k - 1) + i + 1] = Byte(c.regs[MockFields[k]], i)
  <2>1. \A k \in 1..21 : c.regs[MockFields[k]] \in Nat
    BY <1>2, <1>4, WordSet, SMT
  <2>2. regs \in [1..21 -> Nat] /\ \A k \in 1..21 : regs[k] = c.regs[MockFields[k]]
    BY <2>1, Zenon
  <2>3. r = Pack([k \in 1..21 |-> <<4, regs[k]>>])
    BY <1>4, <2>2, Zenon
  <2>4. PICK n \in Nat : n = 21
    OBVIOUS
  <2>5. 4 * n = 84 /\ 1..n = 1..21
    BY <2>4
  <2> HIDE DEF r, regs
  <2>6. regs \in [1..n -> Nat] /\ r = Pack([k \in 1..n |-> <<4, regs[k]>>])
    BY <2>2, <2>3, <2>5, Zenon
  <2>7. /\ r \in Seq(Bytes) /\ Len(r) = 4 * n
        /\ \A k \in 1..n : \A i \in 0..3 :
             /\ 4 * (k - 1) + i + 1 \in 1..(4 * n)
             /\ r[4 * (k - 1) + i + 1] = Byte(regs[k], i)
    BY <2>6, WordsPacked, Zenon
  <2>8. Len(r) = 84 /\ 4 * n = 84
    BY <2>5, <2>7
  <2>9. ASSUME NEW k \in 1..21, NEW i \in 0..3
        PROVE  /\ 4 * (k - 1) + i + 1 \in 1..84
               /\ r[4 * (k - 1) + i + 1] = Byte(c.regs[MockFields[k]], i)
    <3>1. k \in 1..n /\ regs[k] = c.regs[MockFields[k]]
      BY <2>2, <2>5, Zenon
    <3>2. r[4 * (k - 1) + i + 1] = Byte(regs[k], i)
      BY <2>7, <3>1, Zenon
    <3>3. 4 * (k - 1) + i + 1 \in 1..84
      OBVIOUS
    <3> QED
      BY <3>1, <3>2, <3>3, Zenon
  <2> QED
    BY <2>7, <2>8, <2>9
<1>6. /\ s \in Seq(Bytes) /\ Len(s) = 8
      /\ \A i \in 0..3 : i + 1 \in 1..8 /\ s[i + 1] = Byte(c.regs["msp"], i)
      /\ \A i \in 0..3 : i + 5 \in 1..8 /\ s[i + 5] = Byte(StackBytes, i)
  <2>1. c.regs["msp"] \in Nat /\ StackBytes \in Nat
    <3>1. "msp" \in RegNames
      BY SMT DEF RegNames
    <3>2. c.regs["msp"] \in Words
      BY <1>2, <3>1, Zenon
    <3> QED
      BY <3>2, WordSet, SMT DEF StackBytes
  <2>2. PICK sp \in Nat, size \in Nat : sp = c.regs["msp"] /\ size = StackBytes
    BY <2>1, Zenon
  <2> DEFINE two == <<sp, size>>
  <2>3. two \in [1..2 -> Nat] /\ two[1] = sp /\ two[2] = size
    BY SMT
  <2>4. [k \in 1..2 |-> <<4, two[k]>>] = <<<<4, sp>>, <<4, size>>>>
    OBVIOUS
  <2>5. s = Pack([k \in 1..2 |-> <<4, two[k]>>])
    BY <2>2, <2>4, Zenon
  <2> HIDE DEF s, two
  <2>6. /\ s \in Seq(Bytes) /\ Len(s) = 4 * 2
        /\ \A k \in 1..2 : \A i \in 0..3 :
             /\ 4 * (k - 1) + i + 1 \in 1..(4 * 2)
             /\ s[4 * (k - 1) + i + 1] = Byte(two[k], i)
    <3>1. PICK n \in Nat : n = 2
      OBVIOUS
    <3>2. n \in Nat /\ two \in [1..n -> Nat] /\ s = Pack([k \in 1..n |-> <<4, two[k]>>])
      BY <2>3, <2>5, <3>1, Zenon
    <3>3. /\ s \in Seq(Bytes) /\ Len(s) = 4 * n
          /\ \A k \in 1..n : \A i \in 0..3 :
               /\ 4 * (k - 1) + i + 1 \in 1..(4 * n)
               /\ s[4 * (k - 1) + i + 1] = Byte(two[k], i)
      BY <3>2, WordsPacked, ZenonT(30)
    <3> QED
      BY <3>1, <3>3, Zenon
  <2>7. ASSUME NEW i \in 0..3
        PROVE  /\ 4 * (1 - 1) + i + 1 = i + 1 /\ 4 * (2 - 1) + i + 1 = i + 5
               /\ i + 1 \in 1..8 /\ i + 5 \in 1..8
    OBVIOUS
  <2>8. 4 * 2 = 8 /\ 1 \in 1..2 /\ 2 \in 1..2
    OBVIOUS
  <2>9. ASSUME NEW i \in 0..3
        PROVE  s[i + 1] = Byte(sp, i) /\ s[i + 5] = Byte(size, i)
    BY <2>3, <2>6, <2>7, <2>8, Zenon
  <2> QED
    BY <2>2, <2>6, <2>7, <2>8, <2>9, Zenon
<1>7. /\ t \in Seq(Bytes) /\ Len(t) = 64
      /\ \A i \in 0..63 : i + 1 \in 1..64 /\ t[i + 1] = c.data[i]
  <2>1. StackBytes = 64 /\ SliceOffsets = 0..63 /\ 64 \in Nat
    BY SMT DEF StackBytes, SliceOffsets
  <2>2. \A i \in 1..64 : i - 1 \in 0..63
    OBVIOUS
  <2>3. t = [i \in 1..64 |-> c.data[i - 1]]
    BY <2>1, Zenon
  <2>4. \A i \in 1..64 : c.data[i - 1] \in Bytes
    BY <1>2, <2>1, <2>2, Zenon
  <2>5. t \in [1..64 -> Bytes] /\ \A i \in 1..64 : t[i] = c.data[i - 1]
    BY <2>3, <2>4, Zenon
  <2> HIDE DEF t
  <2>7. t \in Seq(Bytes) /\ Len(t) = 64
    <3>1. PICK n \in Nat : n = 64
      OBVIOUS
    <3>2. t \in [1..n -> Bytes]
      BY <2>5, <3>1, Zenon
    <3>3. t \in Seq(Bytes) /\ Len(t) = n
      BY <3>2
    <3> QED
      BY <3>1, <3>3
  <2>8. ASSUME NEW i \in 0..63 PROVE i + 1 \in 1..64 /\ t[i + 1] = c.data[i]
    <3>1. PICK p \in 1..64 : p = i + 1 /\ p - 1 = i
      OBVIOUS
    <3>2. t[p] = c.data[p - 1]
      BY <2>5, Zenon
    <3> QED
      BY <3>1, <3>2, Zenon
  <2> QED
    BY <2>7, <2>8, Zenon
<1> DEFINE B == Bytes
<1> HIDE DEF h, r, s, t, v, regs, words, B
<1>8. h \in Seq(B) /\ r \in Seq(B) /\ s \in Seq(B) /\ t \in Seq(B)
  BY <1>3, <1>5, <1>6, <1>7, Zenon DEF B
<1>9. hr = h \o r /\ hrs = hr \o s /\ octets = hrs \o t
  OBVIOUS
<1> HIDE DEF hr, hrs, octets
<1>10. /\ hr \in Seq(B) /\ Len(hr) = 120
       /\ \A k \in 1..36 : hr[k] = h[k]
       /\ \A k \in 1..84 : hr[36 + k] = r[k]
  <2>1. h \in Seq(B) /\ r \in Seq(B) /\ hr = h \o r
    BY <1>8, <1>9, Zenon
  <2>2. /\ hr \in Seq(B) /\ Len(hr) = Len(h) + Len(r)
        /\ \A k \in 1..Len(h) : hr[k] = h[k]
        /\ \A k \in 1..Len(r) : hr[Len(h) + k] = r[k]
    BY <2>1, JoinFacts
  <2>3. 36 + 84 = 120 /\ Len(h) = 36 /\ Len(r) = 84
    BY <1>3, <1>5
  <2> QED
    BY <2>2, <2>3
<1>11. /\ hrs \in Seq(B) /\ Len(hrs) = 128
       /\ \A k \in 1..120 : hrs[k] = hr[k]
       /\ \A k \in 1..8 : hrs[120 + k] = s[k]
  <2>1. hr \in Seq(B) /\ s \in Seq(B) /\ hrs = hr \o s
    BY <1>8, <1>9, <1>10, Zenon
  <2>2. /\ hrs \in Seq(B) /\ Len(hrs) = Len(hr) + Len(s)
        /\ \A k \in 1..Len(hr) : hrs[k] = hr[k]
        /\ \A k \in 1..Len(s) : hrs[Len(hr) + k] = s[k]
    BY <2>1, JoinFacts
  <2>3. 120 + 8 = 128 /\ Len(hr) = 120 /\ Len(s) = 8
    BY <1>6, <1>10
  <2> QED
    BY <2>2, <2>3
<1>12. /\ octets \in Seq(B) /\ Len(octets) = 192
       /\ \A k \in 1..128 : octets[k] = hrs[k]
       /\ \A k \in 1..64 : octets[128 + k] = t[k]
  <2>1. hrs \in Seq(B) /\ t \in Seq(B) /\ octets = hrs \o t
    BY <1>8, <1>9, <1>11, Zenon
  <2>2. /\ octets \in Seq(B) /\ Len(octets) = Len(hrs) + Len(t)
        /\ \A k \in 1..Len(hrs) : octets[k] = hrs[k]
        /\ \A k \in 1..Len(t) : octets[Len(hrs) + k] = t[k]
    BY <2>1, JoinFacts
  <2>3. 128 + 64 = 192 /\ Len(hrs) = 128 /\ Len(t) = 64
    BY <1>7, <1>11
  <2> QED
    BY <2>2, <2>3
<1>a. \A k \in 1..36 : hr[k] = h[k]
  BY <1>10, Zenon
<1>b. \A k \in 1..84 : hr[36 + k] = r[k]
  BY <1>10, Zenon
<1>c. \A k \in 1..120 : hrs[k] = hr[k]
  BY <1>11, Zenon
<1>d. \A k \in 1..8 : hrs[120 + k] = s[k]
  BY <1>11, Zenon
<1>e. \A k \in 1..128 : octets[k] = hrs[k]
  BY <1>12, Zenon
<1>13. /\ \A k \in 1..36 : octets[k] = h[k]
       /\ \A k \in 1..84 : octets[36 + k] = r[k]
       /\ \A k \in 1..8 : octets[120 + k] = s[k]
       /\ \A k \in 1..64 : octets[128 + k] = t[k]
  <2>1. ASSUME NEW k \in 1..36 PROVE octets[k] = h[k]
    <3>1. k \in 1..120 /\ k \in 1..128
      OBVIOUS
    <3> QED
      BY <1>a, <1>c, <1>e, <3>1, Zenon
  <2>2. ASSUME NEW k \in 1..84 PROVE octets[36 + k] = r[k]
    <3>1. PICK p \in 1..120 : p = 36 + k /\ p \in 1..128
      OBVIOUS
    <3>2. hr[p] = r[k]
      BY <1>b, <3>1, Zenon
    <3>3. hrs[p] = hr[p] /\ octets[p] = hrs[p]
      BY <1>c, <1>e, <3>1, Zenon
    <3> QED
      BY <3>1, <3>2, <3>3, Zenon
  <2>3. ASSUME NEW k \in 1..8 PROVE octets[120 + k] = s[k]
    <3>1. PICK p \in 1..128 : p = 120 + k
      OBVIOUS
    <3> QED
      BY <1>d, <1>e, <3>1, Zenon
  <2> QED
    BY <1>12, <2>1, <2>2, <2>3, Zenon
<1>14. \A o \in 0..191 : o + 1 \in 1..192 /\ x[o] = octets[o + 1]
  <2>1. Offsets = 0..191
    BY SMT DEF Offsets, TotalSize
  <2>2. \A o \in 0..191 : o + 1 \in 1..192
    OBVIOUS
  <2> QED
    BY <2>1, <2>2, Zenon
<1>15. x \in Wires
  <2>1. Offsets = 0..191
    BY SMT DEF Offsets, TotalSize
  <2>2. \A k \in 1..192 : octets[k] \in B
    <3>1. PICK n \in Nat : n = 192
      OBVIOUS
    <3>2. octets \in Seq(B) /\ Len(octets) = n
      BY <1>12, <3>1, Zenon
    <3>3. \A k \in 1..n : octets[k] \in B
      BY <3>2
    <3> QED
      BY <3>1, <3>3, Zenon
  <2>3. \A o \in Offsets : octets[o + 1] \in Bytes
    BY <1>14, <2>1, <2>2, Zenon DEF B
  <2> QED
    BY <2>3, Zenon DEF Wires
<1> HIDE DEF x
<1>16. ASSUME NEW f \in DOMAIN At, NEW i \in 0..(Width[f] - 1)
       PROVE  x[At[f] + i] = Byte(v[f], i)
  <2>1. At[f] + i + 1 \in 1..36 /\ h[At[f] + i + 1] = Byte(v[f], i)
    BY <1>3, Zenon
  <2>2. At[f] + i \in 0..191
    <3>1. At[f] \in Nat /\ Width[f] \in {2, 4}
      BY SMT DEF At, Width
    <3> QED
      BY <2>1, <3>1
  <2> QED
    BY <1>13, <1>14, <2>1, <2>2, Zenon
<1>17. ASSUME NEW k \in 1..21, NEW i \in 0..3
       PROVE  x[36 + (4 * (k - 1) + i)] = Byte(c.regs[MockFields[k]], i)
  <2>1. /\ 36 + (4 * (k - 1) + i) \in 0..191
        /\ (36 + (4 * (k - 1) + i)) + 1 = 36 + (4 * (k - 1) + i + 1)
    OBVIOUS
  <2>2. PICK p \in 1..84 : p = 4 * (k - 1) + i + 1 /\ r[p] = Byte(c.regs[MockFields[k]], i)
    <3>1. /\ 4 * (k - 1) + i + 1 \in 1..84
          /\ r[4 * (k - 1) + i + 1] = Byte(c.regs[MockFields[k]], i)
      BY <1>5, ZenonT(60)
    <3> QED
      BY <3>1, Zenon
  <2>3. octets[36 + p] = r[p]
    BY <1>13
  <2>4. x[36 + (4 * (k - 1) + i)] = octets[36 + p]
    BY <1>14, <2>1, <2>2, Zenon
  <2> QED
    BY <2>2, <2>3, <2>4, Zenon
<1>18. ASSUME NEW i \in 0..3
       PROVE  x[120 + i] = Byte(c.regs["msp"], i) /\ x[124 + i] = Byte(StackBytes, i)
  <2>1. /\ 120 + i \in 0..191 /\ (120 + i) + 1 = 120 + (i + 1)
        /\ 124 + i \in 0..191 /\ (124 + i) + 1 = 120 + (i + 5)
    OBVIOUS
  <2>2. PICK p \in 1..8, q \in 1..8 : /\ p = i + 1 /\ s[p] = Byte(c.regs["msp"], i)
                                     /\ q = i + 5 /\ s[q] = Byte(StackBytes, i)
    BY <1>6, Zenon
  <2>3. octets[120 + p] = s[p] /\ octets[120 + q] = s[q]
    BY <1>13
  <2>4. x[120 + i] = octets[120 + p] /\ x[124 + i] = octets[120 + q]
    BY <1>14, <2>1, <2>2, SMTT(30)
  <2> QED
    BY <2>2, <2>3, <2>4, Zenon
<1>19. ASSUME NEW i \in 0..63 PROVE x[128 + i] = c.data[i]
  <2>1. 128 + i \in 0..191 /\ (128 + i) + 1 = 128 + (i + 1)
    OBVIOUS
  <2>2. PICK p \in 1..64 : p = i + 1 /\ t[p] = c.data[i]
    BY <1>7
  <2>3. octets[128 + p] = t[p]
    BY <1>13
  <2>4. x[128 + i] = octets[128 + p]
    BY <1>14, <2>1, <2>2, Zenon
  <2> QED
    BY <2>2, <2>3, <2>4, Zenon
<1> QED
  BY <1>1, <1>15, <1>16, <1>17, <1>18, <1>19, Zenon DEF MockBytes, v

\* These are all the bytes there are.
LEMMA MockCover ==
  ASSUME NEW o \in Offsets
  PROVE  \/ \E f \in DOMAIN At : \E i \in 0..(Width[f] - 1) : o = At[f] + i
         \/ \E k \in 1..21 : \E i \in 0..3 : o = 36 + (4 * (k - 1) + i)
         \/ \E i \in 0..3 : o = 120 + i
         \/ \E i \in 0..3 : o = 124 + i
         \/ \E i \in 0..63 : o = 128 + i
<1>1. o \in 0..3 \/ o \in 4..35 \/ o \in 36..119 \/ o \in 120..123 \/ o \in 124..127 \/ o \in 128..191
  BY SMT DEF Offsets, TotalSize
<1>2. CASE o \in 0..3
  <2>1. "magic" \in DOMAIN At /\ At["magic"] = 0 /\ Width["magic"] = 4
    BY SMT DEF At, Width
  <2>2. o \in 0..(Width["magic"] - 1) /\ o = At["magic"] + o
    BY <1>2, <2>1, SMT
  <2> QED
    BY <2>1, <2>2, Zenon
<1>3. CASE o \in 4..35
  <2>1. PICK f \in HeaderFields : f = FieldAt(o)
    BY <1>3, FieldCover, Zenon
  <2>2. At[f] <= o /\ o < At[f] + Width[f]
    BY <1>3, <2>1, FieldCover, Zenon
  <2>3. f \in DOMAIN At /\ At[f] \in Nat /\ Width[f] \in {2, 4}
    BY SMT DEF At, Width, HeaderFields
  <2>4. PICK a \in Nat, wd \in {2, 4} : a = At[f] /\ wd = Width[f]
    BY <2>3, Zenon
  <2>5. a <= o /\ o < a + wd
    BY <2>2, <2>4, Zenon
  <2>6. \E i \in 0..(wd - 1) : o = a + i
    BY <1>3, <2>5
  <2> QED
    BY <2>3, <2>4, <2>6, Zenon
<1>4. CASE o \in 36..119
  <2>1. PICK k \in 1..21, i \in 0..3 : o = 36 + 4 * (k - 1) + i
    BY <1>4, RegisterPlace, Zenon
  <2>2. o = 36 + (4 * (k - 1) + i)
    BY <2>1, SMT
  <2> QED
    BY <2>2, Zenon
<1>5. CASE o \in 120..123
  <2>1. \E i \in 0..3 : o = 120 + i
    BY <1>5, SMT
  <2> QED
    BY <2>1, Zenon
<1>6. CASE o \in 124..127
  <2>1. \E i \in 0..3 : o = 124 + i
    BY <1>6, SMT
  <2> QED
    BY <2>1, Zenon
<1>7. CASE o \in 128..191
  <2>1. \E i \in 0..63 : o = 128 + i
    BY <1>7, SMT
  <2> QED
    BY <2>1, Zenon
<1> QED
  BY <1>1, <1>2, <1>3, <1>4, <1>5, <1>6, <1>7, Zenon

LEMMA MockIs ==
  ASSUME CBytes, TypedInputs, NEW c \in Commits, NEW magic \in Words, NEW flags \in Words,
         NEW crc \in Words, NEW x \in Wires, MockBytes(x, c, magic, flags, crc)
  PROVE  MockFile(c, magic, flags, crc) = x
<1> DEFINE y == MockFile(c, magic, flags, crc)
<1>1. y \in Wires /\ MockBytes(y, c, magic, flags, crc)
  BY MockAt, Zenon
<1> HIDE DEF y
<1>2. ASSUME NEW o \in Offsets
      PROVE  y[o] = x[o]
  <2>1. CASE \E f \in DOMAIN At : \E i \in 0..(Width[f] - 1) : o = At[f] + i
    <3>0. PICK f \in DOMAIN At : \E i \in 0..(Width[f] - 1) : o = At[f] + i
      BY <2>1, Zenon
    <3>1. PICK i \in 0..(Width[f] - 1) : o = At[f] + i
      BY <3>0, Zenon
    <3>2. \A z : MockBytes(z, c, magic, flags, crc) =>
                   z[At[f] + i] = Byte(MockHeader(c, magic, flags, crc)[f], i)
      BY Zenon DEF MockBytes
    <3> QED
      BY <1>1, <3>1, <3>2, Zenon
  <2>2. CASE \E k \in 1..21 : \E i \in 0..3 : o = 36 + (4 * (k - 1) + i)
    <3>1. PICK k \in 1..21, i \in 0..3 : o = 36 + (4 * (k - 1) + i)
      BY <2>2, Zenon
    <3>2. y[o] = Byte(c.regs[MockFields[k]], i)
      BY <1>1, <3>1, MockRegister
    <3>3. x[o] = Byte(c.regs[MockFields[k]], i)
      BY <3>1, MockRegister
    <3> QED
      BY <3>2, <3>3, Zenon
  <2>3. CASE \E i \in 0..3 : o = 120 + i
    <3>1. PICK i \in 0..3 : o = 120 + i
      BY <2>3, Zenon
    <3>2. \A z : MockBytes(z, c, magic, flags, crc) => z[120 + i] = Byte(c.regs["msp"], i)
      BY Zenon DEF MockBytes
    <3> QED
      BY <1>1, <3>1, <3>2, Zenon
  <2>4. CASE \E i \in 0..3 : o = 124 + i
    <3>1. PICK i \in 0..3 : o = 124 + i
      BY <2>4, Zenon
    <3>2. \A z : MockBytes(z, c, magic, flags, crc) => z[124 + i] = Byte(StackBytes, i)
      BY Zenon DEF MockBytes
    <3> QED
      BY <1>1, <3>1, <3>2, Zenon
  <2>5. CASE \E i \in 0..63 : o = 128 + i
    <3>1. PICK i \in 0..63 : o = 128 + i
      BY <2>5, Zenon
    <3>2. \A z : MockBytes(z, c, magic, flags, crc) => z[128 + i] = c.data[i]
      BY Zenon DEF MockBytes
    <3> QED
      BY <1>1, <3>1, <3>2, Zenon
  <2> QED
    BY <2>1, <2>2, <2>3, <2>4, <2>5, MockCover, SMTT(30)
<1>3. y = [o \in Offsets |-> y[o]] /\ x = [o \in Offsets |-> x[o]]
  BY <1>1, Zenon DEF Wires
<1> QED
  BY <1>2, <1>3, Zenon DEF y

\* Another CRC changes the CRC field only.
LEMMA MockResealed ==
  ASSUME CBytes, TypedInputs, NEW c \in Commits, NEW magic \in Words, NEW flags \in Words,
         NEW crc \in Words, NEW other \in Words, NEW y, y = MockFile(c, magic, flags, crc)
  PROVE  MockFile(c, magic, flags, other) = Put(y, 32, 4, other)
<1> DEFINE x == Put(y, 32, 4, other)
<1>1. y \in Wires /\ MockBytes(y, c, magic, flags, crc)
  BY MockAt, Zenon
<1>2. x = Put(y, 32, 4, other)
  OBVIOUS
<1> HIDE DEF x
<1>3. x \in Wires
  <2>1. other \in Nat /\ 32 \in Nat /\ 4 \in {2, 4}
    BY WordSet, SMT
  <2> QED
    BY <1>1, <1>2, <2>1, PutTyped, Zenon
<1>4. ASSUME NEW o \in Offsets
      PROVE  /\ o \in 32..35 => x[o] = Byte(other, o - 32)
             /\ o \notin 32..35 => x[o] = y[o]
  <2>1. 32 \in Nat /\ 32 + 3 = 35
    OBVIOUS
  <2> QED
    BY <1>2, <2>1, PutAt
<1>5. ASSUME NEW f \in DOMAIN At, NEW i \in 0..(Width[f] - 1)
      PROVE  x[At[f] + i] = Byte(MockHeader(c, magic, flags, other)[f], i)
  <2>0. PICK o \in Offsets : o = At[f] + i
    BY DEF At, Width, Offsets, TotalSize
  <2>1. CASE f = "crc32"
    <3>1. o \in 32..35 /\ o - 32 = i
      BY <2>0, <2>1 DEF At, Width
    <3>2. MockHeader(c, magic, flags, other)[f] = other
      BY <2>1 DEF MockHeader
    <3> QED
      BY <1>4, <2>0, <3>1, <3>2, Zenon
  <2>2. CASE f # "crc32"
    <3>1. o \notin 32..35
      BY <2>0, <2>2 DEF At, Width
    <3>2. MockHeader(c, magic, flags, other)[f] = MockHeader(c, magic, flags, crc)[f]
      BY <2>2 DEF MockHeader, At
    <3>3. y[At[f] + i] = Byte(MockHeader(c, magic, flags, crc)[f], i)
      BY <1>1, Zenon DEF MockBytes
    <3> QED
      BY <1>4, <2>0, <3>1, <3>2, <3>3, Zenon
  <2> QED
    BY <2>1, <2>2
<1>6. ASSUME NEW o \in Offsets, o \in 36..191
      PROVE  x[o] = y[o]
  <2>1. o \notin 32..35
    BY <1>6
  <2> QED
    BY <1>4, <2>1, Zenon
<1>7. \A o \in 36..191 : o \in Offsets
  BY DEF Offsets, TotalSize
<1>8. /\ \A k \in 1..21 : \A i \in 0..3 : 36 + (4 * (k - 1) + i) \in 36..191
      /\ \A i \in 0..3 : 120 + i \in 36..191 /\ 124 + i \in 36..191
      /\ \A i \in 0..63 : 128 + i \in 36..191
  OBVIOUS
<1>9. MockBytes(x, c, magic, flags, other)
  <2>1. \A o \in 36..191 : x[o] = y[o]
    BY <1>6, <1>7, Zenon
  <2>2. \A k \in 1..21 : \A i \in 0..3 :
          x[36 + (4 * (k - 1) + i)] = Byte(c.regs[MockFields[k]], i)
    BY <1>1, <1>8, <2>1, Zenon DEF MockBytes
  <2>3. \A i \in 0..3 : x[120 + i] = Byte(c.regs["msp"], i)
    BY <1>1, <1>8, <2>1, SMTT(30) DEF MockBytes
  <2>4. \A i \in 0..3 : x[124 + i] = Byte(StackBytes, i)
    BY <1>1, <1>8, <2>1, SMTT(30) DEF MockBytes
  <2>5. \A i \in 0..63 : x[128 + i] = c.data[i]
    BY <1>1, <1>8, <2>1, Zenon DEF MockBytes
  <2> QED
    BY <1>5, <2>2, <2>3, <2>4, <2>5, Zenon DEF MockBytes
<1> QED
  BY <1>3, <1>9, MockIs, Zenon DEF x

\* The image a Cortex-M4 commits has the bytes of the test file.
LEMMA CommittedIsMock ==
  ASSUME CBytes, CrcIsWord, TypedInputs, NEW w \in Wires, NEW c \in Commits,
         PortArch = 4, c.stack_bytes = StackBytes, c.captured_sp = c.regs["msp"]
  PROVE  \E x \in Wires, crc \in Words :
           /\ x = Committed(w, c) /\ crc = CrcOf(x)
           /\ MockFile(c, Magic, c.flags, crc) = x
<1>1. PICK x \in Wires, crc \in Words :
           /\ x = Committed(w, c) /\ crc = CrcOf(x)
           /\ \A o \in 0..3 : x[o] = Byte(Magic, o - 0)
           /\ \A o \in 4..31 :
                x[o] = Byte(CommitDump(c)[FieldAt(o)], o - At[FieldAt(o)])
           /\ \A o \in 32..35 : x[o] = Byte(crc, o - 32)
           /\ \A o \in 36..119 :
                x[o] = Byte(c.regs[WriteOrder[(o - RegsAt) \div 4 + 1]], (o - RegsAt) % 4)
           /\ \A o \in 120..123 : x[o] = Byte(c.captured_sp, o - 120)
           /\ \A o \in 124..127 : x[o] = Byte(c.stack_bytes, o - 124)
           /\ \A o \in 128..191 : x[o] = IF c.stack_bytes = 0 THEN 0 ELSE c.data[o - 128]
  BY CommittedAt, ZenonT(60)
<1> DEFINE v == MockHeader(c, Magic, c.flags, crc)
<1>2. ASSUME NEW f \in DOMAIN At, NEW i \in 0..(Width[f] - 1)
      PROVE  x[At[f] + i] = Byte(v[f], i)
  <2>1. CASE f = "magic"
    <3>1. At[f] + i \in 0..3 /\ (At[f] + i) - 0 = i
      BY <2>1 DEF At, Width
    <3>2. v[f] = Magic
      BY <2>1 DEF MockHeader
    <3>3. \A o \in 0..3 : x[o] = Byte(Magic, o - 0)
      BY <1>1, ZenonT(30)
    <3> QED
      BY <3>1, <3>2, <3>3, Zenon
  <2>2. CASE f = "crc32"
    <3>1. At[f] + i \in 32..35 /\ (At[f] + i) - 32 = i
      BY <2>2 DEF At, Width
    <3>2. v[f] = crc
      BY <2>2 DEF MockHeader
    <3>3. \A o \in 32..35 : x[o] = Byte(crc, o - 32)
      BY <1>1, ZenonT(30)
    <3> QED
      BY <3>1, <3>2, <3>3, Zenon
  <2>3. CASE f # "magic" /\ f # "crc32"
    <3>1. PICK o \in 4..31 : o = At[f] + i
      BY <2>3 DEF At, Width
    <3>2. o \in (At[f])..(At[f] + Width[f] - 1) /\ o - At[f] = i
      <4>1. At[f] \in Nat /\ Width[f] \in {2, 4}
        BY DEF At, Width
      <4> QED
        BY <3>1, <4>1
    <3>3. FieldAt(o) = f
      BY <3>2, FieldAtIs, Zenon
    <3>4. CommitDump(c)[f] = v[f]
      BY <2>3 DEF CommitDump, MockHeader, At
    <3>5. \A p \in 4..31 : x[p] = Byte(CommitDump(c)[FieldAt(p)], p - At[FieldAt(p)])
      BY <1>1, ZenonT(30)
    <3> QED
      BY <3>1, <3>2, <3>3, <3>4, <3>5, Zenon
  <2> QED
    BY <2>1, <2>2, <2>3
<1>3. ASSUME NEW k \in 1..21, NEW i \in 0..3
      PROVE  x[36 + (4 * (k - 1) + i)] = Byte(c.regs[MockFields[k]], i)
  <2>1. PICK o \in 36..119 : o = 36 + (4 * (k - 1) + i)
    OBVIOUS
  <2>2. o - RegsAt = 4 * (k - 1) + i
    BY <2>1 DEF RegsAt
  <2>3. (o - RegsAt) \div 4 + 1 = k /\ (o - RegsAt) % 4 = i
    BY <2>2, SMT
  <2>4. MockFields = WriteOrder
    BY Zenon DEF MockFields, WriteOrder
  <2>5. x[o] = Byte(c.regs[WriteOrder[(o - RegsAt) \div 4 + 1]], (o - RegsAt) % 4)
    BY <1>1, ZenonT(30)
  <2> QED
    BY <2>1, <2>3, <2>4, <2>5, Zenon
<1>4. ASSUME NEW i \in 0..3
      PROVE  x[120 + i] = Byte(c.regs["msp"], i) /\ x[124 + i] = Byte(StackBytes, i)
  <2>1. PICK o \in 120..123, p \in 124..127 : /\ o = 120 + i /\ o - 120 = i
                                              /\ p = 124 + i /\ p - 124 = i
    OBVIOUS
  <2>2. x[o] = Byte(c.captured_sp, o - 120) /\ x[p] = Byte(c.stack_bytes, p - 124)
    BY <1>1, ZenonT(30)
  <2> QED
    BY <2>1, <2>2, Zenon
<1>5. ASSUME NEW i \in 0..63
      PROVE  x[128 + i] = c.data[i]
  <2>1. PICK o \in 128..191 : o = 128 + i /\ o - 128 = i
    OBVIOUS
  <2>2. x[o] = IF c.stack_bytes = 0 THEN 0 ELSE c.data[o - 128]
    BY <1>1, ZenonT(30)
  <2>3. c.stack_bytes # 0
    BY DEF StackBytes
  <2> QED
    BY <2>1, <2>2, <2>3, Zenon
<1>6. MockBytes(x, c, Magic, c.flags, crc)
  BY <1>2, <1>3, <1>4, <1>5, Zenon DEF MockBytes
<1>7. Magic \in Words /\ c.flags \in Words
  <2>1. c.flags \in 0..15
    BY Zenon DEF TypedInputs, TypedCommits
  <2>2. Magic \in Words
    BY Zenon DEF CBytes
  <2>3. \A n \in 0..15 : n \in Words
    BY WordSet
  <2> QED
    BY <2>1, <2>2, <2>3, Zenon
<1>8. MockFile(c, Magic, c.flags, crc) = x
  BY <1>6, <1>7, MockIs, Zenon
<1> QED
  BY <1>1, <1>8, Zenon

\* The host's parser does not look at the CRC field.
LEMMA ParsesAnyCrc ==
  ASSUME CBytes, NEW w \in Wires, NEW x \in Wires, NEW crc, x = Put(w, 32, 4, crc)
  PROVE  Parses(x) <=> Parses(w)
<1>1. ASSUME NEW o \in Offsets, o \notin 32..35
      PROVE  x[o] = w[o]
  <2>1. 32 \in Nat /\ 32 + 3 = 35
    OBVIOUS
  <2> QED
    BY <1>1, <2>1, PutAt
<1>2. ASSUME NEW at \in {0, 4, 6, 8, 12, 16, 20, 124}
      PROVE  Load16(x, at) = Load16(w, at) /\ Load32(x, at) = Load32(w, at)
  <2>1. \A i \in 0..3 : at + i \in Offsets /\ at + i \notin 32..35
    BY DEF Offsets, TotalSize
  <2>2. at \in 0..188
    OBVIOUS
  <2>3. \A i \in 0..3 : x[at + i] = w[at + i]
    BY <1>1, <2>1, Zenon
  <2> QED
    BY <2>2, <2>3, SameLoads, SMTT(30)
<1>3. ASSUME NEW f \in {"magic", "version", "header_size", "total_size", "flags", "arch_id",
                        "fault_reason"}
      PROVE  PyField(x, f) = PyField(w, f)
  <2>1. PyHeader[f] \in {0, 4, 6, 8, 12, 16, 20, 124}
    BY DEF PyHeader
  <2> QED
    BY <1>2, <2>1, Zenon DEF PyField
<1>4. Load32(x, HeaderSize + 84 + 4) = Load32(w, HeaderSize + 84 + 4)
  <2>1. HeaderSize + 84 + 4 = 124
    BY DEF HeaderSize
  <2> QED
    BY <1>2, <2>1, Zenon
<1> QED
  BY <1>3, <1>4, Zenon DEF Parses

\* So an image that the CRC alone keeps invalid is one that the parser accepts.
LEMMA SealedIsWhole ==
  ASSUME CBytes, CrcIsWord, NEW w \in Wires
  PROVE  ValidWire(Sealed(w)) <=> Parses(w)
<1>1. PICK crc \in Words : crc = CrcOf(w)
  BY CrcTyped, Zenon
<1>2. PICK x \in Wires : x = Sealed(w)
  BY CrcTyped, Zenon
<1>3. At.crc32 = 32 /\ 32 \in Nat /\ 32 \in 0..188
  BY SMT DEF At
<1>4. x = Put(w, 32, 4, crc)
  BY <1>1, <1>2, <1>3, Zenon DEF Sealed
<1>5. Parses(x) <=> Parses(w)
  BY <1>4, ParsesAnyCrc, Zenon
<1>6. CrcOf(x) = crc
  BY <1>1, <1>3, <1>4, CrcIgnoresItself, Zenon
<1>7. PyField(x, "crc32") = crc
  <2>1. PICK at \in 0..188 : at = 32
    BY <1>3, Zenon
  <2>2. Load32(x, at) = crc
    <3>1. x = Put(w, at, 4, crc)
      BY <1>4, <2>1, Zenon
    <3> QED
      BY <3>1, StoredLoads, Zenon
  <2>3. PyField(x, "crc32") = Load32(x, 32)
    BY SMT DEF PyField, PyHeader
  <2> QED
    BY <2>1, <2>2, <2>3, Zenon
<1>8. Parses(x) => CrcOk(x)
  <2> SUFFICES ASSUME Parses(x) PROVE CrcOk(x)
    OBVIOUS
  <2>1. Field(x, "magic") = Magic
    <3>1. PyField(x, "magic") = Field(x, "magic")
      BY SameFields, SMT DEF PyHeader
    <3> QED
      BY <3>1, Zenon DEF Parses
  <2>2. CrcOf(x) = Crc(Put(x, 32, 4, 0))
    BY <2>1, CrcSame, Zenon
  <2> QED
    BY <1>6, <1>7, <2>2, Zenon DEF CrcOk
<1>9. ValidWire(x) <=> Parses(x) /\ CrcOk(x)
  BY ReadersAgree, Zenon
<1> QED
  BY <1>2, <1>5, <1>8, <1>9, Zenon

\* Every exit of main, by what the image is.
LEMMA MainExits ==
  ASSUME NEW options, NEW w
  PROVE  /\ Main(options, w).status = 0 <=> Parses(w) /\ CrcOk(w)
         /\ Main(options, w).status = 1 <=> Parses(w) /\ ~CrcOk(w)
         /\ Main(options, w).status = 2 <=> ~Parses(w)
         /\ "forensic" \notin options /\ Main(options, w).out = "json" => Parses(w) /\ CrcOk(w)
<1>1. CASE ~Parses(w)
  BY <1>1 DEF Main, Exits
<1>2. CASE Parses(w) /\ "verify" \in options
  BY <1>2 DEF Main, VerifyExit, Exits
<1>3. CASE Parses(w) /\ "verify" \notin options /\ "json" \in options
  BY <1>3 DEF Main, JsonExit, LastLines, Exits
<1>4. CASE Parses(w) /\ "verify" \notin options /\ "json" \notin options
  BY <1>4 DEF Main, LastLines, Exits
<1> QED
  BY <1>1, <1>2, <1>3, <1>4

\* For every CRC, image and commit, and with any options: main leaves with 0, 1 or 2 by
\* what the device would say of the image and of the image with a right CRC, and prints
\* JSON without --forensic for the device's valid images only
\* (decode_panicdump.py:337-362).
THEOREM ScriptsAlwaysAgree ==
  ASSUME CBytes, CrcIsWord, TypedInputs
  PROVE  Spec => []ScriptsAgree
<1>1. BootInv => ScriptsAgree
  <2> SUFFICES ASSUME wire \in Wires, NEW options \in SUBSET Options
      PROVE  /\ (Main(options, wire).status = 0) = ValidWire(wire)
             /\ (Main(options, wire).status = 1) = (ValidWire(Sealed(wire)) /\ ~ValidWire(wire))
             /\ (Main(options, wire).status = 2) = ~ValidWire(Sealed(wire))
             /\ "forensic" \notin options /\ Main(options, wire).out = "json" => ValidWire(wire)
    BY Zenon DEF ScriptsAgree, BootInv
  <2>1. ValidWire(wire) = (Parses(wire) /\ CrcOk(wire))
    BY ReadersAgree, Zenon
  <2>2. ValidWire(Sealed(wire)) <=> Parses(wire)
    BY SealedIsWhole, Zenon
  <2>3. ValidWire(wire) \in BOOLEAN /\ ValidWire(Sealed(wire)) \in BOOLEAN
    BY Zenon DEF ValidWire
  <2> QED
    BY <2>1, <2>2, <2>3, MainExits
<1> QED
  BY <1>1, BootInvAlways, PTL

\* A file without the magic is refused.
LEMMA MockWithoutMagic ==
  ASSUME CBytes, TypedInputs, NEW c \in Commits, NEW crc \in Words
  PROVE  ~Parses(MockFile(c, 0, 0, crc))
<1> DEFINE x == MockFile(c, 0, 0, crc)
<1>1. 0 \in Words
  BY WordSet
<1>2. x \in Wires /\ MockBytes(x, c, 0, 0, crc)
  BY <1>1, MockAt, Zenon
<1>3. MockHeader(c, 0, 0, crc)["magic"] = 0
  BY SMT DEF MockHeader
<1>4. "magic" \in DOMAIN At /\ At["magic"] = 0 /\ Width["magic"] = 4 /\ 4 - 1 = 3 /\ 0 \in 0..188
  BY SMT DEF At, Width
<1> HIDE DEF x
<1>5. \A i \in 0..3 : x[0 + i] = Byte(0, i)
  <2>1. \A f \in DOMAIN At : \A i \in 0..(Width[f] - 1) :
          x[At[f] + i] = Byte(MockHeader(c, 0, 0, crc)[f], i)
    BY <1>2, Zenon DEF MockBytes
  <2>2. \A i \in 0..(Width["magic"] - 1) :
          x[At["magic"] + i] = Byte(MockHeader(c, 0, 0, crc)["magic"], i)
    BY <1>4, <2>1, Zenon
  <2> QED
    BY <1>3, <1>4, <2>2, Zenon
<1>6. Load32(x, 0) = 0
  BY <1>1, <1>2, <1>4, <1>5, LoadOfBytes, Zenon
<1>7. PyField(x, "magic") = Load32(x, 0)
  BY SMT DEF PyField, PyHeader
<1>8. Magic # 0
  BY Zenon DEF CBytes
<1> QED
  BY <1>6, <1>7, <1>8, Zenon DEF Parses, x

\* What build_dump makes of the contents of a commit.
LEMMA MockOfCommit ==
  ASSUME CBytes, CrcIsWord, TypedInputs, NEW w \in Wires, NEW c \in Commits,
         PortArch = 4, c.stack_bytes = StackBytes, c.captured_sp = c.regs["msp"]
  PROVE  /\ Mock(c, {}) = Committed(w, c)
         /\ Main({"verify"}, Mock(c, {"corrupt_crc"})) = Exits("verdict", 1)
         /\ \A defects \in {{"partial"}, {"partial", "corrupt_crc"}} :
              Main({"verify"}, Mock(c, defects)) = Exits("error", 2)
<1>1. PICK x \in Wires, crc \in Words : /\ x = Committed(w, c) /\ crc = CrcOf(x)
                                        /\ MockFile(c, Magic, c.flags, crc) = x
  BY CommittedIsMock, Zenon
<1> DEFINE checksum == Crc(MockFile(c, Magic, c.flags, 0))
           other == IF checksum = 0 THEN 1 ELSE 0
           y == MockFile(c, Magic, c.flags, other)
<1>2. Magic \in Words /\ c.flags \in Words /\ 0 \in Words /\ 1 \in Words
  <2>1. c.flags \in 0..15
    BY Zenon DEF TypedInputs, TypedCommits
  <2>2. Magic \in Words
    BY Zenon DEF CBytes
  <2>3. \A n \in 0..15 : n \in Words
    BY WordSet
  <2>4. 0 \in 0..15 /\ 1 \in 0..15
    OBVIOUS
  <2> QED
    BY <2>1, <2>2, <2>3, <2>4, Zenon
<1>r. ASSUME NEW v \in Words, NEW u \in Words
      PROVE  MockFile(c, Magic, c.flags, v) = Put(MockFile(c, Magic, c.flags, u), 32, 4, v)
  <2>1. PICK m \in Words, fl \in Words : m = Magic /\ fl = c.flags
    BY <1>2, Zenon
  <2>2. PICK z : z = MockFile(c, m, fl, u)
    OBVIOUS
  <2>3. MockFile(c, m, fl, v) = Put(z, 32, 4, v)
    BY <2>2, MockResealed
  <2> QED
    BY <2>1, <2>2, <2>3, Zenon
<1>3. other \in Words /\ other # checksum
  BY <1>2
<1>4. ValidWire(x)
  BY <1>1, CommittedReads, Zenon
<1>5. Parses(x)
  BY <1>4, ReadersAgree, Zenon
<1>6. checksum = crc
  <2>1. MockFile(c, Magic, c.flags, 0) = Put(x, 32, 4, 0)
    <3>1. x = MockFile(c, Magic, c.flags, crc)
      BY <1>1, Zenon
    <3> QED
      BY <1>2, <1>r, <3>1, Zenon
  <2>2. Field(x, "magic") = Magic
    BY <1>4, Zenon DEF ValidWire
  <2> QED
    BY <1>1, <2>1, <2>2, CrcSame, Zenon
<1>7. y = Put(x, 32, 4, other)
  <2>1. x = MockFile(c, Magic, c.flags, crc) /\ other \in Words
    BY <1>1, <1>3, Zenon
  <2> HIDE DEF other
  <2> QED
    BY <1>2, <1>r, <2>1, Zenon
<1>8. y \in Wires /\ MockBytes(y, c, Magic, c.flags, other)
  BY <1>2, <1>3, MockAt, Zenon
<1>9. MockFile(c, Magic, c.flags, 0) = Put(y, 32, 4, 0)
  <2>1. y = MockFile(c, Magic, c.flags, other) /\ other \in Words
    BY <1>3, Zenon
  <2> HIDE DEF other, y
  <2> QED
    BY <1>2, <1>r, <2>1, Zenon
<1> HIDE DEF other, y
<1>10. Parses(y)
  BY <1>5, <1>7, <1>8, ParsesAnyCrc, Zenon
<1>11. PyField(y, "crc32") = other
  <2>1. "crc32" \in DOMAIN At /\ At["crc32"] = 32 /\ Width["crc32"] = 4 /\ 4 - 1 = 3
    BY SMT DEF At, Width
  <2>2. MockHeader(c, Magic, c.flags, other)["crc32"] = other
    BY SMT DEF MockHeader
  <2>a. \A f \in DOMAIN At : \A i \in 0..(Width[f] - 1) :
          y[At[f] + i] = Byte(MockHeader(c, Magic, c.flags, other)[f], i)
    BY <1>8, Zenon DEF MockBytes
  <2>b. \A i \in 0..(Width["crc32"] - 1) :
          y[At["crc32"] + i] = Byte(MockHeader(c, Magic, c.flags, other)["crc32"], i)
    BY <2>1, <2>a, Zenon
  <2>3. \A i \in 0..3 : y[32 + i] = Byte(other, i)
    BY <2>1, <2>2, <2>b, Zenon
  <2>4. 32 \in 0..188
    OBVIOUS
  <2>5. Load32(y, 32) = other
    BY <1>3, <1>8, <2>3, <2>4, LoadOfBytes, Zenon
  <2>6. PyField(y, "crc32") = Load32(y, 32)
    BY SMT DEF PyField, PyHeader
  <2> QED
    BY <2>5, <2>6, Zenon
<1>12. ~CrcOk(y)
  BY <1>3, <1>9, <1>11, Zenon DEF CrcOk
<1>13. Mock(c, {}) = x
  <2>1. "corrupt_crc" \notin {} /\ "partial" \notin {}
    OBVIOUS
  <2>2. Mock(c, {}) = MockFile(c, Magic, c.flags, checksum)
    BY <2>1, Zenon DEF Mock
  <2> QED
    BY <1>1, <1>6, <2>2, Zenon
<1>14. Mock(c, {"corrupt_crc"}) = y
  <2>1. "corrupt_crc" \in {"corrupt_crc"} /\ "partial" \notin {"corrupt_crc"}
    OBVIOUS
  <2> QED
    BY <2>1, Zenon DEF Mock, y, other
<1>15. Main({"verify"}, y) = Exits("verdict", 1)
  <2>1. "verify" \in {"verify"}
    OBVIOUS
  <2> QED
    BY <1>10, <1>12, <2>1, Zenon DEF Main, VerifyExit
<1>16. ASSUME NEW defects \in {{"partial"}, {"partial", "corrupt_crc"}}
       PROVE  Main({"verify"}, Mock(c, defects)) = Exits("error", 2)
  <2>1. "partial" \in defects
    OBVIOUS
  <2>2. PICK written \in Words : Mock(c, defects) = MockFile(c, 0, 0, written)
    <3>1. checksum \in Words
      BY <1>6, Zenon
    <3>2. (IF "corrupt_crc" \in defects THEN other ELSE checksum) \in Words
      BY <1>3, <3>1, Zenon
    <3> QED
      BY <2>1, <3>2, Zenon DEF Mock, other
  <2> QED
    BY <2>2, MockWithoutMagic, Zenon DEF Main
<1> QED
  BY <1>1, <1>13, <1>14, <1>15, <1>16, Zenon

\* For every CRC, image and commit: the generator of test files writes what a Cortex-M4
\* commits for the same contents, and each defect it can make gets its exit status
\* (make_mock_dump.py:147-221).
THEOREM TestFilesMatch ==
  ASSUME CBytes, CrcIsWord, TypedInputs
  PROVE  Spec => []MocksMatch
<1>1. HoldsInv => MocksMatch
  <2> SUFFICES ASSUME HoldsInv, NEW c \in holds,
                      PortArch = 4, c.stack_bytes = StackBytes, c.captured_sp = c.regs["msp"]
               PROVE  /\ Mock(c, {}) = wire
                      /\ Main({"verify"}, Mock(c, {"corrupt_crc"})) = Exits("verdict", 1)
                      /\ \A defects \in {{"partial"}, {"partial", "corrupt_crc"}} :
                           Main({"verify"}, Mock(c, defects)) = Exits("error", 2)
    BY Zenon DEF MocksMatch
  <2>1. PICK w \in Wires : wire = Committed(w, c)
    BY Zenon DEF HoldsInv
  <2>2. c \in Commits
    BY Zenon DEF HoldsInv
  <2> QED
    BY <2>1, <2>2, MockOfCommit, Zenon
<1> QED
  BY <1>1, HoldsInvAlways, PTL
=============================================================================
