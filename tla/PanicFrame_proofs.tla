-------------------------- MODULE PanicFrame_proofs --------------------------
(***************************************************************************)
(* The text of a frame, for every image and any length of image and line:  *)
(* the host takes it and reads the image, and the generator of test files  *)
(* writes the same text.                                                   *)
(***************************************************************************)
EXTENDS PanicExport, DataInduction

Digit == {HexDigits[d] : d \in DOMAIN HexDigits}
Middle == Digit \cup Space      \* characters between the markers

-----------------------------------------------------------------------------
(* Sequences. *)

LEMMA SameSeq ==
  ASSUME NEW S, NEW a \in Seq(S), NEW b \in Seq(S), Len(a) = Len(b),
         \A k \in 1..Len(a) : a[k] = b[k]
  PROVE  a = b
OBVIOUS

LEMMA ConcatAppend ==
  ASSUME NEW S, NEW a \in Seq(S), NEW b \in Seq(S), NEW c \in S
  PROVE  a \o Append(b, c) = Append(a \o b, c)
<1> DEFINE s == a \o Append(b, c)  t == Append(a \o b, c)
<1>1. Append(b, c) \in Seq(S) /\ a \o b \in Seq(S) /\ Len(a \o b) = Len(a) + Len(b)
  OBVIOUS
<1>2. s \in Seq(S) /\ t \in Seq(S) /\ Len(s) = Len(t)
  BY <1>1
<1>3. ASSUME NEW k \in 1..Len(s) PROVE s[k] = t[k]
  BY <1>1
<1>4. s = t
  <2> HIDE DEF s, t
  <2> QED
    BY <1>2, <1>3, SameSeq
<1> QED
  BY <1>4

LEMMA ConcatThree ==
  ASSUME NEW S, NEW a \in Seq(S), NEW b \in Seq(S), NEW c \in Seq(S)
  PROVE  (a \o b) \o c = a \o (b \o c)
<1> DEFINE s == (a \o b) \o c  t == a \o (b \o c)
<1>1. /\ a \o b \in Seq(S) /\ Len(a \o b) = Len(a) + Len(b)
      /\ b \o c \in Seq(S) /\ Len(b \o c) = Len(b) + Len(c)
  OBVIOUS
<1>2. s \in Seq(S) /\ t \in Seq(S) /\ Len(s) = Len(t)
  BY <1>1
<1>3. ASSUME NEW k \in 1..Len(s) PROVE s[k] = t[k]
  BY <1>1
<1>4. s = t
  <2> HIDE DEF s, t
  <2> QED
    BY <1>2, <1>3, SameSeq
<1> QED
  BY <1>4

-----------------------------------------------------------------------------
(* Characters. *)

LEMMA CharFacts ==
  /\ Digit \cap Space = {} /\ Middle \subseteq Char /\ Space \subseteq Char
  /\ Text \notin Middle /\ Text \in Char /\ "=" \notin Middle /\ "=" \in Char
  /\ EOL \in Seq(Middle) /\ EOL \in Seq(Char) /\ EOL \in Seq(Space) /\ Len(EOL) = 2
<1>1. \A c \in Digit : c \notin {"=", " ", "\r", "\n", Text}
  BY HexAssumption DEF Digit
<1>2. Digit \subseteq Char
  BY DEF Digit, Char, Range
<1>3. Digit \cap Space = {} /\ Middle \subseteq Char /\ Space \subseteq Char
  BY <1>1, <1>2 DEF Space, Middle, Char
<1>4. Text \notin Middle /\ Text \in Char /\ "=" \notin Middle /\ "=" \in Char
  BY <1>1 DEF Space, Middle, Text, Char
<1>5. EOL \in Seq(Middle) /\ EOL \in Seq(Char) /\ EOL \in Seq(Space) /\ Len(EOL) = 2
  <2>1. "\r" \in Space /\ "\n" \in Space
    BY Zenon DEF Space
  <2>2. \A S : "\r" \in S /\ "\n" \in S => EOL \in Seq(S) /\ Len(EOL) = 2
    BY DEF EOL
  <2>3. Space \subseteq Middle
    BY Zenon DEF Middle
  <2> QED
    BY <1>3, <2>1, <2>2, <2>3, Zenon
<1> QED
  BY <1>3, <1>4, <1>5

Marker(words) == Rule \o words \o Rule

\* Where a marker shows a rule, and where its words.
LEMMA MarkerShape ==
  ASSUME NEW words \in {BeginWords, EndWords}
  PROVE  /\ RuleLen \in Nat \ {0} /\ Len(words) \in 1..(2 * NBytes - 1)
         /\ words \in Seq(Char) /\ Marker(words) \in Seq(Char)
         /\ Len(Marker(words)) = RuleLen + Len(words) + RuleLen
         /\ \A k \in 1..RuleLen : /\ Marker(words)[k] = "="
                                  /\ Marker(words)[RuleLen + Len(words) + k] = "="
         /\ \A k \in 1..Len(words) : /\ Marker(words)[RuleLen + k] = words[k]
                                     /\ words[k] \notin {"=", "\r", "\n", Text}
<1>1. RuleLen \in Nat \ {0} /\ WordsFit(words, 2 * NBytes)
  BY MarkerAssumption
<1>2. words \in Seq(Char)
  <2>1. words \in Seq(STRING)
    BY <1>1 DEF WordsFit
  <2>2. \A k \in DOMAIN words : words[k] \in Char
    BY ZenonT(30) DEF Char, Range
  <2> QED
    BY <2>1, <2>2
<1>3. Rule \in Seq(Char) /\ Len(Rule) = RuleLen /\ \A k \in 1..RuleLen : Rule[k] = "="
  <2>1. "=" \in Char
    BY CharFacts
  <2> QED
    BY <1>1, <2>1 DEF Rule
<1> DEFINE a == Rule  b == a \o words  c == b \o a
<1> HIDE DEF a
<1>4. a \in Seq(Char) /\ Len(a) = RuleLen /\ \A k \in 1..RuleLen : a[k] = "="
  BY <1>3 DEF a
<1>5. /\ b \in Seq(Char) /\ Len(b) = Len(a) + Len(words)
      /\ \A k \in 1..Len(a) : b[k] = a[k]
      /\ \A k \in 1..Len(words) : b[Len(a) + k] = words[k]
  <2>1. b = a \o words
    OBVIOUS
  <2> QED
    BY <1>2, <1>4, <2>1, JoinFacts
<1> HIDE DEF b
<1>6. /\ c \in Seq(Char) /\ Len(c) = Len(b) + Len(a)
      /\ \A k \in 1..Len(b) : c[k] = b[k]
      /\ \A k \in 1..Len(a) : c[Len(b) + k] = a[k]
  <2>1. c = b \o a /\ b \in Seq(Char) /\ a \in Seq(Char)
    BY <1>4, <1>5
  <2> HIDE DEF c
  <2> QED
    BY <2>1, JoinFacts
<1> HIDE DEF c
<1>7. Len(words) \in 1..(2 * NBytes - 1)
      /\ \A k \in 1..Len(words) : words[k] \notin {"=", "\r", "\n", Text}
  BY <1>1, <1>2 DEF WordsFit
<1>8. ASSUME NEW k \in 1..RuleLen
      PROVE  c[k] = "=" /\ c[RuleLen + Len(words) + k] = "="
  <2>1. k \in 1..Len(a) /\ k \in 1..Len(b) /\ RuleLen + Len(words) + k = Len(b) + k
    BY <1>1, <1>4, <1>5, <1>7
  <2> QED
    BY <1>4, <1>5, <1>6, <2>1
<1>9. ASSUME NEW k \in 1..Len(words) PROVE c[RuleLen + k] = words[k]
  <2>1. RuleLen + k \in 1..Len(b) /\ RuleLen + k = Len(a) + k
    BY <1>1, <1>4, <1>5, <1>7
  <2> QED
    BY <1>5, <1>6, <2>1
<1>10. Len(c) = RuleLen + Len(words) + RuleLen
  BY <1>4, <1>5, <1>6
<1>11. c = Marker(words)
  BY DEF a, b, c, Marker
<1> QED
  BY <1>1, <1>2, <1>6, <1>7, <1>8, <1>9, <1>10, <1>11

LEMMA MarkerFacts ==
  /\ BEGIN = Marker(BeginWords) /\ END = Marker(EndWords)
  /\ BEGIN \in Seq(Char) /\ END \in Seq(Char)
  /\ DOMAIN BEGIN = 1..Len(BEGIN) /\ DOMAIN END = 1..Len(END)
  /\ Len(BEGIN) = RuleLen + Len(BeginWords) + RuleLen
  /\ Len(END) = RuleLen + Len(EndWords) + RuleLen
  /\ RuleLen \in Nat \ {0} /\ Len(BEGIN) \in Nat \ {0} /\ Len(END) \in Nat \ {0}
  /\ Len(BeginWords) \in 1..(2 * NBytes - 1) /\ Len(EndWords) \in 1..(2 * NBytes - 1)
<1>1. BEGIN = Marker(BeginWords) /\ END = Marker(EndWords)
  BY DEF BEGIN, END, Marker
<1>2. /\ BEGIN \in Seq(Char) /\ Len(BEGIN) = RuleLen + Len(BeginWords) + RuleLen
      /\ RuleLen \in Nat \ {0} /\ Len(BeginWords) \in 1..(2 * NBytes - 1)
  BY <1>1, MarkerShape
<1>3. /\ END \in Seq(Char) /\ Len(END) = RuleLen + Len(EndWords) + RuleLen
      /\ Len(EndWords) \in 1..(2 * NBytes - 1)
  BY <1>1, MarkerShape
<1> DEFINE b == BEGIN  e == END
<1> HIDE DEF b, e
<1>4. b \in Seq(Char) => DOMAIN b = 1..Len(b)
  OBVIOUS
<1>5. e \in Seq(Char) => DOMAIN e = 1..Len(e)
  OBVIOUS
<1>6. Len(BEGIN) \in Nat \ {0} /\ Len(END) \in Nat \ {0}
  BY <1>2, <1>3, SMTT(30)
<1> QED
  BY <1>1, <1>2, <1>3, <1>4, <1>5, <1>6 DEF b, e

-----------------------------------------------------------------------------
(* re.sub: what is left of a text without its blanks. *)

LEMMA HexEmpty == HexOf(<<>>) = <<>>
<1>1. [i \in DOMAIN <<>> |-> IF <<>>[i] \in Space THEN <<>> ELSE <<<<>>[i]>>] = <<>>
  OBVIOUS
<1> QED
  BY <1>1, FlattenEmpty DEF HexOf

LEMMA HexAppend ==
  ASSUME NEW S, NEW s \in Seq(S), NEW c \in S
  PROVE  /\ HexOf(s) \in Seq(S)
         /\ HexOf(Append(s, c)) = IF c \in Space THEN HexOf(s) ELSE Append(HexOf(s), c)
<1> DEFINE piece(x) == IF x \in Space THEN <<>> ELSE <<x>>
           ss == [i \in 1..Len(s) |-> piece(s[i])]
           t == Append(s, c)
           tt == [i \in 1..Len(t) |-> piece(t[i])]
<1>1. \A x \in S : piece(x) \in Seq(S)
  OBVIOUS
<1>2. HexOf(s) = FlattenSeq(ss) /\ HexOf(t) = FlattenSeq(tt)
  <2>1. ASSUME NEW u \in Seq(S)
        PROVE  HexOf(u) = FlattenSeq([i \in 1..Len(u) |-> piece(u[i])])
    <3>1. DOMAIN u = 1..Len(u)
      OBVIOUS
    <3> QED
      BY <3>1, Zenon DEF HexOf
  <2>2. t \in Seq(S)
    OBVIOUS
  <2> HIDE DEF piece, t
  <2> QED
    BY <2>1, <2>2, Zenon
<1>3. \A i \in 1..Len(s) : s[i] \in S
  OBVIOUS
<1>4. Len(t) = Len(s) + 1 /\ t[Len(s) + 1] = c /\ (\A i \in 1..Len(s) : t[i] = s[i])
      /\ Len(s) \in Nat /\ \A i \in 1..Len(t) : t[i] \in S
  OBVIOUS
<1> HIDE DEF piece, t
<1>5. ss \in Seq(Seq(S)) /\ Len(ss) = Len(s) /\ tt \in Seq(Seq(S)) /\ Len(tt) = Len(t)
  BY <1>1, <1>3, <1>4
<1>6. tt = Append(ss, piece(c))
  <2> DEFINE u == Append(ss, piece(c))
  <2>1. u \in Seq(Seq(S)) /\ Len(u) = Len(s) + 1 /\ u[Len(s) + 1] = piece(c)
        /\ \A i \in 1..Len(s) : u[i] = ss[i]
    <3> HIDE DEF ss
    <3> QED
      BY <1>1, <1>5
  <2>2. ASSUME NEW i \in 1..(Len(s) + 1) PROVE tt[i] = u[i]
    <3>1. tt[i] = piece(t[i])
      BY <1>4
    <3>2. CASE i = Len(s) + 1
      <4> HIDE DEF u, tt
      <4> QED
        BY <1>4, <2>1, <3>1, <3>2
    <3>3. CASE i # Len(s) + 1
      <4>1. i \in 1..Len(s)
        BY <1>4, <3>3
      <4>2. ss[i] = piece(s[i])
        BY <4>1
      <4> HIDE DEF u, tt, ss
      <4> QED
        BY <1>4, <2>1, <3>1, <4>1, <4>2
    <3> QED
      BY <3>2, <3>3
  <2> HIDE DEF u, tt
  <2>3. tt = u
    BY <1>4, <1>5, <2>1, <2>2, SameSeq
  <2> QED
    BY <2>3 DEF u
<1>7. piece(c) \in Seq(S)
  BY <1>1
<1> HIDE DEF ss, tt
<1>8. FlattenSeq(tt) = FlattenSeq(ss) \o piece(c) /\ FlattenSeq(ss) \in Seq(S)
  BY <1>5, <1>6, <1>7, FlattenAppend, FlattenType
<1>9. FlattenSeq(ss) \o piece(c) =
        IF c \in Space THEN FlattenSeq(ss) ELSE Append(FlattenSeq(ss), c)
  <2> DEFINE f == FlattenSeq(ss)
  <2> HIDE DEF f
  <2>1. f \in Seq(S) => f \o <<>> = f /\ f \o <<c>> = Append(f, c)
    OBVIOUS
  <2> QED
    BY <1>8, <2>1 DEF f, piece
<1> QED
  BY <1>2, <1>8, <1>9 DEF t

LEMMA LastOne ==
  ASSUME NEW S, NEW n \in Nat, NEW s \in Seq(S), Len(s) = n + 1
  PROVE  \E t \in Seq(S), c \in S : Len(t) = n /\ s = Append(t, c)
<1> DEFINE t == [i \in 1..n |-> s[i]]  u == Append(t, s[n + 1])
<1>1. t \in Seq(S) /\ Len(t) = n /\ s[n + 1] \in S
  OBVIOUS
<1>2. u \in Seq(S) /\ Len(u) = n + 1 /\ \A k \in 1..(n + 1) : u[k] = s[k]
  OBVIOUS
<1>3. s = u
  <2> HIDE DEF u
  <2> QED
    BY <1>2, SameSeq
<1> QED
  <2> HIDE DEF t
  <2> QED
    BY <1>1, <1>3

(* P[d] is where the d-th character that is no blank stands in s. *)
Places(s, P) ==
  /\ P \in [DOMAIN HexOf(s) -> DOMAIN s]
  /\ \A d \in DOMAIN HexOf(s) : HexOf(s)[d] = s[P[d]] /\ s[P[d]] \notin Space
  /\ \A d, e \in DOMAIN HexOf(s) : d < e => P[d] < P[e]
  /\ \A i \in DOMAIN s : s[i] \notin Space => \E d \in DOMAIN HexOf(s) : P[d] = i

LEMMA PlacesAppend ==
  ASSUME NEW S, NEW t \in Seq(S), NEW c \in S, NEW P, Places(t, P)
  PROVE  \E Q : Places(Append(t, c), Q)
<1> DEFINE s == Append(t, c)  h == HexOf(t)  n == Len(t)  m == Len(h)
<1>1. /\ h \in Seq(S) /\ HexOf(s) = IF c \in Space THEN h ELSE Append(h, c)
      /\ m \in Nat /\ n \in Nat /\ DOMAIN h = 1..m /\ DOMAIN t = 1..n /\ DOMAIN s = 1..(n + 1)
      /\ s[n + 1] = c /\ \A i \in 1..n : s[i] = t[i]
  BY HexAppend
<1> HIDE DEF s
<1>2. CASE c \in Space
  <2>1. HexOf(s) = h
    BY <1>1, <1>2
  <2> HIDE DEF h
  <2>2. Places(s, P)
    BY <1>1, <1>2, <2>1 DEF Places, h
  <2> QED
    BY <2>2 DEF s
<1>3. CASE c \notin Space
  <2> DEFINE Q == [d \in 1..(m + 1) |-> IF d = m + 1 THEN n + 1 ELSE P[d]]
  <2>1. HexOf(s) = Append(h, c)
    BY <1>1, <1>3
  <2> DEFINE g == HexOf(s)
  <2>2. DOMAIN g = 1..(m + 1) /\ g[m + 1] = c /\ \A d \in 1..m : g[d] = h[d]
    BY <1>1, <2>1
  <2>3. Q \in [1..(m + 1) -> 1..(n + 1)] /\ Q[m + 1] = n + 1 /\ \A d \in 1..m : Q[d] = P[d]
    BY <1>1 DEF Places
  <2> HIDE DEF Q, g
  <2>4. \A d \in 1..(m + 1) : g[d] = s[Q[d]] /\ s[Q[d]] \notin Space
    <3> TAKE d \in 1..(m + 1)
    <3>1. CASE d = m + 1
      BY <1>1, <1>3, <2>2, <2>3, <3>1
    <3>2. CASE d # m + 1
      <4>1. d \in 1..m
        BY <1>1, <3>2
      <4>2. h[d] = t[P[d]] /\ t[P[d]] \notin Space /\ P[d] \in 1..n
        BY <1>1, <4>1 DEF Places
      <4> QED
        BY <1>1, <2>2, <2>3, <4>1, <4>2
    <3> QED
      BY <3>1, <3>2
  <2>5. \A d, e \in 1..(m + 1) : d < e => Q[d] < Q[e]
    <3> TAKE d, e \in 1..(m + 1)
    <3> HAVE d < e
    <3>1. d \in 1..m /\ P[d] \in 1..n
      BY <1>1 DEF Places
    <3>2. e # m + 1 => e \in 1..m /\ P[d] < P[e]
      <4>1. \A i, j \in 1..m : i < j => P[i] < P[j]
        BY <1>1 DEF Places
      <4>2. e # m + 1 => e \in 1..m
        BY <1>1
      <4> QED
        BY <3>1, <4>1, <4>2
    <3> QED
      BY <1>1, <2>3, <3>1, <3>2
  <2>6. \A i \in 1..(n + 1) : s[i] \notin Space => \E d \in 1..(m + 1) : Q[d] = i
    <3> TAKE i \in 1..(n + 1)
    <3>1. CASE i = n + 1
      BY <1>1, <2>3, <3>1
    <3>2. CASE i # n + 1
      <4>1. i \in 1..n /\ s[i] = t[i]
        BY <1>1, <3>2
      <4>2. t[i] \notin Space => \E d \in 1..m : P[d] = i
        BY <1>1, <4>1 DEF Places
      <4> QED
        BY <1>1, <2>3, <4>1, <4>2
    <3> QED
      BY <3>1, <3>2
  <2>7. Places(s, Q)
    BY <1>1, <2>2, <2>3, <2>4, <2>5, <2>6 DEF Places, g
  <2> QED
    BY <2>7 DEF s
<1> QED
  BY <1>2, <1>3

\* What is left of a text without its blanks stands in it in the same order.
LEMMA HexPlaces ==
  ASSUME NEW S, NEW s \in Seq(S)
  PROVE  HexOf(s) \in Seq(S) /\ \E P : Places(s, P)
<1> DEFINE T == {n \in Nat : \A t \in Seq(S) : Len(t) = n =>
                               HexOf(t) \in Seq(S) /\ \E P : Places(t, P)}
<1>1. 0 \in T
  <2> SUFFICES ASSUME NEW t \in Seq(S), Len(t) = 0
               PROVE  HexOf(t) \in Seq(S) /\ \E P : Places(t, P)
    OBVIOUS
  <2>1. t = <<>> /\ DOMAIN t = {}
    OBVIOUS
  <2>2. HexOf(t) = <<>> /\ DOMAIN HexOf(t) = {} /\ HexOf(t) \in Seq(S)
    BY <2>1, HexEmpty
  <2>3. Places(t, <<>>)
    BY <2>1, <2>2 DEF Places
  <2> QED
    BY <2>2, <2>3
<1>2. ASSUME NEW n \in Nat, n \in T PROVE n + 1 \in T
  <2> SUFFICES ASSUME NEW t \in Seq(S), Len(t) = n + 1
               PROVE  HexOf(t) \in Seq(S) /\ \E P : Places(t, P)
    OBVIOUS
  <2>1. PICK u \in Seq(S), c \in S : Len(u) = n /\ t = Append(u, c)
    BY LastOne
  <2>2. HexOf(u) \in Seq(S) /\ \E P : Places(u, P)
    BY <1>2, <2>1
  <2>3. HexOf(t) \in Seq(S)
    BY <2>1, <2>2, HexAppend
  <2>4. \E P : Places(t, P)
    BY <2>1, <2>2, PlacesAppend
  <2> QED
    BY <2>3, <2>4
<1>3. Len(s) \in T
  <2>1. Len(s) \in Nat
    OBVIOUS
  <2> HIDE DEF T
  <2> QED
    BY <1>1, <1>2, <2>1, Induction
<1> QED
  BY <1>3

-----------------------------------------------------------------------------
(* The text between the markers. *)

Row(image) ==
  [i \in 1..NBytes |->
     HexByte(image[i]) \o IF i % LineBytes = 0 \/ i = NBytes THEN EOL ELSE <<>>]
Between(image) == EOL \o FlattenSeq(Row(image))

LEMMA HexByteFacts ==
  ASSUME NEW v \in 0..(Base * Base - 1)
  PROVE  \E a, b \in Digit :
           HexByte(v) = <<a, b>> /\ Base * DigitOf(a) + DigitOf(b) = v
<1>1. Base \in Nat /\ HexDigits \in Seq(STRING) /\ IsInjective(HexDigits)
  <2>1. HexDigits \in Seq(STRING) /\ IsInjective(HexDigits)
    BY HexAssumption
  <2> QED
    BY <2>1 DEF Base
<1>2. Base \in Nat \ {0}
  BY <1>1
<1> DEFINE h == v \div Base  l == v % Base
<1>3. h \in 0..(Base - 1) /\ l \in 0..(Base - 1) /\ v = Base * h + l
  <2>1. v \in Nat
    BY <1>1
  <2> HIDE DEF Base
  <2> QED
    BY <1>2, <2>1
<1> HIDE DEF h, l
<1>4. DOMAIN HexDigits = 1..Base
  BY <1>1 DEF Base
<1>5. ASSUME NEW n \in 0..(Base - 1)
      PROVE HexDigits[n + 1] \in Digit /\ DigitOf(HexDigits[n + 1]) = n
  <2>1. n + 1 \in DOMAIN HexDigits
    BY <1>1, <1>4
  <2> DEFINE d == CHOOSE d \in DOMAIN HexDigits : HexDigits[d] = HexDigits[n + 1]
  <2>2. d \in DOMAIN HexDigits /\ HexDigits[d] = HexDigits[n + 1]
    BY <2>1
  <2> HIDE DEF d
  <2>3. d = n + 1
    BY <1>1, <2>1, <2>2 DEF IsInjective
  <2>4. DigitOf(HexDigits[n + 1]) = d - 1
    BY DEF DigitOf, d
  <2> QED
    BY <2>1, <2>3, <2>4 DEF Digit
<1>6. HexByte(v) = <<HexDigits[h + 1], HexDigits[l + 1]>>
  BY DEF HexByte, h, l
<1> QED
  BY <1>3, <1>5, <1>6

LEMMA HexTwo ==
  ASSUME NEW a \in Seq(Middle), NEW x \in Digit, NEW y \in Digit, NEW e \in {EOL, <<>>}
  PROVE  /\ <<x, y>> \o e \in Seq(Middle) /\ a \o (<<x, y>> \o e) \in Seq(Middle)
         /\ HexOf(a \o (<<x, y>> \o e)) = Append(Append(HexOf(a), x), y)
<1> DEFINE b == Append(Append(a, x), y)
<1>1. x \in Middle /\ y \in Middle /\ "\r" \in Middle /\ "\n" \in Middle
      /\ x \notin Space /\ y \notin Space /\ "\r" \in Space /\ "\n" \in Space
  BY CharFacts DEF Middle, Space
<1>2. b \in Seq(Middle) /\ HexOf(b) = Append(Append(HexOf(a), x), y)
  <2>1. Append(a, x) \in Seq(Middle) /\ b \in Seq(Middle)
    BY <1>1
  <2>2. HexOf(Append(a, x)) = Append(HexOf(a), x)
    BY <1>1, HexAppend
  <2>3. HexOf(b) = Append(HexOf(Append(a, x)), y)
    <3> DEFINE q == Append(a, x)
    <3> HIDE DEF q
    <3>1. q \in Seq(Middle)
      BY <2>1 DEF q
    <3>2. HexOf(Append(q, y)) = Append(HexOf(q), y)
      BY <1>1, <3>1, HexAppend
    <3> QED
      BY <3>2 DEF q
  <2> QED
    BY <2>1, <2>2, <2>3
<1>3. <<x, y>> \in Seq(Middle) /\ a \o <<x, y>> = b
  <2>1. <<x>> \in Seq(Middle) /\ <<x, y>> = Append(<<x>>, y) /\ a \o <<x>> = Append(a, x)
    BY <1>1
  <2> QED
    BY <1>1, <2>1, ConcatAppend
<1> HIDE DEF b
<1>4. CASE e = <<>>
  <2>1. <<x, y>> \o e = <<x, y>>
    BY <1>4
  <2> QED
    BY <1>2, <1>3, <2>1
<1>5. CASE e = EOL
  <2> DEFINE c == Append(Append(b, "\r"), "\n")
  <2>1. Append(b, "\r") \in Seq(Middle) /\ c \in Seq(Middle) /\ HexOf(c) = HexOf(b)
    <3>1. Append(b, "\r") \in Seq(Middle) /\ c \in Seq(Middle)
      BY <1>1, <1>2
    <3> QED
      BY <1>1, <1>2, <3>1, HexAppend
  <2>2. <<x, y>> \o e \in Seq(Middle) /\ b \o e = a \o (<<x, y>> \o e)
    <3>1. e \in Seq(Middle)
      BY <1>5, CharFacts
    <3>2. (a \o <<x, y>>) \o e = a \o (<<x, y>> \o e)
      BY <1>3, <3>1, ConcatThree
    <3> QED
      BY <1>3, <3>1, <3>2, ConcatFacts
  <2>3. b \o e = c
    <3>1. <<"\r">> \in Seq(Middle) /\ e = Append(<<"\r">>, "\n") /\ b \o <<"\r">> = Append(b, "\r")
      BY <1>1, <1>2, <1>5 DEF EOL
    <3> QED
      BY <1>1, <1>2, <3>1, ConcatAppend
  <2> QED
    BY <1>2, <2>1, <2>2, <2>3
<1> QED
  BY <1>4, <1>5

LEMMA RowByte ==
  ASSUME NEW image \in Images, NEW i \in 1..NBytes
  PROVE  \E x, y \in Digit, e \in {EOL, <<>>} :
           /\ HexByte(image[i]) = <<x, y>> /\ Row(image)[i] = <<x, y>> \o e
           /\ e = IF i % LineBytes = 0 \/ i = NBytes THEN EOL ELSE <<>>
<1>1. image[i] \in 0..(Base * Base - 1)
  BY ImageAssumption
<1>2. PICK x, y \in Digit : HexByte(image[i]) = <<x, y>>
  BY <1>1, HexByteFacts
<1> DEFINE e == IF i % LineBytes = 0 \/ i = NBytes THEN EOL ELSE <<>>
<1>3. Row(image)[i] = HexByte(image[i]) \o e
  BY DEF Row
<1>4. e \in {EOL, <<>>}
  OBVIOUS
<1> QED
  BY <1>2, <1>3, <1>4

LEMMA RowFacts ==
  ASSUME NEW image \in Images
  PROVE  NBytes \in Nat \ {0} /\ Row(image) \in Seq(Seq(Middle)) /\ Len(Row(image)) = NBytes
<1>1. \A i \in 1..NBytes : Row(image)[i] \in Seq(Middle)
  <2> TAKE i \in 1..NBytes
  <2>1. PICK x, y \in Digit, e \in {EOL, <<>>} : Row(image)[i] = <<x, y>> \o e
    BY RowByte
  <2>2. <<>> \in Seq(Middle)
    OBVIOUS
  <2> QED
    BY <2>1, <2>2, HexTwo
<1>2. Row(image) \in [1..NBytes -> Seq(Middle)]
  <2>1. Row(image) = [i \in 1..NBytes |-> Row(image)[i]]
    BY DEF Row
  <2> QED
    BY <1>1, <2>1
<1>3. Row(image) \in Seq(Seq(Middle)) /\ Len(Row(image)) = NBytes
  BY <1>2, SizeAssumption
<1> QED
  BY <1>3, SizeAssumption

(* Without its blanks s is the first n bytes of the image in hex. *)
Spells(s, image, n) ==
  /\ HexOf(s) \in Seq(Middle) /\ Len(HexOf(s)) = 2 * n
  /\ \A i \in 1..n : /\ HexOf(s)[2 * i - 1] \in Digit /\ HexOf(s)[2 * i] \in Digit
                     /\ HexByte(image[i]) = <<HexOf(s)[2 * i - 1], HexOf(s)[2 * i]>>

LEMMA SpellsMore ==
  ASSUME NEW s \in Seq(Middle), NEW image, NEW n \in Nat, Spells(s, image, n),
         NEW x \in Digit, NEW y \in Digit, NEW e \in {EOL, <<>>},
         HexByte(image[n + 1]) = <<x, y>>
  PROVE  s \o (<<x, y>> \o e) \in Seq(Middle) /\ Spells(s \o (<<x, y>> \o e), image, n + 1)
<1> DEFINE t == s \o (<<x, y>> \o e)  h == HexOf(s)  g == HexOf(t)
<1>1. t \in Seq(Middle) /\ g = Append(Append(h, x), y)
  BY HexTwo
<1>2. /\ h \in Seq(Middle) /\ Len(h) = 2 * n
      /\ \A i \in 1..n : /\ h[2 * i - 1] \in Digit /\ h[2 * i] \in Digit
                         /\ HexByte(image[i]) = <<h[2 * i - 1], h[2 * i]>>
  BY DEF Spells
<1> HIDE DEF g, h, t
<1>3. x \in Middle /\ y \in Middle
  BY DEF Middle
<1>4. /\ g \in Seq(Middle) /\ Len(g) = 2 * (n + 1) /\ g[2 * (n + 1) - 1] = x /\ g[2 * (n + 1)] = y
      /\ \A k \in 1..(2 * n) : g[k] = h[k]
  BY <1>1, <1>2, <1>3
<1>5. \A i \in 1..(n + 1) : /\ g[2 * i - 1] \in Digit /\ g[2 * i] \in Digit
                            /\ HexByte(image[i]) = <<g[2 * i - 1], g[2 * i]>>
  <2> TAKE i \in 1..(n + 1)
  <2>1. CASE i = n + 1
    BY <1>4, <2>1
  <2>2. CASE i # n + 1
    <3>1. i \in 1..n /\ 2 * i - 1 \in 1..(2 * n) /\ 2 * i \in 1..(2 * n)
      BY <2>2
    <3>2. g[2 * i - 1] = h[2 * i - 1] /\ g[2 * i] = h[2 * i]
      BY <1>4, <3>1
    <3> QED
      BY <1>2, <3>1, <3>2
  <2> QED
    BY <2>1, <2>2
<1>6. Spells(t, image, n + 1)
  BY <1>4, <1>5 DEF Spells, g
<1> QED
  BY <1>1, <1>6 DEF t

\* What load_hex_framed finds between the markers is the image.
LEMMA BetweenSpells ==
  ASSUME NEW image \in Images
  PROVE  Between(image) \in Seq(Middle) /\ Spells(Between(image), image, NBytes)
<1> DEFINE ss == Row(image)
<1>1. NBytes \in Nat \ {0} /\ ss \in Seq(Seq(Middle)) /\ Len(ss) = NBytes
  BY RowFacts
<1> HIDE DEF ss
<1>3. PICK f \in [0..NBytes -> Seq(Middle)] : Accumulates(f, ss)
  BY <1>1, FlattenPrefixes
<1>4. FlattenSeq(ss) = f[NBytes]
  BY <1>1, <1>3, FlattenIsPrefix
<1> DEFINE T == {n \in Nat : n <= NBytes =>
                   EOL \o f[n] \in Seq(Middle) /\ Spells(EOL \o f[n], image, n)}
<1>5. 0 \in T
  <2>1. EOL \o f[0] = EOL /\ EOL \in Seq(Middle)
    <3>1. f[0] = <<>> /\ EOL \in Seq(Middle)
      BY <1>3, CharFacts DEF Accumulates
    <3> QED
      BY <3>1
  <2>2. HexOf(EOL) = <<>>
    <3> DEFINE a == <<"\r">>
    <3>0. "\r" \in Middle /\ "\n" \in Middle /\ "\r" \in Space /\ "\n" \in Space
      BY Zenon DEF Middle, Space
    <3>1. /\ "\r" \in Middle /\ "\n" \in Middle /\ "\r" \in Space /\ "\n" \in Space
          /\ a \in Seq(Middle) /\ a = Append(<<>>, "\r") /\ EOL = Append(a, "\n")
          /\ <<>> \in Seq(Middle)
      BY <3>0 DEF EOL
    <3> HIDE DEF a
    <3>2. HexOf(a) = <<>>
      BY <3>1, HexAppend, HexEmpty
    <3> QED
      BY <3>1, <3>2, HexAppend
  <2>3. Spells(EOL, image, 0)
    BY <2>2 DEF Spells
  <2> QED
    BY <2>1, <2>3
<1>6. ASSUME NEW n \in Nat, n \in T PROVE n + 1 \in T
  <2> SUFFICES ASSUME n + 1 <= NBytes
               PROVE  EOL \o f[n + 1] \in Seq(Middle) /\ Spells(EOL \o f[n + 1], image, n + 1)
    OBVIOUS
  <2>1. n + 1 \in 1..NBytes /\ n \in 0..NBytes /\ (n + 1) - 1 = n
    BY <1>1
  <2>2. PICK x, y \in Digit, e \in {EOL, <<>>} :
          HexByte(image[n + 1]) = <<x, y>> /\ ss[n + 1] = <<x, y>> \o e
    BY <2>1, RowByte DEF ss
  <2>3. f[n + 1] = f[n] \o (<<x, y>> \o e)
    BY <1>1, <1>3, <2>1, <2>2 DEF Accumulates
  <2> DEFINE a == f[n]  b == <<x, y>> \o e
  <2>4. a \in Seq(Middle) /\ EOL \in Seq(Middle) /\ b \in Seq(Middle)
    <3>1. a \in Seq(Middle) /\ <<>> \in Seq(Middle)
      BY <1>3, <2>1
    <3>2. b \in Seq(Middle)
      BY <3>1, HexTwo
    <3> QED
      BY <3>1, <3>2, CharFacts
  <2>5. EOL \o f[n + 1] = (EOL \o a) \o b
    <3> DEFINE z == EOL
    <3>1. f[n + 1] = a \o b /\ z = EOL /\ z \in Seq(Middle)
      BY <2>3, <2>4
    <3> HIDE DEF a, b, z
    <3>2. \A p, q, r \in Seq(Middle) : p \o (q \o r) = (p \o q) \o r
      BY ConcatThree, SMTT(30)
    <3>3. z \o (a \o b) = (z \o a) \o b
      BY <2>4, <3>1, <3>2
    <3> QED
      BY <3>1, <3>3
  <2>6. EOL \o a \in Seq(Middle) /\ Spells(EOL \o a, image, n)
    BY <1>6, <2>1
  <2> QED
    BY <2>2, <2>5, <2>6, SpellsMore
<1>7. NBytes \in T
  <2> HIDE DEF T
  <2> QED
    BY <1>1, <1>5, <1>6, Induction
<1> QED
  BY <1>1, <1>4, <1>7 DEF Between, ss

LEMMA SpellsReads ==
  ASSUME NEW image \in Images, NEW s, Spells(s, image, NBytes)
  PROVE  /\ Len(HexOf(s)) = 2 * NBytes
         /\ \A i \in DOMAIN HexOf(s) : \E d \in DOMAIN HexDigits : HexDigits[d] = HexOf(s)[i]
         /\ FromHex(HexOf(s)) = image
<1> DEFINE h == HexOf(s)
<1>1. NBytes \in Nat \ {0} /\ image \in [1..NBytes -> 0..(Base * Base - 1)]
  BY SizeAssumption, ImageAssumption
<1>2. /\ h \in Seq(Middle) /\ Len(h) = 2 * NBytes
      /\ \A i \in 1..NBytes : /\ h[2 * i - 1] \in Digit /\ h[2 * i] \in Digit
                              /\ HexByte(image[i]) = <<h[2 * i - 1], h[2 * i]>>
  BY DEF Spells
<1> HIDE DEF h
<1>3. ASSUME NEW i \in 1..NBytes
      PROVE Base * DigitOf(h[2 * i - 1]) + DigitOf(h[2 * i]) = image[i]
  <2>1. PICK a, b \in Digit :
          HexByte(image[i]) = <<a, b>> /\ Base * DigitOf(a) + DigitOf(b) = image[i]
    BY <1>1, HexByteFacts
  <2>2. h[2 * i - 1] = a /\ h[2 * i] = b
    <3>1. <<h[2 * i - 1], h[2 * i]>> = <<a, b>>
      BY <1>2, <2>1
    <3> QED
      BY <3>1
  <2> QED
    BY <2>1, <2>2
<1>4. FromHex(h) = image
  <2>1. FromHex(h) = [i \in 1..NBytes |-> image[i]]
    BY <1>3 DEF FromHex
  <2> QED
    BY <1>1, <2>1
<1>5. ASSUME NEW k \in DOMAIN h PROVE \E d \in DOMAIN HexDigits : HexDigits[d] = h[k]
  <2>1. k \in 1..(2 * NBytes)
    BY <1>2
  <2>2. \E i \in 1..NBytes : k = 2 * i - 1 \/ k = 2 * i
    <3> DEFINE i == (k + 1) \div 2
    <3>1. i \in 1..NBytes /\ (k = 2 * i - 1 \/ k = 2 * i)
      BY <1>1, <2>1, SMTT(30)
    <3> QED
      BY <3>1, Zenon
  <2>3. h[k] \in Digit
    BY <1>2, <2>2
  <2> QED
    BY <2>3 DEF Digit
<1> QED
  BY <1>2, <1>4, <1>5 DEF h

-----------------------------------------------------------------------------
(* Two markers with a text between them and blanks behind them. *)

LEMMA PartOf ==
  ASSUME NEW S, NEW t \in Seq(S), NEW n \in Nat, NEW m \in Nat, n + m <= Len(t)
  PROVE  /\ SubSeq(t, n + 1, n + m) \in Seq(S)
         /\ Len(SubSeq(t, n + 1, n + m)) = m
         /\ \A k \in 1..m : SubSeq(t, n + 1, n + m)[k] = t[n + k]
<1> DEFINE u == SubSeq(t, n + 1, n + m)
<1>1. u = [i \in 1..m |-> t[n + i]]
  <2>1. (n + m) - (n + 1) + 1 = m
    OBVIOUS
  <2>2. \A i \in 1..m : i + (n + 1) - 1 = n + i
    OBVIOUS
  <2> QED
    BY <2>1, <2>2
<1>2. \A i \in 1..m : t[n + i] \in S
  OBVIOUS
<1> HIDE DEF u
<1>3. \A k \in 1..m : u[k] = t[n + k]
  BY <1>1, Zenon
<1>4. u \in [1..m -> S]
  BY <1>1, <1>2, Zenon
<1>5. u \in Seq(S) /\ Len(u) = m
  BY <1>4, SMT
<1> QED
  BY <1>3, <1>5, Zenon DEF u

Marked(s, mid, t) ==
  /\ Len(s) = Len(BEGIN) + Len(mid) + Len(END) + Len(t)
  /\ \A k \in 1..Len(BEGIN) : s[k] = BEGIN[k]
  /\ \A k \in 1..Len(mid) : s[Len(BEGIN) + k] = mid[k]
  /\ \A k \in 1..Len(END) : s[Len(BEGIN) + Len(mid) + k] = END[k]
  /\ \A k \in 1..Len(t) : s[Len(BEGIN) + Len(mid) + Len(END) + k] = t[k]

(* The rule behind position a of s. *)
RuleBehind(s, a) == \A p \in (a + 1)..(a + RuleLen) : s[p] = "="

Starts(mid) ==
  {0, RuleLen + Len(BeginWords), Len(BEGIN) + Len(mid),
   Len(BEGIN) + Len(mid) + RuleLen + Len(EndWords)}

\* The rules of a frame, and no other place, show the rule's character.
LEMMA MarkedRules ==
  ASSUME NEW s \in Seq(Char), NEW mid \in Seq(Middle), NEW t \in Seq(Space), Marked(s, mid, t)
  PROVE  /\ \A a \in Starts(mid) : a \in Nat /\ a + RuleLen <= Len(s) /\ RuleBehind(s, a)
         /\ \A p \in 1..Len(s) : s[p] = "=" => \E a \in Starts(mid) : p \in (a + 1)..(a + RuleLen)
<1> DEFINE r == RuleLen  x == Len(BeginWords)  y == Len(EndWords)  n == Len(mid)
           lb == Len(BEGIN)  le == Len(END)
<1>1. /\ r \in Nat \ {0} /\ x \in Nat \ {0} /\ y \in Nat \ {0} /\ n \in Nat /\ Len(t) \in Nat
      /\ lb = r + x + r /\ le = r + y + r /\ Len(s) = lb + n + le + Len(t)
  <2>1. x \in Nat \ {0} /\ y \in Nat \ {0}
    BY MarkerFacts, SizeAssumption
  <2> QED
    BY <2>1, MarkerFacts DEF Marked
<1>2. \A k \in 1..r : BEGIN[k] = "=" /\ BEGIN[r + x + k] = "=" /\ END[k] = "=" /\ END[r + y + k] = "="
  BY MarkerShape, MarkerFacts
<1>3. /\ \A k \in 1..x : BEGIN[r + k] # "="
      /\ \A k \in 1..y : END[r + k] # "="
  <2>1. \A k \in 1..x : BEGIN[r + k] # "="
    BY MarkerShape, MarkerFacts
  <2>2. \A k \in 1..y : END[r + k] # "="
    BY MarkerShape, MarkerFacts
  <2> QED
    BY <2>1, <2>2
<1>4. /\ \A k \in 1..lb : s[k] = BEGIN[k]
      /\ \A k \in 1..n : s[lb + k] # "="
      /\ \A k \in 1..le : s[lb + n + k] = END[k]
      /\ \A k \in 1..Len(t) : s[lb + n + le + k] # "="
  <2>1. \A k \in 1..n : mid[k] # "="
    BY CharFacts
  <2>2. \A k \in 1..Len(t) : t[k] # "="
    BY CharFacts DEF Middle
  <2> QED
    BY <2>1, <2>2, Zenon DEF Marked
<1>5. Starts(mid) = {0, r + x, lb + n, lb + n + r + y}
  BY DEF Starts
<1> HIDE DEF r, x, y, n, lb, le
<1>6. ASSUME NEW a \in Starts(mid)
      PROVE  a \in Nat /\ a + r <= Len(s) /\ \A p \in (a + 1)..(a + r) : s[p] = "="
  <2>1. CASE a = 0
    <3>1. ASSUME NEW p \in (a + 1)..(a + r) PROVE s[p] = "="
      <4>1. p \in 1..r /\ p \in 1..lb
        BY <1>1, <2>1
      <4> QED
        BY <1>2, <1>4, <4>1
    <3> QED
      BY <1>1, <2>1, <3>1
  <2>2. CASE a = r + x
    <3>1. ASSUME NEW p \in (a + 1)..(a + r) PROVE s[p] = "="
      <4> DEFINE k == p - a
      <4>1. k \in 1..r /\ p = r + x + k /\ p \in 1..lb
        BY <1>1, <2>2
      <4> HIDE DEF k
      <4> QED
        BY <1>2, <1>4, <4>1
    <3> QED
      BY <1>1, <2>2, <3>1
  <2>3. CASE a = lb + n
    <3>1. ASSUME NEW p \in (a + 1)..(a + r) PROVE s[p] = "="
      <4> DEFINE k == p - a
      <4>1. k \in 1..r /\ p = lb + n + k /\ k \in 1..le
        BY <1>1, <2>3
      <4> HIDE DEF k
      <4> QED
        BY <1>2, <1>4, <4>1
    <3> QED
      BY <1>1, <2>3, <3>1
  <2>4. CASE a = lb + n + r + y
    <3>1. ASSUME NEW p \in (a + 1)..(a + r) PROVE s[p] = "="
      <4> DEFINE k == p - a  l == r + y + k
      <4>1. k \in 1..r /\ l \in 1..le /\ p = lb + n + l
        BY <1>1, <2>4
      <4>2. END[l] = "="
        BY <1>2, <4>1
      <4> HIDE DEF k, l
      <4> QED
        BY <1>4, <4>1, <4>2
    <3> QED
      BY <1>1, <2>4, <3>1
  <2> QED
    BY <1>5, <2>1, <2>2, <2>3, <2>4
<1>7. ASSUME NEW p \in 1..Len(s), s[p] = "="
      PROVE  \E a \in Starts(mid) : p \in (a + 1)..(a + r)
  <2>1. CASE p <= lb
    <3>1. p \notin (r + 1)..(r + x)
      <4> SUFFICES ASSUME p \in (r + 1)..(r + x) PROVE FALSE
        OBVIOUS
      <4> DEFINE k == p - r
      <4>1. k \in 1..x /\ p = r + k /\ p \in 1..lb
        BY <1>1, <2>1
      <4> HIDE DEF k
      <4> QED
        BY <1>3, <1>4, <1>7, <4>1
    <3>2. p \in 1..r \/ p \in (r + x + 1)..(r + x + r)
      BY <1>1, <2>1, <3>1
    <3>3. p \in (0 + 1)..(0 + r) \/ p \in ((r + x) + 1)..((r + x) + r)
      BY <1>1, <3>2
    <3> QED
      BY <1>5, <3>3
  <2>2. CASE p > lb /\ p <= lb + n
    <3> DEFINE k == p - lb
    <3>1. k \in 1..n /\ p = lb + k
      BY <1>1, <2>2
    <3> HIDE DEF k
    <3> QED
      BY <1>4, <1>7, <3>1
  <2>3. CASE p > lb + n /\ p <= lb + n + le
    <3> DEFINE l == p - (lb + n)
    <3>1. l \in 1..le /\ p = lb + n + l
      BY <1>1, <2>3
    <3> HIDE DEF l
    <3>2. l \notin (r + 1)..(r + y)
      <4> SUFFICES ASSUME l \in (r + 1)..(r + y) PROVE FALSE
        OBVIOUS
      <4> DEFINE k == l - r
      <4>1. k \in 1..y /\ l = r + k
        BY <1>1
      <4> HIDE DEF k
      <4> QED
        BY <1>3, <1>4, <1>7, <3>1, <4>1
    <3>3. l \in 1..r \/ l \in (r + y + 1)..(r + y + r)
      BY <1>1, <3>1, <3>2
    <3>4. \/ p \in ((lb + n) + 1)..((lb + n) + r)
          \/ p \in ((lb + n + r + y) + 1)..((lb + n + r + y) + r)
      BY <1>1, <3>1, <3>3
    <3> QED
      BY <1>5, <3>4
  <2>4. CASE p > lb + n + le
    <3> DEFINE k == p - (lb + n + le)
    <3>1. k \in 1..Len(t) /\ p = lb + n + le + k
      BY <1>1, <2>4
    <3> HIDE DEF k
    <3> QED
      BY <1>4, <1>7, <3>1
  <2> QED
    BY <1>1, <2>1, <2>2, <2>3, <2>4
<1> QED
  BY <1>6, <1>7 DEF RuleBehind, r

(* Words and the rule that ends them, behind position a of s. *)
Shows(s, a, words) ==
  /\ \A k \in 1..Len(words) : s[a + k] = words[k]
  /\ s[a + Len(words) + 1] = "="

\* No place shows the words of both markers.
LEMMA WordsTell ==
  ASSUME NEW s, NEW a \in Nat,
         NEW v \in {BeginWords, EndWords}, NEW w \in {BeginWords, EndWords},
         Shows(s, a, v), Shows(s, a, w)
  PROVE  v = w
<1> DEFINE i == a + Len(v) + 1  j == a + Len(w) + 1
<1>0. /\ \A k \in 1..Len(v) : s[a + k] = v[k]
      /\ \A k \in 1..Len(w) : s[a + k] = w[k]
      /\ s[i] = "=" /\ s[j] = "="
  BY DEF Shows
<1>1. /\ Len(v) \in Nat /\ Len(w) \in Nat /\ v \in Seq(Char) /\ w \in Seq(Char)
      /\ \A k \in 1..Len(v) : v[k] # "="
      /\ \A k \in 1..Len(w) : w[k] # "="
  <2>1. ASSUME NEW u \in {BeginWords, EndWords}
        PROVE Len(u) \in Nat /\ u \in Seq(Char) /\ \A k \in 1..Len(u) : u[k] # "="
    BY MarkerShape
  <2> QED
    BY <2>1
<1>2. ~(Len(v) < Len(w))
  <2> SUFFICES ASSUME Len(v) < Len(w) PROVE FALSE
    OBVIOUS
  <2>1. Len(v) + 1 \in 1..Len(w) /\ i = a + (Len(v) + 1)
    BY <1>1
  <2> QED
    BY <1>0, <1>1, <2>1
<1>3. ~(Len(w) < Len(v))
  <2> SUFFICES ASSUME Len(w) < Len(v) PROVE FALSE
    OBVIOUS
  <2>1. Len(w) + 1 \in 1..Len(v) /\ j = a + (Len(w) + 1)
    BY <1>1
  <2> QED
    BY <1>0, <1>1, <2>1
<1>4. Len(v) = Len(w)
  BY <1>1, <1>2, <1>3
<1>5. \A k \in 1..Len(v) : v[k] = w[k]
  BY <1>0, <1>4
<1> QED
  BY <1>1, <1>4, <1>5, SameSeq

\* No rule of a frame goes on behind its last character.
LEMMA RuleStops ==
  ASSUME NEW s \in Seq(Char), NEW mid \in Seq(Middle), NEW t \in Seq(Space), Marked(s, mid, t),
         Len(mid) # 0, NEW a \in Starts(mid), NEW p, p = a + RuleLen + 1, p <= Len(s)
  PROVE  s[p] # "="
<1> DEFINE r == RuleLen  x == Len(BeginWords)  y == Len(EndWords)  n == Len(mid)
           lb == Len(BEGIN)  le == Len(END)
<1>1. /\ r \in Nat \ {0} /\ x \in Nat \ {0} /\ y \in Nat \ {0} /\ n \in Nat \ {0} /\ Len(t) \in Nat
      /\ lb = r + x + r /\ le = r + y + r /\ Len(s) = lb + n + le + Len(t)
  <2>1. x \in Nat \ {0} /\ y \in Nat \ {0}
    BY MarkerFacts, SizeAssumption
  <2> QED
    BY <2>1, MarkerFacts DEF Marked
<1>2. BEGIN[r + 1] # "=" /\ END[r + 1] # "="
  <2>1. 1 \in 1..x /\ 1 \in 1..y
    BY <1>1
  <2> QED
    BY <2>1, MarkerShape, MarkerFacts, ZenonT(30)
<1>3. /\ \A k \in 1..lb : s[k] = BEGIN[k]
      /\ \A k \in 1..n : s[lb + k] # "="
      /\ \A k \in 1..le : s[lb + n + k] = END[k]
      /\ \A k \in 1..Len(t) : s[lb + n + le + k] # "="
  <2>1. \A k \in 1..n : mid[k] # "="
    BY CharFacts
  <2>2. \A k \in 1..Len(t) : t[k] # "="
    BY CharFacts DEF Middle
  <2> QED
    BY <2>1, <2>2, Zenon DEF Marked
<1>4. a \in {0, r + x, lb + n, lb + n + r + y}
  BY DEF Starts
<1>5. p = a + r + 1
  OBVIOUS
<1> HIDE DEF r, x, y, n, lb, le
<1>6. CASE a = 0
  <2>1. p = r + 1 /\ p \in 1..lb
    BY <1>1, <1>5, <1>6
  <2> QED
    BY <1>2, <1>3, <2>1
<1>7. CASE a = r + x
  <2>1. p = lb + 1 /\ 1 \in 1..n
    BY <1>1, <1>5, <1>7, SMTT(30)
  <2> QED
    BY <1>3, <2>1
<1>8. CASE a = lb + n
  <2>1. p = lb + n + (r + 1) /\ r + 1 \in 1..le
    BY <1>1, <1>5, <1>8
  <2>2. s[lb + n + (r + 1)] = END[r + 1]
    BY <1>3, <2>1
  <2> QED
    BY <1>2, <2>1, <2>2
<1>9. CASE a = lb + n + r + y
  <2>1. p = lb + n + le + 1 /\ 1 \in 1..Len(t)
    BY <1>1, <1>5, <1>9
  <2> QED
    BY <1>3, <2>1
<1> QED
  BY <1>4, <1>6, <1>7, <1>8, <1>9

\* A marker stands nowhere but where the frame has it, whatever its words are.
LEMMA MarkedPlace ==
  ASSUME NEW s \in Seq(Char), NEW mid \in Seq(Middle), NEW t \in Seq(Space), Marked(s, mid, t),
         Len(mid) # 0, mid[1] \in {"\r", "\n"},
         NEW words \in {BeginWords, EndWords}, NEW i \in Occurrences(Marker(words), s)
  PROVE  \/ i = 1 /\ words = BeginWords
         \/ i = Len(BEGIN) + Len(mid) + 1 /\ words = EndWords
<1> DEFINE r == RuleLen  x == Len(BeginWords)  y == Len(EndWords)  n == Len(mid)
           lb == Len(BEGIN)  le == Len(END)  l == Len(words)  a == i - 1
<1>1. /\ r \in Nat \ {0} /\ x \in Nat \ {0} /\ y \in Nat \ {0} /\ n \in Nat \ {0} /\ Len(t) \in Nat
      /\ lb = r + x + r /\ le = r + y + r /\ Len(s) = lb + n + le + Len(t) /\ l \in Nat \ {0}
  <2>1. x \in Nat \ {0} /\ y \in Nat \ {0}
    BY MarkerFacts, SizeAssumption
  <2> QED
    BY <2>1, MarkerFacts DEF Marked
<1>2. /\ a \in Nat /\ i = a + 1 /\ a + r + l + r <= Len(s)
      /\ \A k \in 1..(r + l + r) : s[a + k] = Marker(words)[k]
  <2> DEFINE m == Marker(words)
  <2>1. m \in Seq(Char) /\ Len(m) = r + l + r
    BY MarkerShape
  <2> HIDE DEF m
  <2>2. DOMAIN m = 1..(r + l + r) /\ Len(m) \in Nat /\ Len(s) \in Nat
    BY <2>1
  <2>3. i \in 1..(Len(s) - Len(m) + 1) /\ \A k \in DOMAIN m : s[i + k - 1] = m[k]
    BY DEF Occurrences, m
  <2>4. \A k \in 1..(r + l + r) : i + k - 1 = a + k
    BY <1>1, <2>2, <2>3
  <2>5. \A k \in 1..(r + l + r) : s[a + k] = m[k]
    <3> HIDE DEF a, r, l
    <3> QED
      BY <2>2, <2>3, <2>4, Zenon
  <2>6. a \in Nat /\ i = a + 1 /\ a + r + l + r <= Len(s)
    BY <1>1, <2>1, <2>2, <2>3
  <2> QED
    BY <2>5, <2>6 DEF m
<1>3. /\ \A k \in 1..r : Marker(words)[k] = "=" /\ Marker(words)[r + l + k] = "="
      /\ \A k \in 1..l : Marker(words)[r + k] = words[k] /\ words[k] \notin {"=", "\r", "\n"}
  BY MarkerShape, ZenonT(30)
<1>4. /\ \A k \in 1..lb : s[k] = BEGIN[k]
      /\ s[lb + 1] \in {"\r", "\n"}
      /\ \A k \in 1..le : s[lb + n + k] = END[k]
  <2>1. 1 \in 1..n
    BY <1>1
  <2> QED
    BY <2>1, Zenon DEF Marked
<1>5. /\ \A k \in 1..x : BEGIN[r + k] = BeginWords[k]
      /\ \A k \in 1..y : END[r + k] = EndWords[k]
      /\ BEGIN[r + x + 1] = "=" /\ END[r + y + 1] = "="
  <2>1. 1 \in 1..r
    BY <1>1
  <2> QED
    BY <2>1, MarkerShape, MarkerFacts
<1>6. Starts(mid) = {0, r + x, lb + n, lb + n + r + y}
  BY DEF Starts
<1>7. \A p \in 1..Len(s) : s[p] = "=" => \E b \in Starts(mid) : p \in (b + 1)..(b + r)
  BY MarkedRules
<1>8. \A b \in Starts(mid) : \A p \in 1..Len(s) : p = b + r + 1 => s[p] # "="
  BY RuleStops
<1> HIDE DEF r, x, y, n, lb, le, l, a
<1>9. /\ \A k \in 1..r : s[a + k] = "=" /\ s[a + r + l + k] = "="
      /\ \A k \in 1..l : s[a + r + k] = words[k]
  <2>1. ASSUME NEW k \in 1..r PROVE s[a + k] = "=" /\ s[a + r + l + k] = "="
    <3>1. k \in 1..(r + l + r) /\ r + l + k \in 1..(r + l + r) /\ a + (r + l + k) = a + r + l + k
      BY <1>1, <1>2
    <3> QED
      BY <1>2, <1>3, <3>1
  <2>2. ASSUME NEW k \in 1..l PROVE s[a + r + k] = words[k]
    <3>1. r + k \in 1..(r + l + r) /\ a + (r + k) = a + r + k
      BY <1>1, <1>2
    <3> QED
      BY <1>2, <1>3, <3>1
  <2> QED
    BY <2>1, <2>2
<1>10. PICK b \in Starts(mid) : i \in (b + 1)..(b + r)
  <2>0. a \in Nat /\ i = a + 1 /\ a + r + l + r <= Len(s)
    BY <1>2
  <2>1. 1 \in 1..r /\ i \in 1..Len(s)
    BY <1>1, <2>0
  <2>2. s[a + 1] = "="
    <3>1. \A k \in 1..r : s[a + k] = "="
      BY <1>9
    <3> QED
      BY <2>1, <3>1
  <2>3. s[i] = "="
    BY <1>2, <2>2
  <2> QED
    BY <1>7, <2>1, <2>3
<1>11. b \in {0, r + x, lb + n, lb + n + r + y} /\ b \in Nat
  BY <1>1, <1>6, <1>10
<1>12. a = b
  <2> SUFFICES ASSUME a # b PROVE FALSE
    OBVIOUS
  <2> DEFINE p == b + r + 1  k == p - a
  <2>1. k \in 1..r /\ a + k = p /\ p \in 1..Len(s)
    BY <1>1, <1>2, <1>10, <1>11
  <2>2. s[p] = "="
    <3> HIDE DEF k, p
    <3> QED
      BY <1>9, <2>1
  <2> QED
    BY <1>8, <2>1, <2>2
<1>13. s[a + r + l + 1] = "=" /\ a + r + l + 1 \in 1..Len(s)
  <2>1. 1 \in 1..r
    BY <1>1
  <2> QED
    BY <1>1, <1>2, <1>9, <2>1
<1>14. CASE b = 0
  <2>1. \A k \in 1..l : s[r + k] = words[k]
    BY <1>1, <1>9, <1>12, <1>14
  <2>2. \A k \in 1..x : s[r + k] = BeginWords[k]
    <3>1. \A k \in 1..x : r + k \in 1..lb
      BY <1>1
    <3> QED
      BY <1>4, <1>5, <3>1
  <2>3. s[r + x + 1] = "=" /\ s[r + l + 1] = "="
    <3>1. r + x + 1 \in 1..lb /\ a + r + l + 1 = r + l + 1
      BY <1>1, <1>12, <1>14
    <3> QED
      BY <1>4, <1>5, <1>13, <3>1
  <2>4. r \in Nat
    BY <1>1
  <2>5. Shows(s, r, words) /\ Shows(s, r, BeginWords)
    BY <2>1, <2>2, <2>3, Zenon DEF Shows, l, x
  <2>6. words = BeginWords
    BY <2>4, <2>5, WordsTell
  <2> QED
    BY <1>2, <1>12, <1>14, <2>6
<1>15. CASE b = r + x
  <2>1. 1 \in 1..l /\ a + r + 1 = lb + 1
    BY <1>1, <1>12, <1>15
  <2>2. s[lb + 1] = words[1] /\ words[1] \notin {"\r", "\n"}
    BY <1>3, <1>9, <2>1
  <2> QED
    BY <1>4, <2>2
<1>16. CASE b = lb + n
  <2> DEFINE c == lb + n + r
  <2>1. \A k \in 1..l : s[c + k] = words[k]
    BY <1>1, <1>9, <1>12, <1>16
  <2>2. \A k \in 1..y : s[c + k] = EndWords[k]
    <3> TAKE k \in 1..y
    <3>1. r + k \in 1..le /\ lb + n + (r + k) = c + k
      BY <1>1
    <3>2. s[lb + n + (r + k)] = END[r + k]
      BY <1>4, <3>1
    <3> HIDE DEF c
    <3> QED
      BY <1>5, <3>1, <3>2
  <2>3. s[c + y + 1] = "=" /\ s[c + l + 1] = "="
    <3>1. r + y + 1 \in 1..le /\ lb + n + (r + y + 1) = c + y + 1 /\ a + r + l + 1 = c + l + 1
      BY <1>1, <1>12, <1>16
    <3>2. s[lb + n + (r + y + 1)] = END[r + y + 1]
      BY <1>4, <3>1
    <3> HIDE DEF c
    <3> QED
      BY <1>5, <1>13, <3>1, <3>2
  <2>4. c \in Nat
    BY <1>1
  <2> HIDE DEF c
  <2>5. Shows(s, c, words) /\ Shows(s, c, EndWords)
    BY <2>1, <2>2, <2>3, Zenon DEF Shows, l, y
  <2>6. words = EndWords
    BY <2>4, <2>5, WordsTell
  <2> QED
    BY <1>2, <1>12, <1>16, <2>6 DEF lb, n
<1>17. CASE b = lb + n + r + y
  <2>1. PICK c \in Starts(mid) : a + r + l + 1 \in (c + 1)..(c + r)
    BY <1>7, <1>13
  <2>2. c \in {0, r + x, lb + n, lb + n + r + y}
    BY <1>6, <2>1
  <2> QED
    BY <1>1, <1>12, <1>17, <2>1, <2>2
<1> QED
  BY <1>11, <1>14, <1>15, <1>16, <1>17

LEMMA MarkedPlaces ==
  ASSUME NEW s \in Seq(Char), NEW mid \in Seq(Middle), NEW t \in Seq(Space), Marked(s, mid, t),
         Len(mid) # 0, mid[1] \in {"\r", "\n"}
  PROVE  /\ Occurrences(BEGIN, s) = {1}
         /\ Occurrences(END, s) = {Len(BEGIN) + Len(mid) + 1}
<1> DEFINE n == Len(mid)  lb == Len(BEGIN)  le == Len(END)  to == lb + n + 1
<1>1. /\ n \in Nat /\ Len(t) \in Nat /\ lb \in Nat \ {0} /\ le \in Nat \ {0}
      /\ Len(s) = lb + n + le + Len(t) /\ DOMAIN BEGIN = 1..lb /\ DOMAIN END = 1..le
  BY MarkerFacts DEF Marked
<1>2. /\ \A k \in 1..lb : s[k] = BEGIN[k]
      /\ \A k \in 1..le : s[lb + n + k] = END[k]
  BY Zenon DEF Marked
<1>3. ASSUME NEW i \in Occurrences(BEGIN, s) PROVE i = 1
  <2>1. BEGIN = Marker(BeginWords) /\ BeginWords # EndWords
    BY MarkerFacts, MarkerAssumption
  <2>2. i \in Occurrences(Marker(BeginWords), s)
    BY <2>1, Zenon
  <2> QED
    BY <2>1, <2>2, MarkedPlace
<1>4. ASSUME NEW i \in Occurrences(END, s) PROVE i = to
  <2>1. END = Marker(EndWords) /\ BeginWords # EndWords
    BY MarkerFacts, MarkerAssumption
  <2>2. i \in Occurrences(Marker(EndWords), s)
    BY <2>1, Zenon
  <2> QED
    BY <2>1, <2>2, MarkedPlace
<1> HIDE DEF n, lb, le
<1>5. 1 \in Occurrences(BEGIN, s)
  <2>1. 1 \in 1..(Len(s) - lb + 1) /\ \A k \in 1..lb : 1 + k - 1 = k
    BY <1>1
  <2>2. \A k \in 1..lb : s[1 + k - 1] = BEGIN[k]
    BY <1>2, <2>1
  <2> QED
    BY <1>1, <2>1, <2>2 DEF Occurrences, lb
<1>6. to \in Occurrences(END, s)
  <2>1. to \in 1..(Len(s) - le + 1) /\ \A k \in 1..le : to + k - 1 = lb + n + k
    BY <1>1
  <2>2. \A k \in 1..le : s[to + k - 1] = END[k]
    <3> HIDE DEF to
    <3> QED
      BY <1>2, <2>1, Zenon
  <2> HIDE DEF to
  <2> QED
    BY <1>1, <2>1, <2>2 DEF Occurrences, le
<1> QED
  BY <1>3, <1>4, <1>5, <1>6 DEF lb, n

LEMMA MarkedReads ==
  ASSUME NEW s \in Seq(Char), NEW mid \in Seq(Middle), NEW t \in Seq(Space), Marked(s, mid, t),
         Len(mid) # 0, mid[1] \in {"\r", "\n"},
         NEW image \in Images, Spells(mid, image, NBytes)
  PROVE  Framed(s) /\ Loaded(s) = image
<1> DEFINE n == Len(mid)  lb == Len(BEGIN)  le == Len(END)
<1>1. /\ n \in Nat /\ Len(t) \in Nat /\ lb \in Nat \ {0} /\ le \in Nat \ {0}
      /\ Len(s) = (lb + n + le) + Len(t)
  BY MarkerFacts DEF Marked
<1>2. Occurrences(BEGIN, s) = {1} /\ Occurrences(END, s) = {lb + n + 1}
  BY MarkedPlaces
<1>3. First(BEGIN, s) = 1 /\ First(END, s) = lb + n + 1 /\ Once(BEGIN, s) /\ Once(END, s)
  <2>1. lb + n + 1 \in Nat
    BY <1>1
  <2> DEFINE e == lb + n + 1
  <2> HIDE DEF e
  <2>2. Occurrences(END, s) = {e} /\ e \in Nat
    BY <1>2, <2>1 DEF e
  <2>3. First(BEGIN, s) = 1 /\ First(END, s) = e
    <3>1. \A m, o : Occurrences(m, s) = {o} /\ o \in Nat => First(m, s) = o
      BY SMTT(30) DEF First
    <3> QED
      BY <1>2, <2>2, <3>1
  <2>4. 1 < 1 + Len(BEGIN) /\ e < e + Len(END)
    BY <1>1, <2>2
  <2>5. Once(BEGIN, s) /\ Once(END, s)
    BY <1>2, <2>2, <2>4, Zenon DEF Once
  <2> QED
    BY <2>3, <2>5 DEF e
<1>4. SubSeq(s, 1, First(BEGIN, s) - 1) = <<>>
  BY <1>3
<1>5. Blank(SubSeq(s, First(END, s) + Len(END), Len(s)))
  <2> DEFINE c == lb + n + le  u == SubSeq(s, c + 1, c + Len(t))
  <2>1. SubSeq(s, First(END, s) + Len(END), Len(s)) = u
    <3>1. First(END, s) + Len(END) = c + 1
      BY <1>1, <1>3
    <3> QED
      BY <1>1, <3>1
  <2>2. Len(u) = Len(t) /\ u \in Seq(Char) /\ \A k \in 1..Len(t) : u[k] = s[c + k]
    <3>1. c \in Nat /\ c + Len(t) <= Len(s)
      BY <1>1
    <3> HIDE DEF c
    <3> QED
      BY <1>1, <3>1, PartOf
  <2> HIDE DEF u
  <2>3. \A k \in 1..Len(t) : s[c + k] = t[k] /\ t[k] \in Space
    <3>1. \A k \in 1..Len(t) : t[k] \in Space
      OBVIOUS
    <3> QED
      BY <3>1, Zenon DEF Marked
  <2> HIDE DEF c
  <2>4. \A i \in DOMAIN u : u[i] \in Space
    <3>1. DOMAIN u = 1..Len(t)
      BY <2>2
    <3> QED
      BY <2>2, <2>3, <3>1, Zenon
  <2> QED
    BY <2>1, <2>4, Zenon DEF Blank
<1>6. Body(s) = HexOf(mid)
  <2> DEFINE u == SubSeq(s, lb + 1, lb + n)
  <2>1. First(BEGIN, s) + Len(BEGIN) = lb + 1 /\ First(END, s) - 1 = lb + n
    BY <1>1, <1>3
  <2>2. u \in Seq(Char) /\ Len(u) = n /\ \A k \in 1..n : u[k] = s[lb + k]
    <3>1. lb + n <= Len(s) /\ lb \in Nat /\ n \in Nat
      BY <1>1
    <3> HIDE DEF lb, n
    <3> QED
      <4> HIDE DEF u
      <4>1. u = SubSeq(s, lb + 1, lb + n)
        BY DEF u
      <4> QED
        BY <3>1, <4>1, PartOf, ZenonT(30)
  <2>3. mid \in Seq(Char)
    BY CharFacts
  <2>4. u = mid
    <3>1. \A k \in 1..n : s[lb + k] = mid[k]
      BY Zenon DEF Marked
    <3> HIDE DEF u
    <3> QED
      BY <2>2, <2>3, <3>1, SameSeq
  <2> QED
    BY <2>1, <2>4 DEF Body
<1>7. Framed(s)
  <2>1. Blank(SubSeq(s, 1, First(BEGIN, s) - 1))
    <3>1. Blank(<<>>)
      BY DEF Blank
    <3> QED
      BY <1>4, <3>1
  <2>2. First(BEGIN, s) <= First(END, s)
    BY <1>1, <1>3
  <2>3. /\ Len(Body(s)) = 2 * NBytes
        /\ \A i \in DOMAIN Body(s) : \E d \in DOMAIN HexDigits : HexDigits[d] = Body(s)[i]
    BY <1>6, SpellsReads
  <2> QED
    BY <1>3, <1>5, <2>1, <2>2, <2>3, Zenon DEF Framed
<1>8. Loaded(s) = image
  BY <1>6, SpellsReads DEF Loaded
<1> QED
  BY <1>7, <1>8

-----------------------------------------------------------------------------
(* The frame. *)

LEMMA FrameText ==
  ASSUME NEW image \in Images
  PROVE  /\ Core[image] = (BEGIN \o Between(image)) \o END
         /\ Frame[image] = Core[image] \o EOL
         /\ Core[image] \in Seq(Char) /\ Frame[image] \in Seq(Char)
         /\ Marked(Core[image], Between(image), <<>>)
         /\ Marked(Frame[image], Between(image), EOL)
         /\ Len(Between(image)) # 0 /\ Between(image)[1] \in {"\r", "\n"}
<1> DEFINE mid == Between(image)  flat == FlattenSeq(Row(image))
<1>1. /\ BEGIN \in Seq(Char) /\ END \in Seq(Char) /\ EOL \in Seq(Char)
      /\ mid \in Seq(Char) /\ flat \in Seq(Char)
  <2>1. mid \in Seq(Middle) /\ flat \in Seq(Middle)
    BY BetweenSpells, RowFacts, FlattenType
  <2> HIDE DEF mid, flat
  <2> QED
    BY <2>1, CharFacts, MarkerFacts
<1>2. Core[image] = ((BEGIN \o EOL) \o flat) \o END
  BY DEF Core, Row
<1>3. (BEGIN \o EOL) \o flat = BEGIN \o mid
  <2>1. mid = EOL \o flat
    BY DEF Between
  <2> HIDE DEF mid, flat
  <2>2. \A p, q, r \in Seq(Char) : (p \o q) \o r = p \o (q \o r)
    BY ConcatThree
  <2> QED
    BY <1>1, <2>1, <2>2
<1> HIDE DEF mid, flat
<1>4. Core[image] = (BEGIN \o mid) \o END /\ Frame[image] = Core[image] \o EOL
  BY <1>2, <1>3 DEF Frame
<1> DEFINE b == BEGIN \o mid  c == b \o END  f == c \o EOL
           n == Len(mid)  lb == Len(BEGIN)  le == Len(END)
<1>5. n \in Nat /\ lb \in Nat /\ le \in Nat /\ <<>> \in Seq(Char) /\ Len(<<>>) = 0
  BY <1>1, MarkerFacts
<1>6. /\ b \in Seq(Char) /\ Len(b) = lb + n
      /\ (\A k \in 1..lb : b[k] = BEGIN[k]) /\ \A k \in 1..n : b[lb + k] = mid[k]
  <2>1. b = BEGIN \o mid
    OBVIOUS
  <2> HIDE DEF b
  <2> QED
    BY <1>1, <2>1, JoinFacts
<1> HIDE DEF b
<1>7. /\ c \in Seq(Char) /\ Len(c) = lb + n + le
      /\ (\A k \in 1..(lb + n) : c[k] = b[k])
      /\ \A k \in 1..le : c[lb + n + k] = END[k]
  <2>1. c = b \o END /\ b \in Seq(Char) /\ END \in Seq(Char)
    BY <1>1, <1>6
  <2> HIDE DEF c
  <2>2. /\ c \in Seq(Char) /\ Len(c) = Len(b) + Len(END)
        /\ \A k \in 1..Len(b) : c[k] = b[k]
        /\ \A k \in 1..Len(END) : c[Len(b) + k] = END[k]
    BY <2>1, JoinFacts
  <2> QED
    BY <1>6, <2>2
<1> HIDE DEF c
<1>8. /\ f \in Seq(Char) /\ Len(f) = lb + n + le + Len(EOL)
      /\ (\A k \in 1..(lb + n + le) : f[k] = c[k])
      /\ \A k \in 1..Len(EOL) : f[lb + n + le + k] = EOL[k]
  <2>1. f = c \o EOL /\ c \in Seq(Char) /\ EOL \in Seq(Char)
    BY <1>1, <1>7
  <2> HIDE DEF f
  <2>2. /\ f \in Seq(Char) /\ Len(f) = Len(c) + Len(EOL)
        /\ \A k \in 1..Len(c) : f[k] = c[k]
        /\ \A k \in 1..Len(EOL) : f[Len(c) + k] = EOL[k]
    BY <2>1, JoinFacts
  <2> QED
    BY <1>7, <2>2
<1> HIDE DEF f, n, lb, le
<1>9. /\ \A k \in 1..lb : c[k] = BEGIN[k]
      /\ \A k \in 1..n : c[lb + k] = mid[k]
      /\ \A k \in 1..le : c[lb + n + k] = END[k]
  <2>1. (\A k \in 1..lb : k \in 1..(lb + n)) /\ \A k \in 1..n : lb + k \in 1..(lb + n)
    BY <1>5
  <2> QED
    BY <1>6, <1>7, <2>1
<1>10. Marked(c, mid, <<>>)
  <2>1. Len(c) = lb + n + le + Len(<<>>) /\ 1..Len(<<>>) = {}
    BY <1>5, <1>7
  <2> QED
    BY <1>9, <2>1, Zenon DEF Marked, lb, le, n
<1>11. Marked(f, mid, EOL)
  <2>1. /\ \A k \in 1..lb : f[k] = BEGIN[k]
        /\ \A k \in 1..n : f[lb + k] = mid[k]
        /\ \A k \in 1..le : f[lb + n + k] = END[k]
    <3>1. /\ \A k \in 1..lb : k \in 1..(lb + n + le)
          /\ \A k \in 1..n : lb + k \in 1..(lb + n + le)
          /\ \A k \in 1..le : lb + n + k \in 1..(lb + n + le)
      BY <1>5
    <3> QED
      BY <1>8, <1>9, <3>1
  <2> QED
    BY <1>8, <2>1, Zenon DEF Marked, lb, le, n
<1>12. Len(mid) # 0 /\ mid[1] \in {"\r", "\n"}
  <2>1. mid = EOL \o flat
    BY DEF Between, mid, flat
  <2>2. Len(mid) = Len(EOL) + Len(flat) /\ Len(EOL) = 2 /\ Len(flat) \in Nat
        /\ \A k \in 1..Len(EOL) : mid[k] = EOL[k]
    <3> DEFINE e == EOL
    <3>1. mid = e \o flat /\ e \in Seq(Char) /\ flat \in Seq(Char)
      BY <1>1, <2>1
    <3>2. Len(e) = 2
      BY CharFacts
    <3> HIDE DEF e
    <3>3. Len(mid) = Len(e) + Len(flat) /\ Len(flat) \in Nat /\ \A k \in 1..Len(e) : mid[k] = e[k]
      BY <3>1, JoinFacts
    <3> QED
      BY <3>2, <3>3 DEF e
  <2>3. mid[1] = EOL[1] /\ Len(mid) # 0
    BY <2>2
  <2> QED
    BY <2>3 DEF EOL
<1> QED
  BY <1>4, <1>7, <1>8, <1>10, <1>11, <1>12 DEF b, c, f, mid

\* The frame of every image is one that the host takes, with and without its last line
\* break, and in which it reads that image (panicdump.c:338-376,
\* decode_panicdump.py:293-316).
THEOREM EveryFrameLoads == \A image \in Images : Loads(image)
<1> SUFFICES ASSUME NEW image \in Images PROVE Loads(image)
  OBVIOUS
<1> DEFINE mid == Between(image)
<1>1. mid \in Seq(Middle) /\ Spells(mid, image, NBytes) /\ Len(mid) \in Nat
  BY BetweenSpells
<1>2. /\ Core[image] \in Seq(Char) /\ Marked(Core[image], mid, <<>>)
      /\ Frame[image] \in Seq(Char) /\ Marked(Frame[image], mid, EOL)
      /\ Len(mid) # 0 /\ mid[1] \in {"\r", "\n"}
  BY FrameText
<1>3. <<>> \in Seq(Space) /\ EOL \in Seq(Space)
  BY CharFacts
<1> HIDE DEF mid
<1>4. Framed(Core[image]) /\ Loaded(Core[image]) = image
  BY <1>1, <1>2, <1>3, MarkedReads
<1>5. Framed(Frame[image]) /\ Loaded(Frame[image]) = image
  BY <1>1, <1>2, <1>3, MarkedReads
<1>6. /\ 1 \in Occurrences(BEGIN, Core[image])
      /\ Len(Core[image]) - Len(END) + 1 \in Occurrences(END, Core[image])
  <2> DEFINE lb == Len(BEGIN)  le == Len(END)  n == Len(mid)
  <2>1. 1 \in Occurrences(BEGIN, Core[image]) /\ lb + n + 1 \in Occurrences(END, Core[image])
    BY <1>1, <1>2, <1>3, MarkedPlaces
  <2>2. Len(Core[image]) = lb + n + le + 0 /\ lb \in Nat /\ le \in Nat /\ n \in Nat
    BY <1>1, <1>2, MarkerFacts DEF Marked
  <2> HIDE DEF lb, le, n
  <2>3. Len(Core[image]) - le + 1 = lb + n + 1
    BY <2>2
  <2> QED
    BY <2>1, <2>3 DEF le
<1> QED
  BY <1>2, <1>4, <1>5, <1>6 DEF Loads

-----------------------------------------------------------------------------
(* The generator of test files cuts the digits into lines, the device puts a *)
(* line break behind every LineBytes-th byte: the text is the same.          *)

Cut(t, a, b) == SubSeq(t, a + 1, b)

LEMMA CutFacts ==
  ASSUME NEW S, NEW t \in Seq(S), NEW a \in Nat, NEW b \in Nat, a <= b, b <= Len(t)
  PROVE  /\ Cut(t, a, b) \in Seq(S) /\ Len(Cut(t, a, b)) = b - a
         /\ \A k \in 1..(b - a) : Cut(t, a, b)[k] = t[a + k]
<1>1. b - a \in Nat /\ a + (b - a) = b
  OBVIOUS
<1>2. Cut(t, a, b) = SubSeq(t, a + 1, a + (b - a))
  BY <1>1 DEF Cut
<1> DEFINE m == b - a
<1> HIDE DEF m
<1>3. m \in Nat /\ a + m <= Len(t) /\ Cut(t, a, b) = SubSeq(t, a + 1, a + m)
  BY <1>1, <1>2 DEF m
<1>4. /\ Cut(t, a, b) \in Seq(S) /\ Len(Cut(t, a, b)) = m
      /\ \A k \in 1..m : Cut(t, a, b)[k] = t[a + k]
  BY <1>3, PartOf
<1> QED
  BY <1>4 DEF m

LEMMA CutJoin ==
  ASSUME NEW S, NEW t \in Seq(S), NEW a \in Nat, NEW b \in Nat, NEW c \in Nat,
         a <= b, b <= c, c <= Len(t)
  PROVE  Cut(t, a, b) \o Cut(t, b, c) = Cut(t, a, c)
<1> DEFINE p == Cut(t, a, b)  q == Cut(t, b, c)  r == Cut(t, a, c)  u == p \o q
<1>0. Len(t) \in Nat
  OBVIOUS
<1>1. p \in Seq(S) /\ Len(p) = b - a /\ \A k \in 1..(b - a) : p[k] = t[a + k]
  <2>1. b <= Len(t)
    BY <1>0
  <2> QED
    BY <2>1, CutFacts
<1>2. q \in Seq(S) /\ Len(q) = c - b /\ \A k \in 1..(c - b) : q[k] = t[b + k]
  BY CutFacts
<1>3. r \in Seq(S) /\ Len(r) = c - a /\ \A k \in 1..(c - a) : r[k] = t[a + k]
  <2>1. a <= c
    OBVIOUS
  <2> QED
    BY <2>1, CutFacts
<1> HIDE DEF p, q, r
<1>4. /\ u \in Seq(S) /\ Len(u) = Len(p) + Len(q)
      /\ \A k \in 1..Len(p) : u[k] = p[k]
      /\ \A k \in 1..Len(q) : u[Len(p) + k] = q[k]
  <2>1. p \in Seq(S) /\ q \in Seq(S) /\ u = p \o q
    BY <1>1, <1>2
  <2> HIDE DEF u
  <2> QED
    BY <2>1, JoinFacts
<1> HIDE DEF u
<1>5. ASSUME NEW k \in 1..(c - a) PROVE u[k] = r[k]
  <2>1. CASE k <= b - a
    BY <1>1, <1>3, <1>4, <2>1
  <2>2. CASE k > b - a
    <3> DEFINE j == k - (b - a)
    <3>1. j \in 1..(c - b) /\ (b - a) + j = k /\ b + j = a + k
      BY <2>2
    <3> HIDE DEF j
    <3>2. u[k] = q[j] /\ q[j] = t[b + j]
      BY <1>1, <1>2, <1>4, <3>1
    <3> QED
      BY <1>3, <3>1, <3>2
  <2> QED
    BY <2>1, <2>2
<1>6. u = r
  <2>1. Len(u) = c - a
    BY <1>1, <1>2, <1>4
  <2> QED
    BY <1>3, <1>4, <1>5, <2>1, SameSeq
<1> QED
  BY <1>6 DEF u, p, q, r

(* The digits of an image, without line breaks. *)
Digits(image) == FlattenSeq([i \in 1..NBytes |-> HexByte(image[i])])

LEMMA DigitsFacts ==
  ASSUME NEW image \in Images
  PROVE  /\ Digits(image) \in Seq(Middle) /\ Len(Digits(image)) = 2 * NBytes
         /\ \A i \in 1..NBytes :
              HexByte(image[i]) = Cut(Digits(image), 2 * (i - 1), 2 * i)
<1> DEFINE ss == [i \in 1..NBytes |-> HexByte(image[i])]
<1>1. NBytes \in Nat \ {0}
  BY SizeAssumption
<1>2. ASSUME NEW i \in 1..NBytes
      PROVE ss[i] \in Seq(Middle) /\ Len(ss[i]) = 2 /\ ss[i] = HexByte(image[i])
  <2>1. image[i] \in 0..(Base * Base - 1)
    BY ImageAssumption
  <2>2. PICK x, y \in Digit : HexByte(image[i]) = <<x, y>>
    BY <2>1, HexByteFacts
  <2>3. ss[i] = HexByte(image[i])
    OBVIOUS
  <2> HIDE DEF ss
  <2>4. x \in Middle /\ y \in Middle
    BY DEF Middle
  <2>5. <<x, y>> \in Seq(Middle) /\ Len(<<x, y>>) = 2
    BY <2>4
  <2> QED
    BY <2>2, <2>3, <2>5, Zenon
<1>3. ss \in Seq(Seq(Middle)) /\ Len(ss) = NBytes
  <2>1. ss \in [1..NBytes -> Seq(Middle)]
    BY <1>2
  <2> HIDE DEF ss
  <2> QED
    BY <1>1, <2>1
<1> HIDE DEF ss
<1>4. PICK f \in [0..NBytes -> Seq(Middle)] : Accumulates(f, ss)
  BY <1>3, FlattenPrefixes
<1>5. FlattenSeq(ss) = f[NBytes]
  BY <1>3, <1>4, FlattenIsPrefix
<1> DEFINE Good(n) == /\ f[n] \in Seq(Middle) /\ Len(f[n]) = 2 * n
                      /\ \A i \in 1..n : ss[i] = Cut(f[n], 2 * (i - 1), 2 * i)
           T == {n \in Nat : n <= NBytes => Good(n)}
<1>6. 0 \in T
  BY <1>4 DEF Accumulates
<1>7. ASSUME NEW n \in Nat, n \in T PROVE n + 1 \in T
  <2> SUFFICES ASSUME n + 1 <= NBytes PROVE Good(n + 1)
    OBVIOUS
  <2> DEFINE a == f[n]  b == ss[n + 1]  c == f[n + 1]
  <2>1. n + 1 \in 1..NBytes /\ (n + 1) - 1 = n
    BY <1>1
  <2>2. Good(n)
    BY <1>1, <1>7
  <2>3. a \in Seq(Middle) /\ Len(a) = 2 * n /\ b \in Seq(Middle) /\ Len(b) = 2 /\ c = a \o b
    BY <1>2, <1>3, <1>4, <2>1, <2>2 DEF Accumulates
  <2> HIDE DEF a, b, c
  <2>4. /\ c \in Seq(Middle) /\ Len(c) = Len(a) + Len(b)
        /\ \A k \in 1..Len(a) : c[k] = a[k]
        /\ \A k \in 1..Len(b) : c[Len(a) + k] = b[k]
    <3>1. a \in Seq(Middle) /\ b \in Seq(Middle) /\ c = a \o b
      BY <2>3
    <3> QED
      BY <3>1, JoinFacts
  <2>5. Len(c) = 2 * (n + 1)
    BY <2>3, <2>4
  <2>6. ASSUME NEW i \in 1..(n + 1) PROVE ss[i] = Cut(c, 2 * (i - 1), 2 * i)
    <3> DEFINE l == 2 * (i - 1)  h == 2 * i
    <3>1. l \in Nat /\ h \in Nat /\ l <= h /\ h <= Len(c) /\ h - l = 2
      BY <2>5
    <3>2. /\ Cut(c, l, h) \in Seq(Middle) /\ Len(Cut(c, l, h)) = 2
          /\ \A k \in 1..2 : Cut(c, l, h)[k] = c[l + k]
      <4>1. c \in Seq(Middle) /\ l \in Nat /\ h \in Nat /\ l <= h /\ h <= Len(c)
        BY <2>4, <3>1
      <4> HIDE DEF l, h
      <4>2. /\ Cut(c, l, h) \in Seq(Middle) /\ Len(Cut(c, l, h)) = h - l
            /\ \A k \in 1..(h - l) : Cut(c, l, h)[k] = c[l + k]
        BY <4>1, CutFacts
      <4> QED
        BY <3>1, <4>2
    <3>3. CASE i = n + 1
      <4>1. l = Len(a)
        BY <2>3, <3>3
      <4>2. \A k \in 1..2 : b[k] = c[l + k]
        BY <2>3, <2>4, <4>1
      <4>3. Cut(c, l, h) = b
        <5> DEFINE u == Cut(c, l, h)
        <5> HIDE DEF l, h
        <5>1. u \in Seq(Middle) /\ b \in Seq(Middle) /\ Len(u) = Len(b)
          BY <2>3, <3>2
        <5>2. \A k \in 1..Len(u) : u[k] = b[k]
          BY <3>2, <4>2
        <5> HIDE DEF u
        <5>3. u = b
          BY <5>1, <5>2, SameSeq
        <5> QED
          BY <5>3 DEF u
      <4> QED
        BY <3>3, <4>3 DEF b
    <3>4. CASE i # n + 1
      <4>1. i \in 1..n /\ h <= Len(a)
        BY <2>3, <3>4
      <4>2. ss[i] = Cut(a, l, h)
        BY <2>2, <4>1 DEF a
      <4>3. /\ Cut(a, l, h) \in Seq(Middle) /\ Len(Cut(a, l, h)) = 2
            /\ \A k \in 1..2 : Cut(a, l, h)[k] = a[l + k]
        <5>1. a \in Seq(Middle) /\ l \in Nat /\ h \in Nat /\ l <= h /\ h <= Len(a)
          BY <2>3, <3>1, <4>1
        <5> HIDE DEF l, h
        <5>2. /\ Cut(a, l, h) \in Seq(Middle) /\ Len(Cut(a, l, h)) = h - l
              /\ \A k \in 1..(h - l) : Cut(a, l, h)[k] = a[l + k]
          BY <5>1, CutFacts
        <5> QED
          BY <3>1, <5>2
      <4>4. \A k \in 1..2 : a[l + k] = c[l + k]
        <5>1. \A k \in 1..2 : l + k \in 1..Len(a)
          BY <2>3, <3>1, <4>1
        <5> QED
          BY <2>4, <5>1
      <4>5. Cut(a, l, h) = Cut(c, l, h)
        <5> HIDE DEF l, h
        <5> QED
          BY <3>2, <4>3, <4>4, SameSeq
      <4> QED
        BY <4>2, <4>5
    <3> QED
      BY <3>3, <3>4
  <2> QED
    BY <2>4, <2>5, <2>6 DEF c
<1>8. NBytes \in T
  <2> HIDE DEF T
  <2> QED
    BY <1>1, <1>6, <1>7, Induction
<1>9. Good(NBytes)
  BY <1>1, <1>8
<1>10. Digits(image) = f[NBytes] /\ \A i \in 1..NBytes : ss[i] = HexByte(image[i])
  BY <1>2, <1>5 DEF Digits, ss
<1> QED
  BY <1>9, <1>10

(* The digits of the bytes from a + 1 to b. *)
Part(image, a, b) == Cut(Digits(image), 2 * a, 2 * b)

LEMMA RowCut ==
  ASSUME NEW image \in Images, NEW i \in 1..NBytes
  PROVE  Row(image)[i] = Part(image, i - 1, i)
           \o IF i % LineBytes = 0 \/ i = NBytes THEN EOL ELSE <<>>
BY DigitsFacts DEF Row, Part

LEMMA CutTwice ==
  ASSUME NEW image \in Images, NEW a \in Nat, NEW b \in Nat, a <= b, b <= NBytes
  PROVE  Part(image, a, b) \in Seq(Middle) /\ (a = b => Part(image, a, b) = <<>>)
<1> DEFINE d == Digits(image)  l == 2 * a  h == 2 * b
<1>1. d \in Seq(Middle) /\ l \in Nat /\ h \in Nat /\ l <= h /\ h <= Len(d)
  <2>1. d \in Seq(Middle) /\ Len(d) = 2 * NBytes /\ NBytes \in Nat
    BY DigitsFacts, SizeAssumption
  <2> QED
    BY <2>1
<1> HIDE DEF d, l, h
<1>2. Cut(d, l, h) \in Seq(Middle) /\ Len(Cut(d, l, h)) = h - l
  BY <1>1, CutFacts
<1> DEFINE c == Cut(d, l, h)
<1> HIDE DEF c
<1>3. c \in Seq(Middle) /\ (h = l => c = <<>>)
  BY <1>1, <1>2 DEF c
<1>4. a = b => h = l
  BY DEF h, l
<1> QED
  BY <1>3, <1>4 DEF c, d, l, h, Part

LEMMA CutNext ==
  ASSUME NEW image \in Images, NEW a \in Nat, NEW b \in Nat, NEW c \in Nat,
         a <= b, b <= c, c <= NBytes
  PROVE  Part(image, a, b) \o Part(image, b, c) = Part(image, a, c)
<1> DEFINE d == Digits(image)  p == 2 * a  q == 2 * b  r == 2 * c
<1>1. d \in Seq(Middle) /\ p \in Nat /\ q \in Nat /\ r \in Nat /\ p <= q /\ q <= r /\ r <= Len(d)
  <2>1. d \in Seq(Middle) /\ Len(d) = 2 * NBytes /\ NBytes \in Nat
    BY DigitsFacts, SizeAssumption
  <2> QED
    BY <2>1
<1> HIDE DEF d, p, q, r
<1>2. Cut(d, p, q) \o Cut(d, q, r) = Cut(d, p, r)
  BY <1>1, CutJoin
<1> QED
  BY <1>2 DEF d, p, q, r, Part

\* A line of the frame, from byte from + 1 to byte to.
LEMMA FrameLine ==
  ASSUME NEW image \in Images, NEW f \in [0..NBytes -> Seq(Middle)],
         Accumulates(f, Row(image)), NEW from \in Nat, NEW to \in Nat, from < to, to <= NBytes,
         \A i \in (from + 1)..to : (i % LineBytes = 0 \/ i = NBytes) <=> i = to
  PROVE  f[to] = f[from] \o (Part(image, from, to) \o EOL)
<1> DEFINE C(a, b) == Part(image, a, b)
           last == to - 1
<1>1. /\ NBytes \in Nat /\ Len(Row(image)) = NBytes /\ last \in Nat /\ from <= last
      /\ last < to /\ last <= NBytes /\ last + 1 = to
  BY RowFacts
<1>2. ASSUME NEW i \in (from + 1)..last PROVE f[i] = f[i - 1] \o C(i - 1, i)
  <2>1. i \in 1..NBytes /\ i \in (from + 1)..to /\ i # to /\ i - 1 \in Nat
    BY <1>1
  <2>2. Row(image)[i] = C(i - 1, i) \o <<>>
    BY <2>1, RowCut
  <2>3. C(i - 1, i) \in Seq(Middle)
    <3>1. i \in Nat /\ i - 1 <= i /\ i <= NBytes
      BY <1>1, <2>1
    <3> QED
      BY <2>1, <3>1, CutTwice
  <2>4. f[i] = f[i - 1] \o Row(image)[i]
    BY <1>1, <2>1 DEF Accumulates
  <2>5. C(i - 1, i) \o <<>> = C(i - 1, i)
    <3> HIDE DEF C
    <3> QED
      BY <2>3
  <2> QED
    BY <2>2, <2>4, <2>5
<1>3. f[to] = f[last] \o (C(last, to) \o EOL)
  <2>1. to \in 1..NBytes /\ to \in (from + 1)..to
    BY <1>1
  <2>2. Row(image)[to] = C(last, to) \o EOL
    BY <2>1, RowCut
  <2> QED
    BY <1>1, <2>1, <2>2 DEF Accumulates
<1>4. \A a, b \in 0..NBytes : a <= b => C(a, b) \in Seq(Middle) /\ (a = b => C(a, b) = <<>>)
  BY <1>1, CutTwice
<1>5. \A a, b, c \in 0..NBytes : a <= b /\ b <= c => C(a, b) \o C(b, c) = C(a, c)
  <2> TAKE a, b, c \in 0..NBytes
  <2> HAVE a <= b /\ b <= c
  <2>1. a \in Nat /\ b \in Nat /\ c \in Nat /\ a <= b /\ b <= c /\ c <= NBytes
    BY <1>1
  <2> QED
    BY <2>1, CutNext
<1> HIDE DEF C, last
<1> DEFINE T == {j \in Nat : from + j <= last => f[from + j] = f[from] \o C(from, from + j)}
<1>6. 0 \in T
  <2>1. from \in 0..NBytes /\ f[from] \in Seq(Middle) /\ from + 0 = from
    BY <1>1
  <2>2. C(from, from) = <<>>
    BY <1>4, <2>1
  <2> QED
    BY <2>1, <2>2
<1>7. ASSUME NEW j \in Nat, j \in T PROVE j + 1 \in T
  <2> SUFFICES ASSUME from + (j + 1) <= last
               PROVE  f[from + (j + 1)] = f[from] \o C(from, from + (j + 1))
    <3>1. j + 1 \in Nat
      OBVIOUS
    <3> QED
      BY <3>1, Zenon
  <2> DEFINE i == from + (j + 1)  h == from + j
  <2>1. /\ i \in (from + 1)..last /\ i - 1 = h /\ h <= last
        /\ from \in 0..NBytes /\ h \in 0..NBytes /\ i \in 0..NBytes /\ from <= h /\ h <= i
    BY <1>1
  <2>2. f[h] = f[from] \o C(from, h)
    BY <1>7, <2>1
  <2>3. f[i] = f[h] \o C(h, i)
    BY <1>2, <2>1
  <2> HIDE DEF i, h
  <2>4. f[from] \in Seq(Middle) /\ C(from, h) \in Seq(Middle) /\ C(h, i) \in Seq(Middle)
    BY <1>4, <2>1
  <2>5. C(from, h) \o C(h, i) = C(from, i)
    BY <1>5, <2>1
  <2> DEFINE p == f[from]  q == C(from, h)  r == C(h, i)
  <2> HIDE DEF p, q, r
  <2>6. (p \o q) \o r = p \o (q \o r)
    <3>1. p \in Seq(Middle) /\ q \in Seq(Middle) /\ r \in Seq(Middle)
      BY <2>4 DEF p, q, r
    <3> QED
      BY <3>1, ConcatThree, SMTT(30)
  <2>7. f[i] = f[from] \o C(from, i)
    BY <2>2, <2>3, <2>5, <2>6 DEF p, q, r
  <2> QED
    BY <2>7 DEF i
<1>8. f[last] = f[from] \o C(from, last)
  <2>1. last - from \in Nat /\ from + (last - from) = last
    BY <1>1
  <2>2. last - from \in T
    <3> HIDE DEF T
    <3> QED
      BY <1>6, <1>7, <2>1, Induction
  <2> QED
    BY <1>1, <2>1, <2>2
<1>9. /\ from \in 0..NBytes /\ last \in 0..NBytes /\ to \in 0..NBytes /\ last <= to
  BY <1>1
<1>10. C(from, last) \o C(last, to) = C(from, to)
  BY <1>1, <1>5, <1>9
<1> DEFINE p == f[from]  q == C(from, last)  r == C(last, to)
<1>11. p \in Seq(Middle) /\ q \in Seq(Middle) /\ r \in Seq(Middle) /\ EOL \in Seq(Middle)
  BY <1>1, <1>4, <1>9, CharFacts
<1> HIDE DEF p, q, r
<1>12. (p \o q) \o (r \o EOL) = p \o ((q \o r) \o EOL)
  <2>1. \A a, b, c \in Seq(Middle) : (a \o b) \o c = a \o (b \o c)
    BY ConcatThree, SMTT(30)
  <2>2. r \o EOL \in Seq(Middle)
    BY <1>11, ConcatFacts
  <2>3. (p \o q) \o (r \o EOL) = p \o (q \o (r \o EOL))
    BY <1>11, <2>1, <2>2, ZenonT(30)
  <2>4. q \o (r \o EOL) = (q \o r) \o EOL
    BY <1>11, <2>1
  <2> QED
    BY <2>3, <2>4
<1> QED
  BY <1>3, <1>8, <1>10, <1>12 DEF p, q, r, C

(* The last byte of the first k lines. *)
Stop(k) == IF LineBytes * k < NBytes THEN LineBytes * k ELSE NBytes
LineCount == (2 * NBytes + 2 * LineBytes - 1) \div (2 * LineBytes)

LEMMA StopFacts ==
  /\ LineCount \in Nat \ {0} /\ Stop(0) = 0 /\ Stop(LineCount) = NBytes
  /\ \A k \in 0..(LineCount - 1) :
       /\ Stop(k) \in Nat /\ Stop(k + 1) \in Nat /\ Stop(k) < Stop(k + 1) /\ Stop(k + 1) <= NBytes
       /\ Stop(k) = LineBytes * k
       /\ \A i \in (Stop(k) + 1)..Stop(k + 1) :
            (i % LineBytes = 0 \/ i = NBytes) <=> i = Stop(k + 1)
<1> DEFINE n == NBytes  l == LineBytes  c == LineCount
<1>1. n \in Nat \ {0} /\ l \in Nat \ {0}
  BY SizeAssumption
<1>2. c \in Nat /\ n <= l * c /\ 2 * (l * c) < 2 * n + 2 * l
  <2> DEFINE x == 2 * n + 2 * l - 1  y == 2 * l  r == x % y
  <2>1. x \in Nat /\ y \in Nat \ {0}
    BY <1>1
  <2>2. c = x \div y
    BY DEF LineCount
  <2> HIDE DEF x, y, c
  <2>3. c \in Nat /\ r \in 0..(y - 1) /\ x = y * c + r
    BY <2>1, <2>2
  <2> HIDE DEF r
  <2>4. y * c = 2 * (l * c) /\ l * c \in Nat
    BY <1>1, <2>3 DEF y
  <2> DEFINE p == l * c
  <2> HIDE DEF p
  <2>5. p \in Nat /\ r \in 0..(2 * l - 1) /\ 2 * n + 2 * l - 1 = 2 * p + r
    BY <2>3, <2>4 DEF p, x, y
  <2>6. n <= p /\ 2 * p < 2 * n + 2 * l
    BY <1>1, <2>5
  <2> QED
    BY <2>3, <2>6 DEF p
<1> HIDE DEF n, l, c
<1>3. c # 0
  BY <1>1, <1>2
<1>4. ASSUME NEW k \in 0..(c - 1) PROVE l * k < n /\ l * k \in Nat /\ l * (k + 1) = l * k + l
  <2>1. k \in Nat /\ c - k \in Nat /\ c - k >= 1
    BY <1>2
  <2>2. l * c = l * k + l * (c - k) /\ l * (c - k) >= l /\ l * k \in Nat /\ l * c \in Nat
        /\ l * (c - k) \in Nat
    <3> DEFINE j == c - k
    <3>1. j \in Nat /\ j >= 1 /\ c = k + j
      BY <1>2, <2>1
    <3> HIDE DEF j
    <3>2. l * c = l * k + l * j /\ l * j >= l /\ l * k \in Nat /\ l * c \in Nat /\ l * j \in Nat
      BY <1>1, <2>1, <3>1
    <3> QED
      BY <3>2 DEF j
  <2>3. l * (k + 1) = l * k + l
    BY <1>1, <2>1
  <2> DEFINE a == l * c  b == l * k  d == l * (c - k)
  <2> HIDE DEF a, b, d
  <2>4. a = b + d /\ d >= l /\ a \in Nat /\ b \in Nat /\ d \in Nat /\ 2 * a < 2 * n + 2 * l
    BY <1>2, <2>2 DEF a, b, d
  <2>5. b < n
    BY <1>1, <2>4
  <2> QED
    BY <2>2, <2>3, <2>5 DEF b
<1>5. \A k : Stop(k) = IF l * k < n THEN l * k ELSE n
  BY DEF Stop, l, n
<1>6. Stop(0) = 0
  BY <1>1, <1>5
<1>7. Stop(c) = n
  <2>1. l * c \in Nat
    BY <1>1, <1>2
  <2> QED
    BY <1>1, <1>2, <1>5, <2>1
<1>8. ASSUME NEW k \in 0..(c - 1)
      PROVE /\ Stop(k) \in Nat /\ Stop(k + 1) \in Nat /\ Stop(k) < Stop(k + 1) /\ Stop(k + 1) <= n
            /\ Stop(k) = l * k
            /\ \A i \in (Stop(k) + 1)..Stop(k + 1) : (i % l = 0 \/ i = n) <=> i = Stop(k + 1)
  <2> DEFINE b == l * k
  <2>1. b < n /\ b \in Nat /\ l * (k + 1) = b + l
    BY <1>4
  <2>2. k \in Nat
    BY <1>2
  <2>3. \A r \in 0..(l - 1) : (b + r) % l = r
    BY <1>1, <2>2
  <2>4. (b + l) % l = 0
    <3>1. b + l = l * (k + 1) + 0
      BY <1>1, <2>1
    <3>2. k + 1 \in Nat /\ 0 \in 0..(l - 1)
      BY <1>1, <2>2
    <3>3. (l * (k + 1) + 0) % l = 0
      BY <1>1, <3>2
    <3> QED
      BY <3>1, <3>3
  <2>5. Stop(k) = b /\ Stop(k + 1) = IF b + l < n THEN b + l ELSE n
    BY <1>5, <2>1
  <2> HIDE DEF b
  <2>6. /\ Stop(k) \in Nat /\ Stop(k + 1) \in Nat /\ Stop(k) < Stop(k + 1) /\ Stop(k + 1) <= n
        /\ Stop(k + 1) <= b + l
    BY <1>1, <2>1, <2>5
  <2>7. ASSUME NEW i \in (Stop(k) + 1)..Stop(k + 1)
        PROVE (i % l = 0 \/ i = n) <=> i = Stop(k + 1)
    <3>1. i \in Nat /\ b < i /\ i <= b + l /\ i <= n
      BY <1>1, <2>1, <2>5, <2>6
    <3>2. CASE i = b + l
      <4>1. i % l = 0
        BY <2>4, <3>2
      <4>2. i = Stop(k + 1)
        BY <1>1, <2>1, <2>5, <2>6, <3>1, <3>2
      <4> QED
        BY <4>1, <4>2
    <3>3. CASE i # b + l
      <4> DEFINE r == i - b
      <4>1. r \in 0..(l - 1) /\ r # 0 /\ i = b + r
        BY <1>1, <2>1, <3>1, <3>3
      <4> HIDE DEF r
      <4>2. i % l # 0
        BY <2>3, <4>1
      <4>3. i = n <=> i = Stop(k + 1)
        BY <1>1, <2>1, <2>5, <2>6, <3>1, <3>3
      <4> QED
        BY <4>2, <4>3
    <3> QED
      BY <3>2, <3>3
  <2> QED
    BY <2>5, <2>6, <2>7 DEF b
<1> QED
  BY <1>2, <1>3, <1>6, <1>7, <1>8 DEF n, l, c

LEMMA TestFilePieces ==
  ASSUME NEW image \in Images
  PROVE  \E ss \in Seq(Seq(Char)) :
           /\ HexFramed(image) = FlattenSeq(ss)
           /\ Len(ss) = LineCount + 2
           /\ ss[1] = BEGIN \o EOL /\ ss[LineCount + 2] = END \o EOL
           /\ \A k \in 0..(LineCount - 1) :
                ss[k + 2] = Part(image, Stop(k), Stop(k + 1)) \o EOL
<1> DEFINE raw == FlattenSeq([i \in 1..NBytes |-> HexByte(image[i])])
           width == 2 * LineBytes
           Line(k) == SubSeq(raw, width * (k - 1) + 1,
                             IF width * k < Len(raw) THEN width * k ELSE Len(raw))
           lines == [k \in 1..((Len(raw) + width - 1) \div width) |-> Line(k)]
           n == Len(lines)
           Inner(k) == CASE k = 1 -> BEGIN
                         [] k \in 2..(n + 1) -> lines[k - 1]
                         [] OTHER -> END
           ss == [k \in 1..(n + 2) |-> Inner(k) \o EOL]
<1>1. HexFramed(image) = FlattenSeq(ss)
  BY DEF HexFramed
<1>2. raw = Digits(image) /\ Len(raw) = 2 * NBytes
  BY DigitsFacts DEF Digits
<1>3. LineCount \in Nat \ {0} /\ NBytes \in Nat \ {0} /\ LineBytes \in Nat \ {0}
  BY StopFacts, SizeAssumption
<1> HIDE DEF raw
<1>4. n = LineCount
  <2>1. (Len(raw) + width - 1) \div width = LineCount
    BY <1>2 DEF LineCount
  <2>2. lines = [k \in 1..LineCount |-> Line(k)]
    BY <2>1
  <2> HIDE DEF lines, Line
  <2> QED
    BY <1>3, <2>2
<1>5. \A k \in 0..(LineCount - 1) : lines[k + 1] = Part(image, Stop(k), Stop(k + 1))
  <2> TAKE k \in 0..(LineCount - 1)
  <2>1. (Len(raw) + width - 1) \div width = LineCount
    BY <1>2 DEF LineCount
  <2>2. k + 1 \in 1..LineCount /\ (k + 1) - 1 = k
    BY <1>3
  <2>3. lines[k + 1] = Line(k + 1)
    BY <2>1, <2>2
  <2>4. width * ((k + 1) - 1) + 1 = 2 * Stop(k) + 1
    <3>1. Stop(k) = LineBytes * k /\ k \in Nat
      BY <1>3, StopFacts
    <3> QED
      BY <1>3, <2>2, <3>1
  <2>5. (IF width * (k + 1) < Len(raw) THEN width * (k + 1) ELSE Len(raw)) = 2 * Stop(k + 1)
    <3> DEFINE x == LineBytes * (k + 1)
    <3>1. x \in Nat /\ width * (k + 1) = 2 * x
      BY <1>3
    <3>2. Stop(k + 1) = IF x < NBytes THEN x ELSE NBytes
      BY DEF Stop
    <3> HIDE DEF x, width
    <3> QED
      BY <1>2, <1>3, <3>1, <3>2
  <2>6. Line(k + 1) = SubSeq(raw, 2 * Stop(k) + 1, 2 * Stop(k + 1))
    BY <2>4, <2>5
  <2> QED
    BY <1>2, <2>3, <2>6 DEF Part, Cut
<1> HIDE DEF n, lines
<1>6. ss[1] = BEGIN \o EOL
  BY <1>3, <1>4
<1>7. ss[LineCount + 2] = END \o EOL
  <2>1. LineCount + 2 \in 1..(n + 2) /\ LineCount + 2 # 1 /\ ~(LineCount + 2 \in 2..(n + 1))
    BY <1>3, <1>4
  <2>2. Inner(LineCount + 2) = END
    BY <2>1
  <2> HIDE DEF Inner
  <2> QED
    BY <2>1, <2>2
<1>8. \A k \in 0..(LineCount - 1) : ss[k + 2] = Part(image, Stop(k), Stop(k + 1)) \o EOL
  <2> TAKE k \in 0..(LineCount - 1)
  <2>1. k + 2 \in 1..(n + 2) /\ k + 2 # 1 /\ k + 2 \in 2..(n + 1) /\ (k + 2) - 1 = k + 1
    BY <1>3, <1>4
  <2>2. Inner(k + 2) = lines[k + 1]
    BY <2>1
  <2> HIDE DEF Inner
  <2>3. ss[k + 2] = lines[k + 1] \o EOL
    BY <2>1, <2>2
  <2> QED
    BY <1>5, <2>3
<1>9. Len(ss) = LineCount + 2 /\ DOMAIN ss = 1..(LineCount + 2)
  <2> HIDE DEF Inner
  <2> QED
    BY <1>3, <1>4
<1>10. \A i \in 1..(LineCount + 2) : ss[i] \in Seq(Char)
  <2> TAKE i \in 1..(LineCount + 2)
  <2> HIDE DEF ss
  <2>0. BEGIN \in Seq(Char) /\ END \in Seq(Char) /\ EOL \in Seq(Char)
    BY CharFacts, MarkerFacts
  <2>1. CASE i = 1 \/ i = LineCount + 2
    <3>1. BEGIN \o EOL \in Seq(Char) /\ END \o EOL \in Seq(Char)
      BY <2>0, ConcatFacts
    <3> QED
      BY <1>6, <1>7, <2>1, <3>1, Zenon
  <2>2. CASE i # 1 /\ i # LineCount + 2
    <3> DEFINE k == i - 2  c == Part(image, Stop(k), Stop(k + 1))
    <3>1. k \in 0..(LineCount - 1) /\ i = k + 2
      BY <1>3, <2>2
    <3> HIDE DEF k
    <3>2. ss[i] = c \o EOL
      BY <1>8, <3>1
    <3>3. Stop(k) \in Nat /\ Stop(k + 1) \in Nat /\ Stop(k) <= Stop(k + 1) /\ Stop(k + 1) <= NBytes
      BY <3>1, StopFacts
    <3>4. c \in Seq(Middle)
      BY <3>3, CutTwice
    <3> HIDE DEF c
    <3>5. c \in Seq(Char)
      BY <3>4, CharFacts
    <3> QED
      BY <2>0, <3>2, <3>5
  <2> QED
    BY <2>1, <2>2
<1>11. ss \in Seq(Seq(Char))
  <2>1. ss = [i \in 1..(LineCount + 2) |-> ss[i]]
    BY <1>4
  <2> HIDE DEF ss
  <2>2. ss \in [1..(LineCount + 2) -> Seq(Char)]
    BY <1>10, <2>1
  <2> QED
    BY <1>3, <2>2
<1> HIDE DEF ss
<1> QED
  BY <1>1, <1>6, <1>7, <1>8, <1>9, <1>11

\* build_hex_framed writes the text that the device sends (make_mock_dump.py:224-231,
\* panicdump.c:338-376).
THEOREM TestFilesAreFrames == \A image \in Images : HexFramed(image) = Frame[image]
<1> SUFFICES ASSUME NEW image \in Images PROVE HexFramed(image) = Frame[image]
  OBVIOUS
<1> DEFINE rows == Row(image)  head == BEGIN \o EOL
<1>1. PICK ss \in Seq(Seq(Char)) :
        /\ HexFramed(image) = FlattenSeq(ss)
        /\ Len(ss) = LineCount + 2
        /\ ss[1] = head /\ ss[LineCount + 2] = END \o EOL
        /\ \A k \in 0..(LineCount - 1) :
             ss[k + 2] = Part(image, Stop(k), Stop(k + 1)) \o EOL
  BY TestFilePieces
<1>2. PICK g \in [0..Len(ss) -> Seq(Char)] : Accumulates(g, ss)
  BY FlattenPrefixes
<1>3. HexFramed(image) = g[LineCount + 2]
  BY <1>1, <1>2, FlattenIsPrefix
<1>4. rows \in Seq(Seq(Middle)) /\ Len(rows) = NBytes /\ NBytes \in Nat \ {0}
  BY RowFacts
<1> HIDE DEF rows
<1>5. PICK f \in [0..NBytes -> Seq(Middle)] : Accumulates(f, rows)
  BY <1>4, FlattenPrefixes
<1>6. FlattenSeq(rows) = f[NBytes]
  BY <1>4, <1>5, FlattenIsPrefix
<1>7. LineCount \in Nat \ {0} /\ Stop(0) = 0 /\ Stop(LineCount) = NBytes
  BY StopFacts
<1>8. /\ head \in Seq(Char) /\ EOL \in Seq(Char) /\ END \in Seq(Char)
      /\ \A i \in 0..NBytes : f[i] \in Seq(Char)
  <2>1. BEGIN \in Seq(Char) /\ EOL \in Seq(Char) /\ END \in Seq(Char)
    BY CharFacts, MarkerFacts
  <2>2. \A i \in 0..NBytes : f[i] \in Seq(Char)
    BY <1>5, CharFacts
  <2> QED
    BY <2>1, <2>2
<1> HIDE DEF head
<1>9. \A p, q, r \in Seq(Char) : (p \o q) \o r = p \o (q \o r)
  BY ConcatThree, SMTT(30)
<1> DEFINE T == {k \in Nat : k <= LineCount => g[k + 1] = head \o f[Stop(k)]}
<1>10. 0 \in T
  <2>1. g[0] = <<>> /\ g[1] = g[0] \o head
    <3>1. 1 \in 1..Len(ss) /\ 1 - 1 = 0
      BY <1>1, <1>7
    <3> QED
      BY <1>1, <1>2, <3>1 DEF Accumulates
  <2>2. f[0] = <<>>
    BY <1>5 DEF Accumulates
  <2>3. g[1] = head /\ head \o f[0] = head
    BY <1>8, <2>1, <2>2
  <2> QED
    BY <1>7, <2>3
<1>11. ASSUME NEW k \in Nat, k \in T PROVE k + 1 \in T
  <2> SUFFICES ASSUME k + 1 <= LineCount PROVE g[(k + 1) + 1] = head \o f[Stop(k + 1)]
    OBVIOUS
  <2> DEFINE from == Stop(k)  to == Stop(k + 1)  c == Part(image, from, to)
  <2>1. k \in 0..(LineCount - 1) /\ k + 2 \in 1..Len(ss) /\ (k + 1) + 1 = k + 2
        /\ (k + 2) - 1 = k + 1
    BY <1>1, <1>7
  <2>2. /\ from \in Nat /\ to \in Nat /\ from < to /\ to <= NBytes /\ from <= to
        /\ from \in 0..NBytes /\ to \in 0..NBytes
        /\ \A i \in (from + 1)..to : (i % LineBytes = 0 \/ i = NBytes) <=> i = to
    <3>1. /\ from \in Nat /\ to \in Nat /\ from < to /\ to <= NBytes
          /\ \A i \in (from + 1)..to : (i % LineBytes = 0 \/ i = NBytes) <=> i = to
      BY <2>1, StopFacts
    <3> HIDE DEF from, to
    <3> QED
      BY <1>4, <3>1
  <2>3. g[k + 2] = g[k + 1] \o (c \o EOL)
    <3>1. g[k + 2] = g[k + 1] \o ss[k + 2]
      BY <1>2, <2>1 DEF Accumulates
    <3> QED
      BY <1>1, <2>1, <3>1
  <2>4. g[k + 1] = head \o f[from]
    BY <1>7, <1>11, <2>1
  <2> HIDE DEF from, to
  <2>5. c \in Seq(Char)
    <3>1. c \in Seq(Middle)
      BY <2>2, CutTwice
    <3> HIDE DEF c
    <3> QED
      BY <3>1, CharFacts
  <2>6. f[to] = f[from] \o (c \o EOL)
    BY <1>5, <2>2, FrameLine DEF rows
  <2> HIDE DEF c
  <2>7. c \o EOL \in Seq(Char) /\ f[from] \in Seq(Char)
    BY <1>8, <2>2, <2>5
  <2> DEFINE p == f[from]  q == c \o EOL
  <2> HIDE DEF p, q
  <2>8. (head \o p) \o q = head \o (p \o q)
    BY <1>8, <1>9, <2>7 DEF p, q
  <2> QED
    BY <2>1, <2>3, <2>4, <2>6, <2>8 DEF p, q, to
<1>12. g[LineCount + 1] = head \o f[NBytes]
  <2>1. LineCount \in T
    <3> HIDE DEF T
    <3> QED
      BY <1>7, <1>10, <1>11, Induction
  <2> QED
    BY <1>7, <2>1
<1>13. g[LineCount + 2] = (head \o f[NBytes]) \o (END \o EOL)
  <2>1. LineCount + 2 \in 1..Len(ss) /\ (LineCount + 2) - 1 = LineCount + 1
    BY <1>1, <1>7
  <2> QED
    BY <1>1, <1>2, <1>12, <2>1 DEF Accumulates
<1>14. Frame[image] = (((BEGIN \o EOL) \o f[NBytes]) \o END) \o EOL
  BY <1>6 DEF Frame, Core, Row, rows
<1>15. ((head \o f[NBytes]) \o END) \o EOL = (head \o f[NBytes]) \o (END \o EOL)
  <2> DEFINE u == head \o f[NBytes]
  <2>1. NBytes \in 0..NBytes
    BY <1>4
  <2>2. u \in Seq(Char)
    BY <1>8, <2>1
  <2> HIDE DEF u
  <2>3. (u \o END) \o EOL = u \o (END \o EOL)
    BY <1>8, <1>9, <2>2
  <2> QED
    BY <2>3 DEF u
<1> QED
  BY <1>3, <1>13, <1>14, <1>15 DEF head

-----------------------------------------------------------------------------
(* As many digits as an image has, found in its frame in this order, are the *)
(* digits of the image: none is missing, none is from elsewhere.             *)

LEMMA IncreasingIsIdentity ==
  ASSUME NEW n \in Nat, NEW f \in [1..n -> 1..n],
         \A k, l \in 1..n : k < l => f[k] < f[l]
  PROVE  \A k \in 1..n : f[k] = k
<1> DEFINE T == {k \in Nat : k + 1 <= n => f[k + 1] >= k + 1}
           U == {k \in Nat : k + 1 <= n => f[n - k] <= n - k}
<1>1. \A k \in Nat : k \in T
  <2>1. 0 \in T
    OBVIOUS
  <2>2. ASSUME NEW k \in Nat, k \in T PROVE k + 1 \in T
    <3> SUFFICES ASSUME (k + 1) + 1 <= n PROVE f[(k + 1) + 1] >= (k + 1) + 1
      OBVIOUS
    <3> DEFINE i == k + 1  j == (k + 1) + 1
    <3>1. i \in 1..n /\ j \in 1..n /\ i < j /\ f[i] >= i
      BY <2>2
    <3>2. f[i] < f[j] /\ f[i] \in 1..n /\ f[j] \in 1..n
      BY <3>1
    <3> QED
      BY <3>1, <3>2
  <2> HIDE DEF T
  <2> QED
    BY <2>1, <2>2, Induction
<1>2. \A k \in Nat : k \in U
  <2>1. 0 \in U
    OBVIOUS
  <2>2. ASSUME NEW k \in Nat, k \in U PROVE k + 1 \in U
    <3> SUFFICES ASSUME (k + 1) + 1 <= n PROVE f[n - (k + 1)] <= n - (k + 1)
      OBVIOUS
    <3> DEFINE i == n - (k + 1)  j == n - k
    <3>1. i \in 1..n /\ j \in 1..n /\ i < j /\ f[j] <= j /\ j = i + 1
      BY <2>2
    <3>2. f[i] < f[j] /\ f[i] \in 1..n /\ f[j] \in 1..n
      BY <3>1
    <3> QED
      BY <3>1, <3>2
  <2> HIDE DEF U
  <2> QED
    BY <2>1, <2>2, Induction
<1> TAKE k \in 1..n
<1>3. k - 1 \in T /\ n - k \in U /\ (k - 1) + 1 = k /\ n - (n - k) = k
  <2>1. k - 1 \in Nat /\ n - k \in Nat /\ (k - 1) + 1 = k /\ n - (n - k) = k
    OBVIOUS
  <2> HIDE DEF T, U
  <2> QED
    BY <1>1, <1>2, <2>1
<1>4. f[k] >= k /\ f[k] <= k /\ f[k] \in 1..n
  BY <1>3
<1> QED
  BY <1>4

LEMMA DigitsOfFrame ==
  ASSUME NEW image \in Images,
         NEW b, \A d \in 1..(2 * NBytes) : b[d] \in Digit,
         NEW g \in [1..(2 * NBytes) -> Nat],
         \A d \in 1..(2 * NBytes) :
           g[d] > Len(BEGIN) /\ g[d] <= Len(BEGIN) + Len(Between(image)),
         \A d \in 1..(2 * NBytes) : Frame[image][g[d]] = b[d],
         \A d, e \in 1..(2 * NBytes) : d < e => g[d] < g[e]
  PROVE  \A d \in 1..(2 * NBytes) : b[d] = HexOf(Between(image))[d]
<1> DEFINE n == 2 * NBytes  mid == Between(image)  fr == Frame[image]  h == HexOf(mid)
           lb == Len(BEGIN)
<1>1. n \in Nat /\ lb \in Nat
  BY SizeAssumption, MarkerFacts
<1>2. mid \in Seq(Middle) /\ Len(mid) \in Nat /\ Len(h) = n /\ h \in Seq(Middle)
  BY BetweenSpells DEF Spells
<1>3. fr \in Seq(Char) /\ Marked(fr, mid, EOL)
  BY FrameText
<1>4. PICK P : Places(mid, P)
  BY <1>2, HexPlaces
<1> HIDE DEF n, mid, fr, lb
<1>5. DOMAIN mid = 1..Len(mid) /\ DOMAIN h = 1..n
  BY <1>2
<1>6. /\ P \in [1..n -> 1..Len(mid)]
      /\ \A d \in 1..n : h[d] = mid[P[d]]
      /\ \A d, e \in 1..n : d < e => P[d] < P[e]
      /\ \A i \in 1..Len(mid) : mid[i] \notin Space => \E d \in 1..n : P[d] = i
  <2> HIDE DEF h
  <2> QED
    BY <1>4, <1>5 DEF Places, h
<1> HIDE DEF h
<1>7. /\ \A d \in 1..n : b[d] \in Digit /\ fr[g[d]] = b[d]
      /\ \A d \in 1..n : g[d] \in Nat /\ g[d] > lb /\ g[d] <= lb + Len(mid)
      /\ \A d, e \in 1..n : d < e => g[d] < g[e]
  BY DEF n, fr, lb, mid
<1>8. \A k \in 1..Len(mid) : fr[lb + k] = mid[k]
  BY <1>3, Zenon DEF Marked, lb
<1>9. \A d \in 1..n : \E c \in 1..n : lb + P[c] = g[d] /\ h[c] = b[d]
  <2> TAKE d \in 1..n
  <2> DEFINE k == g[d] - lb
  <2>1. k \in 1..Len(mid) /\ g[d] = lb + k
    <3>1. g[d] \in Nat /\ g[d] > lb /\ g[d] <= lb + Len(mid)
      BY <1>7
    <3> QED
      BY <1>1, <1>2, <3>1, SMTT(30)
  <2> HIDE DEF k
  <2>2. mid[k] = b[d] /\ b[d] \notin Space
    <3>1. fr[lb + k] = mid[k] /\ fr[g[d]] = b[d] /\ b[d] \in Digit
      BY <1>7, <1>8, <2>1
    <3> QED
      BY <2>1, <3>1, CharFacts
  <2>3. PICK c \in 1..n : P[c] = k
    BY <1>6, <2>1, <2>2
  <2> QED
    BY <1>6, <2>1, <2>2, <2>3
<1> DEFINE f == [d \in 1..n |-> CHOOSE c \in 1..n : lb + P[c] = g[d] /\ h[c] = b[d]]
<1>10. \A d \in 1..n : f[d] \in 1..n /\ lb + P[f[d]] = g[d] /\ h[f[d]] = b[d]
  BY <1>9
<1>11. f \in [1..n -> 1..n]
  BY <1>10
<1> HIDE DEF f
<1>12. \A d, e \in 1..n : d < e => f[d] < f[e]
  <2> TAKE d, e \in 1..n
  <2> HAVE d < e
  <2>1. g[d] < g[e] /\ g[d] = lb + P[f[d]] /\ g[e] = lb + P[f[e]]
    BY <1>7, <1>10
  <2>2. f[d] \in 1..n /\ f[e] \in 1..n /\ P[f[d]] \in Nat /\ P[f[e]] \in Nat
    BY <1>6, <1>10
  <2>3. P[f[d]] < P[f[e]]
    <3> DEFINE x == P[f[d]]  y == P[f[e]]
    <3> HIDE DEF x, y
    <3>1. lb + x < lb + y /\ x \in Nat /\ y \in Nat
      BY <2>1, <2>2 DEF x, y
    <3>2. x < y
      BY <1>1, <3>1
    <3> QED
      BY <3>2 DEF x, y
  <2>4. f[e] < f[d] => P[f[e]] < P[f[d]]
    BY <1>6, <2>2
  <2> QED
    BY <2>2, <2>3, <2>4
<1>13. \A d \in 1..n : f[d] = d
  BY <1>1, <1>11, <1>12, IncreasingIsIdentity
<1> QED
  BY <1>10, <1>13 DEF n, h, mid

\* Increasing numbers above a bound grow at least as fast as their places.
LEMMA IncreasingGrows ==
  ASSUME NEW n \in Nat, NEW f \in [1..n -> Nat], NEW a \in Nat,
         \A k, l \in 1..n : k < l => f[k] < f[l],
         \A k \in 1..n : f[k] > a
  PROVE  \A k \in 1..n : f[k] >= a + k
<1> DEFINE T == {k \in Nat : k + 1 <= n => f[k + 1] >= a + (k + 1)}
<1>1. 0 \in T
  OBVIOUS
<1>2. ASSUME NEW k \in Nat, k \in T PROVE k + 1 \in T
  <2> SUFFICES ASSUME (k + 1) + 1 <= n PROVE f[(k + 1) + 1] >= a + ((k + 1) + 1)
    OBVIOUS
  <2> DEFINE i == k + 1  j == (k + 1) + 1
  <2>1. i \in 1..n /\ j \in 1..n /\ i < j /\ f[i] >= a + i
    BY <1>2
  <2>2. f[i] < f[j] /\ f[i] \in Nat /\ f[j] \in Nat
    BY <2>1
  <2> QED
    BY <2>1, <2>2
<1> TAKE k \in 1..n
<1>3. k - 1 \in T /\ (k - 1) + 1 = k
  <2>1. k - 1 \in Nat /\ (k - 1) + 1 = k
    OBVIOUS
  <2> HIDE DEF T
  <2> QED
    BY <1>1, <1>2, <2>1, Induction
<1> QED
  BY <1>3
=============================================================================
