---------------------------- MODULE DataInduction ----------------------------
(***************************************************************************)
(* Induction over numbers for the proofs of this directory.  What is to be *)
(* shown is the set of the numbers for which it holds, not an operator, so *)
(* that the provers can instantiate it; a recursive function is defined by *)
(* a step that is a function too.  Then \o and FlattenSeq, for any pieces. *)
(***************************************************************************)
EXTENDS Integers, Sequences, SequencesExt, WellFoundedInduction, TLAPS

\* Every set of naturals that has a member has a least one.
LEMMA LeastNumber ==
  ASSUME NEW T, T \subseteq Nat, T # {}
  PROVE  \E m \in T : \A k \in T : m <= k
<1> DEFINE R == {p \in Nat \X Nat : p[1] < p[2]}
<1>1. IsWellFoundedOn(R, Nat)
  BY NatLessThanWellFounded DEF OpToRel
<1>2. \A k, m \in Nat : <<k, m>> \in R <=> k < m
  OBVIOUS
<1> HIDE DEF R
<1>3. PICK m \in T : \A k \in T : <<k, m>> \notin R
  BY <1>1, WFMin
<1>4. \A k \in T : ~(k < m) /\ k \in Nat /\ m \in Nat
  BY <1>2, <1>3
<1>5. \A k \in T : m <= k
  BY <1>4
<1> QED
  BY <1>5

LEMMA Induction ==
  ASSUME NEW T, 0 \in T, \A n \in Nat : n \in T => n + 1 \in T
  PROVE  \A n \in Nat : n \in T
<1> SUFFICES ASSUME Nat \ T # {} PROVE FALSE
  OBVIOUS
<1>1. PICK m \in Nat \ T : \A k \in Nat \ T : m <= k
  <2>1. Nat \ T \subseteq Nat
    OBVIOUS
  <2> QED
    BY <2>1, LeastNumber
<1>2. m # 0 /\ m - 1 \in Nat /\ m - 1 \in T
  BY <1>1
<1> QED
  BY <1>1, <1>2

\* A recursion over 0..n has a solution.
LEMMA Recursion ==
  ASSUME NEW S, NEW c \in S, NEW n \in Nat, NEW step \in [1..n -> [S -> S]]
  PROVE  \E f \in [0..n -> S] : f[0] = c /\ \A k \in 1..n : f[k] = step[k][f[k - 1]]
<1> DEFINE Solves(m, f) ==
             /\ f \in [0..m -> S]
             /\ \A k \in 0..m : f[k] = IF k = 0 THEN c ELSE step[k][f[k - 1]]
           T == {m \in Nat : m <= n => \E f : Solves(m, f)}
<1>1. 0 \in T
  <2>1. Solves(0, [k \in 0..0 |-> c])
    OBVIOUS
  <2> QED
    BY <2>1
<1>2. ASSUME NEW m \in Nat, m \in T PROVE m + 1 \in T
  <2> SUFFICES ASSUME m + 1 <= n PROVE \E f : Solves(m + 1, f)
    OBVIOUS
  <2>1. PICK f : Solves(m, f)
    BY <1>2
  <2> DEFINE g == [k \in 0..(m + 1) |-> IF k = m + 1 THEN step[m + 1][f[m]] ELSE f[k]]
  <2>2. g \in [0..(m + 1) -> S]
    BY <2>1
  <2>3. ASSUME NEW k \in 0..(m + 1)
        PROVE g[k] = IF k = 0 THEN c ELSE step[k][g[k - 1]]
    <3>1. CASE k = m + 1
      <4>1. g[k] = step[k][f[k - 1]]
        BY <3>1
      <4>2. k - 1 \in 0..(m + 1) /\ k - 1 # m + 1 /\ k # 0
        BY <3>1
      <4> QED
        BY <4>1, <4>2
    <3>2. CASE k # m + 1
      <4>1. k \in 0..m /\ g[k] = f[k]
        BY <3>2
      <4>2. k # 0 => k - 1 \in 0..m /\ g[k - 1] = f[k - 1]
        BY <4>1
      <4> HIDE DEF g
      <4> QED
        BY <2>1, <4>1, <4>2
    <3> QED
      BY <3>1, <3>2
  <2> HIDE DEF g
  <2> QED
    BY <2>2, <2>3
<1>3. n \in T
  <2> HIDE DEF T
  <2> QED
    BY <1>1, <1>2, Induction
<1>4. PICK f : Solves(n, f)
  BY <1>3
<1>5. f[0] = c /\ \A k \in 1..n : f[k] = step[k][f[k - 1]]
  BY <1>4
<1> QED
  BY <1>4, <1>5

-----------------------------------------------------------------------------
(* One sequence after another. *)

LEMMA ConcatFacts ==
  ASSUME NEW S, NEW a \in Seq(S), NEW b \in Seq(S)
  PROVE  /\ a \o b \in Seq(S) /\ Len(a \o b) = Len(a) + Len(b)
         /\ \A k \in 1..Len(a) : (a \o b)[k] = a[k]
OBVIOUS

LEMMA ConcatRight ==
  ASSUME NEW S, NEW a \in Seq(S), NEW b \in Seq(S), NEW k \in 1..Len(b)
  PROVE  (a \o b)[Len(a) + k] = b[k]
OBVIOUS

LEMMA JoinFacts ==
  ASSUME NEW S, NEW a \in Seq(S), NEW b \in Seq(S), NEW c, c = a \o b
  PROVE  /\ c \in Seq(S) /\ Len(c) = Len(a) + Len(b) /\ Len(a) \in Nat /\ Len(b) \in Nat
         /\ \A k \in 1..Len(a) : c[k] = a[k]
         /\ \A k \in 1..Len(b) : c[Len(a) + k] = b[k]
BY ConcatFacts, ConcatRight

-----------------------------------------------------------------------------
(* FlattenSeq: its prefixes, its type, and one more piece. *)

Accumulates(f, ss) == f[0] = <<>> /\ \A i \in 1..Len(ss) : f[i] = f[i - 1] \o ss[i]

LEMMA FlattenPrefixes ==
  ASSUME NEW S, NEW ss \in Seq(Seq(S))
  PROVE  \E f \in [0..Len(ss) -> Seq(S)] : Accumulates(f, ss)
<1> DEFINE n == Len(ss)  E == Seq(S)  none == <<>>
           step == [k \in 1..n |-> [v \in E |-> v \o ss[k]]]
<1>1. step \in [1..n -> [E -> E]] /\ n \in Nat /\ none \in E
  OBVIOUS
<1>2. \A k \in 1..n, v \in E : step[k][v] = v \o ss[k]
  OBVIOUS
<1> HIDE DEF step, n, E, none
<1>3. PICK f \in [0..n -> E] :
        f[0] = none /\ \A k \in 1..n : f[k] = step[k][f[k - 1]]
  BY <1>1, Recursion, SMTT(30)
<1>4. f[0] = none
  BY <1>3
<1>5. ASSUME NEW i \in 1..n PROVE f[i] = f[i - 1] \o ss[i]
  <2>1. i \in 0..n /\ i # 0 /\ i - 1 \in 0..n /\ f[i - 1] \in E
    BY <1>1
  <2>2. f[i] = step[i][f[i - 1]]
    BY <1>3, <2>1
  <2> QED
    BY <1>2, <2>1, <2>2
<1> QED
  BY <1>4, <1>5 DEF Accumulates, n, E, none

LEMMA FlattenIsPrefix ==
  ASSUME NEW S, NEW ss \in Seq(Seq(S)), NEW f \in [0..Len(ss) -> Seq(S)], Accumulates(f, ss)
  PROVE  FlattenSeq(ss) = f[Len(ss)]
<1> DEFINE n == Len(ss)
<1>1. n \in Nat
  OBVIOUS
<1>2. CASE n = 0
  <2>1. ss = <<>>
    BY <1>2
  <2> QED
    BY <1>2, <2>1 DEF FlattenSeq, Accumulates
<1>3. CASE n # 0
  <2> DEFINE F == CHOOSE g : g = [i \in 1..n |-> IF i = 1 THEN ss[i] ELSE g[i - 1] \o ss[i]]
  <2>1. FlattenSeq(ss) = F[n]
    BY <1>3 DEF FlattenSeq
  <2> DEFINE h == [i \in 1..n |-> f[i]]
  <2>2. h = [i \in 1..n |-> IF i = 1 THEN ss[i] ELSE h[i - 1] \o ss[i]]
    <3>1. ASSUME NEW i \in 1..n, i # 1 PROVE f[i] = h[i - 1] \o ss[i]
      <4>1. i - 1 \in 1..n
        BY <1>1, <3>1
      <4> QED
        BY <3>1, <4>1 DEF Accumulates
    <3>2. f[1] = ss[1]
      <4>1. 1 \in 1..n /\ 1 - 1 = 0 /\ ss[1] \in Seq(S)
        BY <1>1, <1>3
      <4>2. f[1] = f[0] \o ss[1] /\ f[0] = <<>>
        BY <4>1 DEF Accumulates
      <4> QED
        BY <4>1, <4>2
    <3> QED
      BY <3>1, <3>2
  <2>3. F = [i \in 1..n |-> IF i = 1 THEN ss[i] ELSE F[i - 1] \o ss[i]]
    <3> HIDE DEF h
    <3> QED
      BY <2>2, Zenon
  <2>4. \A i \in 1..n : F[i] = IF i = 1 THEN ss[i] ELSE F[i - 1] \o ss[i]
    <3> HIDE DEF F
    <3> QED
      BY <2>3, Zenon
  <2> HIDE DEF F
  <2> DEFINE T == {k \in Nat : k + 1 <= n => F[k + 1] = f[k + 1]}
  <2>5. 0 \in T
    <3>1. 1 \in 1..n
      BY <1>1, <1>3
    <3>2. F[1] = ss[1]
      BY <2>4, <3>1, Zenon
    <3>3. h[1] = ss[1] /\ h[1] = f[1]
      <4>1. h[1] = f[1]
        BY <3>1, Zenon
      <4>2. h[1] = ss[1]
        <5> HIDE DEF h
        <5> QED
          BY <2>2, <3>1, Zenon
      <4> QED
        BY <4>1, <4>2
    <3> QED
      BY <3>2, <3>3
  <2>6. ASSUME NEW k \in Nat, k \in T PROVE k + 1 \in T
    <3> SUFFICES ASSUME k + 2 <= n PROVE F[k + 2] = f[k + 2]
      BY <2>6
    <3>1. F[k + 1] = f[k + 1]
      BY <1>1, <2>6
    <3>2. k + 2 \in 1..n /\ k + 2 # 1 /\ (k + 2) - 1 = k + 1
      BY <1>1
    <3>3. F[k + 2] = F[k + 1] \o ss[k + 2]
      <4> HIDE DEF n
      <4> QED
        BY <2>4, <3>2
    <3>4. f[k + 2] = f[k + 1] \o ss[k + 2]
      BY <3>2 DEF Accumulates
    <3> QED
      BY <3>1, <3>3, <3>4
  <2>7. n - 1 \in Nat /\ (n - 1) + 1 = n
    BY <1>1, <1>3
  <2>8. n - 1 \in T
    <3> HIDE DEF T, n
    <3> QED
      BY <2>5, <2>6, <2>7, Induction
  <2> QED
    BY <2>1, <2>7, <2>8
<1> QED
  BY <1>2, <1>3

LEMMA FlattenType ==
  ASSUME NEW S, NEW ss \in Seq(Seq(S))
  PROVE  FlattenSeq(ss) \in Seq(S)
<1>1. PICK f \in [0..Len(ss) -> Seq(S)] : Accumulates(f, ss)
  BY FlattenPrefixes
<1>2. FlattenSeq(ss) = f[Len(ss)] /\ Len(ss) \in 0..Len(ss)
  BY <1>1, FlattenIsPrefix
<1> QED
  BY <1>2

LEMMA FlattenEmpty == FlattenSeq(<<>>) = <<>>
BY DEF FlattenSeq

LEMMA FlattenAppend ==
  ASSUME NEW S, NEW ss \in Seq(Seq(S)), NEW t \in Seq(S)
  PROVE  FlattenSeq(Append(ss, t)) = FlattenSeq(ss) \o t
<1> DEFINE n == Len(ss)  tt == Append(ss, t)
<1>1. /\ n \in Nat /\ tt \in Seq(Seq(S)) /\ Len(tt) = n + 1 /\ tt[n + 1] = t
      /\ \A i \in 1..n : tt[i] = ss[i]
  OBVIOUS
<1> HIDE DEF tt
<1>2. PICK f \in [0..(n + 1) -> Seq(S)] : Accumulates(f, tt)
  BY <1>1, FlattenPrefixes
<1>3. FlattenSeq(tt) = f[n + 1]
  BY <1>1, <1>2, FlattenIsPrefix
<1>4. f[n + 1] = f[n] \o t
  <2>1. n + 1 \in 1..Len(tt) /\ (n + 1) - 1 = n
    BY <1>1
  <2> QED
    BY <1>1, <1>2, <2>1 DEF Accumulates
<1> DEFINE g == [i \in 0..n |-> f[i]]
<1>5. g \in [0..n -> Seq(S)] /\ Accumulates(g, ss)
  <2>1. g \in [0..n -> Seq(S)] /\ g[0] = <<>>
    BY <1>1, <1>2 DEF Accumulates
  <2>2. ASSUME NEW i \in 1..n PROVE g[i] = g[i - 1] \o ss[i]
    <3>1. i \in 0..n /\ i - 1 \in 0..n /\ i \in 1..Len(tt)
      BY <1>1
    <3>2. f[i] = f[i - 1] \o ss[i]
      BY <1>1, <1>2, <3>1 DEF Accumulates
    <3> QED
      BY <3>1, <3>2
  <2> QED
    BY <2>1, <2>2 DEF Accumulates
<1>6. FlattenSeq(ss) = g[n] /\ g[n] = f[n]
  <2>1. g[n] = f[n]
    BY <1>1
  <2> HIDE DEF g
  <2> QED
    BY <1>5, <2>1, FlattenIsPrefix
<1> QED
  BY <1>3, <1>4, <1>6 DEF tt
=============================================================================
