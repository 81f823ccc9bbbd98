---------------------------- MODULE Crypto_proofs ----------------------------
(***************************************************************************)
(* What Crypto's conversions keep, for every byte base, every text and     *)
(* every length: base64 gives back what it was given, also through mail    *)
(* that breaks lines, and no text that lost its end; so do tokens and      *)
(* request blobs.  The laws of sequences and numbers they rest on come     *)
(* first, among them induction, with the set of what has a property in     *)
(* place of the property.                                                  *)
(***************************************************************************)
EXTENDS Crypto, FiniteSetTheorems, WellFoundedInduction, SequenceTheorems, TLAPS

-----------------------------------------------------------------------------
(* Induction and sequences.                                                *)

\* The least number of a set is in it and below all of it.
LEMMA Smallest ==
    ASSUME NEW S \in SUBSET Nat, S # {}
    PROVE  Min(S) \in S /\ \A n \in S : Min(S) <= n
<1> DEFINE R == OpToRel(<, Nat)
<1>1. IsWellFoundedOn(R, Nat)
  BY NatLessThanWellFounded
<1>2. \A x, y \in Nat : x < y => <<x, y>> \in R
  BY DEF OpToRel
<1> HIDE DEF R
<1>3. PICK x \in S : \A y \in S : ~(<<y, x>> \in R)
  BY <1>1, WFMin
<1>4. ASSUME NEW y \in S PROVE x <= y
  <2>1. x \in Nat /\ y \in Nat
    OBVIOUS
  <2>2. ~(y < x)
    BY <1>2, <1>3, <2>1, Zenon
  <2> QED
    BY <2>1, <2>2
<1> QED
  BY <1>4 DEF Min

\* Induction over the naturals.
LEMMA Induction ==
    ASSUME NEW S, 0 \in S, \A n \in Nat : n \in S => n + 1 \in S
    PROVE  \A n \in Nat : n \in S
<1> DEFINE T == Nat \ S
<1> SUFFICES ASSUME T # {} PROVE FALSE
  OBVIOUS
<1>1. PICK m : m = Min(T)
  OBVIOUS
<1>2. m \in T /\ \A n \in T : m <= n
  BY <1>1, Smallest
<1>3. m \in Nat /\ m # 0 /\ m - 1 \in Nat
  BY <1>2
<1>4. m - 1 \in S
  BY <1>2, <1>3
<1>5. m - 1 + 1 \in S /\ m - 1 + 1 = m
  BY <1>3, <1>4
<1> QED
  BY <1>2, <1>5

-----------------------------------------------------------------------------
(* Sequences.                                                              *)

\* What stands where in two sequences one behind the other.
LEMMA Concatenated ==
    ASSUME NEW S, NEW s \in Seq(S), NEW t \in Seq(S), NEW n, n = Len(s), NEW m, m = Len(t),
           NEW w, w = s \o t
    PROVE  /\ n \in Nat /\ m \in Nat /\ w \in Seq(S) /\ n + m = Len(w)
           /\ \A k \in 1..n : w[k] = s[k]
           /\ \A k \in 1..m : w[n + k] = t[k]
  OBVIOUS

\* The elements of a sequence are in its set.
LEMMA Elements ==
    ASSUME NEW S, NEW s \in Seq(S)
    PROVE  Len(s) \in Nat /\ \A k \in 1..Len(s) : s[k] \in S
  OBVIOUS

\* What stands where in the beginning of a sequence.
LEMMA Cut ==
    ASSUME NEW S, NEW s \in Seq(S), NEW m \in 0..Len(s)
    PROVE  /\ SubSeq(s, 1, m) \in Seq(S) /\ Len(SubSeq(s, 1, m)) = m
           /\ \A k \in 1..m : SubSeq(s, 1, m)[k] = s[k]
<1>1. \A i \in 1..m : s[i] \in S
  OBVIOUS
<1>2. m \in Int /\ 1 \in Int
  OBVIOUS
<1> QED
  BY <1>1, <1>2, SubSeqProperties

\* The beginning of a sequence that is one longer has one element more.
LEMMA OneLonger ==
    ASSUME NEW S, NEW s \in Seq(S), NEW m \in Nat, m + 1 <= Len(s)
    PROVE  /\ SubSeq(s, 1, m) \in Seq(S) /\ s[m + 1] \in S
           /\ SubSeq(s, 1, m + 1) = Append(SubSeq(s, 1, m), s[m + 1])
<1> DEFINE a == SubSeq(s, 1, m)
           b == SubSeq(s, 1, m + 1)
<1>1. m \in 0..Len(s) /\ m + 1 \in 0..Len(s) /\ m + 1 \in 1..Len(s)
  OBVIOUS
<1>2. a \in Seq(S) /\ Len(a) = m /\ \A k \in 1..m : a[k] = s[k]
  BY <1>1, Cut
<1>3. b \in Seq(S) /\ Len(b) = m + 1 /\ \A k \in 1..m + 1 : b[k] = s[k]
  BY <1>1, Cut
<1>4. s[m + 1] \in S
  BY <1>1, Elements
<1> HIDE DEF a, b
<1>5. PICK c : c = Append(a, s[m + 1])
  OBVIOUS
<1>6. /\ c \in Seq(S) /\ Len(c) = m + 1
      /\ \A k \in 1..m : c[k] = a[k]
      /\ c[m + 1] = s[m + 1]
  BY <1>2, <1>4, <1>5, AppendProperties
<1>7. \A k \in 1..m + 1 : b[k] = c[k]
  BY <1>2, <1>3, <1>6
<1>8. b = c
  BY <1>3, <1>6, <1>7, SeqEqual
<1> QED
  BY <1>2, <1>4, <1>5, <1>8 DEF a, b

\* The beginning that is all.
LEMMA Whole ==
    ASSUME NEW S, NEW s \in Seq(S)
    PROVE  SubSeq(s, 1, Len(s)) = s /\ SubSeq(s, 1, 0) = <<>>
<1>1. Len(s) \in Nat /\ Len(s) \in 0..Len(s) /\ 0 \in 0..Len(s)
  OBVIOUS
<1>2. /\ SubSeq(s, 1, Len(s)) \in Seq(S) /\ Len(SubSeq(s, 1, Len(s))) = Len(s)
      /\ \A k \in 1..Len(s) : SubSeq(s, 1, Len(s))[k] = s[k]
  BY <1>1, Cut
<1>3. SubSeq(s, 1, 0) \in Seq(S) /\ Len(SubSeq(s, 1, 0)) = 0
  BY <1>1, Cut
<1>4. SubSeq(s, 1, Len(s)) = s
  BY <1>2, SeqEqual
<1>5. SubSeq(s, 1, 0) = <<>>
  BY <1>3, EmptySeq
<1> QED
  BY <1>4, <1>5

\* Induction over sequences, an element at the end at a time.
LEMMA SequenceInduction ==
    ASSUME NEW T, NEW S, <<>> \in S,
           \A s \in Seq(T) : \A x \in T : s \in S => Append(s, x) \in S
    PROVE  \A s \in Seq(T) : s \in S
<1> DEFINE N == {n \in Nat : \A s \in Seq(T) : Len(s) = n => s \in S}
<1>1. 0 \in N
  BY EmptySeq
<1>2. ASSUME NEW n \in Nat, n \in N PROVE n + 1 \in N
  <2> SUFFICES ASSUME NEW s \in Seq(T), Len(s) = n + 1 PROVE s \in S
    OBVIOUS
  <2>1. PICK b : b = SubSeq(s, 1, n)
    OBVIOUS
  <2>2. n \in 0..Len(s) /\ n + 1 <= Len(s)
    OBVIOUS
  <2>3. b \in Seq(T) /\ Len(b) = n
    BY <2>1, <2>2, Cut
  <2>4. s[n + 1] \in T /\ SubSeq(s, 1, n + 1) = Append(b, s[n + 1])
    BY <2>1, <2>2, OneLonger
  <2>5. SubSeq(s, 1, n + 1) = s
    BY Whole, Zenon
  <2>6. b \in S
    BY <1>2, <2>3
  <2>7. Append(b, s[n + 1]) \in S
    BY <2>3, <2>4, <2>6
  <2> QED
    BY <2>4, <2>5, <2>7, Zenon
<1> HIDE DEF N
<1>3. \A n \in Nat : n \in N
  BY <1>1, <1>2, Induction
<1>4. \A s \in Seq(T) : Len(s) \in Nat
  OBVIOUS
<1> QED
  BY <1>3, <1>4 DEF N

-----------------------------------------------------------------------------
(* FlattenSeq.                                                             *)

\* f[i] is the first i pieces of seqs one behind the other.
Flattens(f, seqs, n) ==
    f = [i \in 1..n |-> IF i = 1 THEN seqs[i] ELSE f[i - 1] \o seqs[i]]

\* Flattens, place by place.
LEMMA Flattening ==
    ASSUME NEW seqs, NEW n \in Nat, NEW f, Flattens(f, seqs, n), NEW i \in 1..n
    PROVE  f[i] = IF i = 1 THEN seqs[i] ELSE f[i - 1] \o seqs[i]
  BY DEF Flattens

\* There is such a function for every number of pieces.
LEMMA SomeFlattens ==
    ASSUME NEW seqs
    PROVE  \A n \in Nat : \E f : Flattens(f, seqs, n)
<1> DEFINE S == {n \in Nat : \E f : Flattens(f, seqs, n)}
<1>1. 0 \in S
  <2> DEFINE f == [i \in 1..0 |-> 0]
  <2>1. Flattens(f, seqs, 0)
    BY DEF Flattens
  <2> HIDE DEF f
  <2> QED
    BY <2>1
<1>2. ASSUME NEW n \in Nat, n \in S PROVE n + 1 \in S
  <2>1. PICK f : Flattens(f, seqs, n)
    BY <1>2
  <2> DEFINE last == IF n + 1 = 1 THEN seqs[n + 1] ELSE f[n] \o seqs[n + 1]
             g == [i \in 1..n + 1 |-> IF i = n + 1 THEN last ELSE f[i]]
             h == [i \in 1..n + 1 |-> IF i = 1 THEN seqs[i] ELSE g[i - 1] \o seqs[i]]
  <2>2. ASSUME NEW i \in 1..n + 1 PROVE g[i] = h[i]
    <3>1. CASE i = n + 1
      <4>1. n # 0 => g[i - 1] = f[n]
        BY <3>1
      <4> HIDE DEF g
      <4>2. g[i] = last
        BY <3>1 DEF g
      <4> QED
        BY <3>1, <4>1, <4>2
    <3>2. CASE i # n + 1
      <4>1. i \in 1..n /\ g[i] = f[i] /\ (i # 1 => g[i - 1] = f[i - 1])
        BY <3>2
      <4>2. f[i] = IF i = 1 THEN seqs[i] ELSE f[i - 1] \o seqs[i]
        BY <2>1, <4>1, Flattening
      <4> HIDE DEF g, last
      <4> QED
        BY <4>1, <4>2
    <3> QED
      BY <3>1, <3>2
  <2>3. g = h
    <3>1. DOMAIN g = 1..n + 1 /\ DOMAIN h = 1..n + 1
      OBVIOUS
    <3>2. g = [i \in 1..n + 1 |-> g[i]] /\ h = [i \in 1..n + 1 |-> h[i]]
      OBVIOUS
    <3> HIDE DEF g, h
    <3> QED
      BY <2>2, <3>2
  <2>4. Flattens(g, seqs, n + 1)
    BY <2>3 DEF Flattens
  <2> HIDE DEF g
  <2> QED
    BY <2>4
<1> HIDE DEF S
<1>3. \A n \in Nat : n \in S
  BY <1>1, <1>2, Induction
<1> QED
  BY <1>3 DEF S

Agree(s, t, n) == \A i \in 1..n : s[i] = t[i]

\* Where two sequences of pieces agree, so do their flattenings.
LEMMA SameFlattening ==
    ASSUME NEW s, NEW t, NEW n \in Nat, NEW m \in Nat, NEW f, NEW g,
           Flattens(f, s, n), Flattens(g, t, m), n <= m, Agree(s, t, n)
    PROVE  Agree(f, g, n)
<1> DEFINE S == {i \in Nat : i \in 1..n => f[i] = g[i]}
<1>1. 0 \in S
  OBVIOUS
<1>2. ASSUME NEW i \in Nat, i \in S PROVE i + 1 \in S
  <2> SUFFICES ASSUME i + 1 \in 1..n PROVE f[i + 1] = g[i + 1]
    OBVIOUS
  <2>1. f[i + 1] = IF i + 1 = 1 THEN s[i + 1] ELSE f[i + 1 - 1] \o s[i + 1]
    BY Flattening
  <2>2. g[i + 1] = IF i + 1 = 1 THEN t[i + 1] ELSE g[i + 1 - 1] \o t[i + 1]
    <3>1. i + 1 \in 1..m
      OBVIOUS
    <3> QED
      BY <3>1, Flattening
  <2>3. s[i + 1] = t[i + 1] /\ i + 1 - 1 = i
    BY DEF Agree
  <2>4. i + 1 # 1 => f[i] = g[i]
    BY <1>2
  <2> QED
    BY <2>1, <2>2, <2>3, <2>4
<1> HIDE DEF S
<1>3. \A i \in Nat : i \in S
  BY <1>1, <1>2, Induction
<1> QED
  BY <1>3 DEF S, Agree

\* What FlattenSeq of some pieces is.
LEMMA FlattenIs ==
    ASSUME NEW seqs, Len(seqs) \in Nat, Len(seqs) # 0
    PROVE  \E f : Flattens(f, seqs, Len(seqs)) /\ FlattenSeq(seqs) = f[Len(seqs)]
<1> DEFINE f == CHOOSE g : Flattens(g, seqs, Len(seqs))
<1>1. FlattenSeq(seqs) = f[Len(seqs)]
  BY DEF FlattenSeq, Flattens
<1>2. Flattens(f, seqs, Len(seqs))
  BY SomeFlattens
<1> HIDE DEF f
<1> QED
  BY <1>1, <1>2

\* No pieces are nothing.
LEMMA FlattenNone == FlattenSeq(<<>>) = <<>>
  BY DEF FlattenSeq

\* A piece more stands behind what the others are.
LEMMA FlattenStep ==
    ASSUME NEW T, NEW s \in Seq(Seq(T)), NEW x \in Seq(T)
    PROVE  FlattenSeq(Append(s, x)) = FlattenSeq(s) \o x
<1> DEFINE a == Append(s, x)
<1>1. PICK n : n = Len(s)
  OBVIOUS
<1>2. /\ n \in Nat /\ Len(a) = n + 1 /\ a[n + 1] = x /\ \A i \in 1..n : a[i] = s[i]
  BY <1>1, AppendProperties
<1> HIDE DEF a
<1>3. PICK g : Flattens(g, a, n + 1) /\ FlattenSeq(a) = g[n + 1]
  BY <1>2, FlattenIs
<1>4. g[n + 1] = IF n + 1 = 1 THEN a[n + 1] ELSE g[n + 1 - 1] \o a[n + 1]
  BY <1>2, <1>3, Flattening
<1>5. CASE n = 0
  <2>1. s = <<>>
    BY <1>1, <1>5, EmptySeq
  <2>2. FlattenSeq(s) \o x = x
    BY <2>1, FlattenNone, ConcatEmptySeq
  <2> QED
    BY <1>2, <1>3, <1>4, <1>5, <2>2 DEF a
<1>6. CASE n # 0
  <2>1. PICK f : Flattens(f, s, n) /\ FlattenSeq(s) = f[n]
    BY <1>1, <1>2, <1>6, FlattenIs
  <2>2. n + 1 \in Nat /\ n <= n + 1 /\ Agree(s, a, n)
    BY <1>2 DEF Agree
  <2>3. Agree(f, g, n)
    <3>1. PICK m : m = n + 1
      OBVIOUS
    <3>2. n \in Nat /\ m \in Nat /\ n <= m
      BY <1>2, <3>1
    <3>3. Flattens(f, s, n) /\ Flattens(g, a, m)
      BY <1>3, <2>1, <3>1, Zenon
    <3> QED
      BY <2>2, <3>2, <3>3, SameFlattening, Zenon
  <2>4. f[n] = g[n] /\ n + 1 - 1 = n /\ n + 1 # 1
    BY <1>2, <1>6, <2>3 DEF Agree
  <2> QED
    BY <1>2, <1>3, <1>4, <2>1, <2>4, Zenon DEF a
<1> QED
  BY <1>5, <1>6

\* Pieces of some kind make a sequence of that kind.
LEMMA FlattenType ==
    ASSUME NEW T, NEW s \in Seq(Seq(T))
    PROVE  FlattenSeq(s) \in Seq(T)
<1> DEFINE S == {r \in Seq(Seq(T)) : FlattenSeq(r) \in Seq(T)}
<1>1. <<>> \in S
  <2>1. <<>> \in Seq(Seq(T)) /\ <<>> \in Seq(T)
    OBVIOUS
  <2> QED
    BY <2>1, FlattenNone, Zenon
<1>2. ASSUME NEW r \in Seq(Seq(T)), NEW x \in Seq(T), r \in S PROVE Append(r, x) \in S
  BY <1>2, FlattenStep, ConcatProperties, AppendProperties
<1> HIDE DEF S
<1>3. s \in S
  BY <1>1, <1>2, SequenceInduction
<1> QED
  BY <1>3 DEF S

\* The pieces of two sequences one behind the other.
LEMMA FlattenCat ==
    ASSUME NEW T, NEW s \in Seq(Seq(T)), NEW t \in Seq(Seq(T))
    PROVE  FlattenSeq(s \o t) = FlattenSeq(s) \o FlattenSeq(t)
<1> DEFINE S == {r \in Seq(Seq(T)) : FlattenSeq(s \o r) = FlattenSeq(s) \o FlattenSeq(r)}
<1>1. PICK p : p = FlattenSeq(s)
  OBVIOUS
<1>2. p \in Seq(T)
  BY <1>1, FlattenType
<1>3. <<>> \in S
  <2>1. s \o <<>> = s /\ p \o <<>> = p
    BY <1>2, ConcatEmptySeq
  <2>2. <<>> \in Seq(Seq(T))
    OBVIOUS
  <2> QED
    BY <1>1, <2>1, <2>2, FlattenNone, Zenon
<1>6. ASSUME NEW a \in Seq(T), NEW b \in Seq(T), NEW c \in Seq(T)
      PROVE  (a \o b) \o c = a \o (b \o c)
  <2> HIDE DEF S
  <2> QED
    OBVIOUS
<1>4. ASSUME NEW r \in Seq(Seq(T)), NEW x \in Seq(T), r \in S PROVE Append(r, x) \in S
  <2>1. PICK q : q = FlattenSeq(r)
    OBVIOUS
  <2>2. q \in Seq(T) /\ FlattenSeq(Append(r, x)) = q \o x
    BY <2>1, FlattenType, FlattenStep
  <2>3. s \o Append(r, x) = Append(s \o r, x) /\ s \o r \in Seq(Seq(T))
    OBVIOUS
  <2>4. FlattenSeq(Append(s \o r, x)) = FlattenSeq(s \o r) \o x
    BY <2>3, FlattenStep
  <2>5. FlattenSeq(s \o r) = p \o q
    BY <1>1, <1>4, <2>1
  <2>6. (p \o q) \o x = p \o (q \o x)
    <3>1. p \in Seq(T) /\ q \in Seq(T) /\ x \in Seq(T)
      BY <1>2, <2>2
    <3> QED
      BY <1>6, <3>1, Zenon
  <2>7. FlattenSeq(s \o Append(r, x)) = FlattenSeq(s) \o FlattenSeq(Append(r, x))
    BY <1>1, <2>2, <2>3, <2>4, <2>5, <2>6, Zenon
  <2>8. Append(r, x) \in Seq(Seq(T))
    OBVIOUS
  <2> QED
    BY <2>7, <2>8, Zenon
<1> HIDE DEF S
<1>5. t \in S
  BY <1>3, <1>4, SequenceInduction
<1> QED
  BY <1>5 DEF S

-----------------------------------------------------------------------------
(* What mail does to letters.                                              *)

\* What is left of one letter.
Left(c) == IF c = Blank THEN <<>> ELSE <<c>>

\* What is left of each letter.
Lefts(chars) == [n \in 1..Len(chars) |-> Left(chars[n])]

\* Stripped, in these terms.
LEMMA StrippedIs == ASSUME NEW chars PROVE Stripped(chars) = FlattenSeq(Lefts(chars))
  BY DEF Stripped, Lefts, Left

\* Lefts has a sequence for each letter, without blanks.
LEMMA LeftsType ==
    ASSUME NEW T, NEW s \in Seq(T)
    PROVE  /\ Lefts(s) \in Seq(Seq(T \ {Blank})) /\ Len(Lefts(s)) = Len(s)
           /\ \A n \in 1..Len(s) : Lefts(s)[n] = Left(s[n])
<1>1. ASSUME NEW n \in 1..Len(s) PROVE Left(s[n]) \in Seq(T \ {Blank})
  <2>1. s[n] \in T
    BY Elements
  <2>2. CASE s[n] = Blank
    BY <2>2 DEF Left
  <2>3. CASE s[n] # Blank
    <3>1. <<s[n]>> \in Seq(T \ {Blank})
      BY <2>1, <2>3
    <3> QED
      BY <2>3, <3>1 DEF Left
  <2> QED
    BY <2>2, <2>3
<1>2. Len(s) \in Nat
  OBVIOUS
<1> QED
  BY <1>1, <1>2 DEF Lefts

\* Lefts of two sequences one behind the other.
LEMMA LeftsCat ==
    ASSUME NEW T, NEW s \in Seq(T), NEW t \in Seq(T)
    PROVE  Lefts(s \o t) = Lefts(s) \o Lefts(t)
<1> DEFINE S == Seq(T \ {Blank})
<1>1. PICK w : w = s \o t
  OBVIOUS
<1>2. PICK n, m : n = Len(s) /\ m = Len(t)
  OBVIOUS
<1>3. /\ n \in Nat /\ m \in Nat /\ w \in Seq(T) /\ n + m = Len(w)
      /\ \A k \in 1..n : w[k] = s[k]
      /\ \A k \in 1..m : w[n + k] = t[k]
  BY <1>1, <1>2, Concatenated
<1>4. PICK a, b, c : a = Lefts(s) /\ b = Lefts(t) /\ c = Lefts(w)
  OBVIOUS
<1>5. /\ a \in Seq(S) /\ Len(a) = n /\ \A k \in 1..n : a[k] = Left(s[k])
      /\ b \in Seq(S) /\ Len(b) = m /\ \A k \in 1..m : b[k] = Left(t[k])
      /\ c \in Seq(S) /\ Len(c) = n + m /\ \A k \in 1..n + m : c[k] = Left(w[k])
  <2>1. a \in Seq(S) /\ Len(a) = n /\ \A k \in 1..n : a[k] = Left(s[k])
    BY <1>2, <1>4, LeftsType
  <2>2. b \in Seq(S) /\ Len(b) = m /\ \A k \in 1..m : b[k] = Left(t[k])
    BY <1>2, <1>4, LeftsType
  <2>3. c \in Seq(S) /\ Len(c) = n + m /\ \A k \in 1..n + m : c[k] = Left(w[k])
    BY <1>3, <1>4, LeftsType
  <2> QED
    BY <2>1, <2>2, <2>3
<1> HIDE DEF S
<1>6. PICK d : d = a \o b
  OBVIOUS
<1>7. /\ d \in Seq(S) /\ n + m = Len(d)
      /\ \A k \in 1..n : d[k] = a[k]
      /\ \A k \in 1..m : d[n + k] = b[k]
  <2>1. n = Len(a) /\ m = Len(b) /\ a \in Seq(S) /\ b \in Seq(S)
    BY <1>5
  <2> QED
    BY <1>6, <2>1, Concatenated
<1>8. ASSUME NEW k \in 1..n + m PROVE c[k] = d[k]
  <2>1. CASE k \in 1..n
    BY <1>3, <1>5, <1>7, <2>1
  <2>2. CASE k \notin 1..n
    <3>1. PICK j : j = k - n
      OBVIOUS
    <3>2. j \in 1..m /\ k = n + j
      BY <1>3, <2>2, <3>1
    <3>3. w[k] = t[j] /\ d[k] = b[j]
      BY <1>3, <1>7, <3>2
    <3>4. c[k] = Left(w[k]) /\ b[j] = Left(t[j])
      BY <1>5, <3>2
    <3> QED
      BY <3>3, <3>4, Zenon
  <2> QED
    BY <2>1, <2>2
<1>9. c = d
  BY <1>5, <1>7, <1>8, SeqEqual
<1> QED
  BY <1>1, <1>4, <1>6, <1>9, Zenon

\* What is left has no blanks and nothing that was not there.
LEMMA StrippedType ==
    ASSUME NEW T, NEW s \in Seq(T)
    PROVE  Stripped(s) \in Seq(T \ {Blank})
  BY LeftsType, FlattenType, StrippedIs

\* What is left of two texts one behind the other.
LEMMA StrippedCat ==
    ASSUME NEW T, NEW s \in Seq(T), NEW t \in Seq(T)
    PROVE  Stripped(s \o t) = Stripped(s) \o Stripped(t)
<1>1. Lefts(s) \in Seq(Seq(T \ {Blank})) /\ Lefts(t) \in Seq(Seq(T \ {Blank}))
  BY LeftsType
<1>2. FlattenSeq(Lefts(s) \o Lefts(t)) = FlattenSeq(Lefts(s)) \o FlattenSeq(Lefts(t))
  BY <1>1, FlattenCat
<1>3. Lefts(s \o t) = Lefts(s) \o Lefts(t)
  BY LeftsCat
<1> QED
  BY <1>2, <1>3, StrippedIs, Zenon

\* What is left of a letter and of none.
LEMMA StrippedOne == ASSUME NEW c PROVE Stripped(<<c>>) = Left(c) /\ Stripped(<<>>) = <<>>
<1>1. Lefts(<<>>) = <<>>
  BY DEF Lefts
<1>2. Left(c) \in Seq({c})
  <2>1. <<>> \in Seq({c}) /\ <<c>> \in Seq({c})
    OBVIOUS
  <2> QED
    BY <2>1, Zenon DEF Left
<1>3. Lefts(<<c>>) = Append(<<>>, Left(c))
  <2>1. PICK s : s = <<c>>
    OBVIOUS
  <2>2. s \in Seq({c}) /\ Len(s) = 1 /\ s[1] = c
    BY <2>1
  <2>3. PICK a : a = Lefts(s)
    OBVIOUS
  <2>4. a \in Seq(Seq({c} \ {Blank})) /\ Len(a) = 1 /\ a[1] = Left(c)
    <3>1. 1 \in 1..Len(s)
      BY <2>2
    <3> QED
      BY <2>2, <2>3, <3>1, LeftsType
  <2>5. a = <<Left(c)>>
    BY <2>4
  <2> QED
    BY <2>1, <2>3, <2>5
<1>4. FlattenSeq(Append(<<>>, Left(c))) = FlattenSeq(<<>>) \o Left(c)
  <2>1. <<>> \in Seq(Seq({c}))
    OBVIOUS
  <2> QED
    BY <1>2, <2>1, FlattenStep
<1>5. <<>> \o Left(c) = Left(c)
  BY <1>2, ConcatEmptySeq
<1> QED
  BY <1>1, <1>3, <1>4, <1>5, FlattenNone, StrippedIs, Zenon

\* A letter more.
LEMMA StrippedStep ==
    ASSUME NEW T, NEW s \in Seq(T), NEW c \in T
    PROVE  Stripped(Append(s, c)) = Stripped(s) \o Left(c)
<1>1. <<c>> \in Seq(T) /\ Append(s, c) = s \o <<c>>
  OBVIOUS
<1>2. Stripped(s \o <<c>>) = Stripped(s) \o Stripped(<<c>>)
  BY <1>1, StrippedCat
<1> QED
  BY <1>1, <1>2, StrippedOne, Zenon

\* Where there are no blanks nothing is taken out.
LEMMA StrippedClean ==
    ASSUME NEW T, Blank \notin T, NEW s \in Seq(T)
    PROVE  Stripped(s) = s
<1> DEFINE S == {r \in Seq(T) : Stripped(r) = r}
<1>1. <<>> \in S
  <2>1. <<>> \in Seq(T)
    OBVIOUS
  <2> QED
    BY <2>1, StrippedOne, Zenon
<1>2. ASSUME NEW r \in Seq(T), NEW x \in T, r \in S PROVE Append(r, x) \in S
  <2>1. Stripped(Append(r, x)) = r \o <<x>>
    BY <1>2, StrippedStep DEF Left
  <2>2. Append(r, x) = r \o <<x>> /\ Append(r, x) \in Seq(T)
    OBVIOUS
  <2> QED
    BY <2>1, <2>2, Zenon
<1> HIDE DEF S
<1>3. s \in S
  BY <1>1, <1>2, SequenceInduction
<1> QED
  BY <1>3 DEF S

-----------------------------------------------------------------------------
(* Numbers in digits.                                                      *)

\* A number written as quotient and remainder has them.
LEMMA Remainder ==
    ASSUME NEW m \in Nat, NEW q \in Int, NEW r \in Nat, r < m, NEW n, n = q * m + r
    PROVE  n \div m = q /\ n % m = r
<1> DEFINE a == n \div m
           b == n % m
<1>1. q * m \in Int /\ n \in Int /\ m > 0
  OBVIOUS
<1>2. a \in Int /\ b \in Nat /\ b < m /\ n = a * m + b
  BY <1>1
<1> HIDE DEF a, b
<1>3. a * m + b = q * m + r
  BY <1>2
<1>4. (a - q) * m = r - b
  BY <1>2, <1>3
<1>5. a = q
  <2>1. ASSUME a - q >= 1 PROVE FALSE
    <3>1. (a - q) * m >= m
      BY <1>1, <1>2, <2>1
    <3> QED
      BY <1>1, <1>2, <1>4, <3>1
  <2>2. ASSUME a - q <= -1 PROVE FALSE
    <3>1. (q - a) * m >= m
      BY <1>1, <1>2, <2>2
    <3>2. (q - a) * m = b - r
      BY <1>2, <1>3
    <3> QED
      BY <1>1, <1>2, <3>1, <3>2
  <2> QED
    BY <1>2, <2>1, <2>2
<1>6. b = r
  BY <1>2, <1>3, <1>5
<1> QED
  BY <1>5, <1>6 DEF a, b

\* The same for a quotient that is a natural number.
LEMMA Quotient ==
    ASSUME NEW m \in Nat, NEW q \in Nat, NEW r \in Nat, r < m, NEW n, n = q * m + r
    PROVE  n \div m = q /\ n % m = r
<1>1. q \in Int
  OBVIOUS
<1> QED
  BY <1>1, Remainder, Zenon

\* A number below a product has a quotient below one factor.
LEMMA Split ==
    ASSUME NEW m \in Nat, NEW k \in Nat, NEW n \in Nat, n < k * m
    PROVE  \E q \in 0..k - 1, r \in 0..m - 1 : n = q * m + r
<1>1. m > 0
  BY SMT
<1> DEFINE q == n \div m
           r == n % m
<1>2. q \in Int /\ r \in 0..m - 1 /\ n = q * m + r
  BY <1>1
<1>3. q >= 0
  BY <1>1, <1>2
<1> HIDE DEF q, r
<1>4. q < k
  <2> SUFFICES ASSUME q >= k PROVE FALSE
    BY <1>2
  <2>1. q * m >= k * m
    BY <1>1, <1>2
  <2>2. q * m \in Int /\ k * m \in Int
    BY <1>2
  <2> QED
    BY <1>2, <2>1, <2>2
<1> QED
  BY <1>2, <1>3, <1>4

\* Three bytes of four digits are four letters of three.
LEMMA Regroup ==
    ASSUME NEW d \in Nat, NEW e, e = d * d, NEW l1 \in Nat, NEW x \in Nat, NEW y \in Nat,
           NEW z \in Nat, NEW w \in Nat, NEW l4 \in Nat
    PROVE  ((l1 * d + x) * (e * e) + (y * e + z)) * (e * e) + (w * (e * d) + l4)
             = ((l1 * (e * d) + (x * e + y)) * (e * d) + (z * d + w)) * (e * d) + l4
  OBVIOUS

-----------------------------------------------------------------------------
(* A group of letters.                                                     *)

\* How many values a letter and a byte have.
LEMMA Bases ==
    /\ CharBase \in Nat /\ CharBase > 1 /\ ByteBase \in Nat /\ ByteBase > 1
    /\ \E d \in Nat, e \in Nat : e = d * d /\ CharBase = e * d /\ ByteBase = e * e
<1>1. PICK d \in 2..CharBase : CharBase = d * d * d /\ ByteBase = CharBase * d
  BY BaseAssumption
<1>2. CharBase \in Nat /\ d \in Nat /\ d >= 2
  BY BaseAssumption
<1>3. PICK e : e = d * d
  OBVIOUS
<1>4. e \in Nat /\ CharBase = e * d /\ ByteBase = e * e
  BY <1>1, <1>2, <1>3
<1>5. CharBase > 1
  BY <1>2
<1> QED
  BY <1>2, <1>3, <1>4, <1>5, ByteBaseAssumption

\* The values of letters and of bytes.
Sextets == 0..CharBase - 1
Octets == 0..ByteBase - 1

\* The number that three bytes stand for.
Number(b1, b2, b3) == (b1 * ByteBase + b2) * ByteBase + b3

\* Four letters for three bytes.
HasLetters(b1, b2, b3) ==
    \E l1, l2, l3, l4 \in Sextets :
        /\ Number(b1, b2, b3) = ((l1 * CharBase + l2) * CharBase + l3) * CharBase + l4
        /\ b3 = 0 => l4 = 0
        /\ b2 = 0 /\ b3 = 0 => l3 = 0

\* Three bytes have four letters; missing bytes are zeros, and so are the
\* letters that stand for nothing else.
LEMMA Letters4 ==
    ASSUME NEW b1 \in Octets, NEW b2 \in Octets, NEW b3 \in Octets
    PROVE  HasLetters(b1, b2, b3)
<1>1. PICK d \in Nat, e \in Nat : e = d * d /\ CharBase = e * d /\ ByteBase = e * e
  BY Bases
<1>2. PICK l1 \in 0..CharBase - 1, x \in 0..d - 1 : b1 = l1 * d + x
  <2>1. b1 \in Nat /\ b1 < CharBase * d /\ CharBase \in Nat
    BY <1>1, Bases DEF Octets
  <2> QED
    BY <2>1, Split, Zenon
<1>3. PICK y \in 0..e - 1, z \in 0..e - 1 : b2 = y * e + z
  <2>1. b2 \in Nat /\ b2 < e * e
    BY <1>1 DEF Octets
  <2> QED
    BY <2>1, Split
<1>4. PICK w \in 0..d - 1, l4 \in 0..CharBase - 1 : b3 = w * CharBase + l4
  <2>1. b3 \in Nat /\ b3 < d * CharBase /\ CharBase \in Nat
    BY <1>1, Bases DEF Octets
  <2> QED
    BY <2>1, Split, Zenon
<1>5. PICK l2, l3 : l2 = x * e + y /\ l3 = z * d + w
  OBVIOUS
<1>6. l2 \in Sextets
  <2>1. x * e <= (d - 1) * e
    BY <1>1
  <2>2. (d - 1) * e = CharBase - e
    BY <1>1
  <2>3. x * e \in Nat
    BY <1>1
  <2> QED
    BY <1>1, <1>5, <2>1, <2>2, <2>3, Bases DEF Sextets
<1>7. l3 \in Sextets
  <2>1. z * d <= (e - 1) * d
    BY <1>1
  <2>2. (e - 1) * d = CharBase - d
    BY <1>1
  <2>3. z * d \in Nat
    BY <1>1
  <2> QED
    BY <1>1, <1>5, <2>1, <2>2, <2>3, Bases DEF Sextets
<1>8. Number(b1, b2, b3) = ((l1 * CharBase + l2) * CharBase + l3) * CharBase + l4
  <2>1. /\ l1 \in Nat /\ x \in Nat /\ y \in Nat /\ z \in Nat /\ w \in Nat /\ l4 \in Nat
    OBVIOUS
  <2>2. ((l1 * d + x) * (e * e) + (y * e + z)) * (e * e) + (w * (e * d) + l4)
          = ((l1 * (e * d) + (x * e + y)) * (e * d) + (z * d + w)) * (e * d) + l4
    BY <1>1, <2>1, Regroup
  <2> QED
    BY <1>1, <1>2, <1>3, <1>4, <1>5, <2>2, Zenon DEF Number
<1>9. ASSUME b3 = 0 PROVE w = 0 /\ l4 = 0
  <2>1. CharBase \in Nat /\ CharBase > 1
    BY Bases
  <2>2. w * CharBase \in Nat
    BY <2>1
  <2>3. w * CharBase = 0 /\ l4 = 0
    BY <1>4, <1>9, <2>2
  <2>4. w >= 1 => w * CharBase >= CharBase
    BY <2>1
  <2> QED
    BY <2>1, <2>3, <2>4
<1>10. ASSUME b2 = 0 PROVE z = 0
  <2>1. y * e \in Nat /\ z \in Nat
    OBVIOUS
  <2> QED
    BY <1>3, <1>10, <2>1
<1>11. b2 = 0 /\ b3 = 0 => l3 = 0
  BY <1>5, <1>9, <1>10
<1>12. l1 \in Sextets /\ l4 \in Sextets
  BY DEF Sextets
<1> QED
  BY <1>6, <1>7, <1>8, <1>9, <1>11, <1>12 DEF HasLetters

\* The letters of a number, as EncodeGroup takes them out.
LEMMA LettersOut ==
    ASSUME NEW l1 \in Sextets, NEW l2 \in Sextets, NEW l3 \in Sextets, NEW l4 \in Sextets,
           NEW v, v = ((l1 * CharBase + l2) * CharBase + l3) * CharBase + l4
    PROVE  /\ (v \div (CharBase * CharBase * CharBase)) % CharBase = l1
           /\ (v \div (CharBase * CharBase)) % CharBase = l2
           /\ (v \div CharBase) % CharBase = l3
           /\ (v \div 1) % CharBase = l4
<1>1. PICK c \in Nat : c = CharBase /\ c > 1
  BY Bases
<1>2. l1 \in 0..c - 1 /\ l2 \in 0..c - 1 /\ l3 \in 0..c - 1 /\ l4 \in 0..c - 1
  BY <1>1 DEF Sextets
<1>3. PICK c2 \in Nat, c3 \in Nat : c2 = c * c /\ c3 = c * c * c
  BY <1>1
<1>4. PICK u, t : u = l1 * c + l2 /\ t = u * c + l3
  OBVIOUS
<1>5. u \in Nat /\ t \in Nat /\ v = t * c + l4 /\ v \in Nat
  BY <1>1, <1>2, <1>4
<1>13. /\ l1 \in Nat /\ l2 \in Nat /\ l2 < c /\ l3 \in Nat /\ l3 < c
       /\ l4 \in Nat /\ l4 < c
  BY <1>1, <1>2
<1>6. v \div c = t /\ v % c = l4
  <2>1. c \in Nat /\ t \in Nat /\ l4 \in Nat /\ l4 < c /\ v = t * c + l4
    BY <1>1, <1>5, <1>13, Zenon
  <2> QED
    BY <2>1, Quotient, Zenon
<1>7. t % c = l3
  <2>1. c \in Nat /\ u \in Nat /\ l3 \in Nat /\ l3 < c /\ t = u * c + l3
    BY <1>1, <1>4, <1>5, <1>13, Zenon
  <2> QED
    BY <2>1, Quotient, Zenon
<1>8. v \div c2 = u
  <2>1. v = u * c2 + (l3 * c + l4)
    BY <1>2, <1>3, <1>4, <1>5
  <2>2. l3 * c + l4 \in Nat /\ l3 * c + l4 < c2
    <3>1. l3 * c <= (c - 1) * c
      BY <1>1, <1>2
    <3>2. (c - 1) * c = c2 - c /\ l3 * c \in Nat
      BY <1>1, <1>2, <1>3
    <3> QED
      BY <1>1, <1>2, <3>1, <3>2
  <2> QED
    BY <1>5, <2>1, <2>2, Quotient, Zenon
<1>9. u % c = l2
  BY <1>4, <1>13, Quotient, Zenon
<1>10. v \div c3 = l1
  <2>1. v = l1 * c3 + (l2 * c2 + (l3 * c + l4))
    BY <1>2, <1>3, <1>4, <1>5
  <2>2. l2 * c2 + (l3 * c + l4) \in Nat /\ l2 * c2 + (l3 * c + l4) < c3
    <3>1. l3 * c <= (c - 1) * c
      BY <1>1, <1>2
    <3>2. (c - 1) * c = c2 - c /\ l3 * c \in Nat
      BY <1>1, <1>2, <1>3
    <3>3. l2 * c2 <= (c - 1) * c2
      BY <1>1, <1>2, <1>3
    <3>4. (c - 1) * c2 = c3 - c2 /\ l2 * c2 \in Nat
      BY <1>1, <1>2, <1>3
    <3> QED
      BY <1>1, <1>2, <1>3, <3>1, <3>2, <3>3, <3>4
  <2> QED
    <3>1. PICK r : r = l2 * c2 + (l3 * c + l4)
      OBVIOUS
    <3>2. r \in Nat /\ r < c3 /\ v = l1 * c3 + r
      BY <2>1, <2>2, <3>1, Zenon
    <3> QED
      BY <1>13, <3>2, Quotient, Zenon
<1>11. l1 % c = l1
  BY <1>1, <1>2
<1>12. v \div 1 = v
  BY <1>5
<1> QED
  BY <1>1, <1>3, <1>6, <1>7, <1>8, <1>9, <1>10, <1>11, <1>12, Zenon

\* The bytes of a number, as DecodeGroup takes them out.
LEMMA BytesOut ==
    ASSUME NEW b1 \in Octets, NEW b2 \in Octets, NEW b3 \in Octets,
           NEW v, v = Number(b1, b2, b3)
    PROVE  /\ v \div (ByteBase * ByteBase) = b1
           /\ (v \div ByteBase) % ByteBase = b2
           /\ v % ByteBase = b3
<1>1. PICK c \in Nat : c = ByteBase /\ c > 1
  BY Bases
<1>2. b1 \in 0..c - 1 /\ b2 \in 0..c - 1 /\ b3 \in 0..c - 1
  BY <1>1 DEF Octets
<1>3. PICK c2 \in Nat : c2 = c * c
  BY <1>1
<1>4. PICK u : u = b1 * c + b2
  OBVIOUS
<1>5. u \in Nat /\ v = u * c + b3 /\ v \in Nat
  <2>1. u \in Nat
    BY <1>1, <1>2, <1>4
  <2>2. v = u * c + b3
    BY <1>1, <1>4 DEF Number
  <2> QED
    BY <1>1, <1>2, <2>1, <2>2
<1>9. b1 \in Nat /\ b2 \in Nat /\ b2 < c /\ b3 \in Nat /\ b3 < c
  BY <1>1, <1>2
<1>6. v \div c = u /\ v % c = b3
  BY <1>5, <1>9, Quotient, Zenon
<1>7. u % c = b2
  BY <1>4, <1>9, Quotient, Zenon
<1>8. v \div c2 = b1
  <2>1. v = b1 * c2 + (b2 * c + b3)
    BY <1>2, <1>3, <1>4, <1>5
  <2>2. b2 * c + b3 \in Nat /\ b2 * c + b3 < c2
    <3>1. b2 * c <= (c - 1) * c
      BY <1>1, <1>2
    <3>2. (c - 1) * c = c2 - c /\ b2 * c \in Nat
      BY <1>1, <1>2, <1>3
    <3> QED
      BY <1>1, <1>2, <3>1, <3>2
  <2> QED
    BY <1>9, <2>1, <2>2, Quotient, Zenon
<1> QED
  BY <1>1, <1>3, <1>6, <1>7, <1>8, Zenon

\* What a group of letters is made of: letters and padding.
Chars == 0..Pad

\* Tuples one behind the other.
LEMMA Tuples ==
    ASSUME NEW S, NEW a \in S, NEW b \in S, NEW c \in S
    PROVE  <<a>> \o <<b>> = <<a, b>> /\ <<a, b>> \o <<c>> = <<a, b, c>>
<1>1. PICK w : w = <<a>> \o <<b>>
  OBVIOUS
<1>2. w \in Seq(S) /\ Len(w) = 2 /\ w[1] = a /\ w[2] = b
  BY <1>1
<1>3. w = <<a, b>>
  BY <1>2
<1>4. PICK u, x, y : x = <<a, b>> /\ y = <<c>> /\ u = x \o y
  OBVIOUS
<1>5. /\ x \in Seq(S) /\ Len(x) = 2 /\ x[1] = a /\ x[2] = b
      /\ y \in Seq(S) /\ Len(y) = 1 /\ y[1] = c
  BY <1>4
<1>6. u \in Seq(S) /\ Len(u) = 3 /\ u[1] = a /\ u[2] = b /\ u[3] = c
  BY <1>4, <1>5
<1>7. u = <<a, b, c>>
  BY <1>6
<1> QED
  BY <1>1, <1>3, <1>4, <1>7, Zenon

\* The bytes of a group of n, with zeros for those that are missing.
Holds(g, n, b1, b2, b3) ==
    /\ g = IF n = 1 THEN <<b1>> ELSE IF n = 2 THEN <<b1, b2>> ELSE <<b1, b2, b3>>
    /\ n = 1 => b2 = 0
    /\ n # 3 => b3 = 0

\* A group holds one, two or three bytes.
LEMMA GroupHolds ==
    ASSUME NEW g \in Seq(Octets), NEW n \in 1..3, n = Len(g)
    PROVE  \E b1, b2, b3 \in Octets : Holds(g, n, b1, b2, b3)
<1>1. 0 \in Octets
  BY Bases DEF Octets
<1>2. \A k \in 1..n : g[k] \in Octets
  BY Elements
<1>3. CASE n = 1
  <2>1. g[1] \in Octets /\ g = <<g[1]>>
    <3>1. Len(g) = 1 /\ g[1] \in Octets
      BY <1>2, <1>3
    <3> QED
      BY <3>1
  <2>2. Holds(g, n, g[1], 0, 0)
    BY <1>3, <2>1 DEF Holds
  <2> QED
    BY <1>1, <2>1, <2>2
<1>4. CASE n = 2
  <2>1. g[1] \in Octets /\ g[2] \in Octets /\ g = <<g[1], g[2]>>
    <3>1. Len(g) = 2 /\ g[1] \in Octets /\ g[2] \in Octets
      BY <1>2, <1>4
    <3> QED
      BY <3>1
  <2>2. Holds(g, n, g[1], g[2], 0)
    BY <1>4, <2>1 DEF Holds
  <2> QED
    BY <1>1, <2>1, <2>2
<1>5. CASE n = 3
  <2>1. /\ g[1] \in Octets /\ g[2] \in Octets /\ g[3] \in Octets
        /\ g = <<g[1], g[2], g[3]>>
    <3>1. Len(g) = 3 /\ g[1] \in Octets /\ g[2] \in Octets /\ g[3] \in Octets
      BY <1>2, <1>5
    <3> QED
      BY <3>1
  <2>2. Holds(g, n, g[1], g[2], g[3])
    BY <1>5, <2>1 DEF Holds
  <2> QED
    BY <2>1, <2>2
<1> QED
  BY <1>3, <1>4, <1>5

\* The letters of a group of n, with padding for those that are missing.
Spells(e, n, l1, l2, l3, l4) ==
    e = <<l1, l2, IF n = 1 THEN Pad ELSE l3, IF n = 3 THEN l4 ELSE Pad>>

\* What EncodeGroup makes of a group.
LEMMA GroupSpelled ==
    ASSUME NEW g, NEW n \in 1..3, n = Len(g),
           NEW b1 \in Octets, NEW b2 \in Octets, NEW b3 \in Octets, Holds(g, n, b1, b2, b3),
           NEW l1 \in Sextets, NEW l2 \in Sextets, NEW l3 \in Sextets, NEW l4 \in Sextets,
           Number(b1, b2, b3) = ((l1 * CharBase + l2) * CharBase + l3) * CharBase + l4
    PROVE  Spells(EncodeGroup(g), n, l1, l2, l3, l4)
<1> DEFINE byte(k) == IF k <= Len(g) THEN g[k] ELSE 0
           place == <<CharBase * CharBase * CharBase, CharBase * CharBase, CharBase, 1>>
<1>1. byte(1) = b1 /\ byte(2) = b2 /\ byte(3) = b3
  <2>1. CASE n = 1
    <3>1. g = <<b1>> /\ b2 = 0 /\ b3 = 0 /\ Len(g) = 1
      BY <2>1 DEF Holds
    <3> QED
      BY <3>1
  <2>2. CASE n = 2
    <3>1. g = <<b1, b2>> /\ b3 = 0 /\ Len(g) = 2
      BY <2>2 DEF Holds
    <3> QED
      BY <3>1
  <2>3. CASE n = 3
    <3>1. g = <<b1, b2, b3>> /\ Len(g) = 3
      BY <2>3 DEF Holds
    <3> QED
      BY <3>1
  <2> QED
    BY <2>1, <2>2, <2>3
<1>2. PICK v : v = Number(b1, b2, b3)
  OBVIOUS
<1>3. EncodeGroup(g) = [k \in 1..4 |-> IF k <= n + 1 THEN (v \div place[k]) % CharBase ELSE Pad]
  BY <1>1, <1>2, Zenon DEF EncodeGroup, Number
<1>4. /\ (v \div (CharBase * CharBase * CharBase)) % CharBase = l1
      /\ (v \div (CharBase * CharBase)) % CharBase = l2
      /\ (v \div CharBase) % CharBase = l3
      /\ (v \div 1) % CharBase = l4
  BY <1>2, LettersOut
<1>5. /\ place[1] = CharBase * CharBase * CharBase /\ place[2] = CharBase * CharBase
      /\ place[3] = CharBase /\ place[4] = 1
  OBVIOUS
<1> DEFINE digit(k) == (v \div place[k]) % CharBase
<1>6. digit(1) = l1 /\ digit(2) = l2 /\ digit(3) = l3 /\ digit(4) = l4
  BY <1>4, <1>5, Zenon
<1>7. EncodeGroup(g) = [k \in 1..4 |-> IF k <= n + 1 THEN digit(k) ELSE Pad]
  BY <1>3, Zenon
<1> HIDE DEF digit
<1>8. PICK e : e = EncodeGroup(g)
  OBVIOUS
<1>9. /\ e[1] = l1 /\ e[2] = l2 /\ e[3] = (IF n = 1 THEN Pad ELSE l3)
      /\ e[4] = (IF n = 3 THEN l4 ELSE Pad) /\ Len(e) = 4 /\ e = [k \in 1..4 |-> e[k]]
  BY <1>6, <1>7, <1>8
<1>10. e = <<l1, l2, IF n = 1 THEN Pad ELSE l3, IF n = 3 THEN l4 ELSE Pad>>
  BY <1>9
<1> QED
  BY <1>8, <1>10, Zenon DEF Spells

\* What DecodeGroup makes of these letters.
LEMMA GroupRead ==
    ASSUME NEW e, NEW n \in 1..3, NEW g,
           NEW b1 \in Octets, NEW b2 \in Octets, NEW b3 \in Octets, Holds(g, n, b1, b2, b3),
           NEW l1 \in Sextets, NEW l2 \in Sextets, NEW l3 \in Sextets, NEW l4 \in Sextets,
           Number(b1, b2, b3) = ((l1 * CharBase + l2) * CharBase + l3) * CharBase + l4,
           n = 1 => l3 = 0, n # 3 => l4 = 0, Spells(e, n, l1, l2, l3, l4)
    PROVE  DecodeGroup(e) = g
<1> DEFINE letter(k) == IF e[k] = Pad THEN 0 ELSE e[k]
           u == ((letter(1) * CharBase + letter(2)) * CharBase + letter(3)) * CharBase + letter(4)
<1>1. l1 # Pad /\ l2 # Pad /\ l3 # Pad /\ l4 # Pad
  BY Bases DEF Sextets, Pad
<1>2. /\ e[1] = l1 /\ e[2] = l2 /\ e[3] = (IF n = 1 THEN Pad ELSE l3)
      /\ e[4] = (IF n = 3 THEN l4 ELSE Pad)
  BY DEF Spells
<1>3. letter(1) = l1 /\ letter(2) = l2 /\ letter(3) = l3 /\ letter(4) = l4
  BY <1>1, <1>2, Zenon
<1>4. u = Number(b1, b2, b3)
  BY <1>3, Zenon
<1>5. DecodeGroup(e) = <<u \div (ByteBase * ByteBase)>>
                       \o (IF e[3] # Pad THEN <<(u \div ByteBase) % ByteBase>> ELSE <<>>)
                       \o (IF e[4] # Pad THEN <<u % ByteBase>> ELSE <<>>)
  BY DEF DecodeGroup
<1> HIDE DEF u
<1>6. /\ u \div (ByteBase * ByteBase) = b1
      /\ (u \div ByteBase) % ByteBase = b2
      /\ u % ByteBase = b3
  BY <1>4, BytesOut
<1>7. DecodeGroup(e) = <<b1>> \o (IF n # 1 THEN <<b2>> ELSE <<>>)
                       \o (IF n = 3 THEN <<b3>> ELSE <<>>)
  <2>1. (e[3] # Pad <=> n # 1) /\ (e[4] # Pad <=> n = 3)
    BY <1>1, <1>2, Zenon
  <2> QED
    BY <1>5, <1>6, <2>1, Zenon
<1>8. /\ <<b1>> \o <<b2>> = <<b1, b2>> /\ <<b1, b2>> \o <<b3>> = <<b1, b2, b3>>
  BY Tuples
<1>9. <<b1>> \o <<>> = <<b1>> /\ <<b1, b2>> \o <<>> = <<b1, b2>>
  <2>1. <<b1>> \in Seq(Octets) /\ <<b1, b2>> \in Seq(Octets)
    OBVIOUS
  <2> QED
    BY <2>1, ConcatEmptySeq
<1>10. 1 # 3 /\ 2 # 3 /\ 2 # 1 /\ 3 # 1
  OBVIOUS
<1>11. CASE n = 1
  BY <1>7, <1>9, <1>10, <1>11, Zenon DEF Holds
<1>12. CASE n = 2
  BY <1>7, <1>8, <1>9, <1>10, <1>12, Zenon DEF Holds
<1>13. CASE n = 3
  BY <1>7, <1>8, <1>10, <1>13, Zenon DEF Holds
<1> QED
  BY <1>11, <1>12, <1>13

\* A group of up to three bytes has four letters, and they give it back.
LEMMA GroupBack ==
    ASSUME NEW g \in Seq(Octets), Len(g) \in 1..3
    PROVE  /\ EncodeGroup(g) \in Seq(Chars) /\ Len(EncodeGroup(g)) = 4
           /\ DecodeGroup(EncodeGroup(g)) = g
<1>1. PICK n \in 1..3 : n = Len(g)
  OBVIOUS
<1>2. PICK b1, b2, b3 \in Octets : Holds(g, n, b1, b2, b3)
  BY <1>1, GroupHolds
<1>3. PICK l1, l2, l3, l4 \in Sextets :
          /\ Number(b1, b2, b3) = ((l1 * CharBase + l2) * CharBase + l3) * CharBase + l4
          /\ b3 = 0 => l4 = 0
          /\ b2 = 0 /\ b3 = 0 => l3 = 0
  <2>1. HasLetters(b1, b2, b3)
    BY Letters4
  <2> QED
    BY <2>1 DEF HasLetters
<1>4. PICK e : e = EncodeGroup(g)
  OBVIOUS
<1>5. Spells(e, n, l1, l2, l3, l4)
  BY <1>1, <1>2, <1>3, <1>4, GroupSpelled
<1>6. DecodeGroup(e) = g
  <2>1. (n = 1 => n # 3) /\ (n = 1 => l3 = 0) /\ (n # 3 => l4 = 0)
    BY <1>2, <1>3 DEF Holds
  <2> QED
    BY <1>2, <1>3, <1>5, <2>1, GroupRead
<1>7. e \in Seq(Chars) /\ Len(e) = 4
  <2>1. l1 \in Chars /\ l2 \in Chars /\ l3 \in Chars /\ l4 \in Chars /\ Pad \in Chars
    BY Bases DEF Sextets, Chars, Pad
  <2> QED
    BY <1>5, <2>1 DEF Spells
<1> QED
  BY <1>4, <1>6, <1>7, Zenon

-----------------------------------------------------------------------------
(* Base64 group by group.                                                  *)

\* g is the m letters of s from position n on, up to size.
Reads(g, s, n, m, size) ==
    m \in 1..size /\ Len(g) = m /\ \A k \in 1..m : g[k] = s[n + k - 1]

\* What stands in a group.
LEMMA GroupIs ==
    ASSUME NEW T, NEW s \in Seq(T), NEW n \in 1..Len(s), NEW size \in Nat, size >= 1,
           NEW m, m = (IF n + size - 1 < Len(s) THEN size ELSE Len(s) - n + 1),
           NEW g, g = Group(s, n, size)
    PROVE  g \in Seq(T) /\ Reads(g, s, n, m, size)
<1>1. PICK e : e = IF n + size - 1 < Len(s) THEN n + size - 1 ELSE Len(s)
  OBVIOUS
<1>2. n \in Int /\ e \in Int /\ n <= e /\ e <= Len(s) /\ m = e - n + 1 /\ m \in 1..size
  BY <1>1
<1>3. \A i \in n..e : s[i] \in T
  BY <1>2, Elements
<1>4. g = SubSeq(s, n, e)
  BY <1>1, Zenon DEF Group
<1>5. /\ SubSeq(s, n, e) \in Seq(T)
      /\ Len(SubSeq(s, n, e)) = IF n <= e THEN e - n + 1 ELSE 0
      /\ \A i \in 1..e - n + 1 : SubSeq(s, n, e)[i] = s[n + i - 1]
  BY <1>2, <1>3, SubSeqProperties
<1>6. g \in Seq(T) /\ Len(g) = m
  BY <1>2, <1>4, <1>5, Zenon
<1>7. \A i \in 1..m : g[i] = s[n + i - 1]
  BY <1>2, <1>4, <1>5, Zenon
<1> QED
  BY <1>2, <1>6, <1>7 DEF Reads

\* Sequences of four.
Fours(T) == {q \in Seq(T) : Len(q) = 4}

\* What stands where when pieces of four stand one behind the other.
FourByFour(p) ==
    /\ Len(FlattenSeq(p)) = 4 * Len(p)
    /\ \A i \in 1..Len(p) : \A k \in 1..4 : FlattenSeq(p)[4 * (i - 1) + k] = p[i][k]

\* u is a text of l letters and behind it one of f.
Behind(u, w, l, x, f) ==
    /\ u = w \o x /\ l = Len(w) /\ f = Len(x) /\ l + f = Len(u)
    /\ \A k \in 1..l : u[k] = w[k]
    /\ \A k \in 1..f : u[l + k] = x[k]

\* Two texts one behind the other stand as Behind has it.
LEMMA BehindIs ==
    ASSUME NEW T, NEW w \in Seq(T), NEW x \in Seq(T)
    PROVE  Behind(w \o x, w, Len(w), x, Len(x)) /\ w \o x \in Seq(T)
<1>1. PICK u, l, f : u = w \o x /\ l = Len(w) /\ f = Len(x)
  OBVIOUS
<1>2. Behind(u, w, l, x, f) /\ u \in Seq(T)
  BY <1>1, Concatenated DEF Behind
<1> QED
  BY <1>1, <1>2, Zenon

\* Pieces of four letters make a text in which each stands at a multiple of four.
LEMMA FlattenFours ==
    ASSUME NEW T, NEW p \in Seq(Fours(T))
    PROVE  p \in Seq(Seq(T)) /\ FlattenSeq(p) \in Seq(T) /\ FourByFour(p)
<1> DEFINE S == {r \in Seq(Fours(T)) : FourByFour(r)}
<1>1. \A r \in Seq(Fours(T)) : r \in Seq(Seq(T))
  BY DEF Fours
<1>2. \A r \in Seq(Fours(T)) : FlattenSeq(r) \in Seq(T)
  BY <1>1, FlattenType
<1>3. <<>> \in S
  <2>1. <<>> \in Seq(Fours(T)) /\ Len(<<>>) = 0
    OBVIOUS
  <2>2. FourByFour(<<>>)
    BY <2>1, FlattenNone DEF FourByFour
  <2> QED
    BY <2>1, <2>2
<1>4. ASSUME NEW r \in Seq(Fours(T)), NEW x \in Fours(T), r \in S PROVE Append(r, x) \in S
  <2>1. PICK a, w, u, n : a = Append(r, x) /\ w = FlattenSeq(r) /\ u = FlattenSeq(a) /\ n = Len(r)
    OBVIOUS
  <2>2. /\ n \in Nat /\ a \in Seq(Fours(T)) /\ Len(a) = n + 1
        /\ a[n + 1] = x /\ \A i \in 1..n : a[i] = r[i]
    BY <2>1, AppendProperties
  <2>3. x \in Seq(T) /\ Len(x) = 4
    BY DEF Fours
  <2>4. u = w \o x
    <3>1. r \in Seq(Seq(T))
      BY <1>1
    <3> QED
      BY <2>1, <2>3, <3>1, FlattenStep, Zenon
  <2>5. w \in Seq(T) /\ Len(w) = 4 * n
    BY <1>2, <1>4, <2>1 DEF FourByFour
  <2>6. \A i \in 1..n : \A k \in 1..4 : w[4 * (i - 1) + k] = r[i][k]
    BY <1>4, <2>1 DEF FourByFour
  <2> HIDE DEF S
  <2>7. PICK l, f : l = 4 * n /\ f = 4
    OBVIOUS
  <2>8. /\ l + f = Len(u)
        /\ \A k \in 1..l : u[k] = w[k]
        /\ \A k \in 1..f : u[l + k] = x[k]
    <3>1. Behind(u, w, Len(w), x, Len(x))
      BY <2>3, <2>4, <2>5, BehindIs, Zenon
    <3>2. Behind(u, w, l, x, f)
      BY <2>3, <2>5, <2>7, <3>1, Zenon
    <3> QED
      BY <3>2 DEF Behind
  <2>9. Len(u) = 4 * (n + 1)
    BY <2>2, <2>7, <2>8
  <2>10. ASSUME NEW i \in 1..n + 1, NEW k \in 1..4 PROVE u[4 * (i - 1) + k] = a[i][k]
    <3>1. CASE i = n + 1
      <4>1. PICK j : j = 4 * (i - 1) + k
        OBVIOUS
      <4>2. k \in 1..f /\ j = l + k
        BY <2>2, <2>7, <3>1, <4>1
      <4>3. u[j] = x[k] /\ a[i] = x
        BY <2>2, <2>8, <3>1, <4>2
      <4> QED
        BY <4>1, <4>3, Zenon
    <3>2. CASE i # n + 1
      <4>1. i \in 1..n
        BY <2>2, <3>2
      <4>2. PICK j : j = 4 * (i - 1) + k
        OBVIOUS
      <4>3. j \in 1..l
        BY <2>2, <2>7, <4>1, <4>2
      <4>4. u[j] = w[j] /\ a[i] = r[i]
        BY <2>2, <2>8, <4>1, <4>3
      <4>5. w[j] = r[i][k]
        BY <2>6, <4>1, <4>2, Zenon
      <4> QED
        BY <4>2, <4>4, <4>5, Zenon
    <3> QED
      BY <3>1, <3>2
  <2>11. FourByFour(a)
    <3>1. Len(FlattenSeq(a)) = 4 * Len(a)
      BY <2>1, <2>2, <2>9, Zenon
    <3>2. \A i \in 1..Len(a) : \A k \in 1..4 : FlattenSeq(a)[4 * (i - 1) + k] = a[i][k]
      BY <2>1, <2>2, <2>10, Zenon
    <3> QED
      BY <3>1, <3>2, Zenon DEF FourByFour
  <2> QED
    BY <2>1, <2>2, <2>11, Zenon DEF S
<1> HIDE DEF S
<1>5. p \in S
  BY <1>3, <1>4, SequenceInduction
<1> QED
  BY <1>1, <1>2, <1>5 DEF S

\* How many groups of three there are, and the i-th.
Count(s) == (Len(s) + 2) \div 3
Piece(s, i) == Group(s, 3 * (i - 1) + 1, 3)

\* How much of s the first j groups are.
Upto(s, j) == IF 3 * j < Len(s) THEN 3 * j ELSE Len(s)

\* How many groups of three a text has.
LEMMA Counted ==
    ASSUME NEW T, NEW s \in Seq(T)
    PROVE  /\ Len(s) \in Nat /\ Count(s) \in Nat /\ 3 * Count(s) >= Len(s)
           /\ 3 * Count(s) <= Len(s) + 2
           /\ (Len(s) + 3 - 1) \div 3 = Count(s)
<1>1. PICK n \in Nat : n = Len(s)
  OBVIOUS
<1>2. /\ (n + 2) \div 3 \in Nat /\ 3 * ((n + 2) \div 3) >= n /\ 3 * ((n + 2) \div 3) <= n + 2
      /\ n + 3 - 1 = n + 2
  OBVIOUS
<1> QED
  BY <1>1, <1>2, Zenon DEF Count

\* Where the i-th group of three of n letters is.
Third(n, i, l, m, a, b) ==
    /\ n \in Nat /\ i \in Nat /\ i >= 1 /\ 3 * i <= n + 2 /\ l = 3 * (i - 1) + 1
    /\ m = (IF l + 3 - 1 < n THEN 3 ELSE n - l + 1)
    /\ a = (IF 3 * (i - 1) < n THEN 3 * (i - 1) ELSE n)
    /\ b = (IF 3 * i < n THEN 3 * i ELSE n)

\* Where a group of three begins and ends.
LEMMA Thirds ==
    ASSUME NEW n, NEW i, NEW l, NEW m, NEW a, NEW b, Third(n, i, l, m, a, b)
    PROVE  a = l - 1 /\ a + m = b /\ a \in 0..n /\ b \in 0..n
  BY DEF Third

\* A group of three is what stands between the groups before and the next.
LEMMA PieceIs ==
    ASSUME NEW T, NEW s \in Seq(T), NEW i \in 1..Count(s)
    PROVE  /\ Piece(s, i) \in Seq(T) /\ Len(Piece(s, i)) \in 1..3
           /\ Upto(s, i - 1) + Len(Piece(s, i)) = Upto(s, i)
           /\ Upto(s, i - 1) \in 0..Len(s) /\ Upto(s, i) \in 0..Len(s)
           /\ \A k \in 1..Len(Piece(s, i)) : Piece(s, i)[k] = s[Upto(s, i - 1) + k]
<1>1. PICK n, l : n = Len(s) /\ l = 3 * (i - 1) + 1
  OBVIOUS
<1>2. n \in Nat /\ i \in Nat /\ i >= 1 /\ 3 * i <= n + 2 /\ l \in Nat /\ l \in 1..n
  BY <1>1, Counted
<1>3. PICK m : m = IF l + 3 - 1 < n THEN 3 ELSE n - l + 1
  OBVIOUS
<1>4. PICK g : g = Piece(s, i)
  OBVIOUS
<1>5. g \in Seq(T) /\ m \in 1..3 /\ Len(g) = m /\ \A k \in 1..m : g[k] = s[l + k - 1]
  <2>1. PICK z : z = 3
    OBVIOUS
  <2>2. g = Group(s, l, z) /\ l \in 1..Len(s) /\ z \in Nat /\ z >= 1
    BY <1>1, <1>2, <1>4, <2>1 DEF Piece
  <2>3. m = (IF l + z - 1 < Len(s) THEN z ELSE Len(s) - l + 1)
    BY <1>1, <1>3, <2>1
  <2>4. g \in Seq(T) /\ Reads(g, s, l, m, z)
    BY <2>2, <2>3, GroupIs, Zenon
  <2> QED
    BY <2>1, <2>4, Zenon DEF Reads
<1>6. PICK a, b : a = Upto(s, i - 1) /\ b = Upto(s, i)
  OBVIOUS
<1>7. a = l - 1 /\ a + m = b /\ a \in 0..n /\ b \in 0..n
  <2>1. /\ a = IF 3 * (i - 1) < n THEN 3 * (i - 1) ELSE n
        /\ b = IF 3 * i < n THEN 3 * i ELSE n
    BY <1>1, <1>6, Zenon DEF Upto
  <2>2. Third(n, i, l, m, a, b)
    BY <1>1, <1>2, <1>3, <2>1, Zenon DEF Third
  <2> QED
    BY <2>2, Thirds, Zenon
<1>8. \A k \in 1..m : g[k] = s[a + k]
  <2>1. \A k \in 1..m : l + k - 1 = a + k
    BY <1>2, <1>5, <1>7
  <2> QED
    BY <1>5, <2>1
<1> QED
  BY <1>1, <1>4, <1>5, <1>6, <1>7, <1>8, Zenon

\* The first j groups, one behind the other, are the beginning of s.
LEMMA PiecesBack ==
    ASSUME NEW T, NEW s \in Seq(T)
    PROVE  \A j \in Nat : j <= Count(s) =>
              /\ [i \in 1..j |-> Piece(s, i)] \in Seq(Seq(T))
              /\ FlattenSeq([i \in 1..j |-> Piece(s, i)]) = SubSeq(s, 1, Upto(s, j))
<1> DEFINE P(j) == [i \in 1..j |-> Piece(s, i)]
           S == {j \in Nat : j <= Count(s) =>
                    P(j) \in Seq(Seq(T)) /\ FlattenSeq(P(j)) = SubSeq(s, 1, Upto(s, j))}
<1>1. 0 \in S
  <2>1. P(0) = <<>> /\ <<>> \in Seq(Seq(T))
    OBVIOUS
  <2>2. Upto(s, 0) = 0
    BY Counted DEF Upto
  <2>3. SubSeq(s, 1, Upto(s, 0)) = <<>>
    BY <2>2, Whole
  <2> HIDE DEF P
  <2>4. 0 \in Nat
    OBVIOUS
  <2> QED
    BY <2>1, <2>3, <2>4, FlattenNone, Zenon
<1>2. ASSUME NEW j \in Nat, j \in S PROVE j + 1 \in S
  <2> SUFFICES ASSUME j + 1 <= Count(s)
               PROVE  /\ P(j + 1) \in Seq(Seq(T))
                      /\ FlattenSeq(P(j + 1)) = SubSeq(s, 1, Upto(s, j + 1))
    OBVIOUS
  <2>1. Count(s) \in Nat /\ Len(s) \in Nat
    BY Counted
  <2>2. PICK i : i = j + 1
    OBVIOUS
  <2>3. i \in 1..Count(s) /\ i - 1 = j /\ j <= Count(s) /\ i \in Nat
    BY <2>1, <2>2
  <2>4. P(j) \in Seq(Seq(T)) /\ FlattenSeq(P(j)) = SubSeq(s, 1, Upto(s, j))
    BY <1>2, <2>3
  <2>5. PICK g, l, a, b : g = Piece(s, i) /\ l = Len(g) /\ a = Upto(s, j) /\ b = Upto(s, i)
    OBVIOUS
  <2>6. /\ g \in Seq(T) /\ l \in 1..3 /\ a + l = b /\ a \in 0..Len(s) /\ b \in 0..Len(s)
        /\ \A k \in 1..l : g[k] = s[a + k]
    BY <2>3, <2>5, PieceIs
  <2> HIDE DEF S
  <2>7. P(i) = Append(P(j), g)
    <3>1. P(j) \in Seq(Seq(T)) /\ Len(P(j)) = j
      BY <2>4
    <3>2. PICK c : c = Append(P(j), g)
      OBVIOUS
    <3>3. c \in Seq(Seq(T)) /\ Len(c) = i /\ c[i] = g /\ \A k \in 1..j : c[k] = P(j)[k]
      BY <2>2, <2>6, <3>1, <3>2, AppendProperties
    <3>4. \A k \in 1..i : c[k] = Piece(s, k)
      <4>1. \A k \in 1..j : c[k] = Piece(s, k)
        BY <3>3
      <4> QED
        BY <2>2, <2>5, <3>3, <4>1
    <3>5. c = [k \in 1..i |-> Piece(s, k)]
      <4>1. c = [k \in 1..i |-> c[k]]
        BY <3>3
      <4> QED
        BY <3>4, <4>1
    <3> QED
      BY <3>2, <3>5
  <2>8. PICK x, y, z : x = SubSeq(s, 1, a) /\ y = x \o g /\ z = SubSeq(s, 1, b)
    OBVIOUS
  <2>9. /\ x \in Seq(T) /\ Len(x) = a /\ \A k \in 1..a : x[k] = s[k]
        /\ z \in Seq(T) /\ Len(z) = b /\ \A k \in 1..b : z[k] = s[k]
    BY <2>6, <2>8, Cut
  <2>10. Behind(y, x, a, g, l) /\ y \in Seq(T)
    BY <2>5, <2>6, <2>8, <2>9, BehindIs, Zenon
  <2>11. ASSUME NEW k \in 1..b PROVE y[k] = z[k]
    <3>1. CASE k \in 1..a
      BY <2>9, <2>10, <3>1 DEF Behind
    <3>2. CASE k \notin 1..a
      <4>1. PICK h : h = k - a
        OBVIOUS
      <4>2. h \in 1..l /\ k = a + h
        BY <2>6, <3>2, <4>1
      <4>3. y[a + h] = g[h]
        BY <2>10, <4>2 DEF Behind
      <4>4. g[h] = s[a + h]
        BY <2>6, <4>2
      <4>5. z[k] = s[k]
        BY <2>9
      <4> QED
        BY <4>2, <4>3, <4>4, <4>5, Zenon
    <3> QED
      BY <3>1, <3>2
  <2>12. y = z
    <3>1. Len(y) = b
      BY <2>6, <2>10 DEF Behind
    <3> QED
      BY <2>9, <2>10, <2>11, <3>1, SeqEqual
  <2>13. FlattenSeq(Append(P(j), g)) = FlattenSeq(P(j)) \o g
    <3> HIDE DEF P
    <3> QED
      BY <2>4, <2>6, FlattenStep
  <2>14. P(i) \in Seq(Seq(T))
    <3> HIDE DEF P
    <3> QED
      BY <2>4, <2>6, <2>7, AppendProperties
  <2> HIDE DEF P
  <2>15. FlattenSeq(P(i)) = SubSeq(s, 1, Upto(s, i))
    BY <2>4, <2>5, <2>7, <2>8, <2>12, <2>13, Zenon
  <2> QED
    BY <2>2, <2>14, <2>15, Zenon
<1> HIDE DEF S
<1>3. \A j \in Nat : j \in S
  BY <1>1, <1>2, Induction
<1> QED
  BY <1>3 DEF S

-----------------------------------------------------------------------------
(* What the decoder makes of what the encoder wrote.                       *)

\* e is what a text of n groups has been encoded to.
Encoding(e, s, n) ==
    /\ Len(e) = 4 * n
    /\ \A i \in 1..n : \A k \in 1..4 : e[4 * (i - 1) + k] = EncodeGroup(Piece(s, i))[k]

\* What a text is encoded to, group by group.
LEMMA Encoded ==
    ASSUME NEW s \in Seq(Octets)
    PROVE  Base64Encode(s) \in Seq(Chars) /\ Encoding(Base64Encode(s), s, Count(s))
<1> DEFINE p == [k \in 1..Count(s) |-> EncodeGroup(Piece(s, k))]
<1>1. Count(s) \in Nat /\ (Len(s) + 3 - 1) \div 3 = Count(s)
  BY Counted
<1>2. Base64Encode(s) = FlattenSeq(p)
  BY <1>1, Zenon DEF Base64Encode, InGroups, Piece
<1>3. \A k \in 1..Count(s) : EncodeGroup(Piece(s, k)) \in Fours(Chars)
  BY PieceIs, GroupBack DEF Fours
<1>4. p \in Seq(Fours(Chars)) /\ Len(p) = Count(s)
  BY <1>1, <1>3
<1>5. \A k \in 1..Count(s) : p[k] = EncodeGroup(Piece(s, k))
  OBVIOUS
<1> HIDE DEF p
<1>6. FlattenSeq(p) \in Seq(Chars) /\ FourByFour(p)
  BY <1>4, FlattenFours
<1>7. Encoding(FlattenSeq(p), s, Count(s))
  BY <1>4, <1>5, <1>6, Zenon DEF FourByFour, Encoding
<1> QED
  BY <1>2, <1>6, <1>7, Zenon

\* A group of four letters of an encoding.
LEMMA GroupOfFour ==
    ASSUME NEW s \in Seq(Octets), NEW j \in Nat, j <= Count(s), NEW w \in Seq(Chars),
           Encoding(w, s, j), NEW i \in 1..j
    PROVE  Group(w, 4 * (i - 1) + 1, 4) = EncodeGroup(Piece(s, i))
<1>1. PICK e : e = EncodeGroup(Piece(s, i))
  OBVIOUS
<1>2. i \in 1..Count(s)
  BY Counted
<1>3. e \in Seq(Chars) /\ Len(e) = 4
  BY <1>1, <1>2, PieceIs, GroupBack
<1>4. PICK l, z : l = 4 * (i - 1) + 1 /\ z = 4
  OBVIOUS
<1>5. Len(w) = 4 * j /\ \A k \in 1..4 : w[4 * (i - 1) + k] = e[k]
  BY <1>1 DEF Encoding
<1>6. PICK g : g = Group(w, l, z)
  OBVIOUS
<1>7. l \in 1..Len(w) /\ z \in Nat /\ z >= 1
  BY <1>4, <1>5
<1>8. z = (IF l + z - 1 < Len(w) THEN z ELSE Len(w) - l + 1)
  <2>1. l + 3 <= Len(w)
    BY <1>4, <1>5
  <2> QED
    BY <1>4, <1>5, <2>1
<1>9. g \in Seq(Chars) /\ Reads(g, w, l, z, z)
  BY <1>6, <1>7, <1>8, GroupIs, Zenon
<1>10. ASSUME NEW k \in 1..4 PROVE g[k] = e[k]
  <2>1. g[k] = w[l + k - 1]
    BY <1>4, <1>9 DEF Reads
  <2>2. l + k - 1 = 4 * (i - 1) + k
    BY <1>4
  <2> QED
    BY <1>5, <2>1, <2>2, Zenon
<1>11. Len(g) = 4
  BY <1>4, <1>9 DEF Reads
<1>12. g = e
  BY <1>3, <1>9, <1>10, <1>11, SeqEqual
<1> QED
  BY <1>1, <1>4, <1>6, <1>12, Zenon

\* Encodings of whole groups give these groups back.
LEMMA GroupsBack ==
    ASSUME NEW s \in Seq(Octets), NEW j \in Nat, j <= Count(s), NEW w \in Seq(Chars),
           Encoding(w, s, j)
    PROVE  InGroups(w, 4, DecodeGroup) = SubSeq(s, 1, Upto(s, j))
<1>1. (Len(w) + 4 - 1) \div 4 = j
  <2>1. Len(w) = 4 * j
    BY DEF Encoding
  <2>2. (4 * j + 4 - 1) \div 4 = j
    OBVIOUS
  <2> QED
    BY <2>1, <2>2, Zenon
<1>2. InGroups(w, 4, DecodeGroup) = FlattenSeq([i \in 1..j |-> DecodeGroup(Group(w, 4 * (i - 1) + 1, 4))])
  BY <1>1, Zenon DEF InGroups
<1>3. ASSUME NEW i \in 1..j PROVE DecodeGroup(Group(w, 4 * (i - 1) + 1, 4)) = Piece(s, i)
  <2>1. i \in 1..Count(s)
    BY Counted
  <2>2. DecodeGroup(EncodeGroup(Piece(s, i))) = Piece(s, i)
    BY <2>1, PieceIs, GroupBack
  <2> QED
    BY <2>2, GroupOfFour, Zenon
<1>4. [i \in 1..j |-> DecodeGroup(Group(w, 4 * (i - 1) + 1, 4))] = [i \in 1..j |-> Piece(s, i)]
  BY <1>3, Zenon
<1> QED
  BY <1>2, <1>4, PiecesBack, Zenon

\* The beginning of an encoding, up to the end of a group.
LEMMA EncodingCut ==
    ASSUME NEW s \in Seq(Octets), NEW e \in Seq(Chars), Encoding(e, s, Count(s)),
           NEW j \in 0..Count(s)
    PROVE  Encoding(SubSeq(e, 1, 4 * j), s, j)
<1>1. Count(s) \in Nat
  BY Counted
<1>2. PICK m, w : m = 4 * j /\ w = SubSeq(e, 1, m)
  OBVIOUS
<1>3. Len(e) = 4 * Count(s)
  BY DEF Encoding
<1>4. m \in 0..Len(e)
  BY <1>1, <1>2, <1>3
<1>5. w \in Seq(Chars) /\ Len(w) = m /\ \A k \in 1..m : w[k] = e[k]
  BY <1>2, <1>4, Cut
<1>6. ASSUME NEW i \in 1..j, NEW k \in 1..4
      PROVE  w[4 * (i - 1) + k] = EncodeGroup(Piece(s, i))[k]
  <2>1. 4 * (i - 1) + k \in 1..m /\ i \in 1..Count(s)
    BY <1>1, <1>2
  <2>2. e[4 * (i - 1) + k] = EncodeGroup(Piece(s, i))[k]
    BY <2>1 DEF Encoding
  <2> QED
    BY <1>5, <2>1, <2>2, Zenon
<1>7. Encoding(w, s, j)
  BY <1>2, <1>5, <1>6, Zenon DEF Encoding
<1> QED
  BY <1>2, <1>7, Zenon

\* What mail left of an encoding is refused when it ends within a group, and
\* else decodes to as many bytes of the text as it has groups for.
LEMMA MailDecodes ==
    ASSUME NEW s \in Seq(Octets), NEW m \in 0..Len(Base64Encode(s)), NEW w,
           Stripped(w) = SubSeq(Base64Encode(s), 1, m)
    PROVE  Base64Decode(w) = IF m % 4 # 0 THEN Refused
                             ELSE Accepted(SubSeq(s, 1, Upto(s, m \div 4)))
<1>1. PICK e, v : e = Base64Encode(s) /\ v = Stripped(w)
  OBVIOUS
<1>2. e \in Seq(Chars) /\ Encoding(e, s, Count(s)) /\ Len(e) = 4 * Count(s)
  BY <1>1, Encoded DEF Encoding
<1>3. v \in Seq(Chars) /\ Len(v) = m
  BY <1>1, <1>2, Cut
<1>4. \A n \in 1..Len(v) : ~(v[n] > Pad)
  <2>1. Pad \in Nat
    BY Bases DEF Pad
  <2> QED
    BY <1>3, <2>1, Elements DEF Chars
<1>5. Base64Decode(w) = IF Len(v) % 4 # 0 \/ \E n \in 1..Len(v) : v[n] > Pad THEN Refused
                        ELSE Accepted(InGroups(v, 4, DecodeGroup))
  BY <1>1, Zenon DEF Base64Decode
<1>6. CASE m % 4 # 0
  BY <1>3, <1>5, <1>6, Zenon
<1>7. CASE m % 4 = 0
  <2>1. PICK j : j = m \div 4
    OBVIOUS
  <2>2. Count(s) \in Nat
    BY Counted
  <2>3. j \in 0..Count(s) /\ m = 4 * j /\ j \in Nat /\ j <= Count(s)
    <3>1. m \in Nat /\ m <= 4 * Count(s)
      BY <1>1, <1>2, <2>2
    <3> QED
      BY <1>7, <2>1, <2>2, <3>1
  <2>4. v = SubSeq(e, 1, 4 * j)
    BY <1>1, <2>3, Zenon
  <2>5. Encoding(v, s, j)
    BY <1>2, <2>3, <2>4, EncodingCut, Zenon
  <2>6. InGroups(v, 4, DecodeGroup) = SubSeq(s, 1, Upto(s, j))
    BY <1>3, <2>3, <2>5, GroupsBack, Zenon
  <2> QED
    BY <1>3, <1>4, <1>5, <1>7, <2>1, <2>6, Zenon
<1> QED
  BY <1>6, <1>7

\* A text that came through mail whole.
LEMMA MailWhole ==
    ASSUME NEW s \in Seq(Octets), NEW w, Stripped(w) = Base64Encode(s)
    PROVE  Base64Decode(w) = Accepted(s)
<1>1. PICK e, m, c : e = Base64Encode(s) /\ m = Len(e) /\ c = Count(s)
  OBVIOUS
<1>2. e \in Seq(Chars) /\ m = 4 * c /\ c \in Nat
  BY <1>1, Encoded, Counted DEF Encoding
<1>3. m \in 0..Len(e) /\ m % 4 = 0 /\ m \div 4 = c
  BY <1>1, <1>2
<1>4. SubSeq(e, 1, m) = e
  BY <1>1, <1>2, Whole
<1>5. Base64Decode(w) = Accepted(SubSeq(s, 1, Upto(s, c)))
  <2>1. Stripped(w) = SubSeq(Base64Encode(s), 1, m) /\ m \in 0..Len(Base64Encode(s))
    BY <1>1, <1>3, <1>4, Zenon
  <2>2. Base64Decode(w) = IF m % 4 # 0 THEN Refused
                          ELSE Accepted(SubSeq(s, 1, Upto(s, m \div 4)))
    BY <2>1, MailDecodes
  <2> QED
    BY <1>3, <2>2, Zenon
<1>6. Upto(s, c) = Len(s)
  BY <1>1, Counted DEF Upto
<1>7. SubSeq(s, 1, Len(s)) = s
  BY Whole
<1> QED
  BY <1>5, <1>6, <1>7, Zenon

\* A text that lost its end in mail: it is refused or has lost bytes.
LEMMA MailShort ==
    ASSUME NEW s \in Seq(Octets), NEW m \in Nat, m < Len(Base64Encode(s)), NEW w,
           Stripped(w) = SubSeq(Base64Encode(s), 1, m)
    PROVE  \/ Base64Decode(w) = Refused
           \/ \E k \in 0..Len(s) - 1 : Base64Decode(w) = Accepted(SubSeq(s, 1, k))
<1>1. PICK l, c : l = Len(Base64Encode(s)) /\ c = Count(s)
  OBVIOUS
<1>2. l = 4 * c /\ c \in Nat
  BY <1>1, Encoded, Counted DEF Encoding
<1>3. m \in 0..Len(Base64Encode(s))
  BY <1>1, <1>2
<1>4. Base64Decode(w) = IF m % 4 # 0 THEN Refused
                        ELSE Accepted(SubSeq(s, 1, Upto(s, m \div 4)))
  BY <1>3, MailDecodes
<1>5. CASE m % 4 # 0
  BY <1>4, <1>5, Zenon
<1>6. CASE m % 4 = 0
  <2>1. PICK j : j = m \div 4
    OBVIOUS
  <2>2. j \in Nat /\ j <= c - 1
    BY <1>1, <1>2, <1>6, <2>1
  <2>3. Len(s) \in Nat /\ 3 * c <= Len(s) + 2
    BY <1>1, Counted
  <2>4. PICK k : k = Upto(s, j)
    OBVIOUS
  <2>5. k \in 0..Len(s) - 1
    BY <1>2, <2>2, <2>3, <2>4 DEF Upto
  <2>6. Base64Decode(w) = Accepted(SubSeq(s, 1, k))
    BY <1>4, <1>6, <2>1, <2>4, Zenon
  <2> QED
    BY <2>5, <2>6, Zenon
<1> QED
  BY <1>5, <1>6

\* Neither letters nor padding are blanks.
LEMMA NoBlanks ==
    /\ Blank \notin Chars /\ Dot \notin Chars /\ Dot # Blank
    /\ \A s \in Seq(Chars) : Stripped(s) = s
<1>1. Blank \notin Chars /\ Dot \notin Chars /\ Dot # Blank
  BY Bases DEF Blank, Dot, Chars, Pad
<1> QED
  BY <1>1, StrippedClean

\* The base64 of crypto.cpp is lossless: whatever the bytes, and whatever the
\* sizes of bytes and letters, decoding what was encoded gives them back
\* (base64_encode and base64_decode, common/src/crypto.cpp).
THEOREM EncodingDecodes ==
    \A s \in Seq(Octets) : Base64Decode(Base64Encode(s)) = Accepted(s)
<1> SUFFICES ASSUME NEW s \in Seq(Octets) PROVE Base64Decode(Base64Encode(s)) = Accepted(s)
  OBVIOUS
<1>1. PICK e : e = Base64Encode(s)
  OBVIOUS
<1>2. Stripped(e) = Base64Encode(s)
  BY <1>1, Encoded, NoBlanks, Zenon
<1> QED
  BY <1>1, <1>2, MailWhole, Zenon

-----------------------------------------------------------------------------
(* Texts spelled out, in signatures and in tags.                           *)

\* t is text spelled out.
IsSpelled(t, text) ==
    /\ Len(t) = MaxText + 1 /\ t[1] = Len(text)
    /\ \A j \in 1..Len(text) : t[1 + j] = text[j]
    /\ \A j \in Len(text) + 1..MaxText : t[1 + j] = 0

\* Texts short enough to be signed or encrypted.
ShortTexts == {text \in Seq(Octets) : Len(text) <= MaxText}

\* What Spelled makes of a text, place by place.
LEMMA SpelledIs ==
    ASSUME NEW text \in ShortTexts
    PROVE  Spelled(text) \in Seq(Octets) /\ IsSpelled(Spelled(text), text)
<1>1. PICK n, m : n = Len(text) /\ m = MaxText - n
  OBVIOUS
<1>2. /\ text \in Seq(Octets) /\ n \in Nat /\ m \in Nat /\ n + m = MaxText /\ MaxText \in Nat
      /\ n \in Octets /\ 0 \in Octets /\ MaxText >= 1
  BY <1>1, MaxTextAssumption, Bases DEF ShortTexts, Octets
<1>3. PICK z : z = [k \in 1..m |-> 0]
  OBVIOUS
<1>4. z \in Seq(Octets) /\ Len(z) = m /\ \A k \in 1..m : z[k] = 0
  BY <1>2, <1>3
<1>5. PICK h : h = <<n>>
  OBVIOUS
<1>6. h \in Seq(Octets) /\ Len(h) = 1 /\ h[1] = n
  BY <1>2, <1>5
<1>7. PICK u, t : u = h \o text /\ t = u \o z
  OBVIOUS
<1>8. Behind(u, h, 1, text, n) /\ u \in Seq(Octets)
  BY <1>1, <1>2, <1>6, <1>7, BehindIs, Zenon
<1>9. 1 + n = Len(u)
  BY <1>8 DEF Behind
<1>10. Behind(t, u, 1 + n, z, m) /\ t \in Seq(Octets)
  <2>1. Behind(t, u, Len(u), z, Len(z)) /\ t \in Seq(Octets)
    BY <1>4, <1>7, <1>8, BehindIs, Zenon
  <2> QED
    BY <1>4, <1>9, <2>1, Zenon
<1>11. Spelled(text) = t
  BY <1>1, <1>3, <1>5, <1>7, Zenon DEF Spelled
<1>12. Len(t) = MaxText + 1
  <2>1. 1 + n + m = Len(t)
    BY <1>10 DEF Behind
  <2> QED
    BY <1>2, <2>1
<1>13. \A k \in 1..1 + n : t[k] = u[k]
  BY <1>10 DEF Behind
<1>14. \A k \in 1..n : u[1 + k] = text[k]
  BY <1>8 DEF Behind
<1>15. u[1] = n
  BY <1>6, <1>8 DEF Behind
<1>16. \A k \in 1..m : t[1 + n + k] = z[k]
  BY <1>10 DEF Behind
<1>17. t[1] = n
  BY <1>2, <1>13, <1>15
<1>18. ASSUME NEW j \in 1..n PROVE t[1 + j] = text[j]
  BY <1>2, <1>13, <1>14
<1>19. ASSUME NEW j \in n + 1..MaxText PROVE t[1 + j] = 0
  <2>1. PICK k : k = j - n
    OBVIOUS
  <2>2. k \in 1..m /\ 1 + j = 1 + n + k
    BY <1>2, <2>1
  <2> QED
    BY <1>4, <1>16, <2>2
<1>20. IsSpelled(t, text)
  BY <1>1, <1>12, <1>17, <1>18, <1>19 DEF IsSpelled
<1> QED
  BY <1>10, <1>11, <1>20, Zenon

\* A signature begins with its key and has the same length whatever is signed.
LEMMA SignatureIs ==
    ASSUME NEW key \in Octets, NEW text \in ShortTexts
    PROVE  /\ Ed25519Sign(key, text) \in Seq(Octets)
           /\ Len(Ed25519Sign(key, text)) = MaxText + 2
           /\ Ed25519Sign(key, text)[1] = key
<1>1. PICK h, t, s : h = <<key>> /\ t = Spelled(text) /\ s = h \o t
  OBVIOUS
<1>2. h \in Seq(Octets) /\ Len(h) = 1 /\ h[1] = key
  BY <1>1
<1>3. t \in Seq(Octets) /\ Len(t) = MaxText + 1
  BY <1>1, SpelledIs DEF IsSpelled
<1>4. Behind(s, h, Len(h), t, Len(t)) /\ s \in Seq(Octets)
  BY <1>1, <1>2, <1>3, BehindIs, Zenon
<1>5. Len(h) + Len(t) = Len(s) /\ \A k \in 1..Len(h) : s[k] = h[k]
  BY <1>4 DEF Behind
<1>6. s[1] = key /\ Len(s) = MaxText + 2
  BY <1>2, <1>3, <1>5, MaxTextAssumption
<1> QED
  BY <1>1, <1>4, <1>6, Zenon DEF Ed25519Sign

-----------------------------------------------------------------------------
(* Tokens.                                                                 *)

\* Everything that mail may carry.
Marks == 0..Dot

\* Where the dots of w are, and the last of them.
Dots(w) == {n \in 1..Len(w) : w[n] = Dot}
LastDot(w) == CHOOSE n \in Dots(w) : \A m \in Dots(w) : m <= n

\* The largest of some positions.
LEMMA LargestOf ==
    ASSUME NEW l \in Nat, NEW S \in SUBSET (1..l), S # {}
    PROVE  \E n \in S : \A m \in S : m <= n
<1> DEFINE D == {n \in Nat : \E m \in S : l - m = n}
<1>1. D \in SUBSET Nat /\ D # {}
  <2>1. PICK m \in S : TRUE
    OBVIOUS
  <2>2. l - m \in D
    BY <2>1
  <2> QED
    BY <2>2
<1>2. PICK d : d = Min(D)
  OBVIOUS
<1>3. d \in D /\ \A n \in D : d <= n
  <2> HIDE DEF D
  <2> QED
    BY <1>1, <1>2, Smallest
<1>4. PICK n \in S : l - n = d
  BY <1>3
<1>5. ASSUME NEW m \in S PROVE m <= n
  <2>1. l - m \in D /\ m \in 1..l /\ n \in 1..l
    OBVIOUS
  <2>2. d <= l - m
    BY <1>3, <2>1
  <2> QED
    BY <1>4, <2>1, <2>2
<1> QED
  BY <1>5

\* LastDot finds the last dot of a token.
LEMMA LastDotIs ==
    ASSUME NEW w \in Seq(Marks), Dots(w) # {}
    PROVE  LastDot(w) \in Dots(w) /\ \A m \in Dots(w) : m <= LastDot(w)
<1>1. \E n \in Dots(w) : \A m \in Dots(w) : m <= n
  <2>1. Len(w) \in Nat /\ Dots(w) \in SUBSET (1..Len(w))
    BY DEF Dots
  <2> QED
    BY <2>1, LargestOf
<1> QED
  BY <1>1 DEF LastDot

\* v is p, a dot and q.
Parted(v, p, q) ==
    /\ Len(v) = Len(p) + 1 + Len(q)
    /\ \A k \in 1..Len(p) : v[k] = p[k]
    /\ v[Len(p) + 1] = Dot
    /\ \A k \in 1..Len(q) : v[Len(p) + 1 + k] = q[k]

\* Two texts with a dot between them.
LEMMA PartedIs ==
    ASSUME NEW p \in Seq(Marks), NEW q \in Seq(Marks)
    PROVE  (p \o <<Dot>>) \o q \in Seq(Marks) /\ Parted((p \o <<Dot>>) \o q, p, q)
<1>1. PICK n, m, h, u, v : n = Len(p) /\ m = Len(q) /\ h = <<Dot>> /\ u = p \o h /\ v = u \o q
  OBVIOUS
<1>2. Dot \in Marks
  BY Bases DEF Dot, Marks
<1>3. h \in Seq(Marks) /\ Len(h) = 1 /\ h[1] = Dot
  BY <1>1, <1>2
<1>4. Behind(u, p, n, h, 1) /\ u \in Seq(Marks)
  BY <1>1, <1>3, BehindIs, Zenon
<1>5. Len(u) = n + 1 /\ n \in Nat /\ m \in Nat
  <2>1. n + 1 = Len(u)
    BY <1>4 DEF Behind
  <2> QED
    BY <1>1, <2>1
<1>6. Behind(v, u, n + 1, q, m) /\ v \in Seq(Marks)
  BY <1>1, <1>4, <1>5, BehindIs, Zenon
<1>7. /\ n + 1 + m = Len(v)
      /\ \A k \in 1..n + 1 : v[k] = u[k]
      /\ \A k \in 1..m : v[n + 1 + k] = q[k]
  BY <1>6 DEF Behind
<1>8. (\A k \in 1..n : u[k] = p[k]) /\ u[n + 1] = Dot
  <2>1. (\A k \in 1..n : u[k] = p[k]) /\ \A k \in 1..1 : u[n + k] = h[k]
    BY <1>4 DEF Behind
  <2> QED
    BY <1>3, <2>1
<1>9. (\A k \in 1..n : v[k] = p[k]) /\ v[n + 1] = Dot
  BY <1>5, <1>7, <1>8
<1>10. Parted(v, p, q)
  BY <1>1, <1>7, <1>9, Zenon DEF Parted
<1> QED
  BY <1>1, <1>6, <1>10, Zenon

\* A text without dots keeps none, one with dots is parted at the last.
LEMMA DotsParted ==
    ASSUME NEW w \in Seq(Marks)
    PROVE  /\ Dots(w) = {} => w \in Seq(Marks \ {Dot})
           /\ Dots(w) # {} =>
                \E a \in Seq(Marks), b \in Seq(Marks \ {Dot}) :
                   /\ a = SubSeq(w, 1, LastDot(w) - 1)
                   /\ b = SubSeq(w, LastDot(w) + 1, Len(w))
                   /\ w = (a \o <<Dot>>) \o b
<1>1. ASSUME Dots(w) = {} PROVE w \in Seq(Marks \ {Dot})
  <2>1. \A n \in 1..Len(w) : w[n] \in Marks \ {Dot}
    BY <1>1, Elements DEF Dots
  <2> QED
    BY <2>1
<1>2. ASSUME Dots(w) # {}
      PROVE  \E a \in Seq(Marks), b \in Seq(Marks \ {Dot}) :
                /\ a = SubSeq(w, 1, LastDot(w) - 1)
                /\ b = SubSeq(w, LastDot(w) + 1, Len(w))
                /\ w = (a \o <<Dot>>) \o b
  <2>1. PICK at, l : at = LastDot(w) /\ l = Len(w)
    OBVIOUS
  <2>2. at \in Dots(w) /\ \A m \in Dots(w) : m <= at
    BY <1>2, <2>1, LastDotIs
  <2>3. at \in 1..l /\ w[at] = Dot /\ l \in Nat /\ \A m \in at + 1..l : w[m] # Dot
    BY <2>1, <2>2 DEF Dots
  <2>4. PICK a, b, v : a = SubSeq(w, 1, at - 1) /\ b = SubSeq(w, at + 1, l) /\ v = (a \o <<Dot>>) \o b
    OBVIOUS
  <2>5. a \in Seq(Marks) /\ Len(a) = at - 1 /\ \A k \in 1..at - 1 : a[k] = w[k]
    <3>1. PICK m : m = at - 1
      OBVIOUS
    <3>2. m \in 0..Len(w)
      BY <2>1, <2>3, <3>1
    <3>3. SubSeq(w, 1, m) = a
      BY <2>4, <3>1, Zenon
    <3> QED
      BY <3>1, <3>2, <3>3, Cut
  <2>6. /\ b \in Seq(Marks \ {Dot}) /\ Len(b) = l - at
        /\ \A k \in 1..l - at : b[k] = w[at + k]
    <3>1. \A i \in at + 1..l : w[i] \in Marks \ {Dot}
      BY <2>1, <2>3, Elements
    <3>2. at + 1 \in Int /\ l \in Int
      BY <2>3
    <3>3. /\ b \in Seq(Marks \ {Dot})
          /\ Len(b) = IF at + 1 <= l THEN l - (at + 1) + 1 ELSE 0
          /\ \A i \in 1..l - (at + 1) + 1 : b[i] = w[at + 1 + i - 1]
      BY <2>4, <3>1, <3>2, SubSeqProperties
    <3>4. l - (at + 1) + 1 = l - at /\ (at + 1 <= l \/ l - at = 0)
      BY <2>3
    <3>5. Len(b) = l - at
      BY <3>3, <3>4
    <3>6. ASSUME NEW k \in 1..l - at PROVE b[k] = w[at + k]
      <4>1. k \in 1..l - (at + 1) + 1 /\ at + 1 + k - 1 = at + k
        BY <2>3
      <4> QED
        BY <3>3, <4>1
    <3> QED
      BY <3>3, <3>5, <3>6
  <2>7. v \in Seq(Marks) /\ Parted(v, a, b)
    <3>1. b \in Seq(Marks)
      BY <2>6
    <3> QED
      BY <2>4, <2>5, <3>1, PartedIs, Zenon
  <2>8. /\ Len(v) = at - 1 + 1 + (l - at)
        /\ \A k \in 1..at - 1 : v[k] = a[k]
        /\ v[at - 1 + 1] = Dot
        /\ \A k \in 1..l - at : v[at - 1 + 1 + k] = b[k]
    BY <2>5, <2>6, <2>7, Zenon DEF Parted
  <2>9. ASSUME NEW k \in 1..l PROVE v[k] = w[k]
    <3>1. CASE k < at
      <4>1. k \in 1..at - 1
        BY <2>3, <3>1
      <4> QED
        BY <2>5, <2>8, <4>1
    <3>2. CASE k = at
      <4>1. at - 1 + 1 = at
        BY <2>3
      <4> QED
        BY <2>3, <2>8, <3>2, <4>1
    <3>3. CASE k > at
      <4>1. PICK j : j = k - at
        OBVIOUS
      <4>2. j \in 1..l - at /\ k = at + j /\ at - 1 + 1 + j = at + j
        BY <2>3, <3>3, <4>1
      <4>3. v[at + j] = b[j] /\ b[j] = w[at + j]
        BY <2>6, <2>8, <4>2
      <4> QED
        BY <4>2, <4>3, Zenon
    <3> QED
      BY <2>3, <3>1, <3>2, <3>3
  <2>10. w = v
    <3>1. Len(v) = Len(w)
      BY <2>1, <2>3, <2>8
    <3> QED
      BY <2>1, <2>7, <2>9, <3>1, SeqEqual
  <2> QED
    BY <2>1, <2>4, <2>5, <2>6, <2>10, Zenon
<1> QED
  BY <1>1, <1>2

\* Two texts around a dot, the second without dots in either, are the same.
LEMMA SameParts ==
    ASSUME NEW v \in Seq(Marks), NEW p \in Seq(Marks), NEW q \in Seq(Marks \ {Dot}),
           NEW x \in Seq(Marks), NEW y \in Seq(Marks \ {Dot}),
           Parted(v, p, q), Parted(v, x, y)
    PROVE  p = x /\ q = y
<1>1. PICK n, m, i, j : n = Len(p) /\ m = Len(q) /\ i = Len(x) /\ j = Len(y)
  OBVIOUS
<1>2. n \in Nat /\ m \in Nat /\ i \in Nat /\ j \in Nat
  BY <1>1
<1>3. /\ Len(v) = n + 1 + m /\ (\A k \in 1..n : v[k] = p[k]) /\ v[n + 1] = Dot
      /\ \A k \in 1..m : v[n + 1 + k] = q[k]
  BY <1>1, Zenon DEF Parted
<1>4. /\ Len(v) = i + 1 + j /\ (\A k \in 1..i : v[k] = x[k]) /\ v[i + 1] = Dot
      /\ \A k \in 1..j : v[i + 1 + k] = y[k]
  BY <1>1, Zenon DEF Parted
<1>5. (\A k \in 1..m : q[k] # Dot) /\ \A k \in 1..j : y[k] # Dot
  <2>1. (\A k \in 1..m : q[k] \in Marks \ {Dot}) /\ \A k \in 1..j : y[k] \in Marks \ {Dot}
    BY <1>1, Elements
  <2> QED
    BY <2>1
<1>6. ~(n < i)
  <2> SUFFICES ASSUME n < i PROVE FALSE
    OBVIOUS
  <2>1. PICK k : k = i - n
    OBVIOUS
  <2>2. k \in 1..m /\ n + 1 + k = i + 1
    BY <1>2, <1>3, <1>4, <2>1
  <2>3. v[i + 1] = q[k] /\ q[k] # Dot
    BY <1>3, <1>5, <2>2
  <2> QED
    BY <1>4, <2>3, Zenon
<1>7. ~(i < n)
  <2> SUFFICES ASSUME i < n PROVE FALSE
    OBVIOUS
  <2>1. PICK k : k = n - i
    OBVIOUS
  <2>2. k \in 1..j /\ i + 1 + k = n + 1
    BY <1>2, <1>3, <1>4, <2>1
  <2>3. v[n + 1] = y[k] /\ y[k] # Dot
    BY <1>4, <1>5, <2>2
  <2> QED
    BY <1>3, <2>3, Zenon
<1>8. n = i /\ m = j
  BY <1>2, <1>3, <1>4, <1>6, <1>7
<1>9. p = x
  <2>1. \A k \in 1..n : p[k] = x[k]
    BY <1>3, <1>4, <1>8
  <2> QED
    BY <1>1, <1>8, <2>1, SeqEqual
<1>10. q = y
  <2>1. \A k \in 1..m : q[k] = y[k]
    BY <1>3, <1>4, <1>8
  <2> QED
    BY <1>1, <1>8, <2>1, SeqEqual
<1> QED
  BY <1>9, <1>10

\* Mail that left a text, a dot and a text opens at that dot.
LEMMA SplitAtDot ==
    ASSUME NEW w \in Seq(Marks), NEW x \in Seq(Chars), NEW y \in Seq(Chars),
           Stripped(w) = (x \o <<Dot>>) \o y
    PROVE  /\ Dots(w) # {}
           /\ Stripped(SubSeq(w, 1, LastDot(w) - 1)) = x
           /\ Stripped(SubSeq(w, LastDot(w) + 1, Len(w))) = y
<1>1. x \in Seq(Marks) /\ y \in Seq(Marks \ {Dot}) /\ y \in Seq(Marks)
  <2>1. PICK D, M : D = Marks \ {Dot} /\ M = Marks
    OBVIOUS
  <2>2. Chars \subseteq D /\ Chars \subseteq M
    BY <2>1, NoBlanks, Bases DEF Chars, Marks, Pad, Dot
  <2>3. x \in Seq(M) /\ y \in Seq(M) /\ y \in Seq(D)
    BY <2>2, SeqMonotonic, Zenon
  <2> QED
    BY <2>1, <2>3, Zenon
<1>2. PICK v : v = Stripped(w)
  OBVIOUS
<1>3. Parted(v, x, y) /\ v \in Seq(Marks)
  BY <1>1, <1>2, PartedIs, Zenon
<1>4. Dots(w) # {}
  <2> SUFFICES ASSUME Dots(w) = {} PROVE FALSE
    OBVIOUS
  <2>1. w \in Seq(Marks \ {Dot})
    BY DotsParted
  <2>2. v \in Seq((Marks \ {Dot}) \ {Blank})
    BY <1>2, <2>1, StrippedType, Zenon
  <2>3. Len(x) + 1 \in 1..Len(v) /\ v[Len(x) + 1] = Dot
    <3>1. Len(x) \in Nat /\ Len(y) \in Nat
      OBVIOUS
    <3>2. Len(v) = Len(x) + 1 + Len(y) /\ v[Len(x) + 1] = Dot
      BY <1>3 DEF Parted
    <3> QED
      BY <3>1, <3>2
  <2>4. v[Len(x) + 1] \in (Marks \ {Dot}) \ {Blank}
    BY <2>2, <2>3, Elements, Zenon
  <2> QED
    BY <2>3, <2>4, Zenon
<1>5. PICK a \in Seq(Marks), b \in Seq(Marks \ {Dot}) :
         /\ a = SubSeq(w, 1, LastDot(w) - 1)
         /\ b = SubSeq(w, LastDot(w) + 1, Len(w))
         /\ w = (a \o <<Dot>>) \o b
  BY <1>4, DotsParted, Zenon
<1>6. PICK p, q : p = Stripped(a) /\ q = Stripped(b)
  OBVIOUS
<1>7. p \in Seq(Marks) /\ q \in Seq(Marks \ {Dot}) /\ q \in Seq(Marks)
  <2>1. PICK D, E, F, M : D = Marks \ {Dot} /\ E = D \ {Blank} /\ F = Marks \ {Blank} /\ M = Marks
    OBVIOUS
  <2>2. p \in Seq(F) /\ q \in Seq(E)
    BY <1>6, <2>1, StrippedType, Zenon
  <2>3. F \subseteq M /\ E \subseteq D /\ E \subseteq M
    BY <2>1, Zenon
  <2>4. p \in Seq(M) /\ q \in Seq(D) /\ q \in Seq(M)
    BY <2>2, <2>3, SeqMonotonic, Zenon
  <2> QED
    BY <2>1, <2>4, Zenon
<1>8. v = (p \o <<Dot>>) \o q
  <2>1. PICK h, u : h = <<Dot>> /\ u = a \o h
    OBVIOUS
  <2>2. h \in Seq(Marks) /\ u \in Seq(Marks) /\ b \in Seq(Marks)
    <3>1. Dot \in Marks
      BY Bases DEF Dot, Marks
    <3> QED
      BY <2>1, <3>1
  <2>3. Stripped(u \o b) = Stripped(u) \o q
    BY <1>6, <2>2, StrippedCat, Zenon
  <2>4. Stripped(a \o h) = p \o Stripped(h)
    BY <1>6, <2>2, StrippedCat, Zenon
  <2>5. Stripped(h) = h
    BY <2>1, StrippedOne, NoBlanks, Zenon DEF Left
  <2> QED
    BY <1>2, <1>5, <2>1, <2>3, <2>4, <2>5, Zenon
<1>9. Parted(v, p, q)
  BY <1>7, <1>8, PartedIs, Zenon
<1>10. p = x /\ q = y
  BY <1>1, <1>3, <1>7, <1>9, SameParts
<1> QED
  BY <1>4, <1>5, <1>6, <1>10, Zenon

\* Tokens have no blanks.
LEMMA TokenClean ==
    ASSUME NEW x \in Seq(Chars), NEW y \in Seq(Chars)
    PROVE  /\ (x \o <<Dot>>) \o y \in Seq(Marks)
           /\ Parted((x \o <<Dot>>) \o y, x, y)
           /\ Stripped((x \o <<Dot>>) \o y) = (x \o <<Dot>>) \o y
<1>1. PICK h, u : h = <<Dot>> /\ u = x \o h
  OBVIOUS
<1>2. Dot \in Marks /\ Chars \subseteq Marks
  BY Bases DEF Dot, Marks, Chars, Pad
<1>3. x \in Seq(Marks) /\ y \in Seq(Marks)
  BY <1>2, SeqMonotonic, Zenon
<1>4. h \in Seq(Marks)
  BY <1>1, <1>2
<1>5. u \in Seq(Marks)
  BY <1>1, <1>3, <1>4, ConcatProperties, Zenon
<1>6. Stripped(u \o y) = Stripped(u) \o Stripped(y)
  BY <1>3, <1>5, StrippedCat, Zenon
<1>7. Stripped(x \o h) = Stripped(x) \o Stripped(h)
  BY <1>3, <1>4, StrippedCat, Zenon
<1>8. Stripped(x) = x /\ Stripped(y) = y
  BY NoBlanks, Zenon
<1>9. Stripped(h) = h
  BY <1>1, StrippedOne, NoBlanks, Zenon DEF Left
<1>10. Stripped((x \o <<Dot>>) \o y) = (x \o <<Dot>>) \o y
  BY <1>1, <1>6, <1>7, <1>8, <1>9, Zenon
<1>11. (x \o <<Dot>>) \o y \in Seq(Marks) /\ Parted((x \o <<Dot>>) \o y, x, y)
  BY <1>3, PartedIs, Zenon
<1> QED
  BY <1>10, <1>11

\* What OpenToken makes of the two texts around the last dot.
LEMMA OpenIs ==
    ASSUME NEW key, NEW w, NEW p, NEW s,
           Dots(w) # {} => p = Base64Decode(SubSeq(w, 1, LastDot(w) - 1)),
           Dots(w) # {} => s = Base64Decode(SubSeq(w, LastDot(w) + 1, Len(w)))
    PROVE  OpenToken(key, w) = IF Dots(w) = {} THEN Refused
                               ELSE IF ~p.ok \/ ~s.ok THEN Refused
                               ELSE IF s.value = Ed25519Sign(key, p.value) THEN p ELSE Refused
<1>1. OpenToken(key, w) =
         LET a == Base64Decode(SubSeq(w, 1, LastDot(w) - 1))
             b == Base64Decode(SubSeq(w, LastDot(w) + 1, Len(w)))
         IN  IF Dots(w) = {} THEN Refused
             ELSE IF ~a.ok \/ ~b.ok THEN Refused
             ELSE IF b.value = Ed25519Sign(key, a.value) THEN a ELSE Refused
  BY Zenon DEF OpenToken, Dots, LastDot, Ed25519Verify
<1>2. CASE Dots(w) = {}
  BY <1>1, <1>2, Zenon
<1>3. CASE Dots(w) # {}
  BY <1>1, <1>3, Zenon
<1> QED
  BY <1>2, <1>3

\* Records of what was accepted and refused.
LEMMA Outcomes ==
    /\ ~Refused.ok
    /\ \A v : Accepted(v).ok /\ Accepted(v).value = v /\ Accepted(v) # Refused
<1> SUFFICES ASSUME NEW v
             PROVE  ~Refused.ok /\ Accepted(v).ok /\ Accepted(v).value = v /\ Accepted(v) # Refused
  BY Zenon
<1>1. Refused.ok = FALSE
  BY DEF Refused
<1>2. Accepted(v).ok = TRUE /\ Accepted(v).value = v
  BY DEF Accepted
<1>3. Accepted(v) # Refused
  BY <1>1, <1>2, Zenon
<1> QED
  BY <1>1, <1>2, <1>3, Zenon

\* A token that mail has left whole, up to blanks, opens under its vendor's key.
LEMMA TokenWhole ==
    ASSUME NEW signer \in Octets, NEW key \in Octets, NEW text \in ShortTexts,
           NEW w \in Seq(Marks), Stripped(w) = SignToken(signer, text)
    PROVE  OpenToken(key, w) = IF key = signer THEN Accepted(text) ELSE Refused
<1>1. PICK g, x, y : g = Ed25519Sign(signer, text) /\ x = Base64Encode(text) /\ y = Base64Encode(g)
  OBVIOUS
<1>2. text \in Seq(Octets) /\ g \in Seq(Octets)
  BY <1>1, SignatureIs DEF ShortTexts
<1>3. x \in Seq(Chars) /\ y \in Seq(Chars)
  BY <1>1, <1>2, Encoded
<1>4. Stripped(w) = (x \o <<Dot>>) \o y
  BY <1>1, Zenon DEF SignToken
<1>5. PICK a, b : a = SubSeq(w, 1, LastDot(w) - 1) /\ b = SubSeq(w, LastDot(w) + 1, Len(w))
  OBVIOUS
<1>6. Dots(w) # {} /\ Stripped(a) = Base64Encode(text) /\ Stripped(b) = Base64Encode(g)
  <2>1. Dots(w) # {} /\ Stripped(a) = x /\ Stripped(b) = y
    BY <1>3, <1>4, <1>5, SplitAtDot, Zenon
  <2> QED
    BY <1>1, <2>1, Zenon
<1>7. PICK p, s : p = Base64Decode(a) /\ s = Base64Decode(b)
  OBVIOUS
<1>8. p = Accepted(text) /\ s = Accepted(g)
  BY <1>2, <1>6, <1>7, MailWhole, Zenon
<1>9. p.ok /\ p.value = text /\ s.ok /\ s.value = g
  BY <1>8, Outcomes, Zenon
<1>10. OpenToken(key, w) = IF g = Ed25519Sign(key, text) THEN p ELSE Refused
  <2>1. OpenToken(key, w) = IF Dots(w) = {} THEN Refused
                            ELSE IF ~p.ok \/ ~s.ok THEN Refused
                            ELSE IF s.value = Ed25519Sign(key, p.value) THEN p ELSE Refused
    BY <1>5, <1>7, OpenIs, Zenon
  <2> QED
    BY <1>6, <1>9, <2>1, Zenon
<1>11. g = Ed25519Sign(key, text) <=> key = signer
  <2>1. g[1] = signer /\ Ed25519Sign(key, text)[1] = key
    BY <1>1, SignatureIs
  <2> QED
    BY <1>1, <2>1, Zenon
<1> QED
  BY <1>8, <1>10, <1>11, Zenon

\* A token that lost its end opens under no key.
LEMMA TokenCut ==
    ASSUME NEW signer \in Octets, NEW key \in Octets, NEW text \in ShortTexts,
           NEW n \in 0..Len(SignToken(signer, text)) - 1
    PROVE  OpenToken(key, SubSeq(SignToken(signer, text), 1, n)) = Refused
<1>1. PICK g, x, y, t : /\ g = Ed25519Sign(signer, text) /\ x = Base64Encode(text)
                        /\ y = Base64Encode(g) /\ t = SignToken(signer, text)
  OBVIOUS
<1>2. /\ text \in Seq(Octets) /\ g \in Seq(Octets) /\ Len(g) = MaxText + 2
  BY <1>1, SignatureIs DEF ShortTexts
<1>3. x \in Seq(Chars) /\ y \in Seq(Chars)
  BY <1>1, <1>2, Encoded
<1>4. t = (x \o <<Dot>>) \o y
  BY <1>1, Zenon DEF SignToken
<1>5. t \in Seq(Marks) /\ Parted(t, x, y)
  BY <1>3, <1>4, TokenClean, Zenon
<1>6. PICK l, m : l = Len(x) /\ m = Len(y)
  OBVIOUS
<1>7. /\ l \in Nat /\ m \in Nat /\ Len(t) = l + 1 + m
      /\ \A k \in 1..l : t[k] = x[k]
      /\ t[l + 1] = Dot
      /\ \A k \in 1..m : t[l + 1 + k] = y[k]
  <2>1. l \in Nat /\ m \in Nat
    BY <1>3, <1>6
  <2> QED
    BY <1>5, <1>6, <2>1, Zenon DEF Parted
<1>8. PICK w : w = SubSeq(t, 1, n)
  OBVIOUS
<1>9. n \in 0..Len(t) /\ n < Len(t) /\ n \in Nat
  BY <1>1, <1>7
<1>10. w \in Seq(Marks) /\ Len(w) = n /\ \A k \in 1..n : w[k] = t[k]
  BY <1>5, <1>8, <1>9, Cut
<1>11. CASE n <= l
  <2>1. Dots(w) = {}
    <3>1. ASSUME NEW k \in 1..n PROVE w[k] # Dot
      <4>1. k \in 1..l /\ x[k] \in Chars
        BY <1>3, <1>6, <1>7, <1>9, <1>11, Elements
      <4> QED
        BY <1>7, <1>10, <4>1, NoBlanks
    <3> QED
      BY <1>10, <3>1 DEF Dots
  <2>2. OpenToken(key, w) = IF Dots(w) = {} THEN Refused
                            ELSE IF ~Refused.ok \/ ~Refused.ok THEN Refused
                            ELSE IF Refused.value = Ed25519Sign(key, Refused.value) THEN Refused
                            ELSE Refused
    BY <2>1, OpenIs, Zenon
  <2> QED
    BY <1>1, <1>8, <2>1, <2>2, Zenon
<1>12. CASE n > l
  <2>1. PICK i : i = n - l - 1
    OBVIOUS
  <2>2. i \in 0..m /\ i < m /\ i \in Nat /\ n = l + 1 + i
    BY <1>7, <1>9, <1>12, <2>1
  <2>3. PICK z : z = SubSeq(y, 1, i)
    OBVIOUS
  <2>4. z \in Seq(Chars) /\ Len(z) = i /\ \A k \in 1..i : z[k] = y[k]
    BY <1>3, <1>6, <2>2, <2>3, Cut
  <2>5. PICK v : v = (x \o <<Dot>>) \o z
    OBVIOUS
  <2>6. v \in Seq(Marks) /\ Parted(v, x, z) /\ Stripped(v) = v
    BY <1>3, <2>4, <2>5, TokenClean, Zenon
  <2>7. /\ Len(v) = l + 1 + i
        /\ \A k \in 1..l : v[k] = x[k]
        /\ v[l + 1] = Dot
        /\ \A k \in 1..i : v[l + 1 + k] = z[k]
    BY <1>6, <2>4, <2>6, Zenon DEF Parted
  <2>8. ASSUME NEW k \in 1..n PROVE w[k] = v[k]
    <3>1. w[k] = t[k]
      BY <1>10
    <3>2. CASE k <= l
      <4>1. k \in 1..l
        BY <1>7, <3>2
      <4> QED
        BY <1>7, <2>7, <3>1, <4>1
    <3>3. CASE k = l + 1
      BY <1>7, <2>7, <3>1, <3>3
    <3>4. CASE k > l + 1
      <4>1. PICK j : j = k - (l + 1)
        OBVIOUS
      <4>2. j \in 1..i /\ j \in 1..m /\ k = l + 1 + j
        BY <1>7, <2>2, <3>4, <4>1
      <4>3. t[l + 1 + j] = y[j] /\ v[l + 1 + j] = z[j] /\ z[j] = y[j]
        BY <1>7, <2>4, <2>7, <4>2
      <4> QED
        BY <3>1, <4>2, <4>3, Zenon
    <3> QED
      BY <1>7, <3>2, <3>3, <3>4
  <2>9. w = v
    BY <1>10, <2>2, <2>6, <2>7, <2>8, SeqEqual
  <2>10. PICK a, b : a = SubSeq(w, 1, LastDot(w) - 1) /\ b = SubSeq(w, LastDot(w) + 1, Len(w))
    OBVIOUS
  <2>11. Dots(w) # {} /\ Stripped(a) = x /\ Stripped(b) = z
    <3>1. w \in Seq(Marks) /\ x \in Seq(Chars) /\ z \in Seq(Chars)
      BY <1>3, <1>10, <2>4
    <3>2. Stripped(w) = (x \o <<Dot>>) \o z
      BY <2>5, <2>6, <2>9, Zenon
    <3>3. /\ Dots(w) # {}
          /\ Stripped(SubSeq(w, 1, LastDot(w) - 1)) = x
          /\ Stripped(SubSeq(w, LastDot(w) + 1, Len(w))) = z
      BY <3>1, <3>2, SplitAtDot, Zenon
    <3> QED
      BY <2>10, <3>3, Zenon
  <2>12. PICK p, s : p = Base64Decode(a) /\ s = Base64Decode(b)
    OBVIOUS
  <2>13. p = Accepted(text)
    BY <1>1, <1>2, <2>11, <2>12, MailWhole, Zenon
  <2>14. OpenToken(key, w) = IF Dots(w) = {} THEN Refused
                             ELSE IF ~p.ok \/ ~s.ok THEN Refused
                             ELSE IF s.value = Ed25519Sign(key, p.value) THEN p ELSE Refused
    BY <2>10, <2>12, OpenIs, Zenon
  <2>15. \/ s = Refused
         \/ \E k \in 0..Len(g) - 1 : s = Accepted(SubSeq(g, 1, k))
    <3>1. i < Len(Base64Encode(g)) /\ Stripped(b) = SubSeq(Base64Encode(g), 1, i)
      BY <1>1, <1>6, <2>2, <2>3, <2>11, Zenon
    <3> QED
      BY <1>2, <2>2, <2>12, <3>1, MailShort
  <2>16. CASE s = Refused
    <3>1. ~s.ok
      BY <2>16, Outcomes, Zenon
    <3> QED
      BY <1>1, <1>8, <2>14, <3>1, Zenon
  <2>17. CASE \E k \in 0..Len(g) - 1 : s = Accepted(SubSeq(g, 1, k))
    <3>1. PICK k \in 0..Len(g) - 1 : s = Accepted(SubSeq(g, 1, k))
      BY <2>17
    <3>2. k \in 0..Len(g) /\ k < Len(g)
      BY <1>2
    <3>3. Len(SubSeq(g, 1, k)) = k
      BY <1>2, <3>2, Cut
    <3>4. Len(Ed25519Sign(key, text)) = Len(g)
      BY <1>2, SignatureIs
    <3>5. SubSeq(g, 1, k) # Ed25519Sign(key, text)
      <4>1. k # Len(g)
        BY <3>2
      <4> QED
        BY <3>3, <3>4, <4>1, Zenon
    <3>6. s.value = SubSeq(g, 1, k) /\ p.value = text
      BY <2>13, <3>1, Outcomes, Zenon
    <3> QED
      BY <1>1, <1>8, <2>14, <3>5, <3>6, Zenon
  <2> QED
    BY <2>15, <2>16, <2>17
<1> QED
  BY <1>7, <1>9, <1>11, <1>12

-----------------------------------------------------------------------------
(* Ciphertexts.                                                            *)

\* There are at least sixteen bytes.
LEMMA Sixteen == ByteBase \in Nat /\ ByteBase >= 16 /\ \A n \in 0..15 : n \in Octets
<1>1. PICK d \in 2..CharBase : CharBase = d * d * d /\ ByteBase = CharBase * d
  BY BaseAssumption
<1>2. CharBase \in Nat /\ d \in Nat /\ d >= 2
  BY BaseAssumption
<1>3. PICK e : e = d * d
  OBVIOUS
<1>4. e \in Nat /\ e >= 4 /\ CharBase = e * d
  <2>1. d * d >= 2 * d
    BY <1>2
  <2> QED
    BY <1>1, <1>2, <1>3, <2>1
<1>5. CharBase >= 8
  <2>1. e * d >= 4 * d
    BY <1>2, <1>4
  <2> QED
    BY <1>2, <1>4, <2>1
<1>6. CharBase * d >= 8 * d
  BY <1>2, <1>5
<1>7. ByteBase \in Nat /\ ByteBase >= 16
  BY <1>1, <1>2, <1>6
<1> QED
  BY <1>7 DEF Octets

\* Adding is undone, modulo b.
Unshifts(b, t, key, z, k) ==
    /\ (t + key + z + k) % b \in 0..b - 1
    /\ (((t + key + z + k) % b) - key - z - k) % b = t

\* A shift by key, nonce and place is taken back by the same.
LEMMA Unshifted ==
    ASSUME NEW b \in Nat, b > 0, NEW t \in 0..b - 1, NEW key \in Nat, NEW z \in Nat, NEW k \in Nat
    PROVE  Unshifts(b, t, key, z, k)
<1>1. PICK a \in Nat : a = t + key + z + k
  OBVIOUS
<1>2. PICK u, q : u = a % b /\ q = a \div b
  OBVIOUS
<1>3. q \in Int /\ u \in 0..b - 1 /\ a = q * b + u
  BY <1>2
<1>4. PICK p, c : p = -q /\ c = u - key - z - k
  OBVIOUS
<1>5. p \in Int /\ c = p * b + t
  <2>1. p * b = -(q * b) /\ q * b \in Int
    BY <1>3, <1>4
  <2> QED
    BY <1>1, <1>3, <1>4, <2>1
<1>6. t \in Nat /\ t < b
  OBVIOUS
<1>7. c % b = t
  BY <1>5, <1>6, Remainder, Zenon
<1> QED
  BY <1>1, <1>2, <1>3, <1>4, <1>7, Zenon DEF Unshifts

\* Masking is undone.
LEMMA MaskedBack ==
    ASSUME NEW key \in Octets, NEW nonce \in Seq(Octets), Len(nonce) = 1,
           NEW text \in Seq(Octets)
    PROVE  /\ Masked(key, nonce, text) \in Seq(Octets)
           /\ Len(Masked(key, nonce, text)) = Len(text)
           /\ Unmasked(key, nonce, Masked(key, nonce, text)) = text
<1>1. PICK b, n, z : b = ByteBase /\ n = Len(text) /\ z = nonce[1]
  OBVIOUS
<1>2. b \in Nat /\ b > 0 /\ n \in Nat /\ z \in Nat /\ key \in Nat
  <2>1. nonce[1] \in Octets
    OBVIOUS
  <2> QED
    BY <1>1, <2>1, Bases DEF Octets
<1>3. PICK m : m = Masked(key, nonce, text)
  OBVIOUS
<1>4. m = [k \in 1..n |-> (text[k] + key + z + k) % b]
  BY <1>1, <1>3, Zenon DEF Masked
<1>5. ASSUME NEW k \in 1..n
      PROVE  /\ (text[k] + key + z + k) % b \in Octets
             /\ (((text[k] + key + z + k) % b) - key - z - k) % b = text[k]
  <2>1. PICK t : t = text[k]
    OBVIOUS
  <2>2. t \in 0..b - 1
    <3>1. text[k] \in Octets
      BY <1>1, Elements
    <3> QED
      BY <1>1, <2>1, <3>1 DEF Octets
  <2>3. k \in Nat
    BY <1>2
  <2>4. /\ (t + key + z + k) % b \in 0..b - 1
        /\ (((t + key + z + k) % b) - key - z - k) % b = t
    <3>1. Unshifts(b, t, key, z, k)
      BY <1>2, <2>2, <2>3, Unshifted
    <3> QED
      BY <3>1, Zenon DEF Unshifts
  <2>5. 0..b - 1 = Octets
    BY <1>1 DEF Octets
  <2> QED
    BY <2>1, <2>4, <2>5, Zenon
<1>6. m \in Seq(Octets) /\ Len(m) = n /\ \A k \in 1..n : m[k] = (text[k] + key + z + k) % b
  <2> DEFINE f(k) == (text[k] + key + z + k) % b
  <2>1. m = [k \in 1..n |-> f(k)] /\ \A k \in 1..n : f(k) \in Octets
    BY <1>4, <1>5
  <2> HIDE DEF f
  <2>2. m \in Seq(Octets) /\ Len(m) = n /\ \A k \in 1..n : m[k] = f(k)
    BY <1>2, <2>1
  <2> QED
    BY <2>2 DEF f
<1>7. Unmasked(key, nonce, m) = [k \in 1..n |-> (m[k] - key - z - k) % b]
  BY <1>1, <1>6, Zenon DEF Unmasked
<1>8. [k \in 1..n |-> (m[k] - key - z - k) % b] = [k \in 1..n |-> text[k]]
  BY <1>5, <1>6, Zenon
<1>9. [k \in 1..n |-> text[k]] = text
  BY <1>1
<1> QED
  BY <1>1, <1>3, <1>6, <1>7, <1>8, <1>9, Zenon

\* t is the tag of a ciphertext.
IsTag(t, key, aad, nonce, ct) ==
    /\ Len(t) = MaxText + 4 /\ t[1] = key /\ t[2] = aad /\ t[3] = nonce[1] /\ t[4] = Len(ct)
    /\ \A j \in 1..Len(ct) : t[4 + j] = ct[j]
    /\ \A j \in Len(ct) + 1..MaxText : t[4 + j] = 0

\* What Tag makes of a ciphertext, place by place.
LEMMA TagIs ==
    ASSUME NEW key \in Octets, NEW aad \in Octets, NEW nonce \in Seq(Octets), Len(nonce) = 1,
           NEW ct \in ShortTexts
    PROVE  /\ Tag(key, aad, nonce, ct) \in Seq(Octets)
           /\ IsTag(Tag(key, aad, nonce, ct), key, aad, nonce, ct)
<1>1. PICK h, u, s, t : /\ h = <<key, aad>> /\ u = h \o nonce /\ s = Spelled(ct) /\ t = u \o s
  OBVIOUS
<1>2. h \in Seq(Octets) /\ Len(h) = 2 /\ h[1] = key /\ h[2] = aad
  BY <1>1
<1>3. Behind(u, h, 2, nonce, 1) /\ u \in Seq(Octets)
  BY <1>1, <1>2, BehindIs, Zenon
<1>4. Len(u) = 3 /\ u[1] = key /\ u[2] = aad /\ u[3] = nonce[1]
  <2>1. 2 + 1 = Len(u) /\ (\A k \in 1..2 : u[k] = h[k]) /\ \A k \in 1..1 : u[2 + k] = nonce[k]
    BY <1>3 DEF Behind
  <2> QED
    BY <1>2, <2>1
<1>5. s \in Seq(Octets) /\ IsSpelled(s, ct)
  BY <1>1, SpelledIs
<1>6. PICK l, n, m : l = MaxText + 1 /\ n = Len(ct) /\ m = MaxText
  OBVIOUS
<1>7. /\ n \in 0..m /\ m \in Nat /\ Len(s) = m + 1 /\ l = m + 1 /\ s[1] = n
      /\ \A j \in 1..n : s[1 + j] = ct[j]
      /\ \A j \in n + 1..m : s[1 + j] = 0
  <2>1. n \in 0..m /\ m \in Nat
    BY <1>6, MaxTextAssumption DEF ShortTexts
  <2> QED
    BY <1>5, <1>6, <2>1, Zenon DEF IsSpelled
<1>8. Behind(t, u, 3, s, l) /\ t \in Seq(Octets)
  <2>1. Behind(t, u, Len(u), s, Len(s)) /\ t \in Seq(Octets)
    BY <1>1, <1>3, <1>5, BehindIs, Zenon
  <2> QED
    BY <1>4, <1>7, <2>1, Zenon
<1>9. 3 + l = Len(t) /\ (\A k \in 1..3 : t[k] = u[k]) /\ \A k \in 1..l : t[3 + k] = s[k]
  BY <1>8 DEF Behind
<1>10. Len(t) = m + 4 /\ t[1] = key /\ t[2] = aad /\ t[3] = nonce[1] /\ t[4] = n
  <2>1. 1 \in 1..l /\ 3 + 1 = 4
    BY <1>7
  <2> QED
    BY <1>4, <1>7, <1>9, <2>1
<1>11. ASSUME NEW j \in 1..m PROVE t[4 + j] = s[1 + j]
  <2>1. PICK k : k = 1 + j
    OBVIOUS
  <2>2. k \in 1..l /\ 3 + k = 4 + j
    BY <1>7, <2>1
  <2>3. t[3 + k] = s[k]
    BY <1>9, <2>2
  <2> QED
    BY <2>1, <2>2, <2>3, Zenon
<1>12. ASSUME NEW j \in 1..n PROVE t[4 + j] = ct[j]
  BY <1>7, <1>11
<1>13. ASSUME NEW j \in n + 1..m PROVE t[4 + j] = 0
  BY <1>7, <1>11
<1>14. IsTag(t, key, aad, nonce, ct)
  BY <1>6, <1>10, <1>12, <1>13 DEF IsTag
<1> QED
  BY <1>1, <1>8, <1>14, Zenon DEF Tag

\* b is the m letters of s behind position a.
Between(b, s, a, m) == Len(b) = m /\ \A k \in 1..m : b[k] = s[a + k]

\* SubSeq gives what stands between.
LEMMA BetweenIs ==
    ASSUME NEW S, NEW s \in Seq(S), NEW a \in Nat, NEW m \in Nat, a + m <= Len(s),
           NEW f, f = a + 1, NEW l, l = a + m
    PROVE  SubSeq(s, f, l) \in Seq(S) /\ Between(SubSeq(s, f, l), s, a, m)
<1>1. f \in Int /\ l \in Int
  OBVIOUS
<1>2. \A i \in f..l : s[i] \in S
  BY Elements
<1>3. PICK b : b = SubSeq(s, f, l)
  OBVIOUS
<1>4. /\ b \in Seq(S)
      /\ Len(b) = IF f <= l THEN l - f + 1 ELSE 0
      /\ \A i \in 1..l - f + 1 : b[i] = s[f + i - 1]
  BY <1>1, <1>2, <1>3, SubSeqProperties
<1>5. l - f + 1 = m /\ (f <= l \/ m = 0)
  OBVIOUS
<1>6. Len(b) = m
  BY <1>4, <1>5
<1>7. ASSUME NEW k \in 1..m PROVE b[k] = s[a + k]
  <2>1. f + k - 1 = a + k
    OBVIOUS
  <2> QED
    BY <1>4, <1>5, <2>1
<1> QED
  BY <1>3, <1>4, <1>6, <1>7, Zenon DEF Between

\* c is a nonce, a ciphertext and a tag.
Sealed(c, nonce, ct, t) ==
    /\ Len(c) = 1 + Len(ct) + TagLen /\ c[1] = nonce[1]
    /\ \A j \in 1..Len(ct) : c[1 + j] = ct[j]
    /\ \A i \in 1..TagLen : c[1 + Len(ct) + i] = t[i]

\* What AesEncrypt makes of a text: its nonce, the masked text and its tag.
LEMMA AesIs ==
    ASSUME NEW key \in Octets, NEW aad \in Octets, NEW nonce \in Seq(Octets), Len(nonce) = 1,
           NEW plain \in ShortTexts, NEW ct, ct = Masked(key, nonce, plain)
    PROVE  /\ ct \in ShortTexts /\ Len(ct) = Len(plain)
           /\ AesEncrypt(key, aad, nonce, plain) \in Seq(Octets)
           /\ Sealed(AesEncrypt(key, aad, nonce, plain), nonce, ct, Tag(key, aad, nonce, ct))
<1>1. PICK t, u, c : t = Tag(key, aad, nonce, ct) /\ u = nonce \o ct /\ c = u \o t
  OBVIOUS
<1>2. ct \in Seq(Octets) /\ Len(ct) = Len(plain) /\ ct \in ShortTexts
  <2>1. plain \in Seq(Octets) /\ Len(plain) <= MaxText
    BY DEF ShortTexts
  <2>2. ct \in Seq(Octets) /\ Len(ct) = Len(plain)
    BY <2>1, MaskedBack
  <2> QED
    BY <2>1, <2>2 DEF ShortTexts
<1>3. PICK n, l : n = Len(ct) /\ l = TagLen
  OBVIOUS
<1>4. t \in Seq(Octets) /\ Len(t) = l /\ n \in Nat /\ l \in Nat
  <2>1. t \in Seq(Octets) /\ Len(t) = MaxText + 4
    BY <1>1, <1>2, TagIs DEF IsTag
  <2> QED
    BY <1>2, <1>3, <2>1, MaxTextAssumption DEF TagLen
<1>5. Behind(u, nonce, 1, ct, n) /\ u \in Seq(Octets)
  BY <1>1, <1>2, <1>3, BehindIs, Zenon
<1>6. /\ 1 + n = Len(u) /\ (\A k \in 1..1 : u[k] = nonce[k])
      /\ \A k \in 1..n : u[1 + k] = ct[k]
  BY <1>5 DEF Behind
<1>7. Behind(c, u, 1 + n, t, l) /\ c \in Seq(Octets)
  <2>1. Behind(c, u, Len(u), t, Len(t)) /\ c \in Seq(Octets)
    BY <1>1, <1>4, <1>5, BehindIs, Zenon
  <2> QED
    BY <1>4, <1>6, <2>1, Zenon
<1>8. /\ 1 + n + l = Len(c) /\ (\A k \in 1..1 + n : c[k] = u[k])
      /\ \A k \in 1..l : c[1 + n + k] = t[k]
  BY <1>7 DEF Behind
<1>9. c[1] = nonce[1] /\ \A j \in 1..n : c[1 + j] = ct[j]
  BY <1>4, <1>6, <1>8
<1>10. Sealed(c, nonce, ct, t)
  BY <1>3, <1>8, <1>9, Zenon DEF Sealed
<1>11. c = AesEncrypt(key, aad, nonce, plain)
  BY <1>1, Zenon DEF AesEncrypt
<1> QED
  BY <1>1, <1>2, <1>7, <1>10, <1>11, Zenon

\* What AesDecrypt takes for the ciphertext and for the tag of a beginning of
\* c that is long enough to have both.
Taken(b, g, key, aad, nonce, v) ==
    AesDecrypt(key, aad, v) =
        IF g # Tag(key, aad, nonce, b) THEN Refused ELSE Accepted(Unmasked(key, nonce, b))

\* AesDecrypt takes a beginning of a ciphertext apart where it was put together.
LEMMA AesParts ==
    ASSUME NEW c \in Seq(Octets), NEW nonce \in Seq(Octets), Len(nonce) = 1, NEW ct \in ShortTexts,
           NEW t, Sealed(c, nonce, ct, t), NEW p \in 0..Len(ct), NEW key, NEW aad,
           NEW v, v = SubSeq(c, 1, 1 + p + TagLen)
    PROVE  \E b \in Seq(Octets), g \in Seq(Octets) :
              /\ Between(b, ct, 0, p) /\ Between(g, c, 1 + p, TagLen)
              /\ Taken(b, g, key, aad, nonce, v)
<1>1. PICK n, l, m : n = Len(ct) /\ l = TagLen /\ m = 1 + p + l
  OBVIOUS
<1>2. /\ n \in Nat /\ l \in Nat /\ l >= 5 /\ m \in Nat /\ p \in 0..n /\ m >= 1 + l
      /\ Len(c) = 1 + n + l
  <2>1. n \in Nat /\ l \in Nat /\ l >= 5
    BY <1>1, MaxTextAssumption DEF ShortTexts, TagLen
  <2>2. Len(c) = 1 + n + l
    BY <1>1, Zenon DEF Sealed
  <2> QED
    BY <1>1, <2>1, <2>2
<1>3. v \in Seq(Octets) /\ Len(v) = m /\ \A k \in 1..m : v[k] = c[k]
  <2>1. c \in Seq(Octets) /\ v = SubSeq(c, 1, m) /\ m \in 0..Len(c)
    BY <1>1, <1>2
  <2>2. /\ SubSeq(c, 1, m) \in Seq(Octets) /\ Len(SubSeq(c, 1, m)) = m
        /\ \A k \in 1..m : SubSeq(c, 1, m)[k] = c[k]
    BY <2>1, Cut, Zenon
  <2> QED
    BY <2>1, <2>2, Zenon
<1>4. PICK o, b, g : /\ o = SubSeq(v, 1, NonceLen) /\ b = SubSeq(v, NonceLen + 1, Len(v) - TagLen)
                     /\ g = SubSeq(v, Len(v) - TagLen + 1, Len(v))
  OBVIOUS
<1>5. o = nonce
  <2>1. o = SubSeq(v, 1, 1) /\ 1 \in 0..Len(v)
    BY <1>2, <1>3, <1>4 DEF NonceLen
  <2>2. o \in Seq(Octets) /\ Len(o) = 1 /\ \A k \in 1..1 : o[k] = v[k]
    BY <1>3, <2>1, Cut
  <2>3. c[1] = nonce[1]
    BY DEF Sealed
  <2>4. o[1] = nonce[1]
    BY <1>2, <1>3, <2>2, <2>3
  <2>5. \A k \in 1..Len(o) : o[k] = nonce[k]
    BY <2>2, <2>4
  <2> QED
    BY <2>2, <2>5, SeqEqual
<1>6. b \in Seq(Octets) /\ Between(b, ct, 0, p)
  <2>1. PICK i, f, e : i = 1 /\ f = i + 1 /\ e = i + p
    OBVIOUS
  <2>2. f = NonceLen + 1 /\ e = Len(v) - TagLen /\ i \in Nat /\ p \in Nat /\ i + p <= Len(v)
    BY <1>1, <1>2, <1>3, <2>1 DEF NonceLen
  <2>3. b = SubSeq(v, f, e)
    BY <1>4, <2>2, Zenon
  <2>4. b \in Seq(Octets) /\ Between(b, v, i, p)
    BY <1>3, <2>1, <2>2, <2>3, BetweenIs, Zenon
  <2>5. ASSUME NEW k \in 1..p PROVE b[k] = ct[0 + k]
    <3>1. b[k] = v[1 + k]
      BY <2>1, <2>4 DEF Between
    <3>2. 1 + k \in 1..m /\ k \in 1..n
      BY <1>1, <1>2
    <3>3. c[1 + k] = ct[k]
      BY <1>1, <3>2 DEF Sealed
    <3> QED
      BY <1>3, <3>1, <3>2, <3>3
  <2> QED
    BY <2>4, <2>5 DEF Between
<1>7. g \in Seq(Octets) /\ Between(g, c, 1 + p, TagLen)
  <2>1. PICK i, f, e : i = 1 + p /\ f = i + 1 /\ e = i + l
    OBVIOUS
  <2>2. f = Len(v) - TagLen + 1 /\ e = Len(v) /\ i \in Nat /\ i + l <= Len(v)
    BY <1>1, <1>2, <1>3, <2>1
  <2>3. g = SubSeq(v, f, e)
    BY <1>4, <2>2, Zenon
  <2>4. g \in Seq(Octets) /\ Between(g, v, i, l)
    BY <1>2, <1>3, <2>1, <2>2, <2>3, BetweenIs, Zenon
  <2>5. ASSUME NEW k \in 1..l PROVE g[k] = c[1 + p + k]
    <3>1. g[k] = v[1 + p + k]
      BY <2>1, <2>4 DEF Between
    <3>2. 1 + p + k \in 1..m
      BY <1>1, <1>2
    <3> QED
      BY <1>3, <3>1, <3>2
  <2> QED
    BY <1>1, <2>4, <2>5, Zenon DEF Between
<1>8. Taken(b, g, key, aad, nonce, v)
  <2>1. ~(Len(v) < NonceLen + TagLen)
    BY <1>1, <1>2, <1>3 DEF NonceLen
  <2>2. AesDecrypt(key, aad, v) =
            IF Len(v) < NonceLen + TagLen \/ g # Tag(key, aad, o, b) THEN Refused
            ELSE Accepted(Unmasked(key, o, b))
    BY <1>4, Zenon DEF AesDecrypt
  <2> QED
    BY <1>5, <2>1, <2>2, Zenon DEF Taken
<1> QED
  BY <1>6, <1>7, <1>8

\* A beginning of a ciphertext never ends in its own tag: the length that the
\* tag spells would have to stand in the ciphertext, again and again from the
\* cut to the end of what is left, where the tag has a zero.
LEMMA NoTagWithin ==
    ASSUME NEW ct \in ShortTexts, NEW p \in 0..Len(ct) - 1, NEW nonce,
           NEW c, NEW t, NEW key, NEW aad, IsTag(t, key, aad, nonce, ct), Sealed(c, nonce, ct, t),
           NEW b, NEW g, Between(b, ct, 0, p), Between(g, c, 1 + p, TagLen),
           NEW k2, NEW aad2, IsTag(g, k2, aad2, nonce, b)
    PROVE  FALSE
<1>1. PICK n, d, m : n = Len(ct) /\ d = n - p /\ m = MaxText
  OBVIOUS
<1>2. n \in Nat /\ d \in Nat /\ d >= 1 /\ m \in Nat /\ n <= m /\ p \in Nat /\ p + d = n /\ n >= 1
  BY <1>1, MaxTextAssumption DEF ShortTexts
<1>3. /\ t[4] = n /\ \A j \in 1..n : t[4 + j] = ct[j]
  BY <1>1 DEF IsTag
<1>4. Len(b) = p /\ \A j \in 1..p : b[j] = ct[j]
  <2>1. Len(b) = p /\ \A j \in 1..p : b[j] = ct[0 + j]
    BY DEF Between
  <2>2. \A j \in 1..p : 0 + j = j
    OBVIOUS
  <2> QED
    BY <2>1, <2>2
<1>5. (\A j \in 1..p : g[4 + j] = ct[j]) /\ \A j \in p + 1..m : g[4 + j] = 0
  <2>1. (\A j \in 1..Len(b) : g[4 + j] = b[j]) /\ \A j \in Len(b) + 1..MaxText : g[4 + j] = 0
    BY DEF IsTag
  <2> QED
    BY <1>1, <1>4, <2>1
<1>6. ASSUME NEW j \in 0..m - d PROVE g[4 + (j + d)] = t[4 + j]
  <2>1. PICK i : i = 4 + (j + d)
    OBVIOUS
  <2>2. i \in 1..TagLen /\ 4 + j \in 1..TagLen /\ 1 + p + i = 1 + n + (4 + j)
    BY <1>1, <1>2, <2>1 DEF TagLen
  <2>3. g[i] = c[1 + p + i]
    BY <2>2 DEF Between
  <2>4. c[1 + n + (4 + j)] = t[4 + j]
    BY <1>1, <2>2 DEF Sealed
  <2> QED
    BY <2>1, <2>2, <2>3, <2>4, Zenon
<1>7. g[4 + d] = n
  <2>1. 0 \in 0..m - d /\ 4 + (0 + d) = 4 + d /\ 4 + 0 = 4
    BY <1>2
  <2> QED
    BY <1>3, <1>6, <2>1
<1>8. d \in 1..p /\ ct[d] = n
  <2>1. d \in 1..p
    <3> SUFFICES ASSUME d > p PROVE FALSE
      BY <1>2
    <3>1. d \in p + 1..m
      BY <1>2
    <3> QED
      BY <1>2, <1>5, <1>7, <3>1
  <2> QED
    BY <1>5, <1>7, <2>1
<1>9. ASSUME NEW j \in 1..p PROVE ct[j] = IF j + d <= p THEN ct[j + d] ELSE 0
  <2>1. PICK i : i = j + d
    OBVIOUS
  <2>2. j \in 0..m - d /\ j \in 1..n /\ i \in 1..m
    BY <1>2, <2>1
  <2>3. g[4 + i] = ct[j]
    BY <1>3, <1>6, <2>1, <2>2
  <2>4. CASE i <= p
    <3>1. i \in 1..p
      BY <2>2, <2>4
    <3> QED
      BY <1>5, <2>1, <2>3, <2>4, <3>1
  <2>5. CASE ~(i <= p)
    <3>1. i \in p + 1..m
      BY <1>2, <2>2, <2>5
    <3> QED
      BY <1>5, <2>1, <2>3, <2>5, <3>1
  <2> QED
    BY <2>4, <2>5
<1>10. PICK S : S = {j \in 1..p : ct[j] = n}
  OBVIOUS
<1>11. PICK j \in S : \A i \in S : i <= j
  <2>1. S \in SUBSET (1..p) /\ S # {}
    BY <1>8, <1>10
  <2> QED
    BY <1>2, <2>1, LargestOf
<1>12. j \in 1..p /\ ct[j] = n
  BY <1>10, <1>11
<1>13. CASE j + d <= p
  <2>1. PICK i : i = j + d
    OBVIOUS
  <2>2. i \in 1..p /\ i > j
    BY <1>2, <1>12, <1>13, <2>1
  <2>3. ct[i] = n
    BY <1>9, <1>12, <1>13, <2>1
  <2> QED
    BY <1>10, <1>11, <1>12, <2>2, <2>3
<1>14. CASE ~(j + d <= p)
  BY <1>2, <1>9, <1>12, <1>14
<1> QED
  BY <1>13, <1>14

\* A ciphertext opens under its key and for its associated data, and no other.
LEMMA AesOpens ==
    ASSUME NEW key \in Octets, NEW aad \in Octets, NEW nonce \in Seq(Octets), Len(nonce) = 1,
           NEW plain \in ShortTexts, NEW k2 \in Octets, NEW aad2 \in Octets
    PROVE  AesDecrypt(k2, aad2, AesEncrypt(key, aad, nonce, plain)) =
               IF k2 = key /\ aad2 = aad THEN Accepted(plain) ELSE Refused
<1>1. PICK ct, c, t : /\ ct = Masked(key, nonce, plain) /\ c = AesEncrypt(key, aad, nonce, plain)
                      /\ t = Tag(key, aad, nonce, ct)
  OBVIOUS
<1>2. ct \in ShortTexts /\ Len(ct) = Len(plain) /\ c \in Seq(Octets) /\ Sealed(c, nonce, ct, t)
  <2>1. /\ AesEncrypt(key, aad, nonce, plain) \in Seq(Octets)
        /\ Sealed(AesEncrypt(key, aad, nonce, plain), nonce, ct, Tag(key, aad, nonce, ct))
        /\ ct \in ShortTexts /\ Len(ct) = Len(plain)
    BY <1>1, AesIs
  <2> QED
    BY <1>1, <2>1, Zenon
<1>3. PICK n : n = Len(ct)
  OBVIOUS
<1>4. n \in 0..Len(ct) /\ ct \in Seq(Octets) /\ plain \in Seq(Octets) /\ TagLen \in Nat
  BY <1>2, <1>3, MaxTextAssumption DEF ShortTexts, TagLen
<1>5. SubSeq(c, 1, 1 + n + TagLen) = c
  <2>1. Len(c) = 1 + n + TagLen
    BY <1>2, <1>3, Zenon DEF Sealed
  <2>2. SubSeq(c, 1, Len(c)) = c
    BY <1>2, Whole
  <2> QED
    BY <2>1, <2>2, Zenon
<1>6. PICK b \in Seq(Octets), g \in Seq(Octets) :
         /\ Between(b, ct, 0, n) /\ Between(g, c, 1 + n, TagLen)
         /\ Taken(b, g, k2, aad2, nonce, c)
  BY <1>2, <1>4, <1>5, AesParts, Zenon
<1>7. b = ct
  <2>1. Len(b) = Len(ct) /\ \A k \in 1..Len(b) : b[k] = ct[0 + k]
    BY <1>3, <1>6, Zenon DEF Between
  <2>2. \A k \in 1..Len(b) : b[k] = ct[k]
    BY <1>4, <2>1
  <2> QED
    BY <1>4, <2>1, <2>2, SeqEqual
<1>8. t \in Seq(Octets) /\ IsTag(t, key, aad, nonce, ct)
  BY <1>1, <1>2, TagIs
<1>9. g = t
  <2>1. Len(g) = TagLen /\ \A i \in 1..TagLen : g[i] = c[1 + n + i]
    BY <1>6 DEF Between
  <2>2. \A i \in 1..TagLen : c[1 + n + i] = t[i]
    BY <1>2, <1>3 DEF Sealed
  <2>3. Len(t) = TagLen
    BY <1>8 DEF IsTag, TagLen
  <2>4. \A i \in 1..Len(g) : g[i] = t[i]
    BY <2>1, <2>2
  <2> QED
    BY <1>8, <2>1, <2>3, <2>4, SeqEqual
<1>10. t = Tag(k2, aad2, nonce, ct) <=> k2 = key /\ aad2 = aad
  <2>1. t[1] = key /\ t[2] = aad
    BY <1>8 DEF IsTag
  <2>2. Tag(k2, aad2, nonce, ct)[1] = k2 /\ Tag(k2, aad2, nonce, ct)[2] = aad2
    BY <1>2, TagIs DEF IsTag
  <2> QED
    BY <1>1, <2>1, <2>2, Zenon
<1>11. Unmasked(key, nonce, ct) = plain
  BY <1>1, <1>4, MaskedBack
<1> QED
  BY <1>1, <1>6, <1>7, <1>9, <1>10, <1>11, Zenon DEF Taken

\* A ciphertext that lost its end opens under no key.
LEMMA AesCut ==
    ASSUME NEW key \in Octets, NEW aad \in Octets, NEW nonce \in Seq(Octets), Len(nonce) = 1,
           NEW plain \in ShortTexts, NEW k2 \in Octets, NEW aad2 \in Octets,
           NEW c, c = AesEncrypt(key, aad, nonce, plain), NEW m \in 0..Len(c) - 1
    PROVE  AesDecrypt(k2, aad2, SubSeq(c, 1, m)) = Refused
<1>1. PICK ct, t, v : /\ ct = Masked(key, nonce, plain) /\ t = Tag(key, aad, nonce, ct)
                      /\ v = SubSeq(c, 1, m)
  OBVIOUS
<1>2. ct \in ShortTexts /\ c \in Seq(Octets) /\ Sealed(c, nonce, ct, t)
  BY <1>1, AesIs, Zenon
<1>3. PICK n, l : n = Len(ct) /\ l = TagLen
  OBVIOUS
<1>4. n \in Nat /\ ct \in Seq(Octets) /\ l \in Nat /\ Len(c) = 1 + n + l /\ n <= MaxText
  <2>1. Len(c) = 1 + n + l
    BY <1>2, <1>3, Zenon DEF Sealed
  <2> QED
    BY <1>2, <1>3, <2>1, MaxTextAssumption DEF ShortTexts, TagLen
<1>5. v \in Seq(Octets) /\ Len(v) = m
  <2>1. m \in 0..Len(c)
    BY <1>4
  <2> QED
    BY <1>1, <1>2, <2>1, Cut
<1>6. CASE m < 1 + l
  <2>1. Len(v) < NonceLen + TagLen
    BY <1>3, <1>5, <1>6 DEF NonceLen
  <2> QED
    BY <1>1, <2>1, Zenon DEF AesDecrypt
<1>7. CASE ~(m < 1 + l)
  <2>1. PICK p : p = m - 1 - l
    OBVIOUS
  <2>2. p \in 0..n - 1 /\ p \in 0..n /\ m = 1 + p + l
    BY <1>4, <1>7, <2>1
  <2>3. p \in 0..Len(ct) /\ p \in 0..Len(ct) - 1 /\ v = SubSeq(c, 1, 1 + p + TagLen)
    BY <1>1, <1>3, <2>2, Zenon
  <2>4. PICK b \in Seq(Octets), g \in Seq(Octets) :
           /\ Between(b, ct, 0, p) /\ Between(g, c, 1 + p, TagLen)
           /\ Taken(b, g, k2, aad2, nonce, v)
    BY <1>2, <2>3, AesParts, Zenon
  <2>5. IsTag(t, key, aad, nonce, ct)
    BY <1>1, <1>2, TagIs
  <2>6. b \in ShortTexts
    <3>1. Len(b) = p
      BY <2>4 DEF Between
    <3> QED
      BY <1>4, <2>2, <3>1, MaxTextAssumption DEF ShortTexts
  <2>7. g # Tag(k2, aad2, nonce, b)
    <3> SUFFICES ASSUME g = Tag(k2, aad2, nonce, b) PROVE FALSE
      OBVIOUS
    <3>1. IsTag(g, k2, aad2, nonce, b)
      BY <2>6, TagIs
    <3> QED
      BY <1>2, <2>3, <2>4, <2>5, <3>1, NoTagWithin, Zenon
  <2> QED
    BY <1>1, <2>4, <2>7, Zenon DEF Taken
<1> QED
  BY <1>6, <1>7

-----------------------------------------------------------------------------
(* Requests.                                                               *)

Parties == 0..1
Ephemerals == 2..3

\* Both sides derive the same secret, and from another key another one.
LEMMA Secrets ==
    ASSUME NEW eph \in Ephemerals, NEW to \in Parties, NEW key \in Parties
    PROVE  /\ X25519Exchange(eph, to) \in Octets /\ X25519Exchange(key, eph) \in Octets
           /\ X25519Exchange(key, eph) = X25519Exchange(eph, to) <=> key = to
<1>1. ~(eph < to) /\ key < eph
  BY DEF Ephemerals, Parties
<1>2. X25519Exchange(eph, to) = 4 * to + eph /\ X25519Exchange(key, eph) = 4 * key + eph
  BY <1>1, Zenon DEF X25519Exchange
<1>3. 4 * to + eph \in 0..15 /\ 4 * key + eph \in 0..15
  BY DEF Ephemerals, Parties
<1>4. 4 * key + eph = 4 * to + eph <=> key = to
  BY DEF Ephemerals, Parties
<1> QED
  BY <1>2, <1>3, <1>4, Sixteen, Zenon

\* A letter before a text, and the beginnings of the text behind it.
LEMMA Headed ==
    ASSUME NEW S, NEW x \in S, NEW c \in Seq(S), NEW h, h = <<x>> \o c
    PROVE  /\ h \in Seq(S) /\ Len(h) = 1 + Len(c) /\ h[1] = x
           /\ \A k \in 1..Len(c) : h[1 + k] = c[k]
<1>1. PICK o, n : o = <<x>> /\ n = Len(c)
  OBVIOUS
<1>2. o \in Seq(S) /\ Len(o) = 1 /\ o[1] = x
  BY <1>1
<1>3. Behind(h, o, 1, c, n) /\ h \in Seq(S)
  BY <1>1, <1>2, BehindIs, Zenon
<1>4. /\ 1 + n = Len(h) /\ (\A k \in 1..1 : h[k] = o[k]) /\ \A k \in 1..n : h[1 + k] = c[k]
  BY <1>3 DEF Behind
<1>5. h[1] = x
  BY <1>2, <1>4
<1> QED
  BY <1>1, <1>3, <1>4, <1>5, Zenon

\* v is x and, where a hybrid ciphertext has its AES part, m - 1 letters of c.
HeadAnd(v, x, c, m) == v[1] = x /\ SubSeq(v, EphLen + 1, Len(v)) = SubSeq(c, 1, m - 1)

\* A beginning of a text with one letter in front.
LEMMA BehindHead ==
    ASSUME NEW S, NEW x \in S, NEW c \in Seq(S), NEW h, h = <<x>> \o c,
           NEW m \in 1..Len(h), NEW v, v = SubSeq(h, 1, m)
    PROVE  HeadAnd(v, x, c, m)
<1>1. PICK n : n = Len(c)
  OBVIOUS
<1>2. h \in Seq(S) /\ Len(h) = 1 + n /\ h[1] = x /\ \A k \in 1..n : h[1 + k] = c[k]
  <2>1. h \in Seq(S) /\ Len(h) = 1 + Len(c) /\ h[1] = x /\ \A k \in 1..Len(c) : h[1 + k] = c[k]
    BY Headed
  <2> QED
    BY <1>1, <2>1, Zenon
<1>3. n \in Nat /\ m \in 1..1 + n /\ m \in 0..Len(h)
  BY <1>1, <1>2
<1>4. v \in Seq(S) /\ Len(v) = m /\ \A k \in 1..m : v[k] = h[k]
  BY <1>2, <1>3, Cut
<1>5. v[1] = x
  BY <1>2, <1>3, <1>4
<1>6. PICK i, f, e, p : i = 1 /\ f = i + 1 /\ e = m /\ p = m - 1
  OBVIOUS
<1>7. f = EphLen + 1 /\ e = Len(v) /\ i \in Nat /\ p \in Nat /\ e = i + p /\ i + p <= Len(v)
      /\ p \in 0..Len(c)
  BY <1>1, <1>3, <1>4, <1>6 DEF EphLen
<1>8. PICK a, b : a = SubSeq(v, f, e) /\ b = SubSeq(c, 1, p)
  OBVIOUS
<1>9. a \in Seq(S) /\ Between(a, v, i, p)
  BY <1>4, <1>6, <1>7, <1>8, BetweenIs, Zenon
<1>10. b \in Seq(S) /\ Len(b) = p /\ \A k \in 1..p : b[k] = c[k]
  BY <1>7, <1>8, Cut
<1>11. Len(a) = p /\ \A k \in 1..p : a[k] = v[1 + k]
  BY <1>6, <1>9, Zenon DEF Between
<1>12. ASSUME NEW k \in 1..p PROVE a[k] = b[k]
  <2>1. 1 + k \in 1..m /\ k \in 1..n
    BY <1>1, <1>3, <1>6, <1>7
  <2> QED
    BY <1>2, <1>4, <1>10, <1>11, <2>1
<1>13. a = b
  BY <1>9, <1>10, <1>11, <1>12, SeqEqual
<1> QED
  BY <1>4, <1>5, <1>6, <1>7, <1>8, <1>13, Zenon DEF HeadAnd

\* A request opens under the vendor's key and for the product it was made for,
\* and under no other; one that lost its end opens under none.
LEMMA RequestOpens ==
    ASSUME NEW to \in Parties, NEW key \in Parties, NEW aad \in Octets, NEW product \in Octets,
           NEW eph \in Ephemerals, NEW nonce \in Seq(Octets), Len(nonce) = 1,
           NEW plain \in ShortTexts, NEW h, h = HybridEncrypt(to, aad, eph, nonce, plain)
    PROVE  /\ h \in Seq(Octets)
           /\ HybridDecrypt(key, product, h) =
                  IF key = to /\ product = aad THEN Accepted(plain) ELSE Refused
           /\ \A m \in 0..Len(h) - 1 : HybridDecrypt(key, product, SubSeq(h, 1, m)) = Refused
<1>1. PICK s, k, c : /\ s = X25519Exchange(eph, to) /\ k = X25519Exchange(key, eph)
                     /\ c = AesEncrypt(s, aad, nonce, plain)
  OBVIOUS
<1>2. s \in Octets /\ k \in Octets /\ (k = s <=> key = to)
  BY <1>1, Secrets
<1>3. eph \in Octets
  BY Sixteen DEF Ephemerals
<1>4. c \in Seq(Octets) /\ h = <<eph>> \o c
  <2>1. PICK ct : ct = Masked(s, nonce, plain)
    OBVIOUS
  <2>2. AesEncrypt(s, aad, nonce, plain) \in Seq(Octets)
    BY <1>2, <2>1, AesIs
  <2> QED
    BY <1>1, <2>2, Zenon DEF HybridEncrypt
<1>5. h \in Seq(Octets) /\ Len(h) = 1 + Len(c) /\ Len(c) \in Nat
  BY <1>3, <1>4, Headed
<1>6. ASSUME NEW m \in 0..Len(h), NEW v, v = SubSeq(h, 1, m)
      PROVE  HybridDecrypt(key, product, v) =
                IF m < EphLen + NonceLen + TagLen THEN Refused
                ELSE AesDecrypt(k, product, SubSeq(c, 1, m - 1))
  <2>1. Len(v) = m
    BY <1>5, <1>6, Cut
  <2>2. CASE m < EphLen + NonceLen + TagLen
    BY <2>1, <2>2, Zenon DEF HybridDecrypt
  <2>3. CASE ~(m < EphLen + NonceLen + TagLen)
    <3>1. m \in 1..Len(h)
      <4>1. EphLen = 1 /\ NonceLen = 1 /\ TagLen \in Nat
        BY MaxTextAssumption DEF EphLen, NonceLen, TagLen
      <4> QED
        BY <1>5, <2>3, <4>1
    <3>2. v[1] = eph /\ SubSeq(v, EphLen + 1, Len(v)) = SubSeq(c, 1, m - 1)
      <4>1. HeadAnd(v, eph, c, m)
        BY <1>3, <1>4, <1>6, <3>1, BehindHead, Zenon
      <4> QED
        BY <4>1, Zenon DEF HeadAnd
    <3> QED
      BY <1>1, <2>1, <2>3, <3>2, Zenon DEF HybridDecrypt
  <2> QED
    BY <2>2, <2>3
<1>7. Len(c) >= NonceLen + TagLen
  <2>1. PICK ct : ct = Masked(s, nonce, plain)
    OBVIOUS
  <2>2. ct \in ShortTexts /\ Sealed(c, nonce, ct, Tag(s, aad, nonce, ct))
    <3>1. /\ ct \in ShortTexts
          /\ Sealed(AesEncrypt(s, aad, nonce, plain), nonce, ct, Tag(s, aad, nonce, ct))
      BY <1>2, <2>1, AesIs
    <3> QED
      BY <1>1, <3>1, Zenon
  <2>3. Len(ct) \in Nat /\ TagLen \in Nat
    BY <2>2, MaxTextAssumption DEF ShortTexts, TagLen
  <2>4. Len(c) = 1 + Len(ct) + TagLen
    BY <2>2, Zenon DEF Sealed
  <2> QED
    BY <2>3, <2>4 DEF NonceLen
<1>8. HybridDecrypt(key, product, h) =
          IF key = to /\ product = aad THEN Accepted(plain) ELSE Refused
  <2>1. PICK m : m = Len(h)
    OBVIOUS
  <2>2. m \in 0..Len(h) /\ m - 1 = Len(c) /\ ~(m < EphLen + NonceLen + TagLen)
    <3>1. EphLen = 1 /\ NonceLen = 1 /\ TagLen \in Nat
      BY MaxTextAssumption DEF EphLen, NonceLen, TagLen
    <3> QED
      BY <1>5, <1>7, <2>1, <3>1
  <2>3. h = SubSeq(h, 1, m) /\ SubSeq(c, 1, m - 1) = c
    BY <1>4, <1>5, <2>1, <2>2, Whole
  <2>4. HybridDecrypt(key, product, h) = AesDecrypt(k, product, SubSeq(c, 1, m - 1))
    BY <1>6, <2>2, <2>3, Zenon
  <2>5. AesDecrypt(k, product, AesEncrypt(s, aad, nonce, plain)) =
            IF k = s /\ product = aad THEN Accepted(plain) ELSE Refused
    BY <1>2, AesOpens
  <2> QED
    BY <1>1, <1>2, <2>3, <2>4, <2>5, Zenon
<1>9. ASSUME NEW m \in 0..Len(h) - 1 PROVE HybridDecrypt(key, product, SubSeq(h, 1, m)) = Refused
  <2>1. m \in 0..Len(h)
    BY <1>5
  <2>2. CASE m < EphLen + NonceLen + TagLen
    BY <1>6, <2>1, <2>2, Zenon
  <2>3. CASE ~(m < EphLen + NonceLen + TagLen)
    <3>1. PICK i : i = m - 1
      OBVIOUS
    <3>2. i \in 0..Len(c) - 1
      <4>1. EphLen = 1 /\ NonceLen = 1 /\ TagLen \in Nat
        BY MaxTextAssumption DEF EphLen, NonceLen, TagLen
      <4> QED
        BY <1>5, <2>3, <3>1, <4>1
    <3>3. AesDecrypt(k, product, SubSeq(c, 1, i)) = Refused
      BY <1>1, <1>2, <3>2, AesCut
    <3> QED
      BY <1>6, <2>1, <2>3, <3>1, <3>3, Zenon
  <2> QED
    BY <2>2, <2>3
<1> QED
  BY <1>5, <1>8, <1>9
=============================================================================
