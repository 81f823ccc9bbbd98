--------------------------- MODULE Inputs_proofs ---------------------------
(***************************************************************************)
(* What the system makes of its inputs, for every byte base, every set of  *)
(* words, all contents of files and tables and every length: a framed blob *)
(* gives back its halves and is refused when cut, request blobs and tokens *)
(* survive mail, the components of a fingerprint can be read back from the *)
(* hashed bytes, the SMBIOS walk finds the first System Information        *)
(* structure, and both programs understand the lines that are documented.  *)
(***************************************************************************)
EXTENDS Inputs, Crypto_proofs

-----------------------------------------------------------------------------
(* Lengths before data.                                                    *)

\* Quotient and remainder by the byte base, as integers.
LEMMA Divides ==
    ASSUME NEW n \in Nat
    PROVE  /\ n \div ByteBase \in Nat /\ n % ByteBase \in 0..ByteBase - 1
           /\ n = (n \div ByteBase) * ByteBase + (n % ByteBase)
<1>1. ByteBase \in Nat /\ ByteBase > 1
  BY ByteBaseAssumption
<1> QED
  BY <1>1

\* A quotient is below what its number is below, in units of the byte base.
LEMMA Bounded ==
    ASSUME NEW n \in Nat, NEW m \in Nat, n < m * ByteBase
    PROVE  n \div ByteBase < m
<1> DEFINE q == n \div ByteBase
           r == n % ByteBase
<1>1. ByteBase \in Nat /\ ByteBase > 1
  BY ByteBaseAssumption
<1>2. q \in Nat /\ r \in Nat /\ n = q * ByteBase + r
  BY Divides
<1> HIDE DEF q, r
<1>3. SUFFICES ASSUME q >= m PROVE FALSE
  BY <1>2 DEF q
<1>4. q * ByteBase >= m * ByteBase
  BY <1>1, <1>2, <1>3
<1>5. q * ByteBase \in Nat /\ m * ByteBase \in Nat
  BY <1>1, <1>2
<1> QED
  BY <1>2, <1>4, <1>5

\* Four bytes hold more than the eight bytes of two lengths.
LEMMA WordFacts == Word \in Nat /\ Word >= 16
<1>1. ByteBase \in Nat /\ ByteBase >= 2
  BY ByteBaseAssumption
<1>2. ByteBase * ByteBase \in Nat /\ ByteBase * ByteBase >= 4
  BY <1>1
<1> DEFINE s == ByteBase * ByteBase
<1>3. s * ByteBase \in Nat /\ s * ByteBase >= 8
  BY <1>1, <1>2
<1> DEFINE c == s * ByteBase
<1>4. c \in Nat /\ c >= 8
  BY <1>3
<1>5. Word = c * ByteBase
  BY DEF Word
<1> HIDE DEF c
<1> QED
  BY <1>1, <1>4, <1>5

\* get32 with no other operator in the way.
LEMMA ReadUnfolded ==
    ASSUME NEW buf, NEW off
    PROVE  ReadLen32(buf, off) =
               ((buf[off + 1] * ByteBase + buf[off + 2]) * ByteBase + buf[off + 3]) * ByteBase
                   + buf[off + 4]
  BY DEF ReadLen32

\* What write_len32 wrote get32 reads, whatever stands around it.
LEMMA LengthReadBack ==
    ASSUME NEW n \in Nat, n < Word, NEW buf, NEW off \in Nat,
           \A k \in 1..4 : buf[off + k] = WriteLen32(n)[k]
    PROVE  ReadLen32(buf, off) = n
<1> DEFINE a == n \div ByteBase
           b == a \div ByteBase
           c == b \div ByteBase
<1>1. ByteBase \in Nat /\ ByteBase > 1
  BY ByteBaseAssumption
<1>2. /\ a \in Nat /\ n = a * ByteBase + (n % ByteBase)
  BY Divides
<1>3. b \in Nat /\ a = b * ByteBase + (a % ByteBase)
  BY <1>2, Divides
<1>4. c \in Nat /\ b = c * ByteBase + (b % ByteBase)
  BY <1>3, Divides
<1>5. c < ByteBase
  <2> DEFINE s == ByteBase * ByteBase
             t == s * ByteBase
  <2>1. s \in Nat /\ t \in Nat /\ Word = t * ByteBase
    BY <1>1 DEF Word
  <2>2. a < t
    BY <2>1, Bounded
  <2>3. b < s
    BY <1>2, <2>1, <2>2, Bounded
  <2> QED
    BY <1>1, <1>3, <2>3, Bounded
<1>6. c % ByteBase = c
  BY <1>1, <1>4, <1>5
<1>7. /\ buf[off + 1] = c % ByteBase /\ buf[off + 2] = b % ByteBase
      /\ buf[off + 3] = a % ByteBase /\ buf[off + 4] = n % ByteBase
  BY DEF WriteLen32
<1>8. buf[off + 1] * ByteBase + buf[off + 2] = b
  BY <1>4, <1>6, <1>7
<1>9. b * ByteBase + buf[off + 3] = a
  BY <1>3, <1>7
<1>10. a * ByteBase + buf[off + 4] = n
  BY <1>2, <1>7
<1> HIDE DEF a, b, c
<1>11. ReadLen32(buf, off) =
           ((buf[off + 1] * ByteBase + buf[off + 2]) * ByteBase + buf[off + 3]) * ByteBase
               + buf[off + 4]
  BY ReadUnfolded, Zenon
<1>12. @ = (b * ByteBase + buf[off + 3]) * ByteBase + buf[off + 4]
  BY <1>8, Zenon
<1>13. @ = a * ByteBase + buf[off + 4]
  BY <1>9, Zenon
<1> QED
  BY <1>10, <1>11, <1>12, <1>13, Zenon

\* write_len32 writes four bytes.
LEMMA LengthIsFour ==
    ASSUME NEW n \in Nat
    PROVE  WriteLen32(n) \in Seq(Int) /\ Len(WriteLen32(n)) = 4
<1> DEFINE a == n \div ByteBase
           b == a \div ByteBase
<1>1. a \in Nat /\ b \in Nat /\ b \div ByteBase \in Nat
  BY Divides
<1>2. n % ByteBase \in Int /\ a % ByteBase \in Int /\ b % ByteBase \in Int
      /\ (b \div ByteBase) % ByteBase \in Int
  BY <1>1, Divides
<1> QED
  BY <1>2 DEF WriteLen32

\* One sequence behind another.
Cat(s, t) == s \o t

\* Cat is \o under a name that the provers leave alone.
LEMMA CatProperties ==
    ASSUME NEW s \in Seq(Int), NEW t \in Seq(Int)
    PROVE  Cat(s, t) \in Seq(Int) /\ Cat(s, <<>>) = s
<1>1. Cat(s, t) \in Seq(Int)
  BY ConcatProperties DEF Cat
<1>2. s \o <<>> = s
  BY ConcatEmptySeq
<1> QED
  BY <1>1, <1>2, Zenon DEF Cat

\* Three sequences one behind the other, in either grouping.
LEMMA Associative ==
    ASSUME NEW s \in Seq(Int), NEW t \in Seq(Int), NEW r \in Seq(Int)
    PROVE  Cat(Cat(s, t), r) = Cat(s, Cat(t, r))
<1>1. (s \o t) \o r = s \o (t \o r)
  OBVIOUS
<1> QED
  BY <1>1, Zenon DEF Cat

\* t stands in s behind the first a elements.
SitsAt(s, a, t) == a + Len(t) <= Len(s) /\ \A k \in 1..Len(t) : s[a + k] = t[k]

\* What sits in a sequence is what SubSeq cuts out there.
LEMMA PieceFound ==
    ASSUME NEW S, NEW s \in Seq(S), NEW t \in Seq(S), NEW a \in Nat, SitsAt(s, a, t)
    PROVE  SubSeq(s, a + 1, a + Len(t)) = t
<1> DEFINE n == Len(t)
<1>6. a + n <= Len(s) /\ \A k \in 1..n : s[a + k] = t[k]
  BY DEF SitsAt
<1> DEFINE r == SubSeq(s, a + 1, a + n)
<1>1. n \in Nat
  OBVIOUS
<1>2. \A i \in a + 1..a + n : s[i] \in S
  BY <1>1, <1>6
<1>3. r \in Seq(S) /\ Len(r) = n
  BY <1>1, <1>2, SubSeqProperties
<1>4. ASSUME NEW k \in 1..n PROVE r[k] = t[k]
  <2>1. r[k] = s[a + 1 + k - 1]
    BY <1>1, <1>2, SubSeqProperties
  <2>2. a + 1 + k - 1 = a + k
    OBVIOUS
  <2> QED
    BY <1>6, <2>1, <2>2
<1> HIDE DEF r
<1>5. r = t
  <2>1. Len(r) = Len(t) /\ r \in Seq(S)
    BY <1>3
  <2>2. \A k \in 1..Len(r) : r[k] = t[k]
    BY <1>3, <1>4
  <2> QED
    BY <2>1, <2>2, SeqEqual
<1> QED
  BY <1>5 DEF r

\* Four sequences one behind the other, as Frame writes them.
Join(u, a, v, b) == ((u \o a) \o v) \o b

\* Where the parts of four sequences one behind the other are found.
Placed(w, u, a, v, b, f, p, q) ==
    /\ w \in Seq(Int) /\ f + p + f + q = Len(w)
    /\ \A k \in 1..f : w[k] = u[k]
    /\ \A k \in 1..p : w[f + k] = a[k]
    /\ \A k \in 1..f : w[f + p + k] = v[k]
    /\ \A k \in 1..q : w[f + p + f + k] = b[k]

\* What stands where in four sequences one behind the other.
LEMMA Joined ==
    ASSUME NEW u \in Seq(Int), NEW a \in Seq(Int), NEW v \in Seq(Int), NEW b \in Seq(Int),
           NEW f \in Nat, NEW p, NEW q,
           NEW w, w = Join(u, a, v, b)
    PROVE  f = Len(u) /\ f = Len(v) /\ p = Len(a) /\ q = Len(b) => Placed(w, u, a, v, b, f, p, q)
<1>0. HAVE f = Len(u) /\ f = Len(v) /\ p = Len(a) /\ q = Len(b)
<1>1. PICK x, y : x = u \o a /\ y = x \o v
  OBVIOUS
<1>2. w = y \o b
  BY <1>1 DEF Join
<1>3. p = Len(a) /\ q = Len(b)
  BY <1>0
<1>4. /\ p \in Nat /\ x \in Seq(Int) /\ f + p = Len(x)
      /\ \A k \in 1..f : x[k] = u[k]
      /\ \A k \in 1..p : x[f + k] = a[k]
  <2>1. x = u \o a /\ p = Len(a) /\ f = Len(u)
    BY <1>0, <1>1
  <2> QED
    BY <2>1, Concatenated
<1>5. PICK h : h = f + p
  OBVIOUS
<1>6. h = Len(x) /\ x \in Seq(Int) /\ y = x \o v
  BY <1>1, <1>4, <1>5
<1>7. /\ h \in Nat /\ y \in Seq(Int) /\ h + f = Len(y)
      /\ \A k \in 1..h : y[k] = x[k]
      /\ \A k \in 1..f : y[h + k] = v[k]
  <2>1. h = Len(x) /\ x \in Seq(Int) /\ y = x \o v /\ f = Len(v)
    BY <1>0, <1>6
  <2> QED
    BY <2>1, Concatenated
<1>8. PICK l : l = h + f
  OBVIOUS
<1>9. l = Len(y) /\ y \in Seq(Int)
  BY <1>7, <1>8
<1>10. /\ q \in Nat /\ l \in Nat /\ w \in Seq(Int) /\ l + q = Len(w)
       /\ \A k \in 1..l : w[k] = y[k]
       /\ \A k \in 1..q : w[l + k] = b[k]
  BY <1>2, <1>3, <1>9, Concatenated
<1>11. f + p + f + q = Len(w)
  BY <1>4, <1>5, <1>8, <1>10
<1>12. ASSUME NEW k \in 1..f PROVE w[k] = u[k]
  <2>1. k \in 1..h /\ k \in 1..l
    BY <1>4, <1>5, <1>8
  <2> QED
    BY <1>4, <1>7, <1>10, <2>1
<1>13. ASSUME NEW k \in 1..p PROVE w[f + k] = a[k]
  <2>1. f + k \in 1..h /\ f + k \in 1..l
    BY <1>4, <1>5, <1>8
  <2> QED
    BY <1>4, <1>7, <1>10, <2>1
<1>14. ASSUME NEW k \in 1..f PROVE w[f + p + k] = v[k]
  <2>1. h + k \in 1..l /\ h + k = f + p + k
    BY <1>4, <1>5, <1>8
  <2> QED
    BY <1>7, <1>10, <2>1
<1>15. ASSUME NEW k \in 1..q PROVE w[f + p + f + k] = b[k]
  <2>1. l + k = f + p + f + k
    BY <1>4, <1>5, <1>8, <1>10
  <2> QED
    BY <1>10, <2>1
<1> QED
  BY <1>10, <1>11, <1>12, <1>13, <1>14, <1>15, Zenon DEF Placed

-----------------------------------------------------------------------------
(* The two halves of a sealed object.                                      *)

\* What stands where in a framed blob.
LEMMA Framed ==
    ASSUME NEW priv \in Seq(Int), NEW pub \in Seq(Int)
    PROVE  LET blob == Frame(priv, pub)
               p == Len(priv)
               q == Len(pub)
           IN  /\ blob \in Seq(Int) /\ Len(blob) = 8 + p + q
               /\ \A k \in 1..4 : blob[k] = WriteLen32(p)[k]
               /\ \A k \in 1..p : blob[4 + k] = priv[k]
               /\ \A k \in 1..4 : blob[4 + p + k] = WriteLen32(q)[k]
               /\ \A k \in 1..q : blob[8 + p + k] = pub[k]
<1> DEFINE p == Len(priv)
           q == Len(pub)
           u == WriteLen32(p)
           v == WriteLen32(q)
           blob == Frame(priv, pub)
<1>1. p \in Nat /\ q \in Nat
  OBVIOUS
<1>2. u \in Seq(Int) /\ 4 = Len(u) /\ v \in Seq(Int) /\ 4 = Len(v)
  BY <1>1, LengthIsFour
<1> HIDE DEF u, v
<1>3. blob = Join(u, priv, v, pub)
  BY DEF Frame, Join, u, v
<1>4. p = Len(priv) /\ q = Len(pub)
  OBVIOUS
<1> HIDE DEF p, q, blob
<1>5. PICK f \in Nat : f = 4
  OBVIOUS
<1>6. f = Len(u) /\ f = Len(v)
  BY <1>2, <1>5
<1>7. u \in Seq(Int) /\ v \in Seq(Int)
  BY <1>2
<1>14. Placed(blob, u, priv, v, pub, f, p, q)
  BY <1>3, <1>4, <1>6, <1>7, Joined
<1>8. /\ blob \in Seq(Int) /\ f + p + f + q = Len(blob)
      /\ \A k \in 1..f : blob[k] = u[k]
      /\ \A k \in 1..p : blob[f + k] = priv[k]
      /\ \A k \in 1..f : blob[f + p + k] = v[k]
      /\ \A k \in 1..q : blob[f + p + f + k] = pub[k]
  BY <1>14, Zenon DEF Placed
<1>9. ASSUME NEW k \in 1..4 PROVE blob[k] = u[k]
  BY <1>5, <1>8
<1>10. ASSUME NEW k \in 1..p PROVE blob[4 + k] = priv[k]
  BY <1>5, <1>8
<1>11. ASSUME NEW k \in 1..4 PROVE blob[4 + p + k] = v[k]
  <2>1. k \in 1..f /\ f + p + k = 4 + p + k
    BY <1>1, <1>5
  <2>2. blob[f + p + k] = v[k]
    BY <1>8, <2>1
  <2> QED
    BY <2>1, <2>2, Zenon
<1>12. ASSUME NEW k \in 1..q PROVE blob[8 + p + k] = pub[k]
  <2>1. f + p + f + k = 8 + p + k
    BY <1>1, <1>5
  <2>2. blob[f + p + f + k] = pub[k]
    BY <1>8
  <2> QED
    BY <2>1, <2>2, Zenon
<1>13. Len(blob) = 8 + p + q
  BY <1>1, <1>5, <1>8
<1> QED
  BY <1>8, <1>9, <1>10, <1>11, <1>12, <1>13, Zenon DEF blob, p, q, u, v

\* What Unframe makes of a blob that begins like a framed one of p and q bytes.
LEMMA Opened ==
    ASSUME NEW c \in Seq(Int), NEW p \in Nat, NEW q \in Nat, 8 + p + q < Word,
           Len(c) <= 8 + p + q,
           Len(c) >= 8 => \A k \in 1..4 : c[k] = WriteLen32(p)[k],
           Len(c) >= 8 + p => \A k \in 1..4 : c[4 + p + k] = WriteLen32(q)[k]
    PROVE  Unframe(c) = IF Len(c) < 8 + p + q THEN Refused
                        ELSE Accepted([priv |-> SubSeq(c, 5, 4 + p),
                                       pub  |-> SubSeq(c, 4 + p + 5, 4 + p + 4 + q)])
<1> DEFINE priv == ReadLen32(c, 0)
           pub == ReadLen32(c, UInt32(4 + priv))
<1>1. Len(c) \in Nat /\ Word \in Nat /\ Word > 8
  BY WordFacts
<1>2. Unframe(c) = IF Len(c) < 8 THEN Refused
                   ELSE IF UInt32(4 + priv + 4) > Len(c) THEN Refused
                   ELSE IF UInt32(4 + priv + 4 + pub) > Len(c) THEN Refused
                   ELSE Accepted([priv |-> SubSeq(c, 5, 4 + priv),
                                  pub  |-> SubSeq(c, 4 + priv + 5, 4 + priv + 4 + pub)])
  BY Zenon DEF Unframe
<1>3. CASE Len(c) < 8
  <2>1. Len(c) < 8 + p + q
    BY <1>1, <1>3
  <2> HIDE DEF priv, pub
  <2> QED
    BY <1>2, <1>3, <2>1, Zenon
<1>4. CASE Len(c) >= 8
  <2>1. priv = p
    <3>1. ASSUME NEW k \in 1..4 PROVE c[0 + k] = WriteLen32(p)[k]
      <4>1. 0 + k = k
        OBVIOUS
      <4>2. c[k] = WriteLen32(p)[k]
        BY <1>4, Zenon
      <4> QED
        BY <4>1, <4>2, Zenon
    <3>2. p < Word
      BY <1>1
    <3> QED
      BY <3>1, <3>2, LengthReadBack
  <2>2. /\ UInt32(4 + p) = 4 + p /\ UInt32(4 + p + 4) = 8 + p
        /\ UInt32(4 + p + 4 + q) = 8 + p + q
    BY <1>1 DEF UInt32
  <2>3. ~(Len(c) < 8)
    BY <1>1, <1>4
  <2> HIDE DEF priv
  <2>4. CASE Len(c) < 8 + p
    <3>1. 8 + p > Len(c) /\ Len(c) < 8 + p + q
      BY <1>1, <2>4
    <3> HIDE DEF pub
    <3>2. Unframe(c) = Refused
      BY <1>2, <2>1, <2>2, <2>3, <3>1, Zenon
    <3> QED
      BY <3>1, <3>2
  <2>5. CASE Len(c) >= 8 + p
    <3>1. pub = q
      <4>1. ReadLen32(c, 4 + p) = q
        <5>1. \A k \in 1..4 : c[4 + p + k] = WriteLen32(q)[k]
          BY <2>5
        <5>2. q < Word /\ 4 + p \in Nat
          BY <1>1
        <5> QED
          BY <5>1, <5>2, LengthReadBack
      <4> QED
        BY <2>1, <2>2, <4>1, Zenon
    <3> HIDE DEF pub
    <3>2. ~(8 + p > Len(c))
      BY <1>1, <2>5
    <3>3. (8 + p + q > Len(c)) <=> Len(c) < 8 + p + q
      BY <1>1
    <3> QED
      BY <1>2, <2>1, <2>2, <2>3, <3>1, <3>2, <3>3, Zenon
  <2> QED
    BY <1>1, <2>4, <2>5
<1> QED
  BY <1>1, <1>3, <1>4

\* A framed blob opens to its halves, and no shorter piece of it opens at all.
LEMMA FrameOpens ==
    ASSUME NEW priv \in Seq(Int), NEW pub \in Seq(Int), 8 + Len(priv) + Len(pub) < Word
    PROVE  LET blob == Frame(priv, pub)
           IN  /\ Unframe(blob) = Accepted([priv |-> priv, pub |-> pub])
               /\ \A m \in 0..Len(blob) - 1 : Unframe(SubSeq(blob, 1, m)) = Refused
<1> DEFINE p == Len(priv)
           q == Len(pub)
           blob == Frame(priv, pub)
<1>1. p \in Nat /\ q \in Nat /\ 8 + p + q < Word
  OBVIOUS
<1>2. /\ blob \in Seq(Int) /\ Len(blob) = 8 + p + q
      /\ \A k \in 1..4 : blob[k] = WriteLen32(p)[k]
      /\ \A k \in 1..p : blob[4 + k] = priv[k]
      /\ \A k \in 1..4 : blob[4 + p + k] = WriteLen32(q)[k]
      /\ \A k \in 1..q : blob[8 + p + k] = pub[k]
  BY Framed
<1>3. p = Len(priv) /\ q = Len(pub)
  OBVIOUS
<1> HIDE DEF p, q, blob
<1>4. Unframe(blob) = Accepted([priv |-> SubSeq(blob, 5, 4 + p),
                                pub  |-> SubSeq(blob, 4 + p + 5, 4 + p + 4 + q)])
  <2>1. ~(Len(blob) < 8 + p + q) /\ Len(blob) <= 8 + p + q
    BY <1>1, <1>2
  <2> QED
    BY <1>1, <1>2, <2>1, Opened
<1>5. SubSeq(blob, 5, 4 + p) = priv
  <2>1. PICK a \in Nat : a = 4
    <3>1. 4 \in Nat
      OBVIOUS
    <3> QED
      BY <3>1, Zenon
  <2>2. a + p <= Len(blob) /\ \A k \in 1..p : blob[a + k] = priv[k]
    BY <1>1, <1>2, <2>1
  <2>3. SubSeq(blob, a + 1, a + p) = priv
    <3>1. SitsAt(blob, a, priv)
      BY <1>3, <2>2 DEF SitsAt
    <3> QED
      BY <1>2, <1>3, <2>2, <3>1, PieceFound
  <2>4. a + 1 = 5 /\ a + p = 4 + p
    BY <1>1, <2>1
  <2> QED
    BY <2>3, <2>4, Zenon
<1>6. SubSeq(blob, 4 + p + 5, 4 + p + 4 + q) = pub
  <2>1. PICK a : a = 8 + p
    OBVIOUS
  <2>2. a \in Nat /\ a + q <= Len(blob) /\ \A k \in 1..q : blob[a + k] = pub[k]
    BY <1>1, <1>2, <2>1
  <2>3. SubSeq(blob, a + 1, a + q) = pub
    <3>1. SitsAt(blob, a, pub)
      BY <1>3, <2>2 DEF SitsAt
    <3> QED
      BY <1>2, <1>3, <2>2, <3>1, PieceFound
  <2>4. a + 1 = 4 + p + 5 /\ a + q = 4 + p + 4 + q
    BY <1>1, <2>1
  <2> QED
    BY <2>3, <2>4, Zenon
<1>7. ASSUME NEW m \in 0..Len(blob) - 1
      PROVE  Unframe(SubSeq(blob, 1, m)) = Refused
  <2> DEFINE c == SubSeq(blob, 1, m)
  <2>1. c \in Seq(Int) /\ Len(c) = m /\ \A k \in 1..m : c[k] = blob[k]
    <3>1. m \in 0..Len(blob)
      BY <1>1, <1>2
    <3> QED
      BY <1>2, <3>1, Cut
  <2>2. m \in Nat /\ m < 8 + p + q
    BY <1>1, <1>2
  <2> HIDE DEF c
  <2>3. Len(c) >= 8 => \A k \in 1..4 : c[k] = WriteLen32(p)[k]
    <3> SUFFICES ASSUME Len(c) >= 8, NEW k \in 1..4 PROVE c[k] = WriteLen32(p)[k]
      OBVIOUS
    <3>1. k \in 1..m
      BY <2>1, <2>2
    <3> QED
      BY <1>2, <2>1, <3>1, Zenon
  <2>4. Len(c) >= 8 + p => \A k \in 1..4 : c[4 + p + k] = WriteLen32(q)[k]
    <3> SUFFICES ASSUME Len(c) >= 8 + p, NEW k \in 1..4
                 PROVE  c[4 + p + k] = WriteLen32(q)[k]
      OBVIOUS
    <3>1. 4 + p + k \in 1..m
      BY <1>1, <2>1, <2>2
    <3>2. c[4 + p + k] = blob[4 + p + k]
      BY <2>1, <3>1
    <3> QED
      BY <1>2, <3>2, Zenon
  <2>5. Len(c) < 8 + p + q /\ Len(c) <= 8 + p + q
    BY <1>1, <2>1, <2>2
  <2>6. Unframe(c) = Refused
    BY <1>1, <2>1, <2>3, <2>4, <2>5, Opened
  <2> QED
    BY <2>6 DEF c
<1> QED
  BY <1>4, <1>5, <1>6, <1>7 DEF blob

-----------------------------------------------------------------------------
(* Smallest and largest positions.                                         *)

\* A bounded set of naturals has a largest one, and Max finds it.
LEMMA Largest ==
    ASSUME NEW n \in Nat, NEW S \in SUBSET (0..n), S # {}
    PROVE  Max(S) \in S /\ \A k \in S : k <= Max(S)
<1> DEFINE T == {n - k : k \in S}
<1>1. T \in SUBSET Nat /\ T # {}
  <2>1. \A k \in S : n - k \in Nat
    OBVIOUS
  <2> QED
    BY <2>1, Zenon
<1>2. Min(T) \in T /\ \A m \in T : Min(T) <= m
  BY <1>1, Smallest
<1>3. PICK x \in S : Min(T) = n - x
  BY <1>2
<1>4. ASSUME NEW k \in S PROVE x >= k
  <2>1. n - k \in T
    OBVIOUS
  <2>2. Min(T) <= n - k
    BY <1>2, <2>1
  <2> HIDE DEF T
  <2> QED
    BY <1>3, <2>2
<1> QED
  BY <1>4 DEF Max

-----------------------------------------------------------------------------
(* What is read of a machine.                                              *)

\* A text of at most n characters.
Texts(n) == {text \in Seq(Int) : Len(text) <= n}

\* Trimming leaves a text that ends in none of the blanks.
LEMMA Trimmed ==
    ASSUME NEW n \in Nat, NEW text \in Texts(n), NEW blanks
    PROVE  LET r == TrimRight(text, blanks)
           IN  r \in Texts(n) /\ \A k \in 1..Len(r) : k = Len(r) => r[k] \notin blanks
<1> DEFINE inked == {k \in 1..Len(text) : text[k] \notin blanks}
           S == {0} \cup inked
           m == Max(S)
           r == SubSeq(text, 1, m)
<1>1. text \in Seq(Int) /\ Len(text) \in Nat /\ Len(text) <= n
  BY DEF Texts
<1>2. S \in SUBSET (0..Len(text)) /\ S # {}
  BY <1>1
<1>3. m \in S
  BY <1>1, <1>2, Largest
<1>4. TrimRight(text, blanks) = r
  BY DEF TrimRight
<1>5. m \in 0..Len(text) /\ (m # 0 => text[m] \notin blanks)
  BY <1>2, <1>3
<1> HIDE DEF m, S
<1>6. r \in Seq(Int) /\ Len(r) = m /\ \A k \in 1..m : r[k] = text[k]
  BY <1>1, <1>5, Cut
<1> HIDE DEF r
<1>7. r \in Texts(n)
  BY <1>1, <1>5, <1>6 DEF Texts
<1>8. \A k \in 1..Len(r) : k = Len(r) => r[k] \notin blanks
  BY <1>1, <1>5, <1>6
<1> QED
  BY <1>4, <1>7, <1>8

\* The first line of a text is no longer than the text.
LEMMA FirstLineIsText ==
    ASSUME NEW n \in Nat, NEW text \in Texts(n)
    PROVE  FirstLine(text) \in Texts(n)
<1> DEFINE ends == {k \in 1..Len(text) : text[k] = NewLine}
<1>1. text \in Seq(Int) /\ Len(text) \in Nat /\ Len(text) <= n
  BY DEF Texts
<1>2. CASE ends = {}
  BY <1>2 DEF FirstLine
<1>3. CASE ends # {}
  <2>1. ends \in SUBSET Nat
    BY <1>1
  <2>2. Min(ends) \in ends
    BY <1>3, <2>1, Smallest
  <2> DEFINE m == Min(ends) - 1
  <2>3. m \in 0..Len(text) /\ m <= n
    BY <1>1, <2>2
  <2>4. FirstLine(text) = SubSeq(text, 1, m)
    BY <1>3 DEF FirstLine
  <2> HIDE DEF m
  <2> QED
    BY <1>1, <2>3, <2>4, Cut DEF Texts
<1> QED
  BY <1>2, <1>3

\* A file is missing or holds such a text.
Readable(n, file) == file = Missing \/ file \in Texts(n)

\* What is read of a file is no longer than it and has no padding.
LEMMA SysfsIsText ==
    ASSUME NEW n \in Nat, NEW f, Readable(n, f)
    PROVE  ReadSysfs(f) \in Texts(n) /\ Unpadded(ReadSysfs(f))
<1>1. <<>> \in Texts(n) /\ Unpadded(<<>>)
  BY DEF Texts, Unpadded
<1>2. CASE f = Missing
  BY <1>1, <1>2 DEF ReadSysfs
<1>3. CASE f # Missing
  <2>1. f \in Texts(n)
    BY <1>3 DEF Readable
  <2>2. FirstLine(f) \in Texts(n)
    BY <2>1, FirstLineIsText
  <2>3. ReadSysfs(f) = TrimRight(FirstLine(f), {Space, NewLine})
    BY <1>3 DEF ReadSysfs
  <2>4. LET r == ReadSysfs(f)
        IN  r \in Texts(n) /\ \A k \in 1..Len(r) : k = Len(r) => r[k] \notin {Space, NewLine}
    BY <2>2, <2>3, Trimmed
  <2> QED
    BY <2>4 DEF Unpadded
<1> QED
  BY <1>2, <1>3

\* The first of two readings is one of them, and empty only if both are.
LEMMA FirstOfTwo ==
    ASSUME NEW n \in Nat, NEW f, NEW g, Readable(n, f), Readable(n, g)
    PROVE  LET r == FirstReading(<<f, g>>)
           IN  /\ r \in Texts(n) /\ Unpadded(r)
               /\ r = <<>> => ReadSysfs(f) = <<>> /\ ReadSysfs(g) = <<>>
<1> DEFINE files == <<f, g>>
           some == {k \in 1..Len(files) : ReadSysfs(files[k]) # <<>>}
<1>1. Len(files) = 2 /\ files[1] = f /\ files[2] = g
  OBVIOUS
<1>2. FirstReading(files) = IF some = {} THEN <<>> ELSE ReadSysfs(files[Min(some)])
  BY Zenon DEF FirstReading
<1>3. some = {k \in 1..2 : ReadSysfs(files[k]) # <<>>}
  BY <1>1
<1>4. <<>> \in Texts(n) /\ Unpadded(<<>>)
  BY DEF Texts, Unpadded
<1> HIDE DEF some, files
<1>5. CASE some = {}
  <2>1. 1 \notin some /\ 2 \notin some
    BY <1>5
  <2>2. ReadSysfs(f) = <<>> /\ ReadSysfs(g) = <<>>
    BY <1>1, <1>3, <2>1
  <2> QED
    BY <1>2, <1>4, <1>5, <2>2 DEF files
<1>6. CASE some # {}
  <2>1. some \in SUBSET Nat /\ some \in SUBSET (1..2)
    BY <1>3
  <2>2. Min(some) \in some
    BY <1>6, <2>1, Smallest
  <2>3. PICK k \in 1..2 : k = Min(some)
    BY <2>1, <2>2
  <2>4. files[k] \in {f, g} /\ ReadSysfs(files[k]) # <<>>
    BY <1>1, <1>3, <2>2, <2>3
  <2>5. FirstReading(files) = ReadSysfs(files[k])
    BY <1>2, <1>6, <2>3
  <2>6. Readable(n, files[k])
    BY <2>4
  <2>7. ReadSysfs(files[k]) \in Texts(n) /\ Unpadded(ReadSysfs(files[k]))
    BY <2>6, SysfsIsText
  <2> QED
    BY <2>4, <2>5, <2>7 DEF files
<1> QED
  BY <1>5, <1>6

\* The brand of a processor with its signature is two characters longer at most.
LEMMA CpuIsText ==
    ASSUME NEW n \in Nat, NEW brand \in Texts(n), NEW c \in Int
    PROVE  CpuId(brand, <<c>>) \in Texts(n + 2)
<1> DEFINE trimmed == TrimRight(brand, {Space})
           name == IF trimmed = <<>> THEN brand ELSE trimmed
           rest == IF <<c>> = Missing THEN <<>> ELSE <<Dash>> \o <<c>>
<1>1. CpuId(brand, <<c>>) = name \o rest
  BY DEF CpuId
<1>2. name \in Texts(n)
  BY Trimmed
<1>3. rest \in Seq(Int) /\ Len(rest) <= 2 /\ Len(rest) \in Nat
  BY DEF Dash
<1> HIDE DEF name, rest
<1>4. name \in Seq(Int) /\ Len(name) <= n /\ Len(name) \in Nat
  BY <1>2 DEF Texts
<1>5. PICK id : id = name \o rest
  OBVIOUS
<1>6. id \in Seq(Int) /\ Len(id) = Len(name) + Len(rest)
  BY <1>3, <1>4, <1>5, ConcatProperties
<1>7. Len(id) <= n + 2
  BY <1>3, <1>4, <1>6
<1> QED
  BY <1>1, <1>5, <1>6, <1>7, Zenon DEF Texts

-----------------------------------------------------------------------------
(* The components in the hashed bytes.                                     *)

\* A component in the hashed bytes: its length, then itself.
Component(s) == Cat(WriteLen32(Len(s)), s)

\* A component is made of bytes.
LEMMA ComponentIsSeq ==
    ASSUME NEW s \in Seq(Int)
    PROVE  Component(s) \in Seq(Int)
<1>1. WriteLen32(Len(s)) \in Seq(Int)
  BY LengthIsFour
<1> QED
  BY <1>1, CatProperties DEF Component

\* append_component puts a component behind what is there.
LEMMA Appended ==
    ASSUME NEW buf \in Seq(Int), NEW s \in Seq(Int)
    PROVE  AppendComponent(buf, s) = Cat(buf, Component(s)) /\ AppendComponent(buf, s) \in Seq(Int)
<1>1. WriteLen32(Len(s)) \in Seq(Int)
  BY LengthIsFour
<1>2. Cat(Cat(buf, WriteLen32(Len(s))), s) = Cat(buf, Component(s))
  BY <1>1, Associative DEF Component
<1>3. Cat(buf, Component(s)) \in Seq(Int)
  BY ComponentIsSeq, CatProperties
<1>4. AppendComponent(buf, s) = Cat(Cat(buf, WriteLen32(Len(s))), s)
  BY Zenon DEF AppendComponent, Cat
<1> QED
  BY <1>2, <1>3, <1>4

\* One component is read back from the front, and what stands behind it is left.
LEMMA ComponentReadBack ==
    ASSUME NEW found, NEW s \in Seq(Int), Len(s) < Word, NEW r \in Seq(Int)
    PROVE  NextComponent([found |-> found, rest |-> Cat(Component(s), r)])
               = [found |-> Append(found, s), rest |-> r]
<1> DEFINE u == WriteLen32(Len(s))
           w == Cat(Component(s), r)
           done == [found |-> found, rest |-> w]
<1>1. u \in Seq(Int) /\ Len(u) = 4
  BY LengthIsFour
<1> HIDE DEF u
<1>2. PICK x : x = u \o s
  OBVIOUS
<1>3. w = x \o r
  BY <1>2, Zenon DEF Component, Cat, u
<1>4. PICK f, p, q : f = Len(u) /\ p = Len(s) /\ q = Len(r)
  OBVIOUS
<1>5. /\ f \in Nat /\ p \in Nat /\ x \in Seq(Int) /\ f + p = Len(x)
      /\ \A k \in 1..f : x[k] = u[k]
      /\ \A k \in 1..p : x[f + k] = s[k]
  <2>1. f = Len(u) /\ p = Len(s) /\ x = u \o s /\ u \in Seq(Int)
    BY <1>1, <1>2, <1>4
  <2> QED
    BY <2>1, Concatenated
<1>6. PICK h : h = f + p
  OBVIOUS
<1>7. h = Len(x) /\ x \in Seq(Int)
  BY <1>5, <1>6
<1>8. /\ h \in Nat /\ q \in Nat /\ w \in Seq(Int) /\ h + q = Len(w)
      /\ \A k \in 1..h : w[k] = x[k]
      /\ \A k \in 1..q : w[h + k] = r[k]
  <2> HIDE DEF w
  <2> QED
    BY <1>3, <1>4, <1>7, Concatenated
<1> HIDE DEF w
<1>9. f = 4 /\ h = 4 + p /\ Len(w) = 4 + p + q
  BY <1>1, <1>4, <1>5, <1>6, <1>8
<1>10. ReadLen32(w, 0) = p
  <2>1. ASSUME NEW k \in 1..4 PROVE w[0 + k] = u[k]
    <3>1. 0 + k = k /\ k \in 1..f /\ k \in 1..h
      BY <1>5, <1>9
    <3>2. w[k] = x[k] /\ x[k] = u[k]
      BY <1>5, <1>8, <3>1, Zenon
    <3> QED
      BY <3>1, <3>2, Zenon
  <2>2. u = WriteLen32(p) /\ p < Word /\ 0 \in Nat
    BY <1>4 DEF u
  <2>3. \A k \in 1..4 : w[0 + k] = WriteLen32(p)[k]
    BY <2>1, <2>2, Zenon
  <2> QED
    BY <1>5, <2>2, <2>3, LengthReadBack
<1>11. SubSeq(w, 5, 4 + p) = s
  <2>1. SitsAt(w, f, s)
    <3>1. \A k \in 1..p : f + k \in 1..h
      BY <1>5, <1>6
    <3>2. \A k \in 1..p : w[f + k] = s[k]
      BY <1>5, <1>8, <3>1
    <3>3. f + p <= Len(w)
      BY <1>5, <1>6, <1>8
    <3> QED
      BY <1>4, <3>2, <3>3 DEF SitsAt
  <2>2. SubSeq(w, f + 1, f + Len(s)) = s
    BY <1>5, <1>8, <2>1, PieceFound
  <2>3. f + 1 = 5 /\ f + Len(s) = 4 + p
    BY <1>4, <1>9
  <2> QED
    BY <2>2, <2>3, Zenon
<1>12. SubSeq(w, 5 + p, Len(w)) = r
  <2>1. SitsAt(w, h, r)
    BY <1>4, <1>8 DEF SitsAt
  <2>2. SubSeq(w, h + 1, h + Len(r)) = r
    BY <1>8, <2>1, PieceFound
  <2>3. h + 1 = 5 + p /\ h + Len(r) = Len(w)
    BY <1>4, <1>5, <1>8, <1>9
  <2> QED
    BY <2>2, <2>3, Zenon
<1>13. ~(Len(w) < 4) /\ ~(Len(w) < 4 + p)
  BY <1>5, <1>8, <1>9
<1>14. done.rest = w /\ done.found = found
  OBVIOUS
<1> HIDE DEF done
<1>15. NextComponent(done) =
           [found |-> Append(found, SubSeq(w, 5, 4 + p)), rest |-> SubSeq(w, 5 + p, Len(w))]
  BY <1>10, <1>13, <1>14, Zenon DEF NextComponent
<1> QED
  BY <1>11, <1>12, <1>15, Zenon DEF done, w

\* t is s with e behind it.
OneMore(s, e, t) ==
    Len(t) = Len(s) + 1 /\ t[Len(s) + 1] = e /\ \A k \in 1..Len(s) : t[k] = s[k]

\* Append, by its places.
LEMMA AppendsOne ==
    ASSUME NEW S, NEW s \in Seq(S), NEW e \in S, NEW t \in Seq(S), OneMore(s, e, t)
    PROVE  Append(s, e) = t
<1>1. PICK x : x = Append(s, e)
  OBVIOUS
<1>2. /\ x \in Seq(S) /\ Len(x) = Len(s) + 1
      /\ \A k \in 1..Len(s) : x[k] = s[k]
      /\ x[Len(s) + 1] = e
  BY <1>1, AppendProperties
<1>3. x = t
  <2>1. \A k \in 1..Len(x) : x[k] = t[k]
    BY <1>2 DEF OneMore
  <2> QED
    BY <1>2, <2>1, SeqEqual DEF OneMore
<1> QED
  BY <1>1, <1>3

\* Append to nothing.
LEMMA AppendedToNone == \A a : Append(<<>>, a) = <<a>>
  OBVIOUS

\* Append up to four elements.
LEMMA FourAppended ==
    ASSUME NEW a, NEW b, NEW c, NEW d
    PROVE  /\ Append(<<a>>, b) = <<a, b>> /\ Append(<<a, b>>, c) = <<a, b, c>>
           /\ Append(<<a, b, c>>, d) = <<a, b, c, d>>
<1> DEFINE S == {a, b, c, d}
<1>1. Append(<<a>>, b) = <<a, b>>
  <2>1. PICK s, t : s = <<a>> /\ t = <<a, b>>
    OBVIOUS
  <2>2. s \in Seq(S) /\ Len(s) = 1 /\ s[1] = a
    BY <2>1
  <2>3. t \in Seq(S) /\ Len(t) = 2 /\ t[1] = a /\ t[2] = b
    BY <2>1
  <2>4. OneMore(s, b, t)
    BY <2>2, <2>3 DEF OneMore
  <2>5. Append(s, b) = t
    BY <2>2, <2>3, <2>4, AppendsOne
  <2> QED
    BY <2>1, <2>5
<1>2. Append(<<a, b>>, c) = <<a, b, c>>
  <2>1. PICK s, t : s = <<a, b>> /\ t = <<a, b, c>>
    OBVIOUS
  <2>2. s \in Seq(S) /\ Len(s) = 2 /\ s[1] = a /\ s[2] = b
    BY <2>1
  <2>3. t \in Seq(S) /\ Len(t) = 3 /\ t[1] = a /\ t[2] = b /\ t[3] = c
    BY <2>1
  <2>4. OneMore(s, c, t)
    BY <2>2, <2>3 DEF OneMore
  <2>5. Append(s, c) = t
    BY <2>2, <2>3, <2>4, AppendsOne
  <2> QED
    BY <2>1, <2>5
<1>3. Append(<<a, b, c>>, d) = <<a, b, c, d>>
  <2>1. PICK s, t : s = <<a, b, c>> /\ t = <<a, b, c, d>>
    OBVIOUS
  <2>2. s \in Seq(S) /\ Len(s) = 3 /\ s[1] = a /\ s[2] = b /\ s[3] = c
    BY <2>1
  <2>3. t \in Seq(S) /\ Len(t) = 4 /\ t[1] = a /\ t[2] = b /\ t[3] = c /\ t[4] = d
    BY <2>1
  <2>4. OneMore(s, d, t)
    BY <2>2, <2>3 DEF OneMore
  <2>5. Append(s, d) = t
    BY <2>2, <2>3, <2>4, AppendsOne
  <2> QED
    BY <2>1, <2>5
<1> QED
  BY <1>1, <1>2, <1>3

\* All four components are read back.
LEMMA AllReadBack ==
    ASSUME NEW ek \in Seq(Int), NEW uuid \in Seq(Int), NEW cpu \in Seq(Int), NEW disk \in Seq(Int),
           Len(ek) < Word, Len(uuid) < Word, Len(cpu) < Word, Len(disk) < Word
    PROVE  Components(Canonical(ek, uuid, cpu, disk)) =
               [found |-> <<ek, uuid, cpu, disk>>, rest |-> <<>>]
<1> DEFINE b1 == AppendComponent(Prefix, ek)
           b2 == AppendComponent(b1, uuid)
           b3 == AppendComponent(b2, cpu)
           b4 == AppendComponent(b3, disk)
           r4 == Cat(Component(disk), <<>>)
           r3 == Cat(Component(cpu), r4)
           r2 == Cat(Component(uuid), r3)
           r1 == Cat(Component(ek), r2)
<1>1. Prefix \in Seq(Int) /\ <<>> \in Seq(Int)
  BY DEF Prefix
<1>2. /\ Component(ek) \in Seq(Int) /\ Component(uuid) \in Seq(Int)
      /\ Component(cpu) \in Seq(Int) /\ Component(disk) \in Seq(Int)
  BY ComponentIsSeq
<1>3. b1 = Cat(Prefix, Component(ek)) /\ b1 \in Seq(Int)
  BY <1>1, Appended
<1> HIDE DEF b1
<1>4. b2 = Cat(b1, Component(uuid)) /\ b2 \in Seq(Int)
  BY <1>3, Appended
<1> HIDE DEF b2
<1>5. b3 = Cat(b2, Component(cpu)) /\ b3 \in Seq(Int)
  BY <1>4, Appended
<1> HIDE DEF b3
<1>6. b4 = Cat(b3, Component(disk)) /\ b4 \in Seq(Int)
  BY <1>5, Appended
<1> HIDE DEF b4
<1>7. r4 = Component(disk) /\ r4 \in Seq(Int)
  BY <1>1, <1>2, CatProperties
<1> HIDE DEF r4
<1>8. r3 \in Seq(Int)
  BY <1>2, <1>7, CatProperties
<1>9. b4 = Cat(b2, r3)
  BY <1>2, <1>4, <1>5, <1>6, <1>7, Associative DEF r3
<1> HIDE DEF r3
<1>10. r2 \in Seq(Int)
  BY <1>2, <1>8, CatProperties
<1>11. b4 = Cat(b1, r2)
  BY <1>2, <1>3, <1>4, <1>8, <1>9, Associative DEF r2
<1> HIDE DEF r2
<1>12. r1 \in Seq(Int)
  BY <1>2, <1>10, CatProperties
<1>13. b4 = Cat(Prefix, r1)
  BY <1>1, <1>2, <1>3, <1>10, <1>11, Associative DEF r1
<1> HIDE DEF r1
<1>14. SubSeq(b4, Len(Prefix) + 1, Len(b4)) = r1
  <2>1. Len(Prefix) \in Nat
    BY <1>1
  <2> DEFINE n == Len(Prefix)
             m == Len(r1)
  <2>2. n + m = Len(b4) /\ \A k \in 1..m : b4[n + k] = r1[k]
    <3>1. n = Len(Prefix) /\ m = Len(r1)
      OBVIOUS
    <3> HIDE DEF n, m
    <3>2. b4 = Prefix \o r1
      BY <1>13 DEF Cat
    <3>3. Prefix \in Seq(Int) /\ r1 \in Seq(Int)
      BY <1>1, <1>12
    <3>4. PICK pre : pre = Prefix
      OBVIOUS
    <3>5. pre \in Seq(Int) /\ b4 = pre \o r1 /\ n = Len(pre)
      BY <3>1, <3>2, <3>3, <3>4
    <3>6. n + m = Len(b4) /\ \A k \in 1..m : b4[n + k] = r1[k]
      BY <3>1, <3>3, <3>5, Concatenated
    <3> QED
      BY <3>6
  <2>3. SitsAt(b4, n, r1)
    <3>1. m = Len(r1) /\ m \in Nat /\ n \in Nat
      BY <1>12, <2>1
    <3> HIDE DEF n, m
    <3>2. n + m <= Len(b4)
      BY <2>2, <3>1
    <3>3. n + Len(r1) <= Len(b4)
      BY <3>1, <3>2, Zenon
    <3>4. \A k \in 1..Len(r1) : b4[n + k] = r1[k]
      BY <2>2, <3>1, Zenon
    <3> QED
      BY <3>3, <3>4, Zenon DEF SitsAt
  <2>4. PICK a \in Nat : a = Len(Prefix)
    BY <2>1
  <2>5. SitsAt(b4, a, r1)
    BY <2>3, <2>4, Zenon
  <2>6. SubSeq(b4, a + 1, a + Len(r1)) = r1
    BY <1>6, <1>12, <2>5, PieceFound
  <2>7. a + Len(r1) = Len(b4)
    BY <2>2, <2>4, Zenon
  <2> QED
    BY <2>4, <2>6, <2>7, Zenon
<1>15. NextComponent([found |-> <<>>, rest |-> r1]) = [found |-> Append(<<>>, ek), rest |-> r2]
  BY <1>10, ComponentReadBack DEF r1
<1>16. NextComponent([found |-> <<ek>>, rest |-> r2]) = [found |-> Append(<<ek>>, uuid), rest |-> r3]
  BY <1>8, ComponentReadBack DEF r2
<1>17. NextComponent([found |-> <<ek, uuid>>, rest |-> r3])
           = [found |-> Append(<<ek, uuid>>, cpu), rest |-> r4]
  BY <1>7, ComponentReadBack DEF r3
<1>18. NextComponent([found |-> <<ek, uuid, cpu>>, rest |-> r4])
           = [found |-> Append(<<ek, uuid, cpu>>, disk), rest |-> <<>>]
  BY <1>1, ComponentReadBack DEF r4
<1>19. /\ Append(<<>>, ek) = <<ek>> /\ Append(<<ek>>, uuid) = <<ek, uuid>>
       /\ Append(<<ek, uuid>>, cpu) = <<ek, uuid, cpu>>
       /\ Append(<<ek, uuid, cpu>>, disk) = <<ek, uuid, cpu, disk>>
  BY FourAppended, AppendedToNone
<1>20. Canonical(ek, uuid, cpu, disk) = b4
  BY Zenon DEF Canonical, b1, b2, b3, b4
<1> QED
  BY <1>14, <1>15, <1>16, <1>17, <1>18, <1>19, <1>20, Zenon DEF Components

-----------------------------------------------------------------------------
(* How a line of words is understood.                                      *)

\* A place that is in a set and behind none of it is its first.
LEMMA FirstIs ==
    ASSUME NEW S \in SUBSET Nat, NEW c \in S, \A n \in S : c <= n
    PROVE  First(S) = c
<1>1. Min(S) \in S /\ Min(S) <= c
  BY Smallest
<1>2. PICK m \in S : m = Min(S)
  BY <1>1
<1>3. m \in Nat /\ c \in Nat /\ m <= c /\ c <= m
  BY <1>1, <1>2
<1> QED
  BY <1>2, <1>3 DEF First

\* Word c of a line is a command, and only flags stand before it.
Commanded(line, c, cmd) ==
    c \in 1..Len(line) /\ line[c] = cmd /\ \A k \in 1..c - 1 : line[k] \in Flags

\* No command looks like a flag.
LEMMA CommandIsNoFlag == ASSUME NEW cmd \in Commands PROVE cmd \notin Flags
  BY DEF Commands, KeyCommands, Flags

\* Then it is the command that main runs, and its arguments are the words behind.
LEMMA CommandFound ==
    ASSUME NEW S, NEW line \in Seq(S), NEW c, NEW cmd \in Commands, Commanded(line, c, cmd)
    PROVE  Subcommand(line) = cmd /\ Params(line, cmd) = SubSeq(line, c + 1, Len(line))
<1>1. Len(line) \in Nat /\ c \in 1..Len(line) /\ line[c] = cmd
  BY DEF Commanded
<1>2. ASSUME NEW k \in 1..c - 1 PROVE line[k] \in Flags /\ line[k] # cmd
  <2>1. line[k] \in Flags
    BY DEF Commanded
  <2> QED
    BY <2>1, CommandIsNoFlag, Zenon
<1> DEFINE at == {n \in 1..Len(line) : line[n] \notin Flags}
           same == Positions(line, cmd)
<1>3. c \in at /\ at \in SUBSET Nat
  BY <1>1, CommandIsNoFlag
<1>4. \A n \in at : c <= n
  <2> SUFFICES ASSUME NEW n \in at, n < c PROVE FALSE
    BY <1>1
  <2>1. n \in 1..c - 1 /\ line[n] \notin Flags
    BY <1>1
  <2> QED
    BY <1>2, <2>1
<1>5. Subcommand(line) = cmd
  <2>1. First(at) = c /\ at # {}
    BY <1>3, <1>4, FirstIs
  <2>2. Subcommand(line) = IF at = {} THEN "" ELSE line[First(at)]
    BY Zenon DEF Subcommand
  <2> HIDE DEF at
  <2> QED
    BY <1>1, <2>1, <2>2, Zenon
<1>6. c \in same /\ same \in SUBSET Nat
  BY <1>1 DEF Positions
<1>7. \A n \in same : c <= n
  <2> SUFFICES ASSUME NEW n \in same, n < c PROVE FALSE
    BY <1>1 DEF Positions
  <2>1. n \in 1..c - 1 /\ line[n] = cmd
    BY <1>1 DEF Positions
  <2> QED
    BY <1>2, <2>1
<1>8. First(same) = c
  <2> HIDE DEF same
  <2> QED
    BY <1>6, <1>7, FirstIs
<1> QED
  BY <1>5, <1>8, Zenon DEF Params

\* Lines of one and two words.
LEMMA ShortLines ==
    ASSUME NEW V, NEW W
    PROVE  /\ \A x \in V \cup W : <<x>> \in Seq(V \cup W) /\ Len(<<x>>) = 1
           /\ \A x \in V : <<x>> \in Seq(V \cup W) /\ Len(<<x>>) \in 1..2
           /\ \A x, y \in V : <<x, y>> \in Seq(V \cup W) /\ Len(<<x, y>>) \in 1..2
  OBVIOUS

\* The documented forms, apart.
LEMMA FormParts ==
    ASSUME NEW form \in Forms
    PROVE  /\ form.cmd \in Commands /\ form.json \in BOOLEAN
           /\ form.cmd = "fingerprint" => form.params = <<>>
           /\ form.params \in Seq(Values \cup Commands)
           /\ form.cmd = "generate-request" => Len(form.params) \in 1..2
           /\ form.cmd \notin {"fingerprint", "generate-request"} => Len(form.params) = 1
<1>1. PICK cmd \in Commands :
          form \in [config : {NoConfig} \cup Values, json : BOOLEAN, cmd : {cmd},
                    params : Arguments(cmd)]
  BY DEF Forms
<1>2. form.cmd = cmd /\ form.json \in BOOLEAN /\ form.params \in Arguments(cmd)
  BY <1>1
<1>3. cmd = "fingerprint" => form.params = <<>> /\ <<>> \in Seq(Values \cup Commands)
  <2> SUFFICES ASSUME cmd = "fingerprint" PROVE form.params = <<>>
    OBVIOUS
  <2>1. form.params \in {<<>>}
    BY <1>2 DEF Arguments
  <2> QED
    BY <2>1, Zenon
<1>4. cmd = "generate-request" =>
          form.params \in Seq(Values \cup Commands) /\ Len(form.params) \in 1..2
  <2> SUFFICES ASSUME cmd = "generate-request"
               PROVE  form.params \in Seq(Values \cup Commands) /\ Len(form.params) \in 1..2
    OBVIOUS
  <2>1. form.params \in {<<x>> : x \in Values} \cup {<<x, y>> : x, y \in Values}
    BY <1>2 DEF Arguments
  <2>2. \/ \E x \in Values : form.params = <<x>>
        \/ \E x, y \in Values : form.params = <<x, y>>
    BY <2>1
  <2>3. ASSUME NEW x \in Values, form.params = <<x>>
        PROVE  form.params \in Seq(Values \cup Commands) /\ Len(form.params) \in 1..2
    <3>1. <<x>> \in Seq(Values \cup Commands) /\ Len(<<x>>) \in 1..2
      BY ShortLines, Zenon
    <3> QED
      BY <2>3, <3>1, Zenon
  <2>4. ASSUME NEW x \in Values, NEW y \in Values, form.params = <<x, y>>
        PROVE  form.params \in Seq(Values \cup Commands) /\ Len(form.params) \in 1..2
    <3>1. <<x, y>> \in Seq(Values \cup Commands) /\ Len(<<x, y>>) \in 1..2
      BY ShortLines, Zenon
    <3> QED
      BY <2>4, <3>1, Zenon
  <2> QED
    BY <2>2, <2>3, <2>4
<1>5. cmd \notin {"fingerprint", "generate-request"} =>
          form.params \in Seq(Values \cup Commands) /\ Len(form.params) = 1
  <2> SUFFICES ASSUME cmd \notin {"fingerprint", "generate-request"}
               PROVE  form.params \in Seq(Values \cup Commands) /\ Len(form.params) = 1
    OBVIOUS
  <2>1. form.params \in {<<x>> : x \in Values \cup Commands}
    BY <1>2 DEF Arguments
  <2>2. \E x \in Values \cup Commands : form.params = <<x>>
    BY <2>1, Zenon
  <2> QED
    BY <2>2, ShortLines, Zenon
<1> QED
  <2>1. cmd = "fingerprint" \/ cmd = "generate-request"
        \/ cmd \notin {"fingerprint", "generate-request"}
    OBVIOUS
  <2> QED
    BY <1>2, <1>3, <1>4, <1>5, <2>1, Zenon

\* From word c on, a line says what a form says, with no configuration before.
LineOf(line, c, form) ==
    /\ c = IF form.json THEN 2 ELSE 1
    /\ c + Len(form.params) <= Len(line)
    /\ \A k \in 1..c - 1 : line[k] = "--json"
    /\ line[c] = form.cmd
    /\ \A k \in 1..Len(form.params) : line[c + k] = form.params[k]

\* The words behind what the form says are none of these three flags.
Quiet(line, c, form) ==
    \A k \in c + Len(form.params) + 1..Len(line) : line[k] \notin {"--json", "--help", "-h"}

\* No argument of a form looks like a flag.
LEMMA ArgumentsAreNoFlags ==
    ASSUME NEW form \in Forms
    PROVE  \A k \in 1..Len(form.params) : form.params[k] \notin Flags
<1>1. form.params \in Seq(Values \cup Commands)
  BY FormParts
<1>2. \A k \in 1..Len(form.params) : form.params[k] \in Values \cup Commands
  BY <1>1, Elements, Zenon
<1>3. (Values \cup Commands) \cap Flags = {}
  BY ValuesAssumption, CommandIsNoFlag
<1> QED
  BY <1>2, <1>3

\* Help is not asked for, and --json counts where the form has it.
LEMMA FlagsOfLine ==
    ASSUME NEW form \in Forms, NEW S, NEW line \in Seq(S), NEW c \in Nat,
           LineOf(line, c, form), Quiet(line, c, form)
    PROVE  /\ line # <<>> /\ Commanded(line, c, form.cmd)
           /\ ~HasFlag(line, "--help") /\ ~HasFlag(line, "-h")
           /\ HasFlag(line, "--json") = form.json
<1>1. /\ form.cmd \in Commands /\ form.json \in BOOLEAN
      /\ Len(form.params) \in Nat /\ Len(line) \in Nat
  BY FormParts
<1>2. /\ c = IF form.json THEN 2 ELSE 1
      /\ c + Len(form.params) <= Len(line) /\ line[c] = form.cmd
  BY Zenon DEF LineOf
<1>3. c \in 1..Len(line) /\ c + Len(form.params) <= Len(line) /\ line[c] = form.cmd
  <2>1. PICK l, p \in Nat : l = Len(line) /\ p = Len(form.params)
    BY <1>1
  <2>2. c + p <= l
    BY <1>2, <2>1, Zenon
  <2>3. c \in {1, 2}
    BY <1>2, Zenon
  <2>4. c \in 1..l
    BY <2>1, <2>2, <2>3
  <2> QED
    BY <1>2, <2>1, <2>4, Zenon
<1>4. ASSUME NEW k \in 1..Len(line)
      PROVE  /\ line[k] \notin {"--help", "-h"}
             /\ line[k] = "--json" <=> k < c
  <2>1. CASE k < c
    <3>1. k \in 1..c - 1
      BY <2>1, <1>3
    <3>2. line[k] = "--json"
      BY <3>1 DEF LineOf
    <3> QED
      BY <2>1, <3>2
  <2>2. CASE k = c
    <3>1. line[k] \notin Flags
      BY <1>1, <1>3, <2>2, CommandIsNoFlag
    <3> QED
      BY <1>3, <2>2, <3>1 DEF Flags
  <2>3. CASE c < k /\ k <= c + Len(form.params)
    <3>1. PICK j : j = k - c
      OBVIOUS
    <3>2. j \in 1..Len(form.params) /\ k = c + j
      BY <1>1, <2>3, <3>1
    <3>3. line[k] = form.params[j]
      BY <3>2 DEF LineOf
    <3>4. line[k] \notin Flags
      BY <3>2, <3>3, ArgumentsAreNoFlags
    <3> QED
      BY <2>3, <3>4 DEF Flags
  <2>4. CASE k > c + Len(form.params)
    <3>1. k \in c + Len(form.params) + 1..Len(line) /\ ~(k < c)
      BY <1>1, <2>4
    <3>2. line[k] \notin {"--json", "--help", "-h"}
      BY <3>1 DEF Quiet
    <3> QED
      BY <3>1, <3>2
  <2> QED
    BY <1>1, <2>1, <2>2, <2>3, <2>4
<1>5. Commanded(line, c, form.cmd)
  <2>1. \A k \in 1..c - 1 : line[k] \in Flags
    BY DEF LineOf, Flags
  <2> QED
    BY <1>3, <2>1 DEF Commanded
<1>6. ~HasFlag(line, "--help") /\ ~HasFlag(line, "-h")
  BY <1>4 DEF HasFlag, Positions
<1>7. HasFlag(line, "--json") <=> c > 1
  <2>1. HasFlag(line, "--json") <=> \E k \in 1..Len(line) : line[k] = "--json"
    BY DEF HasFlag, Positions
  <2>2. (\E k \in 1..Len(line) : line[k] = "--json") <=> c > 1
    BY <1>3, <1>4
  <2> QED
    BY <2>1, <2>2
<1>8. c > 1 <=> form.json
  BY <1>1 DEF LineOf
<1>9. HasFlag(line, "--json") = form.json
  <2>1. HasFlag(line, "--json") \in BOOLEAN
    BY DEF HasFlag
  <2> QED
    BY <1>1, <1>7, <1>8, <2>1
<1>10. line # <<>>
  BY <1>3
<1> QED
  BY <1>5, <1>6, <1>9, <1>10, Zenon

\* A command that takes as many arguments as a form has takes the form's.
LEMMA ArgumentsTaken ==
    ASSUME NEW form \in Forms, NEW line \in Seq(Words \cup {DefaultConfig}), NEW c \in Nat,
           LineOf(line, c, form), NEW most \in Nat, NEW behind,
           behind = SubSeq(line, c + 1, Len(line)),
           Len(form.params) <= most,
           Len(form.params) = most \/ Len(line) = c + Len(form.params)
    PROVE  /\ form.params # <<>> => behind # <<>>
           /\ SubSeq(behind, 1, IF Len(behind) < most THEN Len(behind) ELSE most) = form.params
<1> DEFINE S == Words \cup {DefaultConfig}
<1>1. form.params \in Seq(Values \cup Commands)
  BY FormParts
<1>2. form.params \in Seq(S)
  <2>1. Values \cup Commands \subseteq S
    BY DEF Words
  <2> QED
    BY <1>1, <2>1, SeqMonotonic
<1>3. line \in Seq(S)
  OBVIOUS
<1> HIDE DEF S
<1>4. PICK t : t = form.params
  OBVIOUS
<1>5. t \in Seq(S) /\ c + Len(t) <= Len(line) /\ \A k \in 1..Len(t) : line[c + k] = t[k]
  BY <1>2, <1>4, Zenon DEF LineOf
<1>6. /\ behind \in Seq(S) /\ Len(behind) = Len(line) - c
      /\ \A k \in 1..Len(line) - c : behind[k] = line[c + k]
  <2>1. \A k \in c + 1..Len(line) : line[k] \in S
    BY <1>3
  <2>2. c + 1 \in Int /\ Len(line) \in Int /\ c <= Len(line)
    BY <1>3, <1>5
  <2>3. /\ SubSeq(line, c + 1, Len(line)) \in Seq(S)
        /\ Len(SubSeq(line, c + 1, Len(line))) = Len(line) - c
    BY <2>1, <2>2, SubSeqProperties
  <2>4. ASSUME NEW k \in 1..Len(line) - c
        PROVE  SubSeq(line, c + 1, Len(line))[k] = line[c + k]
    BY <2>1, <2>2, SubSeqProperties
  <2> QED
    BY <2>3, <2>4
<1>7. PICK b : b = behind
  OBVIOUS
<1>8. /\ b \in Seq(S) /\ Len(t) <= Len(b) /\ \A k \in 1..Len(t) : b[k] = t[k]
  BY <1>3, <1>5, <1>6, <1>7
<1>9. SubSeq(b, 1, Len(t)) = t
  <2>1. SitsAt(b, 0, t)
    BY <1>5, <1>8 DEF SitsAt
  <2>2. SubSeq(b, 0 + 1, 0 + Len(t)) = t
    BY <1>5, <1>8, <2>1, PieceFound
  <2>3. 0 + 1 = 1 /\ 0 + Len(t) = Len(t)
    BY <1>5
  <2> QED
    BY <2>2, <2>3, Zenon
<1>10. (IF Len(b) < most THEN Len(b) ELSE most) = Len(t)
  BY <1>3, <1>4, <1>5, <1>6, <1>7
<1>11. t # <<>> => b # <<>>
  BY <1>5, <1>8
<1> QED
  BY <1>4, <1>7, <1>9, <1>10, <1>11, Zenon

\* A line that says what a form says is understood like the form.
LEMMA Understood ==
    ASSUME NEW form \in Forms, NEW line \in Seq(Words \cup {DefaultConfig}), NEW c \in Nat,
           LineOf(line, c, form), Quiet(line, c, form),
           \/ Len(line) = c + Len(form.params)
           \/ form.cmd \in KeyCommands \ {"generate-request"},
           NEW config, config = GetArg(line, "--config", DefaultConfig)
    PROVE  ClientMain(line) =
               CASE form.cmd \in KeyCommands /\ config \notin GoodConfigs -> Ends("no keys")
                 [] OTHER -> Calls(form.cmd, form.params,
                                   IF form.cmd \in KeyCommands THEN config ELSE "", form.json)
<1> DEFINE cmd == form.cmd
           behind == SubSeq(line, c + 1, Len(line))
           most == IF cmd = "generate-request" THEN 2 ELSE 1
           taken == SubSeq(behind, 1, IF Len(behind) < most THEN Len(behind) ELSE most)
<1>1. cmd \in Commands /\ form.json \in BOOLEAN
  BY FormParts
<1>2. /\ line # <<>> /\ Commanded(line, c, cmd)
      /\ ~HasFlag(line, "--help") /\ ~HasFlag(line, "-h")
      /\ HasFlag(line, "--json") = form.json
  BY FlagsOfLine, Zenon
<1>3. Subcommand(line) = cmd /\ Params(line, cmd) = behind
  BY <1>1, <1>2, CommandFound
<1>4. cmd # "fingerprint" => behind # <<>> /\ taken = form.params
  <2> SUFFICES ASSUME cmd # "fingerprint" PROVE behind # <<>> /\ taken = form.params
    OBVIOUS
  <2>1. form.params # <<>> /\ Len(form.params) <= most /\ most \in Nat
    <3>1. form.params \in Seq(Values \cup Commands)
      BY FormParts
    <3>2. PICK t : t = form.params
      OBVIOUS
    <3>3. t # <<>> <=> Len(t) # 0
      BY <3>1, <3>2, EmptySeq
    <3>4. CASE cmd = "generate-request"
      <4>1. Len(t) \in 1..2 /\ most = 2
        BY <3>2, <3>4, FormParts
      <4> HIDE DEF most
      <4>2. PICK l : l = Len(t)
        OBVIOUS
      <4>3. l # 0 /\ l <= most /\ most \in Nat
        <5>1. l \in 1..2 /\ most = 2
          BY <4>1, <4>2, Zenon
        <5> QED
          BY <5>1
      <4> QED
        BY <3>2, <3>3, <4>2, <4>3, Zenon
    <3>5. CASE cmd # "generate-request"
      <4>1. Len(t) = 1 /\ most = 1
        BY <3>2, <3>5, FormParts
      <4> HIDE DEF most
      <4> QED
        BY <3>2, <3>3, <4>1
    <3> QED
      BY <3>4, <3>5
  <2>2. Len(form.params) = most \/ Len(line) = c + Len(form.params)
    BY FormParts DEF KeyCommands
  <2>3. PICK b, m : b = behind /\ m = most
    OBVIOUS
  <2>4. /\ b = SubSeq(line, c + 1, Len(line)) /\ m \in Nat
        /\ form.params # <<>> /\ Len(form.params) <= m
        /\ Len(form.params) = m \/ Len(line) = c + Len(form.params)
    BY <2>1, <2>2, <2>3, Zenon
  <2>5. b # <<>> /\ SubSeq(b, 1, IF Len(b) < m THEN Len(b) ELSE m) = form.params
    BY <2>4, ArgumentsTaken, Zenon
  <2> QED
    BY <2>3, <2>5, Zenon
<1>5. RunCommand(line, cmd, config, form.json) =
          IF behind = <<>> THEN Ends("argument missing")
          ELSE Calls(cmd, taken, config, form.json)
  BY <1>3, Zenon DEF RunCommand
<1>6. RunCommand(line, cmd, "", form.json) =
          IF behind = <<>> THEN Ends("argument missing")
          ELSE Calls(cmd, taken, "", form.json)
  BY <1>3, Zenon DEF RunCommand
<1> HIDE DEF behind, taken, most
<1>7. ClientMain(line) =
          CASE cmd = "fingerprint" -> Calls(cmd, <<>>, "", form.json)
            [] cmd = "deactivate" -> RunCommand(line, cmd, "", form.json)
            [] cmd = "" -> Ends("usage")
            [] OTHER ->
                 CASE config \notin GoodConfigs -> Ends("no keys")
                   [] config \in GoodConfigs /\ cmd \in KeyCommands ->
                         RunCommand(line, cmd, config, form.json)
                   [] OTHER -> Ends("unknown command")
  BY <1>2, <1>3 DEF ClientMain
<1>8. CASE cmd = "fingerprint"
  <2>1. form.params = <<>> /\ cmd \notin KeyCommands
    BY <1>8, FormParts DEF KeyCommands
  <2> QED
    BY <1>7, <1>8, <2>1
<1>9. CASE cmd = "deactivate"
  <2>1. cmd \notin KeyCommands /\ cmd # "fingerprint"
    BY <1>9 DEF KeyCommands
  <2>2. ClientMain(line) = Calls(cmd, form.params, "", form.json)
    BY <1>4, <1>6, <1>7, <1>9, <2>1
  <2> QED
    BY <2>1, <2>2
<1>10. CASE cmd \in KeyCommands
  <2>1. cmd # "fingerprint" /\ cmd # "deactivate" /\ cmd # ""
    BY <1>10 DEF KeyCommands
  <2>2. CASE config \notin GoodConfigs
    BY <1>7, <1>10, <2>1, <2>2
  <2>3. CASE config \in GoodConfigs
    <3>1. ClientMain(line) = RunCommand(line, cmd, config, form.json)
      BY <1>7, <1>10, <2>1, <2>3
    <3> QED
      BY <1>4, <1>5, <1>10, <2>1, <2>3, <3>1
  <2> QED
    BY <2>2, <2>3
<1> QED
  BY <1>1, <1>8, <1>9, <1>10 DEF Commands

\* The line of a form that names no configuration.
LEMMA PlainLine ==
    ASSUME NEW form \in Forms, form.config = NoConfig
    PROVE  \E c \in Nat : /\ FormLine(form) \in Seq(Words)
                          /\ Len(FormLine(form)) = c + Len(form.params)
                          /\ LineOf(FormLine(form), c, form)
<1> DEFINE h == IF form.json THEN <<"--json">> ELSE <<>>
           t == form.params
<1>1. /\ form.cmd \in Commands /\ form.json \in BOOLEAN
      /\ t \in Seq(Values \cup Commands)
  BY FormParts
<1>2. PICK cmd \in Commands : cmd = form.cmd
  BY <1>1
<1>3. FormLine(form) = Cat(Cat(Cat(<<>>, h), <<cmd>>), t)
  BY <1>2, Zenon DEF FormLine, Cat
<1>4. PICK H : H = h
  OBVIOUS
<1>5. /\ H \in Seq(Words) /\ Len(H) = (IF form.json THEN 1 ELSE 0)
      /\ \A k \in 1..Len(H) : H[k] = "--json"
  <2>1. "--json" \in Words
    BY DEF Words, Flags
  <2>2. CASE form.json = TRUE
    <3>1. H = <<"--json">>
      BY <1>4, <2>2
    <3> QED
      BY <2>1, <2>2, <3>1
  <2>3. CASE form.json = FALSE
    <3>1. H = <<>>
      BY <1>4, <2>3
    <3> QED
      BY <2>3, <3>1
  <2> QED
    BY <1>1, <2>2, <2>3
<1>6. t \in Seq(Words)
  <2>1. Values \cup Commands \subseteq Words
    BY DEF Words
  <2> QED
    BY <1>1, <2>1, SeqMonotonic
<1>7. PICK T : T = t
  OBVIOUS
<1>8. cmd \in Words
  BY DEF Words
<1> HIDE DEF h, t
<1>9. PICK x : x = H \o <<cmd>>
  OBVIOUS
<1>10. PICK n : n = Len(H)
  OBVIOUS
<1>11. /\ x \in Seq(Words) /\ n + 1 = Len(x) /\ n \in Nat
       /\ \A k \in 1..n : x[k] = H[k]
       /\ x[n + 1] = cmd
  <2>1. PICK o : o = <<cmd>>
    OBVIOUS
  <2>2. o \in Seq(Words) /\ 1 = Len(o) /\ o[1] = cmd
    BY <1>8, <2>1
  <2>3. x = H \o o
    BY <1>9, <2>1, Zenon
  <2>4. /\ n \in Nat /\ x \in Seq(Words) /\ n + 1 = Len(x)
        /\ \A k \in 1..n : x[k] = H[k]
        /\ \A k \in 1..1 : x[n + k] = o[k]
    <3>1. PICK m : m = 1
      OBVIOUS
    <3>2. H \in Seq(Words) /\ o \in Seq(Words) /\ m = Len(o)
      BY <1>5, <2>2, <3>1, Zenon
    <3>3. /\ n \in Nat /\ x \in Seq(Words) /\ n + m = Len(x)
          /\ \A k \in 1..n : x[k] = H[k]
          /\ \A k \in 1..m : x[n + k] = o[k]
      BY <1>10, <2>3, <3>2, Concatenated
    <3> QED
      BY <3>1, <3>3, Zenon
  <2>5. x[n + 1] = o[1]
    BY <2>4
  <2> QED
    BY <2>2, <2>4, <2>5, Zenon
<1>12. PICK line : line = x \o T
  OBVIOUS
<1>13. FormLine(form) = line
  <2>1. Cat(<<>>, H) = H
    BY <1>5, ConcatEmptySeq DEF Cat
  <2> QED
    BY <1>3, <1>4, <1>7, <1>9, <1>12, <2>1, Zenon DEF Cat
<1>14. PICK c, p : c = n + 1 /\ p = Len(T)
  OBVIOUS
<1>15. c = Len(x) /\ x \in Seq(Words) /\ p = Len(T) /\ T \in Seq(Words)
  BY <1>6, <1>7, <1>11, <1>14, Zenon
<1>16. /\ c \in Nat /\ p \in Nat /\ line \in Seq(Words) /\ c + p = Len(line)
       /\ \A k \in 1..c : line[k] = x[k]
       /\ \A k \in 1..p : line[c + k] = T[k]
  BY <1>12, <1>15, Concatenated
<1>17. c = IF form.json THEN 2 ELSE 1
  BY <1>5, <1>10, <1>14
<1>18. \A k \in 1..c - 1 : line[k] = "--json"
  <2> SUFFICES ASSUME NEW k \in 1..c - 1 PROVE line[k] = "--json"
    OBVIOUS
  <2>1. k \in 1..c /\ k \in 1..n
    BY <1>11, <1>14
  <2>2. H[k] = "--json"
    BY <1>5, <1>10, <2>1, Zenon
  <2> QED
    BY <1>11, <1>16, <2>1, <2>2, Zenon
<1>19. line[c] = cmd
  <2>1. c \in 1..c
    BY <1>11, <1>14
  <2> QED
    BY <1>11, <1>14, <1>16, <2>1, Zenon
<1>20. c + p <= Len(line)
  BY <1>16
<1>21. LineOf(line, c, form)
  BY <1>2, <1>7, <1>14, <1>16, <1>17, <1>18, <1>19, <1>20, Zenon DEF LineOf, t
<1> QED
  BY <1>7, <1>13, <1>14, <1>16, <1>21, Zenon DEF t

\* No word of a plain line is --config.
LEMMA NoConfigOnLine ==
    ASSUME NEW form \in Forms, NEW line, NEW c \in Nat, LineOf(line, c, form),
           NEW k \in 1..c + Len(form.params)
    PROVE  line[k] # "--config"
<1>1. form.cmd \in Commands /\ Len(form.params) \in Nat
  BY FormParts
<1>2. CASE k < c
  <2>1. k \in 1..c - 1
    BY <1>2
  <2> QED
    BY <2>1 DEF LineOf
<1>3. CASE k = c
  <2>1. line[c] \notin Flags
    BY <1>1, CommandIsNoFlag DEF LineOf
  <2> QED
    BY <1>3, <2>1 DEF Flags
<1>4. CASE k > c
  <2>1. PICK j : j = k - c
    OBVIOUS
  <2>2. j \in 1..Len(form.params) /\ k = c + j
    BY <1>1, <1>4, <2>1
  <2>3. line[k] = form.params[j]
    BY <2>2 DEF LineOf
  <2>4. line[k] \notin Flags
    BY <2>2, <2>3, ArgumentsAreNoFlags
  <2> QED
    BY <2>4 DEF Flags
<1> QED
  BY <1>2, <1>3, <1>4

\* DefaultConfigLinesWork, for every set of words that are no flag and every set
\* of good configurations: a documented line that relies on the configuration in
\* the working directory runs the command it names on the arguments it names,
\* whatever the products, tokens and hints are called.
THEOREM DefaultConfigAlwaysWorks == Spec => []DefaultConfigLinesWork
<1>1. DefaultConfigLinesWork
  <2> SUFFICES ASSUME NEW form \in Forms, form.config = NoConfig
               PROVE  ClientMain(FormLine(form)) = Meaning(form)
    BY Zenon DEF DefaultConfigLinesWork
  <2>1. PICK c \in Nat : /\ FormLine(form) \in Seq(Words)
                         /\ Len(FormLine(form)) = c + Len(form.params)
                         /\ LineOf(FormLine(form), c, form)
    BY PlainLine
  <2>2. PICK line : line = FormLine(form)
    OBVIOUS
  <2>3. /\ line \in Seq(Words \cup {DefaultConfig}) /\ Len(line) \in Nat
        /\ Len(line) = c + Len(form.params) /\ LineOf(line, c, form)
    <3>1. line \in Seq(Words)
      BY <2>1, <2>2, Zenon
    <3>2. line \in Seq(Words \cup {DefaultConfig}) /\ Len(line) \in Nat
      BY <3>1, SeqMonotonic
    <3> QED
      BY <2>1, <2>2, <3>2, Zenon
  <2>4. Quiet(line, c, form)
    BY <2>3 DEF Quiet
  <2>5. GetArg(line, "--config", DefaultConfig) = DefaultConfig
    <3>1. \A k \in 1..Len(line) : line[k] # "--config"
      BY <2>3, NoConfigOnLine
    <3>2. Positions(line, "--config") \ {Len(line)} = {}
      BY <3>1 DEF Positions
    <3> QED
      BY <3>2, Zenon DEF GetArg
  <2>6. ClientMain(line) =
            CASE form.cmd \in KeyCommands /\ DefaultConfig \notin GoodConfigs -> Ends("no keys")
              [] OTHER -> Calls(form.cmd, form.params,
                                IF form.cmd \in KeyCommands THEN DefaultConfig ELSE "",
                                form.json)
    BY <2>3, <2>4, <2>5, Understood
  <2>7. ClientMain(line) = Meaning(form)
    BY <2>6, Zenon DEF Meaning
  <2> QED
    BY <2>2, <2>7, Zenon
<1> QED
  BY <1>1, PTL

\* TrailingConfigWorks, for every set of words and good configurations: a
\* documented line of activate or verify with --config <path> behind it runs the
\* same command on the same argument, with the configuration of that path.
THEOREM TrailingConfigAlwaysWorks ==
    ASSUME NoConfig \notin GoodConfigs
    PROVE  Spec => []TrailingConfigWorks
<1>1. TrailingConfigWorks
  <2> SUFFICES ASSUME NEW form \in Forms, NEW path \in GoodConfigs, form.config = NoConfig,
                      form.cmd \in KeyCommands \ {"generate-request"}
               PROVE  ClientMain(FormLine(form) \o <<"--config", path>>)
                          = Meaning([form EXCEPT !.config = path])
    BY Zenon DEF TrailingConfigWorks
  <2> DEFINE S == Words \cup {DefaultConfig}
  <2>1. PICK c \in Nat : /\ FormLine(form) \in Seq(Words)
                         /\ Len(FormLine(form)) = c + Len(form.params)
                         /\ LineOf(FormLine(form), c, form)
    BY PlainLine
  <2>2. PICK x : x = FormLine(form)
    OBVIOUS
  <2>3. x \in Seq(S)
    <3>1. x \in Seq(Words)
      BY <2>1, <2>2, Zenon
    <3> QED
      BY <3>1, SeqMonotonic
  <2>4. path \in S /\ path \notin Flags /\ "--config" \in S
    BY ValuesAssumption DEF Words, Flags, DefaultConfig
  <2> HIDE DEF S
  <2>5. PICK o : o = <<"--config", path>>
    OBVIOUS
  <2>6. o \in Seq(S) /\ 2 = Len(o) /\ o[1] = "--config" /\ o[2] = path
    BY <2>4, <2>5
  <2>7. PICK line : line = x \o o
    OBVIOUS
  <2>8. PICK n : n = Len(x)
    OBVIOUS
  <2>9. /\ n \in Nat /\ line \in Seq(S) /\ n + 2 = Len(line)
        /\ \A k \in 1..n : line[k] = x[k]
        /\ \A k \in 1..2 : line[n + k] = o[k]
    <3>1. PICK m : m = 2
      OBVIOUS
    <3>2. x \in Seq(S) /\ o \in Seq(S) /\ m = Len(o)
      BY <2>3, <2>6, <3>1, Zenon
    <3>3. /\ n \in Nat /\ line \in Seq(S) /\ n + m = Len(line)
          /\ \A k \in 1..n : line[k] = x[k]
          /\ \A k \in 1..m : line[n + k] = o[k]
      BY <2>7, <2>8, <3>2, Concatenated
    <3> QED
      BY <3>1, <3>3, Zenon
  <2>10. line[n + 1] = "--config" /\ line[n + 2] = path
    BY <2>6, <2>9
  <2>11. PICK p : p = Len(form.params)
    OBVIOUS
  <2>12. p \in Nat /\ n = c + p /\ c >= 1
    <3>1. p \in Nat
      BY <2>11, FormParts
    <3>2. n = c + p
      BY <2>1, <2>2, <2>8, <2>11, Zenon
    <3>3. c \in {1, 2}
      BY <2>1 DEF LineOf
    <3> QED
      BY <3>1, <3>2, <3>3
  <2>13. LineOf(line, c, form)
    <3>1. LineOf(x, c, form)
      BY <2>1, <2>2, Zenon
    <3>2. /\ c = IF form.json THEN 2 ELSE 1
          /\ \A k \in 1..c - 1 : x[k] = "--json"
          /\ x[c] = form.cmd
          /\ \A k \in 1..p : x[c + k] = form.params[k]
      BY <2>11, <3>1, Zenon DEF LineOf
    <3>3. /\ \A k \in 1..c - 1 : k \in 1..n
          /\ c \in 1..n
          /\ \A k \in 1..p : c + k \in 1..n
          /\ c + p <= Len(line)
      BY <2>9, <2>12
    <3> QED
      BY <2>9, <2>11, <3>2, <3>3, Zenon DEF LineOf
  <2>14. Quiet(line, c, form)
    <3>1. c + Len(form.params) = n
      BY <2>11, <2>12, Zenon
    <3>2. \A k \in n + 1..Len(line) : k = n + 1 \/ k = n + 2
      BY <2>9
    <3>3. line[n + 1] \notin {"--json", "--help", "-h"}
          /\ line[n + 2] \notin {"--json", "--help", "-h"}
      BY <2>4, <2>10 DEF Flags
    <3> QED
      BY <3>1, <3>2, <3>3, Zenon DEF Quiet
  <2>15. GetArg(line, "--config", DefaultConfig) = path
    <3> DEFINE at == Positions(line, "--config") \ {Len(line)}
    <3>1. at = {n + 1}
      <4>1. \A k \in 1..n : line[k] # "--config"
        BY <2>11, <2>12, <2>13, NoConfigOnLine
      <4>2. at = {k \in 1..n + 1 : line[k] = "--config"}
        BY <2>9 DEF Positions
      <4> HIDE DEF at
      <4> QED
        BY <2>9, <2>10, <4>1, <4>2
    <3>2. First(at) = n + 1 /\ at # {}
      <4>1. First({n + 1}) = n + 1
        <5>1. {n + 1} \in SUBSET Nat /\ n + 1 \in {n + 1} /\ \A k \in {n + 1} : n + 1 <= k
          BY <2>9
        <5> QED
          BY <5>1, FirstIs
      <4> HIDE DEF at
      <4> QED
        BY <3>1, <4>1
    <3>3. GetArg(line, "--config", DefaultConfig) =
              IF at = {} THEN DefaultConfig ELSE line[First(at) + 1]
      BY Zenon DEF GetArg
    <3> HIDE DEF at
    <3>4. n + 1 + 1 = n + 2
      BY <2>9
    <3> QED
      BY <2>10, <3>2, <3>3, <3>4, Zenon
  <2>16. ClientMain(line) =
             CASE form.cmd \in KeyCommands /\ path \notin GoodConfigs -> Ends("no keys")
               [] OTHER -> Calls(form.cmd, form.params,
                                 IF form.cmd \in KeyCommands THEN path ELSE "", form.json)
    <3>1. line \in Seq(Words \cup {DefaultConfig})
      BY <2>9 DEF S
    <3> QED
      BY <2>13, <2>14, <2>15, <3>1, Understood
  <2>17. ClientMain(line) = Calls(form.cmd, form.params, path, form.json)
    BY <2>16
  <2>18. path # NoConfig => Meaning([form EXCEPT !.config = path])
                                = Calls(form.cmd, form.params, path, form.json)
    <3>1. PICK g : g = [form EXCEPT !.config = path]
      OBVIOUS
    <3>2. g.config = path /\ g.cmd = form.cmd /\ g.params = form.params /\ g.json = form.json
      BY <3>1 DEF Forms
    <3>3. path # NoConfig => Meaning(g) = Calls(form.cmd, form.params, path, form.json)
      BY <3>2 DEF Meaning
    <3> QED
      BY <3>1, <3>3, Zenon
  <2> QED
    BY <2>2, <2>5, <2>7, <2>17, <2>18, Zenon
<1> QED
  BY <1>1, PTL

-----------------------------------------------------------------------------
(* What is typed, piece by piece.                                          *)

\* An input of bytes is no longer than its bound, and one of files is made of
\* the files that there are.
InputTyped ==
    /\ kind \in Kinds
    /\ kind = "bytes" => input \in Seq(Letters) /\ Len(input) <= Longest["bytes"]
    /\ kind = "files" => input \in Seq(Files)

\* InputTyped holds in every state.
LEMMA InputInvariant == Spec => []InputTyped
<1>1. Init => InputTyped
  <2> SUFFICES ASSUME kind \in Kinds, input = <<>> PROVE InputTyped
    BY DEF Init
  <2>1. Longest[kind] \in Nat
    BY LongestAssumption
  <2>2. input \in Seq(Letters) /\ input \in Seq(Files) /\ Len(input) <= Longest[kind]
    BY <2>1
  <2> QED
    BY <2>2 DEF InputTyped
<1>2. InputTyped /\ [Next]_vars => InputTyped'
  <2> SUFFICES ASSUME InputTyped, [Next]_vars PROVE InputTyped'
    OBVIOUS
  <2>1. CASE UNCHANGED vars
    BY <2>1 DEF InputTyped, vars
  <2>2. CASE Next
    <3>1. PICK piece \in Pieces : Extend(piece)
      BY <2>2 DEF Next
    <3>2. /\ kind' = kind /\ input' = Append(input, piece)
          /\ Len(input) < Longest[kind]
      BY <3>1 DEF Extend
    <3>3. ASSUME kind = "bytes"
          PROVE  input' \in Seq(Letters) /\ Len(input') <= Longest["bytes"]
      <4>1. input \in Seq(Letters)
        BY <3>3 DEF InputTyped
      <4>2. piece \in Letters /\ Len(input) < Longest["bytes"]
        BY <3>1, <3>2, <3>3 DEF Pieces
      <4>3. Longest["bytes"] \in Nat
        BY <3>2, <3>3, LongestAssumption DEF InputTyped
      <4> QED
        BY <3>2, <4>1, <4>2, <4>3, AppendProperties
    <3>4. ASSUME kind = "files" PROVE input' \in Seq(Files)
      <4>1. input \in Seq(Files)
        BY <3>4 DEF InputTyped
      <4>2. piece \in Files
        BY <3>1, <3>4 DEF Pieces
      <4> QED
        BY <3>2, <4>1, <4>2, AppendProperties
    <3> QED
      BY <3>2, <3>3, <3>4, Zenon DEF InputTyped
  <2> QED
    BY <2>1, <2>2
<1> QED
  BY <1>1, <1>2, PTL DEF Spec

\* A sequence cut in two leaves two sequences of together its length.
LEMMA TwoHalves ==
    ASSUME NEW s \in Seq(Int), NEW n \in 0..Len(s)
    PROVE  /\ SubSeq(s, 1, n) \in Seq(Int) /\ Len(SubSeq(s, 1, n)) = n
           /\ SubSeq(s, n + 1, Len(s)) \in Seq(Int)
           /\ Len(SubSeq(s, n + 1, Len(s))) = Len(s) - n
<1>1. \A i \in n + 1..Len(s) : s[i] \in Int
  OBVIOUS
<1>2. n + 1 \in Int /\ Len(s) \in Int
  OBVIOUS
<1>3. SubSeq(s, n + 1, Len(s)) \in Seq(Int)
  BY <1>1, <1>2, SubSeqProperties
<1>4. Len(SubSeq(s, n + 1, Len(s))) = Len(s) - n
  BY <1>1, <1>2, SubSeqProperties
<1> QED
  BY <1>3, <1>4, Cut

\* TornBlobRefused, for every byte base, all letters and all lengths: of two
\* halves framed by _seal_to_tpm, _unseal_from_tpm takes exactly these halves,
\* and it refuses what a crash or a full disk left of the blob, wherever it was
\* cut, as long as the blob is shorter than the range of its length fields.
THEOREM TornBlobsAreRefused ==
    ASSUME Letters \subseteq Int, 8 + Longest["bytes"] < Word
    PROVE  Spec => []TornBlobRefused
<1>1. InputTyped => TornBlobRefused
  <2> SUFFICES ASSUME InputTyped, kind = "bytes", NEW n \in 0..Len(input)
               PROVE  LET priv == SubSeq(input, 1, n)
                          pub  == SubSeq(input, n + 1, Len(input))
                          blob == Frame(priv, pub)
                      IN  /\ Unframe(blob) = Accepted([priv |-> priv, pub |-> pub])
                          /\ \A m \in 0..Len(blob) - 1 :
                                 Unframe(SubSeq(blob, 1, m)) = Refused
    BY Zenon DEF TornBlobRefused
  <2>1. /\ input \in Seq(Int) /\ Len(input) \in Nat
        /\ Len(input) <= Longest["bytes"] /\ Longest["bytes"] \in Nat
    <3>1. input \in Seq(Letters) /\ Len(input) <= Longest["bytes"] /\ Longest["bytes"] \in Nat
      BY LongestAssumption DEF InputTyped
    <3>2. input \in Seq(Int) /\ Len(input) \in Nat
      BY <3>1, SeqMonotonic, Elements
    <3> QED
      BY <3>1, <3>2
  <2>2. PICK priv, pub : priv = SubSeq(input, 1, n) /\ pub = SubSeq(input, n + 1, Len(input))
    OBVIOUS
  <2>3. /\ priv \in Seq(Int) /\ Len(priv) = n
        /\ pub \in Seq(Int) /\ Len(pub) = Len(input) - n
    BY <2>1, <2>2, TwoHalves
  <2>4. 8 + Len(priv) + Len(pub) < Word
    BY <2>1, <2>3, WordFacts
  <2>5. /\ Unframe(Frame(priv, pub)) = Accepted([priv |-> priv, pub |-> pub])
        /\ \A m \in 0..Len(Frame(priv, pub)) - 1 :
               Unframe(SubSeq(Frame(priv, pub), 1, m)) = Refused
    BY <2>3, <2>4, FrameOpens
  <2> QED
    BY <2>2, <2>5, Zenon
<1> QED
  BY <1>1, InputInvariant, PTL

\* ComponentsToldApart, for every byte base and all file contents: whatever the
\* firmware and the drivers say of a machine, the components that compute hashes
\* can be read back from the hashed bytes, as long as the length of a component
\* fits the field that write_len32 writes, and no UUID or serial number keeps
\* its padding.
THEOREM ComponentsAreToldApart ==
    ASSUME NEW n \in Nat, n + 2 < Word,
           \A file \in Files : Readable(n, file)
    PROVE  Spec => []ComponentsToldApart
<1>1. InputTyped => ComponentsToldApart
  <2> SUFFICES ASSUME InputTyped, kind = "files", Len(input) = 6
               PROVE  LET ek   == IF input[1] = Missing THEN <<>> ELSE input[1]
                          uuid == SmbiosUuid(input[2], input[3])
                          cpu  == CpuId(IF input[4] = Missing THEN <<>> ELSE input[4], <<1>>)
                          disk == PrimaryDiskSerial(input[5], input[6])
                          back == Components(Canonical(ek, uuid, cpu, disk))
                      IN  /\ back = [found |-> <<ek, uuid, cpu, disk>>, rest |-> <<>>]
                          /\ Unpadded(uuid) /\ Unpadded(disk)
                          /\ disk = <<>> => \A k \in 5..6 : ReadSysfs(input[k]) = <<>>
    BY Zenon DEF ComponentsToldApart
  <2>1. \A k \in 1..6 : Readable(n, input[k])
    <3>1. input \in Seq(Files)
      BY DEF InputTyped
    <3>2. \A k \in 1..6 : input[k] \in Files
      BY <3>1, Elements, Zenon
    <3> QED
      BY <3>2
  <2>2. <<>> \in Texts(n)
    BY DEF Texts
  <2>3. PICK ek : ek = IF input[1] = Missing THEN <<>> ELSE input[1]
    OBVIOUS
  <2>4. PICK brand : brand = IF input[4] = Missing THEN <<>> ELSE input[4]
    OBVIOUS
  <2>5. ek \in Texts(n) /\ brand \in Texts(n)
    <3>1. Readable(n, input[1]) /\ Readable(n, input[4])
      BY <2>1
    <3> QED
      BY <2>2, <2>3, <2>4, <3>1, Zenon DEF Readable
  <2>6. PICK uuid : uuid = FirstReading(<<input[2], input[3]>>)
    OBVIOUS
  <2>7. uuid \in Texts(n) /\ Unpadded(uuid)
    <3>1. Readable(n, input[2]) /\ Readable(n, input[3])
      BY <2>1
    <3> QED
      BY <2>6, <3>1, FirstOfTwo, Zenon
  <2>8. PICK disk : disk = FirstReading(<<input[5], input[6]>>)
    OBVIOUS
  <2>9. /\ disk \in Texts(n) /\ Unpadded(disk)
        /\ disk = <<>> => ReadSysfs(input[5]) = <<>> /\ ReadSysfs(input[6]) = <<>>
    <3>1. Readable(n, input[5]) /\ Readable(n, input[6])
      BY <2>1
    <3> QED
      BY <2>8, <3>1, FirstOfTwo, Zenon
  <2>10. PICK cpu : cpu = CpuId(brand, <<1>>)
    OBVIOUS
  <2>11. cpu \in Texts(n + 2)
    BY <2>5, <2>10, CpuIsText
  <2>12. /\ ek \in Seq(Int) /\ uuid \in Seq(Int) /\ cpu \in Seq(Int) /\ disk \in Seq(Int)
         /\ Len(ek) < Word /\ Len(uuid) < Word /\ Len(cpu) < Word /\ Len(disk) < Word
    BY <2>5, <2>7, <2>9, <2>11, WordFacts DEF Texts
  <2>13. Components(Canonical(ek, uuid, cpu, disk)) =
             [found |-> <<ek, uuid, cpu, disk>>, rest |-> <<>>]
    BY <2>12, AllReadBack
  <2>14. \A k \in 5..6 : k = 5 \/ k = 6
    OBVIOUS
  <2>15. disk = <<>> => \A k \in 5..6 : ReadSysfs(input[k]) = <<>>
    BY <2>9, <2>14, Zenon
  <2> QED
    BY <2>3, <2>4, <2>6, <2>7, <2>8, <2>9, <2>10, <2>13, <2>15, Zenon
       DEF SmbiosUuid, PrimaryDiskSerial
<1> QED
  BY <1>1, InputInvariant, PTL

-----------------------------------------------------------------------------
(* What mail carries.                                                      *)

\* Breaking lines adds blanks and nothing else.
LEMMA WrappedStripped ==
    ASSUME NEW T, Blank \in T, NEW chars \in Seq(T), NEW width
    PROVE  /\ Wrapped(chars, width) \in Seq(T)
           /\ Stripped(Wrapped(chars, width)) = Stripped(chars)
<1> DEFINE L(s, n) == IF n % width = 0 THEN <<s[n], Blank>> ELSE <<s[n]>>
           P(s) == [n \in 1..Len(s) |-> L(s, n)]
           S == {s \in Seq(T) : /\ P(s) \in Seq(Seq(T))
                                /\ Stripped(FlattenSeq(P(s))) = Stripped(s)}
<1>1. <<>> \in S
  <2>1. P(<<>>) = <<>> /\ <<>> \in Seq(T) /\ <<>> \in Seq(Seq(T))
    OBVIOUS
  <2> HIDE DEF P
  <2> QED
    BY <2>1, FlattenNone, Zenon
<1>2. ASSUME NEW s \in Seq(T), NEW x \in T, s \in S PROVE Append(s, x) \in S
  <2>1. PICK a, n, i : a = Append(s, x) /\ n = Len(s) /\ i = n + 1
    OBVIOUS
  <2>2. /\ n \in Nat /\ a \in Seq(T) /\ Len(a) = i /\ a[i] = x
        /\ \A k \in 1..n : a[k] = s[k]
    BY <2>1, AppendProperties
  <2>3. PICK p : p = L(a, i)
    OBVIOUS
  <2>4. p = <<x, Blank>> \/ p = <<x>>
    BY <2>2, <2>3, Zenon
  <2>5. p \in Seq(T)
    <3>1. <<x, Blank>> \in Seq(T) /\ <<x>> \in Seq(T)
      OBVIOUS
    <3> QED
      BY <2>4, <3>1, Zenon
  <2>6. P(s) \in Seq(Seq(T)) /\ Stripped(FlattenSeq(P(s))) = Stripped(s)
    BY <1>2
  <2>7. P(a) = Append(P(s), p)
    <3>1. PICK c, q : c = Append(q, p) /\ q = P(s)
      OBVIOUS
    <3>2. q \in Seq(Seq(T)) /\ Len(q) = n /\ \A k \in 1..n : q[k] = L(s, k)
      BY <2>1, <2>6, <3>1
    <3> HIDE DEF L
    <3>3. /\ c \in Seq(Seq(T)) /\ Len(c) = i /\ c[i] = p
          /\ \A k \in 1..n : c[k] = q[k]
      BY <2>1, <2>2, <2>5, <3>1, <3>2, AppendProperties
    <3>4. \A k \in 1..n : L(s, k) = L(a, k)
      BY <2>2, Zenon DEF L
    <3>5. \A k \in 1..i : c[k] = L(a, k)
      <4>1. \A k \in 1..n : c[k] = L(a, k)
        BY <3>2, <3>3, <3>4
      <4> QED
        BY <2>1, <2>2, <2>3, <3>3, <4>1
    <3>6. c = [k \in 1..i |-> L(a, k)]
      <4>1. c = [k \in 1..i |-> c[k]]
        BY <3>3
      <4> QED
        BY <3>5, <4>1
    <3> QED
      BY <2>2, <3>1, <3>6, Zenon
  <2> HIDE DEF P, L
  <2>8. P(a) \in Seq(Seq(T))
    BY <2>5, <2>6, <2>7, AppendProperties
  <2>9. FlattenSeq(P(a)) = FlattenSeq(P(s)) \o p /\ FlattenSeq(P(s)) \in Seq(T)
    BY <2>5, <2>6, <2>7, FlattenStep, FlattenType
  <2>10. Stripped(FlattenSeq(P(s)) \o p) = Stripped(s) \o Stripped(p)
    BY <2>5, <2>6, <2>9, StrippedCat, Zenon
  <2>11. Stripped(p) = Left(x)
    <3>1. CASE p = <<x>>
      BY <3>1, StrippedOne, Zenon
    <3>2. CASE p = <<x, Blank>>
      <4>1. PICK h : h = <<x>>
        OBVIOUS
      <4>2. h \in Seq(T) /\ p = Append(h, Blank)
        BY <3>2, <4>1
      <4>3. Stripped(p) = Stripped(h) \o Left(Blank)
        BY <4>2, StrippedStep, Zenon
      <4>4. Stripped(h) = Left(x) /\ Left(Blank) = <<>>
        BY <4>1, StrippedOne, Zenon DEF Left
      <4>5. Left(x) \in Seq(T)
        <5>1. <<>> \in Seq(T) /\ <<x>> \in Seq(T)
          OBVIOUS
        <5> QED
          BY <5>1, Zenon DEF Left
      <4>6. Left(x) \o <<>> = Left(x)
        BY <4>5, ConcatEmptySeq
      <4> QED
        BY <4>3, <4>4, <4>6, Zenon
    <3> QED
      BY <2>4, <3>1, <3>2
  <2>12. Stripped(a) = Stripped(s) \o Left(x)
    BY <2>1, StrippedStep, Zenon
  <2>13. Stripped(FlattenSeq(P(a))) = Stripped(a)
    BY <2>9, <2>10, <2>11, <2>12, Zenon
  <2> QED
    BY <2>1, <2>2, <2>8, <2>13, Zenon
<1>3. chars \in S
  <2> HIDE DEF S
  <2> QED
    BY <1>1, <1>2, SequenceInduction
<1>4. Wrapped(chars, width) = FlattenSeq(P(chars))
  BY Zenon DEF Wrapped
<1> HIDE DEF P
<1>5. P(chars) \in Seq(Seq(T)) /\ Stripped(FlattenSeq(P(chars))) = Stripped(chars)
  BY <1>3, Zenon
<1> QED
  BY <1>4, <1>5, FlattenType, Zenon

\* The texts that come from outside can be signed and encrypted.
LEMMA InputIsShort ==
    ASSUME Letters \subseteq Octets, Longest["bytes"] <= MaxText, InputTyped, kind = "bytes"
    PROVE  input \in ShortTexts
<1>1. /\ input \in Seq(Letters) /\ Len(input) <= Longest["bytes"] /\ Longest["bytes"] \in Nat
      /\ MaxText \in Nat
  BY LongestAssumption, MaxTextAssumption DEF InputTyped
<1>2. input \in Seq(Octets) /\ Len(input) \in Nat
  BY <1>1, SeqMonotonic, Elements
<1>3. Len(input) <= MaxText
  BY <1>1, <1>2
<1> QED
  BY <1>2, <1>3 DEF ShortTexts

\* RequestSurvivesMail, for all bases, letters and lengths: at whichever width
\* mail wraps a request blob, the vendor it was made for opens it to what the
\* client put in, and only for that product; a blob that lost its end is
\* refused, because no beginning of a ciphertext ends in its own tag.
THEOREM RequestAlwaysSurvivesMail ==
    ASSUME Letters \subseteq Octets, Longest["bytes"] <= MaxText
    PROVE  Spec => []RequestSurvivesMail
<1>1. InputTyped => RequestSurvivesMail
  <2> DEFINE Opens(key, product, mail) ==
                 LET c == Base64Decode(mail)
                 IN  IF c.ok THEN HybridDecrypt(key, product, c.value) ELSE Refused
             Blob(to, aad) == Base64Encode(HybridEncrypt(to, aad, Ephemeral, Nonce, input))
  <2> SUFFICES ASSUME InputTyped, kind = "bytes",
                      NEW to \in KeyNumbers, NEW key \in KeyNumbers,
                      NEW aad \in KeyNumbers, NEW product \in KeyNumbers
               PROVE  /\ \A width \in Widths :
                            Opens(key, product, Wrapped(Blob(to, aad), width)) =
                                IF key = to /\ product = aad THEN Accepted(input) ELSE Refused
                      /\ \A n \in 0..Len(Blob(to, aad)) - 1 :
                            Opens(key, product, SubSeq(Blob(to, aad), 1, n)) = Refused
    BY Zenon DEF RequestSurvivesMail
  <2>1. input \in ShortTexts
    BY InputIsShort
  <2>2. PICK h, e : h = HybridEncrypt(to, aad, Ephemeral, Nonce, input) /\ e = Base64Encode(h)
    OBVIOUS
  <2>3. /\ to \in Parties /\ key \in Parties /\ aad \in Octets /\ product \in Octets
        /\ Ephemeral \in Ephemerals
    BY Sixteen DEF KeyNumbers, Parties, Ephemeral, Ephemerals
  <2>4. Nonce \in Seq(Octets) /\ Len(Nonce) = 1
    BY Sixteen DEF Nonce
  <2>5. /\ h \in Seq(Octets)
        /\ HybridDecrypt(key, product, h) =
               IF key = to /\ product = aad THEN Accepted(input) ELSE Refused
        /\ \A m \in 0..Len(h) - 1 : HybridDecrypt(key, product, SubSeq(h, 1, m)) = Refused
    BY <2>1, <2>2, <2>3, <2>4, RequestOpens
  <2>6. e \in Seq(Chars) /\ Stripped(e) = e
    BY <2>2, <2>5, Encoded, NoBlanks
  <2>7. ASSUME NEW width
        PROVE  Opens(key, product, Wrapped(e, width)) =
                   IF key = to /\ product = aad THEN Accepted(input) ELSE Refused
    <3>1. PICK T : T = Chars \cup {Blank}
      OBVIOUS
    <3>2. Blank \in T /\ e \in Seq(T)
      <4>1. Chars \subseteq T
        BY <3>1
      <4> QED
        BY <2>6, <3>1, <4>1, SeqMonotonic
    <3>3. Stripped(Wrapped(e, width)) = Base64Encode(h)
      BY <2>2, <2>6, <3>2, WrappedStripped, Zenon
    <3>4. Base64Decode(Wrapped(e, width)) = Accepted(h)
      BY <2>5, <3>3, MailWhole
    <3>5. Accepted(h).ok /\ Accepted(h).value = h
      BY Outcomes
    <3> QED
      BY <2>5, <3>4, <3>5, Zenon
  <2>8. ASSUME NEW n \in 0..Len(e) - 1 PROVE Opens(key, product, SubSeq(e, 1, n)) = Refused
    <3>1. PICK w, c : w = SubSeq(e, 1, n) /\ c = Base64Decode(w)
      OBVIOUS
    <3>2. w \in Seq(Chars)
      <4>1. n \in 0..Len(e)
        BY <2>6
      <4> QED
        BY <2>6, <3>1, <4>1, Cut
    <3>3. Stripped(w) = SubSeq(Base64Encode(h), 1, n)
      BY <2>2, <3>1, <3>2, NoBlanks, Zenon
    <3>4. \/ c = Refused
          \/ \E k \in 0..Len(h) - 1 : c = Accepted(SubSeq(h, 1, k))
      <4>1. n \in Nat /\ n < Len(Base64Encode(h))
        BY <2>2, <2>6
      <4> QED
        BY <2>5, <3>1, <3>3, <4>1, MailShort
    <3>5. CASE c = Refused
      <4>1. ~c.ok
        BY <3>5, Outcomes, Zenon
      <4> QED
        BY <3>1, <4>1, Zenon
    <3>6. CASE \E k \in 0..Len(h) - 1 : c = Accepted(SubSeq(h, 1, k))
      <4>1. PICK k \in 0..Len(h) - 1 : c = Accepted(SubSeq(h, 1, k))
        BY <3>6
      <4>2. c.ok /\ c.value = SubSeq(h, 1, k)
        BY <4>1, Outcomes, Zenon
      <4> QED
        BY <2>5, <3>1, <4>2, Zenon
    <3> QED
      BY <3>4, <3>5, <3>6
  <2>9. Blob(to, aad) = e
    BY <2>2, Zenon
  <2> HIDE DEF Opens, Blob
  <2> QED
    BY <2>7, <2>8, <2>9, Zenon
<1> QED
  BY <1>1, InputInvariant, PTL

\* TokenSurvivesMail, for all bases, letters and lengths: a token opens under
\* the key of its vendor and no other, at whichever width mail wraps it, and one
\* that lost its end opens under none, wherever it was cut.
THEOREM TokenAlwaysSurvivesMail ==
    ASSUME Letters \subseteq Octets, Longest["bytes"] <= MaxText
    PROVE  Spec => []TokenSurvivesMail
<1>1. InputTyped => TokenSurvivesMail
  <2> SUFFICES ASSUME InputTyped, kind = "bytes", NEW signer \in KeyNumbers, NEW key \in KeyNumbers
               PROVE  LET token == SignToken(signer, input)
                      IN  /\ \A width \in Widths :
                                OpenToken(key, Wrapped(token, width)) =
                                    IF key = signer THEN Accepted(input) ELSE Refused
                          /\ \A n \in 0..Len(token) - 1 :
                                OpenToken(key, SubSeq(token, 1, n)) = Refused
    BY Zenon DEF TokenSurvivesMail
  <2>1. input \in ShortTexts /\ input \in Seq(Octets)
    BY InputIsShort DEF ShortTexts
  <2>2. signer \in Octets /\ key \in Octets
    BY Sixteen DEF KeyNumbers
  <2>3. PICK t : t = SignToken(signer, input)
    OBVIOUS
  <2>4. t \in Seq(Marks) /\ Stripped(t) = t
    <3>1. PICK x, y : /\ x = Base64Encode(input)
                      /\ y = Base64Encode(Ed25519Sign(signer, input))
      OBVIOUS
    <3>2. x \in Seq(Chars) /\ y \in Seq(Chars)
      BY <2>1, <2>2, <3>1, SignatureIs, Encoded
    <3>3. t = (x \o <<Dot>>) \o y
      BY <2>3, <3>1, Zenon DEF SignToken
    <3> QED
      BY <3>2, <3>3, TokenClean, Zenon
  <2>5. ASSUME NEW width
        PROVE  OpenToken(key, Wrapped(t, width)) =
                   IF key = signer THEN Accepted(input) ELSE Refused
    <3>1. Blank \in Marks
      BY Bases DEF Blank, Marks, Dot
    <3>2. Wrapped(t, width) \in Seq(Marks) /\ Stripped(Wrapped(t, width)) = SignToken(signer, input)
      BY <2>3, <2>4, <3>1, WrappedStripped, Zenon
    <3> QED
      BY <2>1, <2>2, <3>2, TokenWhole
  <2>6. ASSUME NEW n \in 0..Len(t) - 1 PROVE OpenToken(key, SubSeq(t, 1, n)) = Refused
    BY <2>1, <2>2, <2>3, TokenCut
  <2> QED
    BY <2>3, <2>5, <2>6, Zenon
<1> QED
  BY <1>1, InputInvariant, PTL

-----------------------------------------------------------------------------
(* Lines of license-server.                                                *)

ValueFlags == {"--keystore", "--pub-out", "--passphrase", "--blob", "--product",
               "--features", "--days", "--max-activations"}
ServerCommands == {<<"init-keys">>, <<"generate-license">>}

\* The words that can stand in a line.
ServerWords == ValueFlags \cup {"--json", "init-keys", "generate-license"}
                 \cup {o[2] : o \in ServerOptions}

\* A flag with a word that is none.
IsOption(o, f, v) ==
    /\ f \in ValueFlags /\ o = <<f, v>>
    /\ v \notin ValueFlags \cup {"--json", "--help", "-h", ""}
    /\ f = "--features" => Fields[v] \in Seq(STRING)

\* What an operator may type: each flag with a word that is no flag and not
\* empty, and --json.
OptionsReadable ==
    \A o \in ServerOptions : o = <<"--json">> \/ \E f, v : IsOption(o, f, v)

\* Where a flag was typed, at most once, and where it stands in the line.
HasGiven(line, typed, f) ==
    \/ /\ \A n \in 1..Len(typed) : typed[n][1] # f
       /\ \A k \in 1..Len(line) : line[k] # f
    \/ \E n \in 1..Len(typed), q \in 1..Len(line) - 1 :
          /\ \A m \in 1..Len(typed) : typed[m][1] = f <=> m = n
          /\ \A k \in 1..Len(line) : line[k] = f <=> k = q
          /\ line[q + 1] = typed[n][2] /\ IsOption(typed[n], f, typed[n][2])

\* A line whose words are the options typed.
LineRead(line, typed) ==
    /\ typed \in Seq(Seq(ServerWords)) /\ line \in Seq(ServerWords) /\ line = FlattenSeq(typed)
    /\ Len(typed) >= 1 /\ Len(line) >= 1 /\ line[1] = typed[1][1] /\ typed[1] \in ServerCommands
    /\ \A f \in ValueFlags : HasGiven(line, typed, f)
    /\ (\E k \in 1..Len(line) : line[k] = "--json")
         <=> \E n \in 1..Len(typed) : typed[n] = <<"--json">>
    /\ \A k \in 1..Len(line) : line[k] # "--help" /\ line[k] # "-h"

\* A word alone is a line.
LEMMA OneWord ==
    ASSUME NEW W, NEW a \in W
    PROVE  <<a>> \in Seq(W) /\ Len(<<a>>) = 1 /\ <<a>>[1] = a
  OBVIOUS

\* Two words are a line.
LEMMA TwoWords ==
    ASSUME NEW W, NEW a \in W, NEW b \in W
    PROVE  <<a, b>> \in Seq(W) /\ Len(<<a, b>>) = 2 /\ <<a, b>>[1] = a /\ <<a, b>>[2] = b
  OBVIOUS

\* The line that is a command alone.
LEMMA CommandRead ==
    ASSUME NEW o \in ServerCommands
    PROVE  LineRead(FlattenSeq(Append(<<>>, o)), Append(<<>>, o))
<1>1. PICK t, w : t = Append(<<>>, o) /\ w = FlattenSeq(t)
  OBVIOUS
<1>2. o \in Seq(ServerWords) /\ Len(o) = 1 /\ o[1] \in {"init-keys", "generate-license"}
  <2>1. "init-keys" \in ServerWords /\ "generate-license" \in ServerWords
    BY DEF ServerWords
  <2>2. PICK a \in {"init-keys", "generate-license"} : o = <<a>>
    BY DEF ServerCommands
  <2>3. <<a>> \in Seq(ServerWords) /\ Len(<<a>>) = 1 /\ <<a>>[1] = a
    BY <2>1, OneWord
  <2> QED
    BY <2>2, <2>3, Zenon
<1>3. t \in Seq(Seq(ServerWords)) /\ Len(t) = 1 /\ t[1] = o
  BY <1>1, <1>2
<1>4. w = o
  <2>1. <<>> \in Seq(Seq(ServerWords))
    OBVIOUS
  <2>2. FlattenSeq(t) = FlattenSeq(<<>>) \o o
    BY <1>1, <1>2, <2>1, FlattenStep
  <2>3. <<>> \o o = o
    BY <1>2, ConcatEmptySeq
  <2> QED
    BY <1>1, <2>2, <2>3, FlattenNone, Zenon
<1>5. \A k \in 1..1 : k = 1
  OBVIOUS
<1>6. ASSUME NEW f \in ValueFlags PROVE HasGiven(w, t, f)
  <2>1. f # o[1]
    BY <1>2 DEF ValueFlags
  <2>2. (\A n \in 1..Len(t) : t[n][1] # f) /\ \A k \in 1..Len(w) : w[k] # f
    BY <1>2, <1>3, <1>4, <1>5, <2>1, Zenon
  <2> QED
    BY <2>2, Zenon DEF HasGiven
<1>7. o[1] # "--json" /\ o[1] # "--help" /\ o[1] # "-h" /\ <<"--json">>[1] = "--json"
  BY <1>2
<1>8. \A n \in 1..Len(t) : t[n] # <<"--json">>
  BY <1>3, <1>5, <1>7, Zenon
<1>9. \A k \in 1..Len(w) : w[k] # "--json" /\ w[k] # "--help" /\ w[k] # "-h"
  BY <1>2, <1>4, <1>5, <1>7, Zenon
<1>10. Len(t) >= 1 /\ Len(w) >= 1 /\ w[1] = t[1][1]
  BY <1>2, <1>3, <1>4
<1>11. LineRead(w, t)
  BY <1>1, <1>2, <1>3, <1>4, <1>6, <1>8, <1>9, <1>10, Zenon DEF LineRead
<1> QED
  BY <1>1, <1>11, Zenon

\* One option more that was not typed before.
LEMMA OptionRead ==
    ASSUME NEW typed, NEW line, LineRead(line, typed), OptionsReadable,
           NEW o \in ServerOptions, \A n \in 1..Len(typed) : typed[n][1] # o[1]
    PROVE  LineRead(FlattenSeq(Append(typed, o)), Append(typed, o))
<1>1. PICK t, w, c, l : /\ t = Append(typed, o) /\ w = FlattenSeq(t) /\ c = Len(typed) /\ l = Len(line)
  OBVIOUS
<1>2. /\ typed \in Seq(Seq(ServerWords)) /\ line \in Seq(ServerWords) /\ line = FlattenSeq(typed)
      /\ c >= 1 /\ l >= 1 /\ c \in Nat /\ l \in Nat
      /\ line[1] = typed[1][1] /\ typed[1] \in ServerCommands
  BY <1>1 DEF LineRead
<1>3. PICK f0, v : (o = <<"--json">> /\ f0 = "--json") \/ IsOption(o, f0, v)
  BY DEF OptionsReadable
<1>4. /\ o \in Seq(ServerWords) /\ Len(o) \in 1..2 /\ o[1] = f0
      /\ f0 # "--help" /\ f0 # "-h"
      /\ (Len(o) = 1 <=> f0 = "--json")
      /\ (Len(o) = 1 => o = <<"--json">>)
      /\ (Len(o) = 2 => IsOption(o, f0, v) /\ o[2] = v)
  <2>1. CASE o = <<"--json">> /\ f0 = "--json"
    <3>1. "--json" \in ServerWords /\ "--json" # "--help" /\ "--json" # "-h"
      BY DEF ServerWords
    <3>2. o \in Seq(ServerWords) /\ Len(o) = 1 /\ o[1] = f0
      BY <2>1, <3>1, OneWord, Zenon
    <3> QED
      BY <2>1, <3>1, <3>2
  <2>2. CASE IsOption(o, f0, v)
    <3>1. o = <<f0, v>> /\ f0 \in ValueFlags /\ o[2] = v
      BY <2>2 DEF IsOption
    <3>2. /\ f0 \in ServerWords /\ v \in ServerWords
          /\ f0 # "--json" /\ f0 # "--help" /\ f0 # "-h"
      BY <3>1 DEF ValueFlags, ServerWords
    <3>3. o \in Seq(ServerWords) /\ Len(o) = 2 /\ o[1] = f0 /\ o[2] = v
      BY <3>1, <3>2, TwoWords, Zenon
    <3> QED
      BY <2>2, <3>2, <3>3
  <2> QED
    BY <1>3, <2>1, <2>2
<1>5. PICK d : d = Len(o)
  OBVIOUS
<1>6. /\ t \in Seq(Seq(ServerWords)) /\ Len(t) = c + 1 /\ t[c + 1] = o
      /\ \A n \in 1..c : t[n] = typed[n]
  BY <1>1, <1>2, <1>4, AppendProperties
<1>7. Behind(w, line, l, o, d) /\ w \in Seq(ServerWords)
  <2>1. w = line \o o
    BY <1>1, <1>2, <1>4, FlattenStep, Zenon
  <2> QED
    BY <1>1, <1>2, <1>4, <1>5, <2>1, BehindIs, Zenon
<1>8. /\ Len(w) = l + d /\ (\A k \in 1..l : w[k] = line[k]) /\ \A k \in 1..d : w[l + k] = o[k]
  <2>1. l + d = Len(w) /\ (\A k \in 1..l : w[k] = line[k]) /\ \A k \in 1..d : w[l + k] = o[k]
    BY <1>7 DEF Behind
  <2> QED
    BY <2>1
<1>9. w[l + 1] = f0 /\ (d = 2 => w[l + 2] = v) /\ d \in 1..2
  BY <1>4, <1>5, <1>8
<1>10. \A n \in 1..c : typed[n][1] # f0
  BY <1>1, <1>4
<1>11. d = 2 => f0 \in ValueFlags /\ v \notin ValueFlags \cup {"--json", "--help", "-h", ""}
  BY <1>4, <1>5 DEF IsOption
<1>12. \A k \in 1..Len(w) : k \in 1..l \/ k = l + 1 \/ (d = 2 /\ k = l + 2)
  BY <1>2, <1>8, <1>9
<1>13. \A n \in 1..Len(t) : n \in 1..c \/ n = c + 1
  BY <1>2, <1>6
<1>14. c + 1 \in 1..Len(t) /\ l + 1 \in 1..Len(w) /\ 1 \in 1..c /\ 1 \in 1..l
       /\ (\A n \in 1..c : n \in 1..Len(t) /\ n # c + 1)
       /\ \A k \in 1..l : k \in 1..Len(w) /\ k # l + 1
  <2>1. /\ c + 1 \in 1..Len(t) /\ 1 \in 1..c
        /\ \A n \in 1..c : n \in 1..Len(t) /\ n # c + 1
    BY <1>2, <1>6
  <2>2. /\ l + 1 \in 1..Len(w) /\ 1 \in 1..l
        /\ \A k \in 1..l : k \in 1..Len(w) /\ k # l + 1
    <3>1. l \in Nat /\ l >= 1 /\ Len(w) = l + d /\ d \in Nat /\ d >= 1
      BY <1>2, <1>8, <1>9
    <3> QED
      BY <3>1
  <2> QED
    BY <2>1, <2>2, Zenon
<1>15. ASSUME NEW f \in ValueFlags PROVE HasGiven(w, t, f)
  <2>1. HasGiven(line, typed, f)
    BY DEF LineRead
  <2>2. CASE f = f0
    <3>1. d = 2 /\ IsOption(o, f, v) /\ o[2] = v
      <4>1. f0 # "--json"
        BY <2>2 DEF ValueFlags
      <4> QED
        BY <1>4, <1>5, <1>9, <2>2, <4>1
    <3>2. \A k \in 1..l : line[k] # f
      <4>1. ~\E n \in 1..c : typed[n][1] = f
        BY <1>10, <2>2
      <4>2. ASSUME NEW n \in 1..Len(typed), \A m \in 1..Len(typed) : typed[m][1] = f <=> m = n
            PROVE  FALSE
        BY <1>1, <4>1, <4>2
      <4> QED
        BY <1>1, <2>1, <4>2, Zenon DEF HasGiven
    <3>3. \A m \in 1..Len(t) : t[m][1] = f <=> m = c + 1
      BY <1>4, <1>6, <1>10, <1>13, <1>14, <2>2
    <3>4. v # f
      BY <1>11, <3>1
    <3>5. \A k \in 1..Len(w) : w[k] = f <=> k = l + 1
      BY <1>8, <1>9, <1>12, <1>14, <2>2, <3>2, <3>4
    <3>6. l + 1 \in 1..Len(w) - 1 /\ w[l + 1 + 1] = v
      BY <1>2, <1>8, <1>9, <3>1
    <3>7. t[c + 1][2] = v /\ IsOption(t[c + 1], f, t[c + 1][2])
      BY <1>6, <3>1, Zenon
    <3> QED
      BY <1>14, <3>3, <3>5, <3>6, <3>7, Zenon DEF HasGiven
  <2>3. CASE f # f0
    <3>1. w[l + 1] # f /\ (d = 2 => w[l + 2] # f) /\ t[c + 1][1] # f
      BY <1>4, <1>6, <1>9, <1>11, <2>3
    <3>2. CASE (\A n \in 1..c : typed[n][1] # f) /\ \A k \in 1..l : line[k] # f
      <4>1. \A n \in 1..Len(t) : t[n][1] # f
        BY <1>6, <1>13, <3>1, <3>2
      <4>2. \A k \in 1..Len(w) : w[k] # f
        BY <1>8, <1>12, <3>1, <3>2
      <4> QED
        BY <4>1, <4>2, Zenon DEF HasGiven
    <3>3. CASE \E n \in 1..c, q \in 1..l - 1 :
                  /\ \A m \in 1..c : typed[m][1] = f <=> m = n
                  /\ \A k \in 1..l : line[k] = f <=> k = q
                  /\ line[q + 1] = typed[n][2] /\ IsOption(typed[n], f, typed[n][2])
      <4>1. PICK n \in 1..c, q \in 1..l - 1 :
                  /\ \A m \in 1..c : typed[m][1] = f <=> m = n
                  /\ \A k \in 1..l : line[k] = f <=> k = q
                  /\ line[q + 1] = typed[n][2] /\ IsOption(typed[n], f, typed[n][2])
        BY <3>3, Zenon
      <4>2. n \in 1..Len(t) /\ q \in 1..Len(w) - 1 /\ q \in 1..l /\ q + 1 \in 1..l
        BY <1>2, <1>8, <1>9, <1>14
      <4>3. t[n] = typed[n] /\ w[q + 1] = line[q + 1]
        BY <1>6, <1>8, <4>2
      <4>4. \A m \in 1..Len(t) : t[m][1] = f <=> m = n
        BY <1>6, <1>13, <1>14, <3>1, <4>1
      <4>5. \A k \in 1..Len(w) : w[k] = f <=> k = q
        <5>1. q # l + 1 /\ q # l + 2
          BY <1>2
        <5> QED
          BY <1>8, <1>12, <3>1, <4>1, <5>1
      <4> QED
        BY <4>1, <4>2, <4>3, <4>4, <4>5, Zenon DEF HasGiven
    <3> QED
      BY <1>1, <2>1, <3>2, <3>3, Zenon DEF HasGiven
  <2> QED
    BY <2>2, <2>3
<1>16. (\E k \in 1..Len(w) : w[k] = "--json") <=> \E n \in 1..Len(t) : t[n] = <<"--json">>
  <2>1. (\E k \in 1..l : line[k] = "--json") <=> \E n \in 1..c : typed[n] = <<"--json">>
    BY <1>1 DEF LineRead
  <2>2. f0 = "--json" <=> o = <<"--json">>
    <3>1. <<"--json">>[1] = "--json"
      OBVIOUS
    <3>2. f0 = "--json" => o = <<"--json">>
      BY <1>4
    <3> QED
      BY <1>4, <3>1, <3>2, Zenon
  <2>3. d = 2 => v # "--json"
    BY <1>11
  <2>4. (\E k \in 1..Len(w) : w[k] = "--json") <=> (\E k \in 1..l : line[k] = "--json") \/ f0 = "--json"
    BY <1>8, <1>9, <1>12, <1>14, <2>3
  <2>5. (\E n \in 1..Len(t) : t[n] = <<"--json">>)
         <=> (\E n \in 1..c : typed[n] = <<"--json">>) \/ o = <<"--json">>
    BY <1>6, <1>13, <1>14, Zenon
  <2> QED
    BY <2>1, <2>2, <2>4, <2>5, Zenon
<1>17. \A k \in 1..Len(w) : w[k] # "--help" /\ w[k] # "-h"
  <2>1. \A k \in 1..l : line[k] # "--help" /\ line[k] # "-h"
    BY <1>1 DEF LineRead
  <2> QED
    BY <1>4, <1>8, <1>9, <1>11, <1>12, <2>1
<1>18. Len(t) >= 1 /\ Len(w) >= 1 /\ w[1] = t[1][1] /\ t[1] \in ServerCommands
  <2>1. t[1] = typed[1] /\ w[1] = line[1]
    BY <1>6, <1>8, <1>14
  <2> QED
    BY <1>2, <1>6, <1>8, <1>9, <2>1
<1>19. LineRead(w, t)
  BY <1>1, <1>6, <1>7, <1>15, <1>16, <1>17, <1>18, Zenon DEF LineRead
<1> QED
  BY <1>1, <1>19, Zenon

\* What is typed to license-server is a line that reads as the options do.
ServerTyped == kind = "server" => input = <<>> \/ LineRead(FlattenSeq(input), input)

\* ServerTyped holds in every state.
LEMMA ServerInvariant == ASSUME OptionsReadable PROVE Spec => []ServerTyped
<1>1. Init => ServerTyped
  BY DEF Init, ServerTyped
<1>2. ServerTyped /\ [Next]_vars => ServerTyped'
  <2> SUFFICES ASSUME ServerTyped, [Next]_vars PROVE ServerTyped'
    OBVIOUS
  <2>1. CASE UNCHANGED vars
    <3>1. kind' = kind /\ input' = input
      BY <2>1 DEF vars
    <3>2. LineRead(FlattenSeq(input), input) => LineRead(FlattenSeq(input'), input')
      BY <3>1, Zenon
    <3> QED
      BY <3>1, <3>2, Zenon DEF ServerTyped
  <2>2. CASE Next
    <3> SUFFICES ASSUME kind' = "server" PROVE LineRead(FlattenSeq(input'), input')
      BY Zenon DEF ServerTyped
    <3>1. PICK piece \in Pieces : kind' = kind /\ input' = Append(input, piece)
      BY <2>2, Zenon DEF Next, Extend
    <3>2. piece \in TypedNext
      BY <3>1 DEF Pieces
    <3>3. CASE input = <<>>
      <4>1. piece \in ServerCommands
        BY <3>2, <3>3 DEF TypedNext, ServerCommands
      <4> QED
        BY <3>1, <3>3, <4>1, CommandRead, Zenon
    <3>4. CASE input # <<>>
      <4>1. piece \in ServerOptions /\ \A n \in 1..Len(input) : input[n][1] # piece[1]
        BY <3>2, <3>4, Zenon DEF TypedNext
      <4>2. LineRead(FlattenSeq(input), input)
        BY <3>1, <3>4, Zenon DEF ServerTyped
      <4>3. LineRead(FlattenSeq(Append(input, piece)), Append(input, piece))
        BY <4>1, <4>2, OptionRead
      <4> QED
        BY <3>1, <4>3, Zenon
    <3> QED
      BY <3>3, <3>4
  <2> QED
    BY <2>1, <2>2 DEF Next
<1> QED
  BY <1>1, <1>2, PTL DEF Spec

\* The search for a flag finds the word behind it, or nothing, as it was typed.
LEMMA ValueGiven ==
    ASSUME NEW line, LineRead(line, input), NEW f \in ValueFlags
    PROVE  \/ \A d : GetArg(line, f, d) = d /\ Given(f, d) = d
           \/ \E o, v : IsOption(o, f, v) /\ \A d : GetArg(line, f, d) = v /\ Given(f, d) = v
<1> DEFINE typed == {n \in 1..Len(input) : input[n][1] = f}
           found == Positions(line, f) \ {Len(line)}
<1>1. HasGiven(line, input, f) /\ Len(line) \in Nat
  <2>1. line \in Seq(ServerWords)
    BY DEF LineRead
  <2> QED
    BY <2>1 DEF LineRead
<1>2. CASE (\A n \in 1..Len(input) : input[n][1] # f) /\ \A k \in 1..Len(line) : line[k] # f
  <2>1. typed = {} /\ found = {}
    BY <1>2 DEF Positions
  <2>2. \A d : GetArg(line, f, d) = d /\ Given(f, d) = d
    BY <2>1, Zenon DEF GetArg, Given
  <2> QED
    BY <2>2
<1>3. CASE \E n \in 1..Len(input), q \in 1..Len(line) - 1 :
              /\ \A m \in 1..Len(input) : input[m][1] = f <=> m = n
              /\ \A k \in 1..Len(line) : line[k] = f <=> k = q
              /\ line[q + 1] = input[n][2] /\ IsOption(input[n], f, input[n][2])
  <2>1. PICK n \in 1..Len(input), q \in 1..Len(line) - 1 :
              /\ \A m \in 1..Len(input) : input[m][1] = f <=> m = n
              /\ \A k \in 1..Len(line) : line[k] = f <=> k = q
              /\ line[q + 1] = input[n][2] /\ IsOption(input[n], f, input[n][2])
    BY <1>3, Zenon
  <2>2. typed = {n}
    BY <2>1
  <2>3. q \in 1..Len(line) /\ q # Len(line) /\ q \in Nat
    BY <1>1
  <2>4. found = {q}
    BY <2>1, <2>3 DEF Positions
  <2>5. First({q}) = q
    <3>1. {q} \in SUBSET Nat /\ {q} # {}
      BY <2>3
    <3>2. Min({q}) \in {q}
      BY <3>1, Smallest, Zenon
    <3> QED
      BY <3>2 DEF First
  <2>6. found # {} /\ typed # {} /\ (CHOOSE k \in typed : TRUE) = n
    BY <2>2, <2>4
  <2>7. ASSUME NEW d PROVE GetArg(line, f, d) = input[n][2] /\ Given(f, d) = input[n][2]
    <3>1. GetArg(line, f, d) = line[First(found) + 1]
      BY <2>6, Zenon DEF GetArg
    <3>2. Given(f, d) = input[CHOOSE k \in typed : TRUE][2]
      BY <2>6, Zenon DEF Given
    <3> QED
      BY <2>1, <2>4, <2>5, <2>6, <3>1, <3>2, Zenon
  <2> QED
    BY <2>1, <2>7, Zenon
<1> QED
  BY <1>1, <1>2, <1>3, Zenon DEF HasGiven

\* A name is kept unless it is empty.
Kept(e) == IF e = "" THEN <<>> ELSE <<e>>
KeptEach(s) == [n \in 1..Len(s) |-> Kept(s[n])]

\* What is kept of one name more.
LEMMA KeptStep ==
    ASSUME NEW T, NEW s \in Seq(T), NEW e \in T
    PROVE  /\ KeptEach(s) \in Seq(Seq(T)) /\ Kept(e) \in Seq(T)
           /\ KeptEach(Append(s, e)) = Append(KeptEach(s), Kept(e))
<1>1. ASSUME NEW x \in T PROVE Kept(x) \in Seq(T)
  <2>1. <<x>> \in Seq(T) /\ <<>> \in Seq(T)
    OBVIOUS
  <2> QED
    BY <2>1, Zenon DEF Kept
<1>2. PICK n, a, k, b, l : /\ n = Len(s) /\ a = Append(s, e) /\ k = KeptEach(s)
                           /\ b = KeptEach(a) /\ l = Kept(e)
  OBVIOUS
<1>3. n \in Nat /\ Len(a) = n + 1 /\ a[n + 1] = e /\ \A i \in 1..n : a[i] = s[i]
  BY <1>2, AppendProperties
<1>4. \A i \in 1..n : s[i] \in T
  BY <1>2, Elements
<1>5. k = [i \in 1..n |-> Kept(s[i])] /\ b = [i \in 1..n + 1 |-> Kept(a[i])]
  BY <1>2, <1>3, Zenon DEF KeptEach
<1>6. \A i \in 1..n : Kept(s[i]) \in Seq(T)
  BY <1>1, <1>4, Zenon
<1>7. k \in Seq(Seq(T)) /\ Len(k) = n /\ \A i \in 1..n : k[i] = Kept(s[i])
  BY <1>3, <1>5, <1>6
<1>8. l \in Seq(T)
  BY <1>1, <1>2, Zenon
<1>9. /\ Append(k, l) \in Seq(Seq(T)) /\ Len(Append(k, l)) = n + 1 /\ Append(k, l)[n + 1] = l
      /\ \A i \in 1..n : Append(k, l)[i] = k[i]
  BY <1>7, <1>8, AppendProperties
<1>10. \A i \in 1..n + 1 : i \in 1..n \/ i = n + 1
  BY <1>3
<1>11. ASSUME NEW i \in 1..n + 1 PROVE Append(k, l)[i] = Kept(a[i])
  BY <1>2, <1>3, <1>7, <1>9, <1>10, Zenon
<1>12. Append(k, l) = [i \in 1..n + 1 |-> Kept(a[i])]
  <2>1. PICK g : g = Append(k, l)
    OBVIOUS
  <2>2. g \in Seq(Seq(T)) /\ Len(g) = n + 1 /\ \A i \in 1..n + 1 : g[i] = Kept(a[i])
    BY <1>9, <1>11, <2>1, Zenon
  <2>3. g = [i \in 1..n + 1 |-> Kept(a[i])]
    BY <1>3, <2>2
  <2> QED
    BY <2>1, <2>3
<1>13. b = Append(k, l)
  BY <1>5, <1>12, Zenon
<1> QED
  BY <1>2, <1>7, <1>8, <1>13, Zenon

\* The elements of two sequences one behind the other.
LEMMA SetOfBoth ==
    ASSUME NEW T, NEW s \in Seq(T), NEW t \in Seq(T)
    PROVE  ToSet(s \o t) = ToSet(s) \cup ToSet(t)
<1>1. PICK n, m, w : n = Len(s) /\ m = Len(t) /\ w = s \o t
  OBVIOUS
<1>2. /\ n \in Nat /\ m \in Nat /\ w \in Seq(T) /\ n + m = Len(w)
      /\ \A k \in 1..n : w[k] = s[k]
      /\ \A k \in 1..m : w[n + k] = t[k]
  <2>1. Behind(w, s, n, t, m) /\ w \in Seq(T)
    BY <1>1, BehindIs, Zenon
  <2>2. n \in Nat /\ m \in Nat
    BY <1>1
  <2> QED
    BY <2>1, <2>2 DEF Behind
<1>3. DOMAIN s = 1..n /\ DOMAIN t = 1..m /\ DOMAIN w = 1..n + m
  BY <1>1, <1>2
<1>4. ASSUME NEW x \in ToSet(w) PROVE x \in ToSet(s) \cup ToSet(t)
  <2>1. PICK k \in 1..n + m : x = w[k]
    BY <1>3, <1>4 DEF ToSet
  <2>2. CASE k \in 1..n
    BY <1>2, <1>3, <2>1, <2>2 DEF ToSet
  <2>3. CASE k \notin 1..n
    <3>1. k - n \in 1..m /\ n + (k - n) = k
      BY <1>2, <2>3
    <3> QED
      BY <1>2, <1>3, <2>1, <3>1 DEF ToSet
  <2> QED
    BY <2>2, <2>3
<1>5. ASSUME NEW x \in ToSet(s) \cup ToSet(t) PROVE x \in ToSet(w)
  <2>1. (\E k \in 1..n : x = s[k]) \/ (\E k \in 1..m : x = t[k])
    BY <1>3, <1>5 DEF ToSet
  <2>2. \A k \in 1..n : k \in 1..n + m
    BY <1>2
  <2>3. \A k \in 1..m : n + k \in 1..n + m
    BY <1>2
  <2> QED
    BY <1>2, <1>3, <2>1, <2>2, <2>3 DEF ToSet
<1> QED
  BY <1>1, <1>4, <1>5

\* The names kept are those that are not empty.
LEMMA NamesKept ==
    ASSUME NEW T, NEW s \in Seq(T)
    PROVE  ToSet(FlattenSeq(KeptEach(s))) = ToSet(s) \ {""}
<1> DEFINE S == {r \in Seq(T) : /\ ToSet(FlattenSeq(KeptEach(r))) = ToSet(r) \ {""}
                                /\ KeptEach(r) \in Seq(Seq(T))}
<1>1. <<>> \in S
  <2>1. KeptEach(<<>>) = <<>>
    BY DEF KeptEach
  <2>2. <<>> \in Seq(T) /\ <<>> \in Seq(Seq(T)) /\ ToSet(<<>>) = {}
    BY DEF ToSet
  <2>3. {} = {} \ {""}
    OBVIOUS
  <2> QED
    BY <2>1, <2>2, <2>3, FlattenNone, Zenon
<1>2. ASSUME NEW r \in Seq(T), NEW e \in T, r \in S PROVE Append(r, e) \in S
  <2>1. PICK a, k, l, f : a = Append(r, e) /\ k = KeptEach(r) /\ l = Kept(e) /\ f = FlattenSeq(k)
    OBVIOUS
  <2>2. k \in Seq(Seq(T)) /\ l \in Seq(T) /\ KeptEach(a) = Append(k, l)
    BY <2>1, KeptStep, Zenon
  <2>3. FlattenSeq(KeptEach(a)) = f \o l /\ f \in Seq(T)
    BY <2>1, <2>2, FlattenStep, FlattenType, Zenon
  <2>4. ToSet(f \o l) = ToSet(f) \cup ToSet(l)
    <3>1. f \in Seq(T) /\ l \in Seq(T)
      BY <2>2, <2>3, Zenon
    <3> HIDE DEF S
    <3> QED
      BY <3>1, SetOfBoth
  <2>5. ToSet(f) = ToSet(r) \ {""}
    BY <1>2, <2>1, Zenon
  <2>6. <<e>> \in Seq(T) /\ a = r \o <<e>> /\ ToSet(<<e>>) = {e} /\ ToSet(<<>>) = {}
    <3>1. <<e>> \in Seq(T) /\ a = r \o <<e>>
      BY <2>1
    <3>2. DOMAIN <<e>> = {1} /\ <<e>>[1] = e /\ DOMAIN <<>> = {}
      OBVIOUS
    <3>3. ToSet(<<e>>) = {e} /\ ToSet(<<>>) = {}
      BY <3>2, Zenon DEF ToSet
    <3> QED
      BY <3>1, <3>3
  <2>7. ToSet(a) = ToSet(r) \cup {e}
    <3>1. PICK u : u = <<e>>
      OBVIOUS
    <3>2. u \in Seq(T) /\ r \in Seq(T)
      BY <2>6, <3>1
    <3>3. ToSet(r \o u) = ToSet(r) \cup ToSet(u)
      BY <3>2, SetOfBoth
    <3> QED
      BY <2>6, <3>1, <3>3, Zenon
  <2>8. ToSet(l) = {e} \ {""}
    <3>1. CASE e = ""
      BY <2>1, <2>6, <3>1 DEF Kept
    <3>2. CASE e # ""
      BY <2>1, <2>6, <3>2 DEF Kept
    <3> QED
      BY <3>1, <3>2
  <2>9. ToSet(f \o l) = ToSet(a) \ {""}
    <3>1. (ToSet(r) \ {""}) \cup ({e} \ {""}) = (ToSet(r) \cup {e}) \ {""}
      OBVIOUS
    <3> QED
      BY <2>4, <2>5, <2>7, <2>8, <3>1, Zenon
  <2>10. a \in Seq(T) /\ KeptEach(a) \in Seq(Seq(T))
    BY <2>1, <2>2, AppendProperties
  <2> QED
    BY <2>1, <2>3, <2>9, <2>10, Zenon
<1> HIDE DEF S
<1>3. \A r \in Seq(T) : r \in S
  BY <1>1, <1>2, SequenceInduction, Zenon
<1> QED
  BY <1>3 DEF S

\* The features read are the names between the commas.
LEMMA FeaturesRead ==
    ASSUME NEW word, Fields[word] \in Seq(STRING)
    PROVE  ToSet(ParseFeatures(word)) = ToSet(Fields[word]) \ {""}
<1>1. ParseFeatures(word) = FlattenSeq(KeptEach(Fields[word]))
  BY Zenon DEF ParseFeatures, KeptEach, Kept
<1>2. PICK s, T : s = Fields[word] /\ T = STRING
  OBVIOUS
<1>3. s \in Seq(T)
  BY <1>2
<1> QED
  BY <1>1, <1>2, <1>3, NamesKept, Zenon

\* What license-server understands of a flag is what was typed: of one without a
\* default, of the passphrase, which it asks for otherwise, and of the features.
LEMMA OptionIs ==
    ASSUME NEW line, LineRead(line, input), NEW f \in ValueFlags
    PROVE  /\ \A d : GetArg(line, f, d) = Given(f, d)
           /\ Option(line, f) = Given(f, "")
           /\ f = "--passphrase" => Passphrase(line) = Given(f, Prompted)
           /\ f = "--features" => \/ Given(f, "") = ""
                                  \/ Fields[Given(f, "")] \in Seq(STRING)
<1>1. CASE \A d : GetArg(line, f, d) = d /\ Given(f, d) = d
  <2>1. Option(line, f) = "" /\ Given(f, "") = ""
    BY <1>1, Zenon DEF Option
  <2>2. f = "--passphrase" => Passphrase(line) = Prompted
    BY <2>1, Zenon DEF Passphrase
  <2> QED
    BY <1>1, <2>1, <2>2, Zenon
<1>2. CASE \E o, v : IsOption(o, f, v) /\ \A d : GetArg(line, f, d) = v /\ Given(f, d) = v
  <2>1. PICK o, v : IsOption(o, f, v) /\ \A d : GetArg(line, f, d) = v /\ Given(f, d) = v
    BY <1>2, Zenon
  <2>2. v # "" /\ (f = "--features" => Fields[v] \in Seq(STRING))
    BY <2>1 DEF IsOption
  <2>3. Option(line, f) = v
    BY <2>1, Zenon DEF Option
  <2>4. f = "--passphrase" => Passphrase(line) = v
    BY <2>2, <2>3, Zenon DEF Passphrase
  <2> QED
    BY <2>1, <2>2, <2>3, <2>4, Zenon
<1> QED
  BY <1>1, <1>2, ValueGiven, Zenon

\* The command that was typed first is the one that runs.
LEMMA WhichCall ==
    ASSUME NEW line, LineRead(line, input)
    PROVE  ServerMain(line) = IF input[1] = <<"init-keys">> THEN InitKeysCall(line)
                              ELSE GenerateLicenseCall(line)
<1>1. line # <<>> /\ ~HasFlag(line, "--help") /\ ~HasFlag(line, "-h")
  <2>1. Len(line) >= 1 /\ line \in Seq(ServerWords)
    BY DEF LineRead
  <2>2. line # <<>>
    BY <2>1
  <2>3. \A k \in 1..Len(line) : line[k] # "--help" /\ line[k] # "-h"
    BY Zenon DEF LineRead
  <2>4. ~HasFlag(line, "--help") /\ ~HasFlag(line, "-h")
    BY <2>3 DEF HasFlag, Positions
  <2> QED
    BY <2>2, <2>4, Zenon
<1>2. "init-keys" # "generate-license"
  OBVIOUS
<1>3. \/ input[1] = <<"init-keys">> /\ line[1] = "init-keys"
      \/ input[1] # <<"init-keys">> /\ line[1] = "generate-license"
  <2>1. line[1] = input[1][1] /\ input[1] \in ServerCommands
    BY Zenon DEF LineRead
  <2>2. <<"init-keys">>[1] = "init-keys" /\ <<"generate-license">>[1] = "generate-license"
    OBVIOUS
  <2> QED
    BY <1>2, <2>1, <2>2, Zenon DEF ServerCommands
<1>4. CASE line[1] = "init-keys"
  <2>1. ServerMain(line) = InitKeysCall(line)
    BY <1>1, <1>4 DEF ServerMain
  <2> QED
    BY <1>2, <1>3, <1>4, <2>1, Zenon
<1>5. CASE line[1] = "generate-license"
  <2>1. ServerMain(line) = GenerateLicenseCall(line)
    BY <1>1, <1>2, <1>5 DEF ServerMain
  <2> QED
    BY <1>2, <1>3, <1>5, <2>1, Zenon
<1> QED
  BY <1>3, <1>4, <1>5

\* A number that fits is read as it is.
LEMMA NumberKept ==
    ASSUME NEW u \in Nat, NEW a \in 0..u - 1
    PROVE  a % u = a /\ (IF a > 0 THEN a ELSE 0) = a /\ a # -1
<1>1. a \in Nat /\ a < u /\ u \in Nat
  OBVIOUS
<1>2. PICK q, n : q = 0 /\ n = q * u + a
  OBVIOUS
<1>3. q \in Int /\ n = a
  BY <1>2
<1>4. n % u = a
  BY <1>1, <1>2, <1>3, Remainder
<1>5. a % u = a
  BY <1>3, <1>4, Zenon
<1> QED
  BY <1>1, <1>5

\* The terms of a call are its parts.
LEMMA TermsAre ==
    ASSUME NEW ks, NEW b, NEW p, NEW w, NEW fs, NEW d, NEW m, NEW j, NEW c,
           c = [call |-> "generate-license", keystore |-> ks, blob |-> b, product |-> p,
                pass |-> w, features |-> fs, days |-> d, max |-> m, json |-> j]
    PROVE  /\ c.call = "generate-license" /\ c.keystore = ks /\ c.blob = b /\ c.product = p
           /\ c.pass = w /\ c.features = fs /\ c.days = d /\ c.max = m /\ c.json = j
  OBVIOUS

\* A line of license-server that gives each option at most once, in whatever
\* order and with whatever words that are no flags, is understood as it was
\* typed; none of its terms is taken from elsewhere, and none is made up where
\* one is missing or unreadable.
THEOREM ServerLinesAlwaysWork ==
    ASSUME OptionsReadable, Fields[""] \in Seq(STRING), UIntLimit \in Nat,
           \A w \in DOMAIN Numbers : Numbers[w] \in 0..UIntLimit - 1
    PROVE  Spec => []ServerLinesWork
<1>1. ServerTyped => ServerLinesWork
  <2> SUFFICES ASSUME ServerTyped, kind = "server", input # <<>>
               PROVE  ServerLinesWork
    BY Zenon DEF ServerLinesWork
  <2> DEFINE line == FlattenSeq(input)
             call == ServerMain(line)
             needed == IF input[1] = <<"init-keys">> THEN {"--keystore"}
                       ELSE {"--keystore", "--blob", "--product"}
             numbers == {GivenNumber("--days", "365"), GivenNumber("--max-activations", "1")}
             json == \E n \in 1..Len(input) : input[n] = <<"--json">>
             days == Given("--days", "365")
             max == Given("--max-activations", "1")
             features == ParseFeatures(Given("--features", ""))
             IsInitKeys ==
                 call = [call |-> "init-keys", keystore |-> Given("--keystore", ""),
                         pub |-> Given("--pub-out", "server_pubkeys.json"),
                         pass |-> Given("--passphrase", Prompted), json |-> json]
             IsLicense ==
                 /\ call.call = "generate-license" /\ call.json = json
                 /\ call.keystore = Given("--keystore", "")
                 /\ call.blob = Given("--blob", "") /\ call.product = Given("--product", "")
                 /\ call.pass = Given("--passphrase", Prompted)
                 /\ call.days = GivenNumber("--days", "365")
                 /\ call.max = GivenNumber("--max-activations", "1")
                 /\ ToSet(call.features) = ToSet(Fields[Given("--features", "")]) \ {""}
  <2>1. LineRead(line, input)
    BY Zenon DEF ServerTyped
  <2>2. /\ \A f \in ValueFlags : (\A d : GetArg(line, f, d) = Given(f, d))
                                 /\ Option(line, f) = Given(f, "")
        /\ Passphrase(line) = Given("--passphrase", Prompted)
        /\ ToSet(features) = ToSet(Fields[Given("--features", "")]) \ {""}
    <3>1. "--passphrase" \in ValueFlags /\ "--features" \in ValueFlags
      BY DEF ValueFlags
    <3>2. Fields[Given("--features", "")] \in Seq(STRING)
      BY <2>1, <3>1, OptionIs, Zenon
    <3>3. \A f \in ValueFlags : (\A d : GetArg(line, f, d) = Given(f, d))
                                 /\ Option(line, f) = Given(f, "")
      BY <2>1, OptionIs, Zenon
    <3>4. Passphrase(line) = Given("--passphrase", Prompted)
      BY <2>1, <3>1, OptionIs, Zenon
    <3> QED
      BY <3>2, <3>3, <3>4, FeaturesRead, Zenon
  <2>3. HasFlag(line, "--json") = json /\ HasFlag(line, "--json") \in BOOLEAN
    <3>1. HasFlag(line, "--json") <=> \E k \in 1..Len(line) : line[k] = "--json"
      BY DEF HasFlag, Positions
    <3> QED
      BY <2>1, <3>1, Zenon DEF LineRead, HasFlag
  <2>6. ServerMain(line) = IF input[1] = <<"init-keys">> THEN InitKeysCall(line)
                           ELSE GenerateLicenseCall(line)
    BY <2>1, WhichCall, Zenon
  <2>7. {"--keystore", "--blob", "--product", "--pub-out", "--days", "--max-activations",
         "--features"} \subseteq ValueFlags
    BY DEF ValueFlags
  <2>8. \A why : NoCall(why).call = "none"
    BY DEF NoCall
  <2> HIDE DEF line, features, days, max
  <2>9. CASE input[1] = <<"init-keys">>
    <3>1. call = InitKeysCall(line)
      BY <2>6, <2>9, Zenon
    <3>2. CASE Given("--keystore", "") = ""
      <4>1. call = NoCall("--keystore is required")
        BY <2>2, <2>7, <3>1, <3>2 DEF InitKeysCall
      <4>2. call.call = "none"
        BY <2>8, <4>1
      <4>3. \E flag \in needed : Given(flag, "") = ""
        BY <2>9, <3>2
      <4> QED
        BY <4>2, <4>3, Zenon DEF ServerLinesWork, line
    <3>3. CASE Given("--keystore", "") # ""
      <4>1. ~\E flag \in needed : Given(flag, "") = ""
        BY <2>9, <3>3
      <4>2. IsInitKeys
        BY <2>2, <2>3, <2>7, <3>1, <3>3 DEF InitKeysCall
      <4> QED
        BY <2>9, <4>1, <4>2, Zenon DEF ServerLinesWork, line
    <3> QED
      BY <3>2, <3>3
  <2>10. CASE input[1] # <<"init-keys">>
    <3>1. call = GenerateLicenseCall(line)
      BY <2>6, <2>10, Zenon
    <3>2. \A f \in {"--keystore", "--blob", "--product"} : Option(line, f) = Given(f, "")
      BY <2>2, <2>7
    <3>3. GetArg(line, "--days", "365") = days /\ GetArg(line, "--max-activations", "1") = max
      BY <2>2, <2>7 DEF days, max
    <3>4. CASE \E flag \in needed : Given(flag, "") = ""
      <4>1. \E flag \in {"--keystore", "--blob", "--product"} : Option(line, flag) = ""
        BY <2>10, <3>2, <3>4
      <4>2. call = NoCall("an option is required")
        BY <3>1, <4>1, Zenon DEF GenerateLicenseCall
      <4> QED
        BY <2>8, <3>4, <4>2, Zenon DEF ServerLinesWork, line
    <3>5. CASE ~\E flag \in needed : Given(flag, "") = ""
      <4>1. ~\E flag \in {"--keystore", "--blob", "--product"} : Option(line, flag) = ""
        BY <2>10, <3>2, <3>5
      <4>2. CASE {days, max} \subseteq DOMAIN Numbers
        <5>1. Numbers[days] \in 0..UIntLimit - 1 /\ Numbers[max] \in 0..UIntLimit - 1
          BY <4>2
        <5>2. /\ (IF Numbers[days] > 0 THEN Numbers[days] ELSE 0) = Numbers[days]
              /\ Numbers[max] % UIntLimit = Numbers[max]
              /\ Numbers[days] # -1 /\ Numbers[max] # -1
          BY <5>1, NumberKept, Zenon
        <5>3. /\ GivenNumber("--days", "365") = Numbers[days]
              /\ GivenNumber("--max-activations", "1") = Numbers[max]
          BY <4>2 DEF GivenNumber, days, max
        <5>4. ParseFeatures(Option(line, "--features")) = features
          BY <2>2, <2>7 DEF features
        <5>5. call = [call |-> "generate-license", keystore |-> Option(line, "--keystore"),
                      blob |-> Option(line, "--blob"), product |-> Option(line, "--product"),
                      pass |-> Passphrase(line), features |-> features,
                      days |-> Numbers[days], max |-> Numbers[max],
                      json |-> HasFlag(line, "--json")]
          BY <3>1, <3>3, <4>1, <4>2, <5>2, <5>4, Zenon DEF GenerateLicenseCall
        <5>6. IsLicense
          <6>1. /\ call.call = "generate-license" /\ call.json = HasFlag(line, "--json")
                /\ call.keystore = Option(line, "--keystore")
                /\ call.blob = Option(line, "--blob") /\ call.product = Option(line, "--product")
                /\ call.pass = Passphrase(line) /\ call.features = features
                /\ call.days = Numbers[days] /\ call.max = Numbers[max]
            <7>1. PICK ks, b, p, w, fs, d, m, j, c :
                    /\ ks = Option(line, "--keystore") /\ b = Option(line, "--blob")
                    /\ p = Option(line, "--product") /\ w = Passphrase(line) /\ fs = features
                    /\ d = Numbers[days] /\ m = Numbers[max] /\ j = HasFlag(line, "--json")
                    /\ c = call
              BY Zenon
            <7>2. c = [call |-> "generate-license", keystore |-> ks, blob |-> b, product |-> p,
                       pass |-> w, features |-> fs, days |-> d, max |-> m, json |-> j]
              BY <5>5, <7>1, Zenon
            <7>3. /\ c.call = "generate-license" /\ c.keystore = ks /\ c.blob = b
                  /\ c.product = p /\ c.pass = w /\ c.features = fs /\ c.days = d
                  /\ c.max = m /\ c.json = j
              BY <7>2, TermsAre
            <7> QED
              BY <7>1, <7>3, Zenon
          <6>2. call.json = json
            BY <2>3, <6>1, Zenon
          <6>3. ToSet(call.features) = ToSet(Fields[Given("--features", "")]) \ {""}
            BY <2>2, <6>1, Zenon
          <6>4. /\ call.keystore = Given("--keystore", "")
                /\ call.blob = Given("--blob", "") /\ call.product = Given("--product", "")
                /\ call.pass = Given("--passphrase", Prompted)
                /\ call.days = GivenNumber("--days", "365")
                /\ call.max = GivenNumber("--max-activations", "1")
            BY <2>2, <3>2, <5>3, <6>1
          <6> QED
            BY <6>1, <6>2, <6>3, <6>4, Zenon
        <5>7. -1 \notin numbers
          BY <5>2, <5>3
        <5> QED
          BY <2>10, <3>5, <5>6, <5>7, Zenon DEF ServerLinesWork, line
      <4>3. CASE ~({days, max} \subseteq DOMAIN Numbers)
        <5>1. call = NoCall("terminated")
          BY <3>1, <3>3, <4>1, <4>3, Zenon DEF GenerateLicenseCall
        <5>2. -1 \in numbers
          BY <4>3 DEF GivenNumber, days, max
        <5> QED
          BY <2>8, <2>10, <3>5, <5>1, <5>2, Zenon DEF ServerLinesWork, line
      <4> QED
        BY <4>2, <4>3
    <3> QED
      BY <3>4, <3>5
  <2> QED
    BY <2>9, <2>10
<1> QED
  BY <1>1, ServerInvariant, PTL

-----------------------------------------------------------------------------
(* The raw SMBIOS table.                                                   *)

\* Behind the formatted area: bytes that end in NUL and have no two before.
IsArea(a) ==
    /\ a \in Seq(Nat) /\ Len(a) >= 1 /\ a[Len(a)] = 0
    /\ \A k \in 1..Len(a) - 1 : a[k] # 0 \/ a[k + 1] # 0

\* Strings of SMBIOS are not empty and have no NUL inside.
Strings == Seq(Nat \ {0}) \ {<<>>}
Ended(r) == [k \in 1..Len(r) |-> Append(r[k], 0)]

\* A string and its NUL.
LEMMA EndedString ==
    ASSUME NEW e \in Strings
    PROVE  /\ IsArea(Append(e, 0)) /\ Append(e, 0)[1] # 0
<1>1. PICK n, a : n = Len(e) /\ a = Append(e, 0)
  OBVIOUS
<1>2. e \in Seq(Nat \ {0}) /\ e # <<>>
  BY DEF Strings
<1>3. n \in Nat /\ n >= 1 /\ e \in Seq(Nat)
  <2>1. n \in Nat /\ n # 0
    BY <1>1, <1>2, EmptySeq
  <2>2. \A k \in 1..n : e[k] \in Nat
    BY <1>1, <1>2, Elements
  <2>3. e \in Seq(Nat)
    BY <1>1, <1>2, <2>2
  <2> QED
    BY <2>1, <2>3
<1>4. a \in Seq(Nat) /\ Len(a) = n + 1 /\ a[n + 1] = 0 /\ \A k \in 1..n : a[k] = e[k]
  <2>1. 0 \in Nat
    OBVIOUS
  <2> QED
    BY <1>1, <1>3, <2>1, AppendProperties
<1>5. \A k \in 1..n : a[k] # 0
  <2>1. \A k \in 1..n : e[k] \in Nat \ {0}
    BY <1>1, <1>2, Elements
  <2> QED
    BY <1>4, <2>1
<1>6. IsArea(a)
  BY <1>3, <1>4, <1>5 DEF IsArea
<1>7. a[1] # 0
  BY <1>3, <1>5
<1> QED
  BY <1>1, <1>6, <1>7, Zenon

\* Two areas, the second of which begins with no NUL, make one.
LEMMA AreaGrows ==
    ASSUME NEW a, IsArea(a), NEW b, IsArea(b), b[1] # 0
    PROVE  IsArea(a \o b)
<1>1. PICK n, m, w : n = Len(a) /\ m = Len(b) /\ w = a \o b
  OBVIOUS
<1>2. a \in Seq(Nat) /\ b \in Seq(Nat) /\ n \in Nat /\ m \in Nat /\ n >= 1 /\ m >= 1
  BY <1>1 DEF IsArea
<1>3. /\ w \in Seq(Nat) /\ Len(w) = n + m /\ (\A k \in 1..n : w[k] = a[k])
      /\ \A k \in 1..m : w[n + k] = b[k]
  <2>1. Behind(w, a, n, b, m) /\ w \in Seq(Nat)
    BY <1>1, <1>2, BehindIs, Zenon
  <2> QED
    BY <1>2, <2>1 DEF Behind
<1>4. w[n + m] = 0
  BY <1>1, <1>2, <1>3 DEF IsArea
<1>5. ASSUME NEW k \in 1..n + m - 1 PROVE w[k] # 0 \/ w[k + 1] # 0
  <2>1. CASE k <= n - 1
    <3>1. k \in 1..n /\ k + 1 \in 1..n /\ k \in 1..n - 1
      BY <1>2, <2>1
    <3>2. a[k] # 0 \/ a[k + 1] # 0
      BY <1>1, <3>1 DEF IsArea
    <3> QED
      BY <1>3, <3>1, <3>2, Zenon
  <2>2. CASE k = n
    <3>1. 1 \in 1..m /\ k + 1 = n + 1
      BY <1>2, <2>2
    <3>2. w[n + 1] = b[1]
      BY <1>3, <3>1
    <3> QED
      BY <3>1, <3>2
  <2>3. CASE k > n
    <3>1. PICK i : i = k - n
      OBVIOUS
    <3>2. i \in 1..m /\ i + 1 \in 1..m /\ i \in 1..m - 1 /\ k = n + i /\ k + 1 = n + (i + 1)
      BY <1>2, <2>3, <3>1
    <3>3. b[i] # 0 \/ b[i + 1] # 0
      BY <1>1, <3>2 DEF IsArea
    <3>4. w[n + i] = b[i] /\ w[n + (i + 1)] = b[i + 1]
      BY <1>3, <3>2, Zenon
    <3> QED
      BY <3>2, <3>3, <3>4, Zenon
  <2> QED
    BY <1>2, <2>1, <2>2, <2>3
<1>6. IsArea(w)
  BY <1>2, <1>3, <1>4, <1>5 DEF IsArea
<1> QED
  BY <1>1, <1>6, Zenon

\* One string more.
LEMMA EndedStep ==
    ASSUME NEW r \in Seq(Strings), NEW e \in Strings, Ended(r) \in Seq(Seq(Nat))
    PROVE  /\ Ended(Append(r, e)) = Append(Ended(r), Append(e, 0))
           /\ Ended(Append(r, e)) \in Seq(Seq(Nat))
<1>1. PICK n, a, k, b, l : /\ n = Len(r) /\ a = Append(r, e) /\ k = Ended(r)
                           /\ b = Ended(a) /\ l = Append(e, 0)
  OBVIOUS
<1>2. n \in Nat /\ Len(a) = n + 1 /\ a[n + 1] = e /\ \A i \in 1..n : a[i] = r[i]
  BY <1>1, AppendProperties
<1>3. k = [i \in 1..n |-> Append(r[i], 0)] /\ b = [i \in 1..n + 1 |-> Append(a[i], 0)]
  BY <1>1, <1>2, Zenon DEF Ended
<1>4. l \in Seq(Nat)
  BY <1>1, EndedString DEF IsArea
<1>5. k \in Seq(Seq(Nat)) /\ Len(k) = n /\ \A i \in 1..n : k[i] = Append(r[i], 0)
  <2>1. k \in Seq(Seq(Nat))
    BY <1>1
  <2>2. DOMAIN k = 1..n
    BY <1>3
  <2>3. Len(k) = n
    BY <1>2, <2>1, <2>2
  <2> QED
    BY <1>3, <2>1, <2>3
<1>6. PICK g : g = Append(k, l)
  OBVIOUS
<1>7. g \in Seq(Seq(Nat)) /\ Len(g) = n + 1 /\ g[n + 1] = l /\ \A i \in 1..n : g[i] = k[i]
  BY <1>4, <1>5, <1>6, AppendProperties
<1>8. \A i \in 1..n + 1 : i \in 1..n \/ i = n + 1
  BY <1>2
<1>9. ASSUME NEW i \in 1..n + 1 PROVE g[i] = Append(a[i], 0)
  BY <1>1, <1>2, <1>5, <1>7, <1>8, Zenon
<1>10. g = [i \in 1..n + 1 |-> Append(a[i], 0)]
  <2>1. PICK h : h = [i \in 1..n + 1 |-> Append(a[i], 0)]
    OBVIOUS
  <2>2. DOMAIN h = 1..n + 1 /\ \A i \in 1..n + 1 : h[i] = g[i]
    BY <1>9, <2>1
  <2>3. h = [i \in 1..n + 1 |-> h[i]] /\ g = [i \in 1..n + 1 |-> g[i]]
    BY <1>7, <2>1
  <2> QED
    BY <2>1, <2>2, <2>3
<1> QED
  BY <1>1, <1>3, <1>6, <1>7, <1>10, Zenon

\* The strings of a structure, each with its NUL.
LEMMA StringsArea ==
    ASSUME NEW r \in Seq(Strings), r # <<>>
    PROVE  IsArea(FlattenSeq(Ended(r)))
<1> DEFINE S == {s \in Seq(Strings) : /\ Ended(s) \in Seq(Seq(Nat))
                                      /\ s = <<>> \/ IsArea(FlattenSeq(Ended(s)))}
<1>1. <<>> \in S
  <2>1. Ended(<<>>) = <<>>
    BY DEF Ended
  <2>2. <<>> \in Seq(Strings) /\ <<>> \in Seq(Seq(Nat))
    OBVIOUS
  <2> QED
    BY <2>1, <2>2, Zenon
<1>2. ASSUME NEW s \in Seq(Strings), NEW e \in Strings, s \in S PROVE Append(s, e) \in S
  <2>1. PICK k, l, f : k = Ended(s) /\ l = Append(e, 0) /\ f = FlattenSeq(k)
    OBVIOUS
  <2>2. k \in Seq(Seq(Nat)) /\ IsArea(l) /\ l[1] # 0 /\ l \in Seq(Nat)
    BY <1>2, <2>1, EndedString DEF IsArea
  <2>3. Ended(Append(s, e)) = Append(k, l) /\ Ended(Append(s, e)) \in Seq(Seq(Nat))
    BY <1>2, <2>1, <2>2, EndedStep, Zenon
  <2>4. FlattenSeq(Append(k, l)) = f \o l
    BY <2>1, <2>2, FlattenStep, Zenon
  <2>5. IsArea(f \o l)
    <3>1. CASE s = <<>>
      <4>1. k = <<>>
        BY <2>1, <3>1 DEF Ended
      <4>2. f = <<>>
        BY <2>1, <4>1, FlattenNone, Zenon
      <4>3. f \o l = l
        BY <2>2, <4>2, ConcatEmptySeq, Zenon
      <4> QED
        BY <2>2, <4>3, Zenon
    <3>2. CASE s # <<>>
      <4>1. IsArea(f)
        BY <1>2, <2>1, <3>2, Zenon
      <4> QED
        BY <2>2, <4>1, AreaGrows, Zenon
    <3> QED
      BY <3>1, <3>2
  <2>6. Append(s, e) \in Seq(Strings)
    BY <1>2, AppendProperties
  <2> QED
    BY <2>3, <2>4, <2>5, <2>6, Zenon
<1> HIDE DEF S
<1>3. \A s \in Seq(Strings) : s \in S
  BY <1>1, <1>2, SequenceInduction, Zenon
<1> QED
  BY <1>3 DEF S

\* b is a structure of a type and a length: they come first, and the first two
\* NULs in a row behind `length' bytes are the last ones.
IsStructure(b, type, length) ==
    /\ b \in Seq(Nat) /\ length \in Nat /\ length >= 2 /\ Len(b) >= length + 2
    /\ b[1] = type /\ b[2] = length /\ b[Len(b) - 1] = 0 /\ b[Len(b)] = 0
    /\ \A k \in length + 1..Len(b) - 2 : b[k] # 0 \/ b[k + 1] # 0

\* What a firmware puts into its table.
StructuresReadable ==
    \A s \in Structures :
        s.type \in Nat /\ s.length \in Nat /\ s.length >= 2 /\ s.strings \in Seq(Strings)

\* A formatted area, an area of strings and a NUL are a structure.
LEMMA PutTogether ==
    ASSUME NEW type \in Nat, NEW length \in Nat, length >= 2, NEW f \in Seq(Nat),
           Len(f) = length - 2, NEW a, IsArea(a)
    PROVE  IsStructure(((<<type, length>> \o f) \o a) \o <<0>>, type, length)
<1>1. PICK h, z, u, v, w : /\ h = <<type, length>> /\ z = <<0>> /\ u = h \o f /\ v = u \o a
                           /\ w = v \o z
  OBVIOUS
<1>2. PICK m : m = Len(a)
  OBVIOUS
<1>3. a \in Seq(Nat) /\ m \in Nat /\ m >= 1 /\ a[m] = 0
  BY <1>2 DEF IsArea
<1>4. h \in Seq(Nat) /\ Len(h) = 2 /\ h[1] = type /\ h[2] = length
  BY <1>1
<1>5. z \in Seq(Nat) /\ Len(z) = 1 /\ z[1] = 0
  BY <1>1
<1>6. u \in Seq(Nat) /\ Len(u) = length /\ u[1] = type /\ u[2] = length
  <2>1. Behind(u, h, Len(h), f, Len(f)) /\ u \in Seq(Nat)
    BY <1>1, <1>4, BehindIs, Zenon
  <2>2. Len(u) = 2 + (length - 2) /\ \A k \in 1..2 : u[k] = h[k]
    BY <1>4, <2>1 DEF Behind
  <2>3. 1 \in 1..2 /\ 2 \in 1..2
    OBVIOUS
  <2> QED
    BY <1>4, <2>1, <2>2, <2>3
<1>7. /\ v \in Seq(Nat) /\ Len(v) = length + m /\ v[1] = type /\ v[2] = length
      /\ \A k \in 1..m : v[length + k] = a[k]
  <2>1. Behind(v, u, Len(u), a, Len(a)) /\ v \in Seq(Nat)
    BY <1>1, <1>3, <1>6, BehindIs, Zenon
  <2>2. /\ Len(v) = length + m /\ (\A k \in 1..length : v[k] = u[k])
        /\ \A k \in 1..m : v[length + k] = a[k]
    BY <1>2, <1>3, <1>6, <2>1 DEF Behind
  <2>3. 1 \in 1..length /\ 2 \in 1..length
    OBVIOUS
  <2> QED
    BY <1>6, <2>1, <2>2, <2>3
<1>8. /\ w \in Seq(Nat) /\ Len(w) = length + m + 1 /\ w[length + m + 1] = 0
      /\ \A k \in 1..length + m : w[k] = v[k]
  <2>1. Behind(w, v, Len(v), z, Len(z)) /\ w \in Seq(Nat)
    BY <1>1, <1>5, <1>7, BehindIs, Zenon
  <2>2. /\ Len(w) = length + m + 1 /\ (\A k \in 1..length + m : w[k] = v[k])
        /\ \A k \in 1..1 : w[length + m + k] = z[k]
    BY <1>3, <1>5, <1>7, <2>1 DEF Behind
  <2>3. 1 \in 1..1
    OBVIOUS
  <2> QED
    BY <1>5, <2>1, <2>2, <2>3
<1>9. w[1] = type /\ w[2] = length /\ \A k \in 1..m : w[length + k] = a[k]
  <2>1. 1 \in 1..length + m /\ 2 \in 1..length + m /\ \A k \in 1..m : length + k \in 1..length + m
    BY <1>3
  <2> QED
    BY <1>7, <1>8, <2>1
<1>10. w[length + m] = 0
  BY <1>3, <1>9
<1>11. ASSUME NEW k \in length + 1..length + m + 1 - 2 PROVE w[k] # 0 \/ w[k + 1] # 0
  <2>1. PICK i : i = k - length
    OBVIOUS
  <2>2. i \in 1..m - 1 /\ i \in 1..m /\ i + 1 \in 1..m /\ k = length + i /\ k + 1 = length + (i + 1)
    BY <1>3, <2>1
  <2>3. a[i] # 0 \/ a[i + 1] # 0
    BY <1>2, <2>2 DEF IsArea
  <2>4. w[length + i] = a[i] /\ w[length + (i + 1)] = a[i + 1]
    BY <1>9, <2>2, Zenon
  <2> QED
    BY <2>2, <2>3, <2>4, Zenon
<1>12. Len(w) - 1 = length + m /\ Len(w) >= length + 2 /\ Len(w) - 2 = length + m + 1 - 2
  BY <1>3, <1>8
<1>13. IsStructure(w, type, length)
  BY <1>8, <1>9, <1>10, <1>11, <1>12 DEF IsStructure
<1> QED
  BY <1>1, <1>13, Zenon

\* StructureBytes makes structures.
LEMMA StructureIs ==
    ASSUME StructuresReadable, NEW i \in Nat, input[i] \in Structures
    PROVE  IsStructure(StructureBytes(i), input[i].type, input[i].length)
<1>1. PICK type, length, strings :
         type = input[i].type /\ length = input[i].length /\ strings = input[i].strings
  OBVIOUS
<1>2. type \in Nat /\ length \in Nat /\ length >= 2 /\ strings \in Seq(Strings)
  BY <1>1 DEF StructuresReadable
<1>3. PICK f : f = [k \in 1..length - 2 |-> IF k = 3 THEN 0 ELSE 32 * i + k]
  OBVIOUS
<1>4. f \in Seq(Nat) /\ Len(f) = length - 2
  <2>1. \A k \in 1..length - 2 : (IF k = 3 THEN 0 ELSE 32 * i + k) \in Nat
    OBVIOUS
  <2> QED
    BY <1>2, <1>3, <2>1
<1>5. PICK a : a = IF strings = <<>> THEN <<0>> ELSE FlattenSeq(Ended(strings))
  OBVIOUS
<1>6. IsArea(a)
  <2>1. CASE strings = <<>>
    <3>1. a = <<0>>
      BY <1>5, <2>1
    <3> QED
      BY <3>1 DEF IsArea
  <2>2. CASE strings # <<>>
    <3>1. a = FlattenSeq(Ended(strings))
      BY <1>5, <2>2
    <3> QED
      BY <1>2, <2>2, <3>1, StringsArea, Zenon
  <2> QED
    BY <2>1, <2>2
<1>7. StructureBytes(i) = ((<<type, length>> \o f) \o a) \o <<0>>
  BY <1>1, <1>3, <1>5, Zenon DEF StructureBytes, Ended
<1>8. IsStructure(((<<type, length>> \o f) \o a) \o <<0>>, type, length)
  BY <1>2, <1>4, <1>6, PutTogether, Zenon
<1> QED
  BY <1>1, <1>7, <1>8, Zenon

-----------------------------------------------------------------------------
(* Where the pieces of a flattening stand.                                 *)

\* Where piece number i begins, from 0.
Start(p, i) == Len(FlattenSeq(SubSeq(p, 1, i - 1)))

\* Piece number i stands at its start, and the next behind it.
StandsAt(t, p, i) ==
    /\ Start(p, i) \in Nat /\ Start(p, i + 1) = Start(p, i) + Len(p[i])
    /\ Start(p, i + 1) <= Len(t)
    /\ \A k \in 1..Len(p[i]) : t[Start(p, i) + k] = p[i][k]

\* A start is the length of the pieces before.
LEMMA StartIs ==
    ASSUME NEW p, NEW i, NEW j, i - 1 = j
    PROVE  Start(p, i) = Len(FlattenSeq(SubSeq(p, 1, j)))
  BY Zenon DEF Start

\* Every piece is placed.
LEMMA PiecesPlaced ==
    ASSUME NEW T, NEW p \in Seq(Seq(T))
    PROVE  /\ \A i \in 1..Len(p) : StandsAt(FlattenSeq(p), p, i)
           /\ Start(p, 1) = 0 /\ Start(p, Len(p) + 1) = Len(FlattenSeq(p))
<1>1. PICK n : n = Len(p)
  OBVIOUS
<1> DEFINE front(j) == SubSeq(p, 1, j)
           t(j) == FlattenSeq(front(j))
           S == {j \in Nat : j <= n => \A i \in 1..j : StandsAt(t(j), p, i)}
<1>2. n \in Nat
  BY <1>1
<1>3. 0 \in S
  OBVIOUS
<1>4. ASSUME NEW j \in Nat, j \in S PROVE j + 1 \in S
  <2> SUFFICES ASSUME j + 1 <= n PROVE \A i \in 1..j + 1 : StandsAt(t(j + 1), p, i)
    OBVIOUS
  <2>1. PICK a, b, x, f, g, l, m : /\ a = front(j) /\ b = front(j + 1) /\ x = p[j + 1] /\ f = t(j)
                                   /\ g = t(j + 1) /\ l = Len(f) /\ m = Len(x)
    OBVIOUS
  <2>2. a \in Seq(Seq(T)) /\ x \in Seq(T) /\ b = Append(a, x)
    BY <1>1, <2>1, OneLonger
  <2>3. g = f \o x /\ f \in Seq(T)
    BY <2>1, <2>2, FlattenStep, FlattenType, Zenon
  <2>4. /\ l \in Nat /\ m \in Nat /\ Len(g) = l + m
        /\ (\A k \in 1..l : g[k] = f[k]) /\ \A k \in 1..m : g[l + k] = x[k]
    <3>1. Behind(g, f, l, x, m)
      BY <2>1, <2>2, <2>3, BehindIs, Zenon
    <3>2. l \in Nat /\ m \in Nat
      BY <2>1, <2>2, <2>3
    <3> QED
      BY <3>1, <3>2 DEF Behind
  <2>5. Start(p, j + 1) = l /\ Start(p, j + 2) = l + m
    <3>1. PICK u, v : u = j + 1 /\ v = j + 2 /\ u - 1 = j /\ v - 1 = u
      OBVIOUS
    <3>2. Start(p, j + 1) = Len(f) /\ Start(p, j + 2) = Len(g)
      <4>1. Start(p, u) = Len(FlattenSeq(SubSeq(p, 1, j)))
        BY <3>1, StartIs, Zenon
      <4>2. Start(p, v) = Len(FlattenSeq(SubSeq(p, 1, u)))
        BY <3>1, StartIs, Zenon
      <4> QED
        BY <2>1, <3>1, <4>1, <4>2, Zenon
    <3> QED
      BY <2>1, <2>4, <3>2
  <2>6. ASSUME NEW i \in 1..j PROVE StandsAt(g, p, i)
    <3>1. StandsAt(f, p, i)
      <4>1. j <= n
        BY <1>2
      <4>2. \A k \in 1..j : StandsAt(t(j), p, k)
        BY <1>4, <4>1
      <4> QED
        BY <2>1, <4>2, Zenon
    <3>2. PICK s, e, q : s = Start(p, i) /\ e = Start(p, i + 1) /\ q = Len(p[i])
      OBVIOUS
    <3>3. s \in Nat /\ e = s + q /\ e <= l /\ \A k \in 1..q : f[s + k] = p[i][k]
      BY <2>1, <3>1, <3>2 DEF StandsAt
    <3>4. q \in Nat
      <4>1. p[i] \in Seq(T)
        BY <1>1, Elements
      <4> QED
        BY <3>2, <4>1
    <3>5. \A k \in 1..q : s + k \in 1..l
      BY <2>4, <3>3, <3>4
    <3>6. \A k \in 1..q : g[s + k] = p[i][k]
      BY <2>4, <3>3, <3>5
    <3>7. e <= Len(g)
      BY <2>4, <3>3, <3>4
    <3> QED
      BY <3>2, <3>3, <3>6, <3>7 DEF StandsAt
  <2>7. StandsAt(g, p, j + 1)
    <3>1. Start(p, j + 1 + 1) = l + m
      <4>1. j + 1 + 1 = j + 2
        OBVIOUS
      <4> QED
        BY <2>5, <4>1, Zenon
    <3>2. l \in Nat /\ l + m <= Len(g)
      BY <2>4
    <3>3. /\ Start(p, j + 1) \in Nat /\ Start(p, j + 1 + 1) = Start(p, j + 1) + Len(p[j + 1])
          /\ Start(p, j + 1 + 1) <= Len(g)
      BY <2>1, <2>5, <3>1, <3>2, Zenon
    <3>4. \A k \in 1..Len(p[j + 1]) : g[Start(p, j + 1) + k] = p[j + 1][k]
      BY <2>1, <2>4, <2>5, Zenon
    <3> QED
      BY <3>3, <3>4, Zenon DEF StandsAt
  <2>8. \A i \in 1..j + 1 : i \in 1..j \/ i = j + 1
    OBVIOUS
  <2> QED
    BY <2>1, <2>6, <2>7, <2>8, Zenon
<1>5. \A j \in Nat : j \in S
  <2> HIDE DEF S
  <2> QED
    BY <1>3, <1>4, Induction, Zenon
<1>6. front(n) = p /\ front(0) = <<>>
  BY <1>1, Whole, Zenon
<1>7. \A i \in 1..n : StandsAt(FlattenSeq(p), p, i)
  <2>1. \A i \in 1..n : StandsAt(t(n), p, i)
    BY <1>2, <1>5
  <2> QED
    BY <1>6, <2>1, Zenon
<1>8. Start(p, 1) = 0 /\ Start(p, n + 1) = Len(FlattenSeq(p))
  <2>1. PICK u : u = n + 1 /\ u - 1 = n /\ 1 - 1 = 0
    BY <1>2
  <2>2. Start(p, 1) = Len(FlattenSeq(<<>>)) /\ Start(p, n + 1) = Len(FlattenSeq(p))
    <3>1. Start(p, 1) = Len(FlattenSeq(SubSeq(p, 1, 0)))
      BY <2>1, StartIs, Zenon
    <3>2. Start(p, u) = Len(FlattenSeq(SubSeq(p, 1, n)))
      BY <2>1, StartIs, Zenon
    <3> QED
      BY <1>6, <2>1, <3>1, <3>2, Zenon
  <2>3. Len(FlattenSeq(<<>>)) = 0
    <3>1. Len(<<>>) = 0
      OBVIOUS
    <3> QED
      BY <3>1, FlattenNone, Zenon
  <2> QED
    BY <2>2, <2>3
<1> QED
  BY <1>1, <1>7, <1>8, Zenon

-----------------------------------------------------------------------------
(* The walk over the table.                                                *)

\* One structure of the walk, where f tells what is found behind it.
WalkStep(buf, f, off) ==
    IF off + 4 >= Len(buf) \/ At(buf, off) = 127 THEN <<>>
    ELSE IF At(buf, off) = 1 /\ At(buf, off + 1) >= 25 THEN UuidAt(buf, off + 8)
    ELSE f[NextStructure(buf, off)]
IsWalk(f, buf) == f = [off \in Nat |-> WalkStep(buf, f, off)]

\* The next structure is further on.
LEMMA NextIsLater ==
    ASSUME NEW buf \in Seq(Nat), NEW off \in Nat, off + 4 < Len(buf)
    PROVE  NextStructure(buf, off) \in Nat /\ NextStructure(buf, off) > off
<1> DEFINE ends == {n \in off + At(buf, off + 1)..Len(buf) - 2 :
                       At(buf, n) = 0 /\ At(buf, n + 1) = 0}
<1>1. At(buf, off + 1) \in Nat
  <2>1. off + 1 + 1 \in 1..Len(buf)
    OBVIOUS
  <2> QED
    BY <2>1, Elements DEF At
<1>2. CASE ends = {}
  <2>1. NextStructure(buf, off) = Len(buf)
    BY <1>2, Zenon DEF NextStructure
  <2> QED
    BY <2>1
<1>3. CASE ends # {}
  <2>1. NextStructure(buf, off) = Min(ends) + 2
    BY <1>3, Zenon DEF NextStructure
  <2>2. ends \in SUBSET Nat
    BY <1>1
  <2>3. Min(ends) \in ends
    BY <1>3, <2>2, Smallest, Zenon
  <2>4. Min(ends) \in Nat /\ Min(ends) >= off
    BY <1>1, <2>3
  <2> HIDE DEF ends
  <2> QED
    BY <2>1, <2>4
<1> QED
  BY <1>2, <1>3

\* A function that walks on from some offset.
Walks(f, buf, m) ==
    /\ f = [off \in Nat |-> f[off]]
    /\ \A off \in Nat : off >= m => f[off] = WalkStep(buf, f, off)

\* The walk from one offset before.
LEMMA WalkOn ==
    ASSUME NEW buf \in Seq(Nat), NEW m \in Nat, NEW f, Walks(f, buf, m + 1)
    PROVE  \E g : Walks(g, buf, m)
<1> DEFINE x == WalkStep(buf, f, m)
           g == [off \in Nat |-> IF off = m THEN x ELSE f[off]]
<1>1. ASSUME NEW off \in Nat, off >= m PROVE WalkStep(buf, g, off) = WalkStep(buf, f, off)
  <2>1. CASE off + 4 >= Len(buf)
    BY <2>1 DEF WalkStep
  <2>2. CASE off + 4 < Len(buf)
    <3>1. PICK e : e = NextStructure(buf, off)
      OBVIOUS
    <3>2. e \in Nat /\ e > off
      BY <2>2, <3>1, NextIsLater
    <3>3. e # m
      BY <1>1, <3>2
    <3>4. g[e] = f[e]
      BY <3>2, <3>3
    <3> HIDE DEF g
    <3> QED
      BY <3>1, <3>4, Zenon DEF WalkStep
  <2> QED
    BY <1>1, <2>1, <2>2
<1>2. ASSUME NEW off \in Nat, off >= m PROVE g[off] = WalkStep(buf, g, off)
  <2>1. CASE off = m
    <3>1. g[off] = x
      BY <2>1
    <3> QED
      BY <1>1, <1>2, <2>1, <3>1, Zenon
  <2>2. CASE off # m
    <3>1. g[off] = f[off] /\ off >= m + 1
      BY <1>2, <2>2
    <3>2. f[off] = WalkStep(buf, f, off)
      BY <3>1 DEF Walks
    <3> QED
      BY <1>1, <1>2, <3>1, <3>2, Zenon
  <2> QED
    BY <2>1, <2>2
<1>3. g = [off \in Nat |-> g[off]]
  OBVIOUS
<1> HIDE DEF g
<1>4. Walks(g, buf, m)
  BY <1>2, <1>3 DEF Walks
<1> QED
  BY <1>4

\* There is a walk over every table.
LEMMA SomeWalk ==
    ASSUME NEW buf \in Seq(Nat)
    PROVE  \E f : IsWalk(f, buf)
<1>1. PICK l : l = Len(buf) /\ l \in Nat
  OBVIOUS
<1> DEFINE S == {d \in Nat : d <= l => \E f : Walks(f, buf, l - d)}
<1>2. 0 \in S
  <2> DEFINE f == [off \in Nat |-> <<>>]
  <2>1. f = [off \in Nat |-> f[off]] /\ \A off \in Nat : f[off] = <<>>
    OBVIOUS
  <2> HIDE DEF f
  <2>2. \A off \in Nat : off >= l => WalkStep(buf, f, off) = <<>>
    BY <1>1 DEF WalkStep
  <2>3. Walks(f, buf, l - 0)
    BY <1>1, <2>1, <2>2 DEF Walks
  <2> QED
    BY <2>3
<1>3. ASSUME NEW d \in Nat, d \in S PROVE d + 1 \in S
  <2> SUFFICES ASSUME d + 1 <= l PROVE \E f : Walks(f, buf, l - (d + 1))
    OBVIOUS
  <2>1. PICK f : Walks(f, buf, l - d)
    BY <1>1, <1>3
  <2>2. PICK m : m = l - (d + 1)
    OBVIOUS
  <2>3. m \in Nat /\ m + 1 = l - d
    BY <1>1, <2>2
  <2>4. Walks(f, buf, m + 1)
    BY <2>1, <2>3, Zenon
  <2>5. \E g : Walks(g, buf, m)
    BY <2>3, <2>4, WalkOn, Zenon
  <2> QED
    BY <2>2, <2>5, Zenon
<1> HIDE DEF S
<1>4. l \in S
  BY <1>1, <1>2, <1>3, Induction, Zenon
<1>5. PICK f : Walks(f, buf, 0)
  <2>1. \E f : Walks(f, buf, l - l)
    BY <1>1, <1>4 DEF S
  <2>2. l - l = 0
    BY <1>1
  <2> QED
    BY <2>1, <2>2, Zenon
<1>6. f = [off \in Nat |-> WalkStep(buf, f, off)]
  <2>1. \A off \in Nat : f[off] = WalkStep(buf, f, off)
    BY <1>5 DEF Walks
  <2>2. f = [off \in Nat |-> f[off]]
    BY <1>5 DEF Walks
  <2>3. [off \in Nat |-> f[off]] = [off \in Nat |-> WalkStep(buf, f, off)]
    BY <2>1, Zenon
  <2> QED
    BY <2>2, <2>3, Zenon
<1> QED
  BY <1>6 DEF IsWalk

\* The walk is what RawSmbiosUuid takes.
LEMMA WalkIs ==
    ASSUME NEW buf \in Seq(Nat), Len(buf) >= 32
    PROVE  \E f : IsWalk(f, buf) /\ RawSmbiosUuid(buf) = f[HeaderLen]
<1> DEFINE f == CHOOSE g : IsWalk(g, buf)
<1>1. RawSmbiosUuid(buf) = f[HeaderLen]
  BY DEF RawSmbiosUuid, IsWalk, WalkStep
<1>2. IsWalk(f, buf)
  BY SomeWalk
<1> HIDE DEF f
<1> QED
  BY <1>1, <1>2

\* Behind a structure stands the next.
LEMMA NextIs ==
    ASSUME NEW buf \in Seq(Nat), NEW off \in Nat, NEW b, NEW type, NEW length,
           IsStructure(b, type, length), off + Len(b) <= Len(buf),
           \A k \in 1..Len(b) : buf[off + k] = b[k]
    PROVE  /\ At(buf, off) = type /\ At(buf, off + 1) = length
           /\ NextStructure(buf, off) = off + Len(b)
<1>1. PICK l : l = Len(b)
  OBVIOUS
<1>2. l \in Nat /\ length \in Nat /\ length >= 2 /\ l >= length + 2 /\ b[1] = type /\ b[2] = length
      /\ b[l - 1] = 0 /\ b[l] = 0 /\ off + l <= Len(buf)
  BY <1>1 DEF IsStructure
<1>3. At(buf, off) = type /\ At(buf, off + 1) = length
  <2>1. 1 \in 1..l /\ 2 \in 1..l /\ off + 1 + 1 = off + 2
    BY <1>2
  <2> QED
    BY <1>1, <1>2, <2>1 DEF At
<1> DEFINE ends == {n \in off + length..Len(buf) - 2 : At(buf, n) = 0 /\ At(buf, n + 1) = 0}
           e == off + l - 2
<1>4. e \in ends
  <2>1. l - 1 \in 1..l /\ l \in 1..l /\ e + 1 = off + (l - 1) /\ e + 1 + 1 = off + l
    BY <1>2
  <2>2. At(buf, e) = 0 /\ At(buf, e + 1) = 0
    BY <1>1, <1>2, <2>1 DEF At
  <2> QED
    BY <1>2, <2>2
<1>5. ASSUME NEW n \in ends PROVE n >= e
  <2> SUFFICES ASSUME n < e PROVE FALSE
    BY <1>2
  <2>1. PICK k : k = n + 1 - off
    OBVIOUS
  <2>2. k \in length + 1..l - 2 /\ k \in 1..l /\ k + 1 \in 1..l /\ n + 1 = off + k
        /\ n + 1 + 1 = off + (k + 1)
    BY <1>2, <2>1
  <2>3. b[k] # 0 \/ b[k + 1] # 0
    BY <1>1, <2>2 DEF IsStructure
  <2>4. buf[off + k] = b[k] /\ buf[off + (k + 1)] = b[k + 1]
    BY <1>1, <2>2, Zenon
  <2>5. buf[n + 1] = 0 /\ buf[n + 1 + 1] = 0
    BY DEF At
  <2> QED
    BY <2>2, <2>3, <2>4, <2>5, Zenon
<1>6. Min(ends) = e
  <2>1. ends \in SUBSET Nat /\ ends # {}
    <3>1. \A n \in off + length..Len(buf) - 2 : n \in Nat
      BY <1>2
    <3> QED
      BY <1>4, <3>1, Zenon
  <2>2. Min(ends) \in ends /\ \A n \in ends : Min(ends) <= n
    BY <2>1, Smallest, Zenon
  <2>3. Min(ends) <= e /\ Min(ends) >= e /\ Min(ends) \in Nat
    BY <1>4, <1>5, <2>1, <2>2, Zenon
  <2>4. PICK m, n : m = Min(ends) /\ n = e
    OBVIOUS
  <2>5. m \in Nat /\ n \in Int /\ m <= n /\ m >= n
    BY <1>2, <2>3, <2>4
  <2>6. m = n
    BY <2>5
  <2> QED
    BY <2>4, <2>6, Zenon
<1>7. NextStructure(buf, off) = e + 2
  <2>1. NextStructure(buf, off) = IF ends = {} THEN Len(buf) ELSE Min(ends) + 2
    BY <1>3, Zenon DEF NextStructure
  <2> QED
    BY <1>4, <1>6, <2>1, Zenon
<1> QED
  BY <1>1, <1>2, <1>3, <1>7

\* Structures b of types ty and lengths le stand in buf at the offsets st, one
\* behind the other up to the end.
Table(buf, n, st, b, ty, le) ==
    /\ buf \in Seq(Nat) /\ n \in Nat /\ st[n + 1] = Len(buf)
    /\ \A i \in 1..n :
          /\ st[i] \in Nat /\ st[i + 1] = st[i] + Len(b[i]) /\ st[i + 1] <= Len(buf)
          /\ IsStructure(b[i], ty[i], le[i])
          /\ \A k \in 1..Len(b[i]) : buf[st[i] + k] = b[i][k]

\* The structures with a UUID from number i on.
Systems(n, ty, le, i) ==
    {s \in i..n : ty[s] = 1 /\ le[s] >= 25 /\ \A j \in i..s : ty[j] # 127}

\* What a walk finds from structure number i on.
Finds(f, buf, n, st, ty, le, i) ==
    LET systems == Systems(n, ty, le, i)
    IN  f[st[i]] = IF systems = {} THEN <<>> ELSE UuidAt(buf, st[Min(systems)] + 8)

\* A UUID is not nothing.
LEMMA UuidIsSome == ASSUME NEW buf, NEW off PROVE UuidAt(buf, off) # <<>>
<1>1. DOMAIN UuidAt(buf, off) = 1..16
  BY DEF UuidAt
<1>2. 1 \in 1..16 /\ DOMAIN <<>> = {}
  OBVIOUS
<1> QED
  BY <1>1, <1>2, Zenon

\* One structure of the walk.
LEMMA FindsFrom ==
    ASSUME NEW buf, NEW n, NEW st, NEW b, NEW ty, NEW le, Table(buf, n, st, b, ty, le),
           NEW f, IsWalk(f, buf), NEW i \in 1..n, Finds(f, buf, n, st, ty, le, i + 1)
    PROVE  Finds(f, buf, n, st, ty, le, i)
<1>1. PICK o, p, t, l, len : /\ o = st[i] /\ p = st[i + 1] /\ t = ty[i] /\ l = le[i]
                             /\ len = Len(b[i])
  OBVIOUS
<1>2. PICK here, rest : here = Systems(n, ty, le, i) /\ rest = Systems(n, ty, le, i + 1)
  OBVIOUS
<1>3. /\ buf \in Seq(Nat) /\ n \in Nat /\ o \in Nat /\ p = o + len /\ p <= Len(buf)
      /\ IsStructure(b[i], t, l) /\ \A k \in 1..len : buf[o + k] = b[i][k]
  BY <1>1 DEF Table
<1>4. At(buf, o) = t /\ At(buf, o + 1) = l /\ NextStructure(buf, o) = p
  <2>1. o + Len(b[i]) <= Len(buf) /\ \A k \in 1..Len(b[i]) : buf[o + k] = b[i][k]
    BY <1>1, <1>3, Zenon
  <2>2. At(buf, o) = t /\ At(buf, o + 1) = l /\ NextStructure(buf, o) = o + Len(b[i])
    BY <1>3, <2>1, NextIs, Zenon
  <2> QED
    BY <1>1, <1>3, <2>2, Zenon
<1>5. l \in Nat /\ l >= 2 /\ len \in Nat /\ len >= l + 2 /\ t \in Nat
  <2>1. b[i] \in Seq(Nat) /\ l \in Nat /\ l >= 2 /\ len >= l + 2 /\ b[i][1] = t
    BY <1>1, <1>3 DEF IsStructure
  <2>2. len \in Nat /\ 1 \in 1..len
    BY <1>1, <2>1
  <2>3. b[i][1] \in Nat
    BY <1>1, <2>1, <2>2, Elements
  <2> QED
    BY <2>1, <2>2, <2>3
<1>6. f[o] = WalkStep(buf, f, o)
  BY <1>3 DEF IsWalk
<1>7. f[p] = IF rest = {} THEN <<>> ELSE UuidAt(buf, st[Min(rest)] + 8)
  BY <1>1, <1>2, Zenon DEF Finds
<1>8. \A s : s \in here <=> s \in i..n /\ ty[s] = 1 /\ le[s] >= 25 /\ \A j \in i..s : ty[j] # 127
  BY <1>2 DEF Systems
<1>9. \A s : s \in rest <=> /\ s \in i + 1..n /\ ty[s] = 1 /\ le[s] >= 25
                            /\ \A j \in i + 1..s : ty[j] # 127
  BY <1>2 DEF Systems
<1>10. CASE t = 127
  <2>1. here = {}
    <3>1. ASSUME NEW s \in here PROVE FALSE
      <4>1. s \in i..n /\ \A j \in i..s : ty[j] # 127
        BY <1>8, <3>1
      <4>2. i \in i..s
        BY <1>3, <4>1
      <4>3. ty[i] # 127
        BY <4>1, <4>2, Zenon
      <4> QED
        BY <1>1, <1>10, <4>3, Zenon
    <3> QED
      BY <3>1
  <2>2. f[o] = <<>>
    BY <1>4, <1>6, <1>10, Zenon DEF WalkStep
  <2> QED
    BY <1>1, <1>2, <2>1, <2>2, Zenon DEF Finds
<1>11. CASE t = 1 /\ l >= 25
  <2>1. ~(o + 4 >= Len(buf))
    BY <1>3, <1>5, <1>11
  <2>2. f[o] = UuidAt(buf, o + 8)
    <3>1. At(buf, o) # 127 /\ At(buf, o) = 1 /\ At(buf, o + 1) >= 25
      BY <1>4, <1>11
    <3> QED
      BY <1>6, <2>1, <3>1, Zenon DEF WalkStep
  <2>3. i \in here
    <3>1. i \in i..n /\ \A j \in i..i : j = i
      BY <1>3
    <3>2. t # 127
      BY <1>11
    <3> QED
      BY <1>1, <1>8, <1>11, <3>1, <3>2
  <2>4. Min(here) = i
    <3>1. here \in SUBSET Nat /\ \A s \in here : i <= s
      BY <1>3, <1>8
    <3>2. Min(here) \in here /\ \A s \in here : Min(here) <= s
      BY <2>3, <3>1, Smallest, Zenon
    <3>3. PICK m : m = Min(here)
      OBVIOUS
    <3>4. m \in Nat /\ i \in Nat /\ m <= i /\ i <= m
      BY <2>3, <3>1, <3>2, <3>3
    <3>5. m = i
      BY <3>4
    <3> QED
      BY <3>3, <3>5
  <2> QED
    BY <1>1, <1>2, <2>2, <2>3, <2>4, Zenon DEF Finds
<1>12. CASE t # 127 /\ ~(t = 1 /\ l >= 25)
  <2>1. here = rest
    <3>1. ASSUME NEW s \in here PROVE s \in rest
      <4>1. s \in i..n /\ ty[s] = 1 /\ le[s] >= 25 /\ \A j \in i..s : ty[j] # 127
        BY <1>8, <3>1
      <4>2. s # i
        BY <1>1, <1>12, <4>1
      <4>3. s \in i + 1..n /\ \A j \in i + 1..s : j \in i..s
        BY <1>3, <4>1, <4>2
      <4> QED
        BY <1>9, <4>1, <4>3
    <3>2. ASSUME NEW s \in rest PROVE s \in here
      <4>1. s \in i + 1..n /\ ty[s] = 1 /\ le[s] >= 25 /\ \A j \in i + 1..s : ty[j] # 127
        BY <1>9, <3>2
      <4>2. s \in i..n /\ \A j \in i..s : j = i \/ j \in i + 1..s
        BY <1>3, <4>1
      <4>3. ty[i] # 127
        BY <1>1, <1>12
      <4>4. \A j \in i..s : ty[j] # 127
        BY <4>1, <4>2, <4>3, Zenon
      <4> QED
        BY <1>8, <4>1, <4>2, <4>4, Zenon
    <3> QED
      BY <3>1, <3>2
  <2>2. f[o] = f[p]
    <3>1. CASE o + 4 >= Len(buf)
      <4>1. f[o] = <<>>
        BY <1>6, <3>1, Zenon DEF WalkStep
      <4>2. p \in Nat /\ p + 4 >= Len(buf)
        BY <1>3, <1>5, <3>1
      <4>3. f[p] = WalkStep(buf, f, p)
        BY <4>2 DEF IsWalk
      <4>4. f[p] = <<>>
        BY <4>2, <4>3, Zenon DEF WalkStep
      <4> QED
        BY <4>1, <4>4, Zenon
    <3>2. CASE ~(o + 4 >= Len(buf))
      <4>1. ~(At(buf, o) = 127) /\ ~(At(buf, o) = 1 /\ At(buf, o + 1) >= 25)
        BY <1>4, <1>12, Zenon
      <4>2. f[o] = f[NextStructure(buf, o)]
        BY <1>6, <3>2, <4>1, Zenon DEF WalkStep
      <4> QED
        BY <1>4, <4>2, Zenon
    <3> QED
      BY <3>1, <3>2
  <2> QED
    BY <1>1, <1>2, <1>7, <2>1, <2>2, Zenon DEF Finds
<1> QED
  BY <1>10, <1>11, <1>12

\* The whole walk.
LEMMA WalkFinds ==
    ASSUME NEW buf, NEW n, NEW st, NEW b, NEW ty, NEW le, Table(buf, n, st, b, ty, le),
           NEW f, IsWalk(f, buf)
    PROVE  Finds(f, buf, n, st, ty, le, 1)
<1>1. n \in Nat /\ buf \in Seq(Nat) /\ st[n + 1] = Len(buf)
  BY DEF Table
<1> DEFINE S == {d \in Nat : d <= n => Finds(f, buf, n, st, ty, le, n + 1 - d)}
<1>2. 0 \in S
  <2>1. Systems(n, ty, le, n + 1) = {}
    <3>1. \A s : ~(s \in n + 1..n)
      BY <1>1
    <3> QED
      BY <3>1 DEF Systems
  <2>2. f[st[n + 1]] = <<>>
    <3>1. PICK l : l = Len(buf) /\ l \in Nat /\ l + 4 >= l
      BY <1>1
    <3>2. f[l] = WalkStep(buf, f, l)
      BY <3>1 DEF IsWalk
    <3>3. WalkStep(buf, f, l) = <<>>
      BY <3>1, Zenon DEF WalkStep
    <3> QED
      BY <1>1, <3>1, <3>2, <3>3, Zenon
  <2>3. Finds(f, buf, n, st, ty, le, n + 1)
    BY <2>1, <2>2, Zenon DEF Finds
  <2>4. n + 1 - 0 = n + 1
    BY <1>1
  <2> QED
    BY <2>3, <2>4
<1>3. ASSUME NEW d \in Nat, d \in S PROVE d + 1 \in S
  <2> SUFFICES ASSUME d + 1 <= n PROVE Finds(f, buf, n, st, ty, le, n + 1 - (d + 1))
    OBVIOUS
  <2>1. PICK i : i = n + 1 - (d + 1)
    OBVIOUS
  <2>2. i \in 1..n /\ i + 1 = n + 1 - d /\ d <= n
    BY <1>1, <2>1
  <2>3. Finds(f, buf, n, st, ty, le, n + 1 - d)
    BY <1>3, <2>2
  <2>4. Finds(f, buf, n, st, ty, le, i + 1)
    BY <2>2, <2>3, Zenon
  <2>5. Finds(f, buf, n, st, ty, le, i)
    BY <2>2, <2>4, FindsFrom, Zenon
  <2> QED
    BY <2>1, <2>5, Zenon
<1> HIDE DEF S
<1>4. n \in S
  BY <1>1, <1>2, <1>3, Induction, Zenon
<1>5. Finds(f, buf, n, st, ty, le, n + 1 - n)
  BY <1>1, <1>4 DEF S
<1>6. n + 1 - n = 1
  BY <1>1
<1> QED
  BY <1>5, <1>6, Zenon

\* u is the UUID in the bytes raw, its parts as the code prints them.
Printed(u, raw) ==
    u = Reverse(SubSeq(raw, 1, 4)) \o Reverse(SubSeq(raw, 5, 6))
        \o Reverse(SubSeq(raw, 7, 8)) \o SubSeq(raw, 9, 16)

\* A structure of 27 bytes has a UUID behind the first eight.
LEMMA LongEnough ==
    ASSUME NEW l \in Nat, l >= 27
    PROVE  \A k \in 1..16 : 8 + k \in 1..l
  OBVIOUS

\* The UUID of a structure is read out as it is printed.
LEMMA UuidIs ==
    ASSUME NEW buf \in Seq(Nat), NEW off \in Nat, NEW b \in Seq(Nat), Len(b) >= 27,
           \A k \in 1..Len(b) : buf[off + k] = b[k],
           NEW raw, raw = SubSeq(b, 9, 24)
    PROVE  Printed(UuidAt(buf, off + 8), raw)
<1>1. raw \in Seq(Nat) /\ Len(raw) = 16 /\ \A k \in 1..16 : raw[k] = b[8 + k]
  <2>1. 8 \in Nat /\ 16 \in Nat /\ 8 + 16 <= Len(b) /\ 9 = 8 + 1 /\ 24 = 8 + 16
    OBVIOUS
  <2>2. SubSeq(b, 9, 24) \in Seq(Nat) /\ Between(SubSeq(b, 9, 24), b, 8, 16)
    BY <2>1, BetweenIs
  <2> QED
    BY <2>2 DEF Between
<1>2. \A k \in 1..16 : raw[k] \in Nat /\ raw[k] = buf[off + (8 + k)]
  <2>1. \A k \in 1..16 : raw[k] \in Nat
    BY <1>1, Elements
  <2>2. \A k \in 1..16 : 8 + k \in 1..Len(b)
    <3>1. Len(b) \in Nat /\ Len(b) >= 27
      OBVIOUS
    <3> QED
      BY <3>1, LongEnough, Zenon
  <2> QED
    BY <1>1, <2>1, <2>2
<1>3. PICK p, q, r, s : /\ p = Reverse(SubSeq(raw, 1, 4)) /\ q = Reverse(SubSeq(raw, 5, 6))
                        /\ r = Reverse(SubSeq(raw, 7, 8)) /\ s = SubSeq(raw, 9, 16)
  OBVIOUS
<1>4. p \in Seq(Nat) /\ Len(p) = 4 /\ p[1] = raw[4] /\ p[2] = raw[3] /\ p[3] = raw[2] /\ p[4] = raw[1]
  <2>1. PICK a : a = SubSeq(raw, 1, 4)
    OBVIOUS
  <2>2. a \in Seq(Nat) /\ Len(a) = 4 /\ \A k \in 1..4 : a[k] = raw[0 + k]
    <3>1. 0 \in Nat /\ 4 \in Nat /\ 0 + 4 <= Len(raw) /\ 1 = 0 + 1 /\ 4 = 0 + 4
      BY <1>1
    <3> QED
      BY <1>1, <2>1, <3>1, BetweenIs DEF Between
  <2>3. p = [k \in 1..4 |-> a[4 - k + 1]]
    BY <1>3, <2>1, <2>2 DEF Reverse
  <2>4. \A k \in 1..4 : 4 - k + 1 \in 1..4
    OBVIOUS
  <2>5. \A k \in 1..4 : a[4 - k + 1] \in Nat
    BY <2>2, <2>4, Elements
  <2>6. a[1] = raw[1] /\ a[2] = raw[2] /\ a[3] = raw[3] /\ a[4] = raw[4]
    BY <2>2
  <2>7. 4 - 1 + 1 = 4 /\ 4 - 2 + 1 = 3 /\ 4 - 3 + 1 = 2 /\ 4 - 4 + 1 = 1
    OBVIOUS
  <2> QED
    BY <2>3, <2>5, <2>6, <2>7
<1>5. q \in Seq(Nat) /\ Len(q) = 2 /\ q[1] = raw[6] /\ q[2] = raw[5]
  <2>1. PICK a : a = SubSeq(raw, 5, 6)
    OBVIOUS
  <2>2. a \in Seq(Nat) /\ Len(a) = 2 /\ \A k \in 1..2 : a[k] = raw[4 + k]
    <3>1. 4 \in Nat /\ 2 \in Nat /\ 4 + 2 <= Len(raw) /\ 5 = 4 + 1 /\ 6 = 4 + 2
      BY <1>1
    <3> QED
      BY <1>1, <2>1, <3>1, BetweenIs DEF Between
  <2>3. q = [k \in 1..2 |-> a[2 - k + 1]]
    BY <1>3, <2>1, <2>2 DEF Reverse
  <2>4. \A k \in 1..2 : 2 - k + 1 \in 1..2
    OBVIOUS
  <2>5. \A k \in 1..2 : a[2 - k + 1] \in Nat
    BY <2>2, <2>4, Elements
  <2>6. a[1] = raw[5] /\ a[2] = raw[6]
    BY <2>2
  <2>7. 2 - 1 + 1 = 2 /\ 2 - 2 + 1 = 1
    OBVIOUS
  <2> QED
    BY <2>3, <2>5, <2>6, <2>7
<1>6. r \in Seq(Nat) /\ Len(r) = 2 /\ r[1] = raw[8] /\ r[2] = raw[7]
  <2>1. PICK a : a = SubSeq(raw, 7, 8)
    OBVIOUS
  <2>2. a \in Seq(Nat) /\ Len(a) = 2 /\ \A k \in 1..2 : a[k] = raw[6 + k]
    <3>1. 6 \in Nat /\ 2 \in Nat /\ 6 + 2 <= Len(raw) /\ 7 = 6 + 1 /\ 8 = 6 + 2
      BY <1>1
    <3> QED
      BY <1>1, <2>1, <3>1, BetweenIs DEF Between
  <2>3. r = [k \in 1..2 |-> a[2 - k + 1]]
    BY <1>3, <2>1, <2>2 DEF Reverse
  <2>4. \A k \in 1..2 : 2 - k + 1 \in 1..2
    OBVIOUS
  <2>5. \A k \in 1..2 : a[2 - k + 1] \in Nat
    BY <2>2, <2>4, Elements
  <2>6. a[1] = raw[7] /\ a[2] = raw[8]
    BY <2>2
  <2>7. 2 - 1 + 1 = 2 /\ 2 - 2 + 1 = 1
    OBVIOUS
  <2> QED
    BY <2>3, <2>5, <2>6, <2>7
<1>7. s \in Seq(Nat) /\ Len(s) = 8 /\ \A k \in 1..8 : s[k] = raw[8 + k]
  <2>1. 8 \in Nat /\ 8 + 8 <= Len(raw) /\ 9 = 8 + 1 /\ 16 = 8 + 8
    BY <1>1
  <2> QED
    BY <1>1, <1>3, <2>1, BetweenIs DEF Between
<1>8. PICK u, v, w : u = p \o q /\ v = u \o r /\ w = v \o s
  OBVIOUS
<1>9. u \in Seq(Nat) /\ Len(u) = 6 /\ (\A k \in 1..4 : u[k] = p[k]) /\ \A k \in 1..2 : u[4 + k] = q[k]
  <2>1. Behind(u, p, 4, q, 2) /\ u \in Seq(Nat)
    <3>1. Behind(u, p, Len(p), q, Len(q)) /\ u \in Seq(Nat)
      BY <1>4, <1>5, <1>8, BehindIs, Zenon
    <3> QED
      BY <1>4, <1>5, <1>8, <3>1, Zenon
  <2>2. PICK i \in Nat, j \in Nat : i = 4 /\ j = 2
    <3>1. 4 \in Nat /\ 2 \in Nat
      OBVIOUS
    <3> QED
      BY <3>1, Zenon
  <2>3. Behind(u, p, i, q, j)
    BY <2>1, <2>2, Zenon
  <2>4. /\ Len(u) = i + j /\ (\A k \in 1..i : u[k] = p[k])
        /\ \A k \in 1..j : u[i + k] = q[k]
    BY <2>3 DEF Behind
  <2>5. i + j = 6
    BY <2>2
  <2> QED
    BY <2>1, <2>2, <2>4, <2>5, Zenon
<1>10. v \in Seq(Nat) /\ Len(v) = 8 /\ (\A k \in 1..6 : v[k] = u[k]) /\ \A k \in 1..2 : v[6 + k] = r[k]
  <2>1. Behind(v, u, 6, r, 2) /\ v \in Seq(Nat)
    <3>1. Behind(v, u, Len(u), r, Len(r)) /\ v \in Seq(Nat)
      BY <1>6, <1>8, <1>9, BehindIs, Zenon
    <3> QED
      BY <1>6, <1>8, <1>9, <3>1, Zenon
  <2>2. PICK i \in Nat, j \in Nat : i = 6 /\ j = 2
    <3>1. 6 \in Nat /\ 2 \in Nat
      OBVIOUS
    <3> QED
      BY <3>1, Zenon
  <2>3. Behind(v, u, i, r, j)
    BY <2>1, <2>2, Zenon
  <2>4. /\ Len(v) = i + j /\ (\A k \in 1..i : v[k] = u[k])
        /\ \A k \in 1..j : v[i + k] = r[k]
    BY <2>3 DEF Behind
  <2>5. i + j = 8
    BY <2>2
  <2> QED
    BY <2>1, <2>2, <2>4, <2>5, Zenon
<1>11. w \in Seq(Nat) /\ Len(w) = 16 /\ (\A k \in 1..8 : w[k] = v[k]) /\ \A k \in 1..8 : w[8 + k] = s[k]
  <2>1. Behind(w, v, 8, s, 8) /\ w \in Seq(Nat)
    <3>1. Behind(w, v, Len(v), s, Len(s)) /\ w \in Seq(Nat)
      BY <1>7, <1>8, <1>10, BehindIs, Zenon
    <3> QED
      BY <1>7, <1>8, <1>10, <3>1, Zenon
  <2>2. PICK i \in Nat, j \in Nat : i = 8 /\ j = 8
    <3>1. 8 \in Nat /\ 8 \in Nat
      OBVIOUS
    <3> QED
      BY <3>1, Zenon
  <2>3. Behind(w, v, i, s, j)
    BY <2>1, <2>2, Zenon
  <2>4. /\ Len(w) = i + j /\ (\A k \in 1..i : w[k] = v[k])
        /\ \A k \in 1..j : w[i + k] = s[k]
    BY <2>3 DEF Behind
  <2>5. i + j = 16
    BY <2>2
  <2> QED
    BY <2>1, <2>2, <2>4, <2>5, Zenon
<1> DEFINE place == <<3, 2, 1, 0, 5, 4, 7, 6, 8, 9, 10, 11, 12, 13, 14, 15>>
<1>12. /\ w[1] = raw[4] /\ w[2] = raw[3] /\ w[3] = raw[2] /\ w[4] = raw[1]
       /\ w[5] = raw[6] /\ w[6] = raw[5] /\ w[7] = raw[8] /\ w[8] = raw[7]
       /\ \A k \in 9..16 : w[k] = raw[k]
  <2>1. /\ u[1] = p[1] /\ u[2] = p[2] /\ u[3] = p[3] /\ u[4] = p[4]
        /\ u[5] = q[1] /\ u[6] = q[2]
    BY <1>9, 4 + 1 = 5, 4 + 2 = 6
  <2>2. /\ v[1] = u[1] /\ v[2] = u[2] /\ v[3] = u[3] /\ v[4] = u[4] /\ v[5] = u[5] /\ v[6] = u[6]
        /\ v[7] = r[1] /\ v[8] = r[2]
    BY <1>10, 6 + 1 = 7, 6 + 2 = 8
  <2>3. /\ w[1] = v[1] /\ w[2] = v[2] /\ w[3] = v[3] /\ w[4] = v[4]
        /\ w[5] = v[5] /\ w[6] = v[6] /\ w[7] = v[7] /\ w[8] = v[8]
    BY <1>11
  <2>4. \A k \in 9..16 : w[k] = raw[k]
    <3> SUFFICES ASSUME NEW k \in 9..16 PROVE w[k] = raw[k]
      OBVIOUS
    <3>1. PICK j \in 1..8 : 8 + j = k
      <4>1. k - 8 \in 1..8 /\ 8 + (k - 8) = k
        OBVIOUS
      <4> QED
        BY <4>1, Zenon
    <3> QED
      BY <1>7, <1>11, <3>1, Zenon
  <2>5. w[1] = raw[4] /\ w[2] = raw[3] /\ w[3] = raw[2] /\ w[4] = raw[1]
    <3>1. w[1] = p[1] /\ w[2] = p[2] /\ w[3] = p[3] /\ w[4] = p[4]
      BY <2>1, <2>2, <2>3
    <3> QED
      BY <1>4, <3>1
  <2>6. w[5] = raw[6] /\ w[6] = raw[5]
    BY <1>5, <2>1, <2>2, <2>3
  <2>7. w[7] = raw[8] /\ w[8] = raw[7]
    BY <1>6, <2>2, <2>3
  <2> QED
    BY <2>4, <2>5, <2>6, <2>7
<1>13. ASSUME NEW k \in 1..16 PROVE At(buf, off + 8 + place[k]) = w[k]
  <2>1. \A j \in 1..16 : buf[off + 8 + (j - 1) + 1] = raw[j]
    <3>1. \A j \in 1..16 : off + 8 + (j - 1) + 1 = off + (8 + j)
      OBVIOUS
    <3> QED
      BY <1>2, <3>1
  <2>2. \A j \in 1..16 : At(buf, off + 8 + (j - 1)) = raw[j]
    BY <2>1, Zenon DEF At
  <2>3. /\ place[1] = 4 - 1 /\ place[2] = 3 - 1 /\ place[3] = 2 - 1 /\ place[4] = 1 - 1
        /\ place[5] = 6 - 1 /\ place[6] = 5 - 1 /\ place[7] = 8 - 1 /\ place[8] = 7 - 1
        /\ place[9] = 9 - 1 /\ place[10] = 10 - 1 /\ place[11] = 11 - 1 /\ place[12] = 12 - 1
        /\ place[13] = 13 - 1 /\ place[14] = 14 - 1 /\ place[15] = 15 - 1 /\ place[16] = 16 - 1
    OBVIOUS
  <2>4. /\ 1 \in 1..16 /\ 2 \in 1..16 /\ 3 \in 1..16 /\ 4 \in 1..16 /\ 5 \in 1..16 /\ 6 \in 1..16
        /\ 7 \in 1..16 /\ 8 \in 1..16 /\ 9 \in 1..16 /\ 10 \in 1..16 /\ 11 \in 1..16 /\ 12 \in 1..16
        /\ 13 \in 1..16 /\ 14 \in 1..16 /\ 15 \in 1..16 /\ 16 \in 1..16
    OBVIOUS
  <2>5. \A j \in 9..16 : place[j] = j - 1 /\ j \in 1..16
    <3>1. \A j \in 9..16 : j \in {9, 10, 11, 12, 13, 14, 15, 16} /\ j \in 1..16
      OBVIOUS
    <3> HIDE DEF place
    <3> QED
      BY <2>3, <3>1, Zenon
  <2> HIDE DEF place
  <2>6. CASE k \in 9..16
    BY <1>12, <2>2, <2>5, <2>6, Zenon
  <2>8. ASSUME NEW a \in 1..16, NEW f \in 1..16, place[a] = f - 1, w[a] = raw[f]
        PROVE  At(buf, off + 8 + place[a]) = w[a]
    BY <2>2, <2>8, Zenon
  <2>7. CASE k \in {1, 2, 3, 4, 5, 6, 7, 8}
    <3>1. At(buf, off + 8 + place[1]) = w[1]
      <4>1. place[1] = 4 - 1 /\ w[1] = raw[4] /\ 1 \in 1..16 /\ 4 \in 1..16
        BY <1>12, <2>3
      <4> QED
        BY <2>8, <4>1, Zenon
    <3>2. At(buf, off + 8 + place[2]) = w[2]
      <4>1. place[2] = 3 - 1 /\ w[2] = raw[3] /\ 2 \in 1..16 /\ 3 \in 1..16
        BY <1>12, <2>3
      <4> QED
        BY <2>8, <4>1, Zenon
    <3>3. At(buf, off + 8 + place[3]) = w[3]
      <4>1. place[3] = 2 - 1 /\ w[3] = raw[2] /\ 3 \in 1..16 /\ 2 \in 1..16
        BY <1>12, <2>3
      <4> QED
        BY <2>8, <4>1, Zenon
    <3>4. At(buf, off + 8 + place[4]) = w[4]
      <4>1. place[4] = 1 - 1 /\ w[4] = raw[1] /\ 4 \in 1..16 /\ 1 \in 1..16
        BY <1>12, <2>3
      <4> QED
        BY <2>8, <4>1, Zenon
    <3>5. At(buf, off + 8 + place[5]) = w[5]
      <4>1. place[5] = 6 - 1 /\ w[5] = raw[6] /\ 5 \in 1..16 /\ 6 \in 1..16
        BY <1>12, <2>3
      <4> QED
        BY <2>8, <4>1, Zenon
    <3>6. At(buf, off + 8 + place[6]) = w[6]
      <4>1. place[6] = 5 - 1 /\ w[6] = raw[5] /\ 6 \in 1..16 /\ 5 \in 1..16
        BY <1>12, <2>3
      <4> QED
        BY <2>8, <4>1, Zenon
    <3>7. At(buf, off + 8 + place[7]) = w[7]
      <4>1. place[7] = 8 - 1 /\ w[7] = raw[8] /\ 7 \in 1..16 /\ 8 \in 1..16
        BY <1>12, <2>3
      <4> QED
        BY <2>8, <4>1, Zenon
    <3>8. At(buf, off + 8 + place[8]) = w[8]
      <4>1. place[8] = 7 - 1 /\ w[8] = raw[7] /\ 8 \in 1..16 /\ 7 \in 1..16
        BY <1>12, <2>3
      <4> QED
        BY <2>8, <4>1, Zenon
    <3> QED
      BY <2>7, <3>1, <3>2, <3>3, <3>4, <3>5, <3>6, <3>7, <3>8, Zenon
  <2> QED
    BY <2>6, <2>7
<1>14. UuidAt(buf, off + 8) = [k \in 1..16 |-> At(buf, off + 8 + place[k])]
  BY DEF UuidAt
<1>15. [k \in 1..16 |-> At(buf, off + 8 + place[k])] = [k \in 1..16 |-> w[k]]
  BY <1>13, Zenon
<1>16. [k \in 1..16 |-> w[k]] = w
  BY <1>11
<1> QED
  BY <1>3, <1>8, <1>14, <1>15, <1>16, Zenon DEF Printed

\* The structures typed are structures that there are.
TableTyped == kind = "smbios" => input \in Seq(Structures)

\* TableTyped holds in every state.
LEMMA TableInvariant == Spec => []TableTyped
<1>1. Init => TableTyped
  <2>1. <<>> \in Seq(Structures)
    OBVIOUS
  <2> QED
    BY <2>1, Zenon DEF Init, TableTyped
<1>2. TableTyped /\ [Next]_vars => TableTyped'
  <2> SUFFICES ASSUME TableTyped, [Next]_vars, kind' = "smbios" PROVE input' \in Seq(Structures)
    BY Zenon DEF TableTyped
  <2>1. CASE UNCHANGED vars
    BY <2>1 DEF vars, TableTyped
  <2>2. CASE Next
    <3>1. PICK piece \in Pieces : kind' = kind /\ input' = Append(input, piece)
      BY <2>2, Zenon DEF Next, Extend
    <3>2. piece \in Structures /\ input \in Seq(Structures)
      BY <3>1 DEF Pieces, TableTyped
    <3> QED
      BY <3>1, <3>2, AppendProperties
  <2> QED
    BY <2>1, <2>2
<1> QED
  BY <1>1, <1>2, PTL DEF Spec

\* The structures typed stand in the table one behind the other, behind its
\* header.
LEMMA TableIs ==
    ASSUME StructuresReadable, input \in Seq(Structures),
           NEW n, n = Len(input), NEW p, p = [i \in 1..n |-> StructureBytes(i)],
           NEW buf, buf = [k \in 1..HeaderLen |-> 0] \o FlattenSeq(p),
           NEW ty, ty = [i \in 1..n |-> input[i].type],
           NEW le, le = [i \in 1..n |-> input[i].length],
           NEW st, st = [i \in 1..n + 1 |-> 8 + Start(p, i)]
    PROVE  /\ Table(buf, n, st, p, ty, le) /\ st[1] = HeaderLen
           /\ \A i \in 1..n : st[i] >= HeaderLen
<1>1. n \in Nat /\ \A i \in 1..n : input[i] \in Structures
  BY Elements
<1>2. \A i \in 1..n : IsStructure(p[i], ty[i], le[i])
  <2> SUFFICES ASSUME NEW i \in 1..n PROVE IsStructure(p[i], ty[i], le[i])
    OBVIOUS
  <2>1. i \in Nat /\ input[i] \in Structures
    BY <1>1
  <2>2. IsStructure(StructureBytes(i), input[i].type, input[i].length)
    BY <2>1, StructureIs, Zenon
  <2>3. p[i] = StructureBytes(i) /\ ty[i] = input[i].type /\ le[i] = input[i].length
    BY Zenon
  <2> QED
    BY <2>2, <2>3, Zenon
<1>3. p \in Seq(Seq(Nat)) /\ Len(p) = n
  <2>1. \A i \in 1..n : p[i] \in Seq(Nat)
    BY <1>2, Zenon DEF IsStructure
  <2>2. PICK g : g = [i \in 1..n |-> p[i]]
    OBVIOUS
  <2>3. g \in Seq(Seq(Nat)) /\ Len(g) = n
    BY <1>1, <2>1, <2>2
  <2>4. g = p
    <3>1. \A i \in 1..n : p[i] = StructureBytes(i)
      BY Zenon
    <3> QED
      BY <2>2, <3>1, Zenon
  <2> QED
    BY <2>3, <2>4, Zenon
<1>4. PICK t, z : t = FlattenSeq(p) /\ z = [k \in 1..HeaderLen |-> 0]
  OBVIOUS
<1>5. z \in Seq(Nat) /\ Len(z) = 8 /\ t \in Seq(Nat)
  <2>1. z = [k \in 1..8 |-> 0]
    BY <1>4 DEF HeaderLen
  <2>2. t \in Seq(Nat)
    BY <1>3, <1>4, FlattenType, Zenon
  <2> QED
    BY <2>1, <2>2
<1>6. PICK h \in Nat, l \in Nat : h = 8 /\ l = Len(t)
  <2>1. 8 \in Nat /\ Len(t) \in Nat
    BY <1>5
  <2> QED
    BY <2>1, Zenon
<1>7. buf \in Seq(Nat) /\ Len(buf) = 8 + l /\ \A k \in 1..l : buf[8 + k] = t[k]
  <2>1. buf = z \o t
    BY <1>4, Zenon
  <2>2. Behind(buf, z, h, t, l) /\ buf \in Seq(Nat)
    BY <1>5, <1>6, <2>1, BehindIs, Zenon
  <2> QED
    BY <1>6, <2>2 DEF Behind
<1>8. /\ \A i \in 1..n : StandsAt(t, p, i)
      /\ Start(p, 1) = 0 /\ Start(p, n + 1) = l
  BY <1>3, <1>4, <1>6, PiecesPlaced, Zenon
<1>9. ASSUME NEW i \in 1..n
      PROVE  /\ st[i] \in Nat /\ st[i + 1] = st[i] + Len(p[i]) /\ st[i + 1] <= Len(buf)
             /\ \A k \in 1..Len(p[i]) : buf[st[i] + k] = p[i][k]
             /\ st[i] >= HeaderLen
  <2>1. PICK s, e, q : s = Start(p, i) /\ e = Start(p, i + 1) /\ q = Len(p[i])
    OBVIOUS
  <2>2. s \in Nat /\ e = s + q /\ e <= l /\ \A k \in 1..q : t[s + k] = p[i][k]
    BY <1>6, <1>8, <2>1 DEF StandsAt
  <2>3. q \in Nat
    <3>1. p[i] \in Seq(Nat)
      BY <1>3, Elements
    <3> QED
      BY <2>1, <3>1
  <2>4. i \in 1..n + 1 /\ i + 1 \in 1..n + 1
    BY <1>1
  <2>5. st[i] = 8 + s /\ st[i + 1] = 8 + e
    BY <2>1, <2>4, Zenon
  <2>6. \A k \in 1..q : buf[8 + s + k] = p[i][k]
    <3>1. \A k \in 1..q : s + k \in 1..l /\ 8 + s + k = 8 + (s + k)
      BY <2>2, <2>3
    <3> QED
      BY <1>7, <2>2, <3>1
  <2> QED
    <3>1. /\ 8 + s \in Nat /\ 8 + e = 8 + s + q /\ 8 + e <= Len(buf) /\ 8 + s >= HeaderLen
      BY <1>6, <1>7, <2>2, <2>3 DEF HeaderLen
    <3>2. PICK a, b : a = 8 + s /\ b = 8 + e
      OBVIOUS
    <3>3. st[i] = a /\ st[i + 1] = b /\ q = Len(p[i])
      BY <2>1, <2>5, <3>2, Zenon
    <3>4. a \in Nat /\ b = a + q /\ b <= Len(buf) /\ a >= HeaderLen
      BY <3>1, <3>2, Zenon
    <3>5. \A k \in 1..q : buf[a + k] = p[i][k]
      BY <2>6, <3>2, Zenon
    <3> QED
      BY <3>3, <3>4, <3>5, Zenon
<1>10. st[1] = HeaderLen /\ st[n + 1] = Len(buf)
  <2>1. 1 \in 1..n + 1 /\ n + 1 \in 1..n + 1
    BY <1>1
  <2>2. st[1] = 8 + 0 /\ st[n + 1] = 8 + l
    BY <1>8, <2>1, Zenon
  <2> QED
    BY <1>7, <2>2 DEF HeaderLen
<1> QED
  BY <1>1, <1>2, <1>7, <1>9, <1>10, Zenon DEF Table

\* Whatever structures the table holds, and whatever strings they have, the
\* UUID that is read is that of the first System Information structure that has
\* one and that stands before the end-of-table structure, or none.
THEOREM FirstSystemUuidAlways ==
    ASSUME StructuresReadable PROVE Spec => []FirstSystemUuid
<1>1. TableTyped => FirstSystemUuid
  <2> SUFFICES ASSUME TableTyped, kind = "smbios" PROVE FirstSystemUuid
    BY Zenon DEF FirstSystemUuid
  <2>1. PICK n : n = Len(input)
    OBVIOUS
  <2>2. PICK p : p = [i \in 1..n |-> StructureBytes(i)]
    OBVIOUS
  <2>3. PICK buf : buf = [k \in 1..HeaderLen |-> 0] \o FlattenSeq(p)
    OBVIOUS
  <2>4. PICK ty : ty = [i \in 1..n |-> input[i].type]
    OBVIOUS
  <2>5. PICK le : le = [i \in 1..n |-> input[i].length]
    OBVIOUS
  <2>6. PICK st : st = [i \in 1..n + 1 |-> 8 + Start(p, i)]
    OBVIOUS
  <2>7. input \in Seq(Structures)
    BY Zenon DEF TableTyped
  <2>8. /\ Table(buf, n, st, p, ty, le) /\ st[1] = HeaderLen
        /\ \A i \in 1..n : st[i] >= HeaderLen
    BY <2>1, <2>2, <2>3, <2>4, <2>5, <2>6, <2>7, TableIs, Zenon
  <2> DEFINE systems == {i \in 1..Len(input) :
                            /\ input[i].type = 1 /\ input[i].length >= 25
                            /\ \A j \in 1..i : input[j].type # 127}
             m == Min(systems)
             raw == SubSeq(StructureBytes(m), 9, 24)
             uuid == Reverse(SubSeq(raw, 1, 4)) \o Reverse(SubSeq(raw, 5, 6))
                     \o Reverse(SubSeq(raw, 7, 8)) \o SubSeq(raw, 9, 16)
  <2>9. n \in Nat /\ buf \in Seq(Nat)
    BY <2>8 DEF Table
  <2>10. systems = Systems(n, ty, le, 1)
    <3>1. \A i \in 1..n : ty[i] = input[i].type /\ le[i] = input[i].length
      BY <2>4, <2>5
    <3>2. \A i \in 1..n : \A j \in 1..i : j \in 1..n
      BY <2>9
    <3> QED
      BY <2>1, <3>1, <3>2 DEF Systems
  <2>11. ASSUME NEW i \in systems
         PROVE  /\ i \in 1..n /\ p[i] = StructureBytes(i) /\ p[i] \in Seq(Nat) /\ Len(p[i]) >= 27
                /\ st[i] \in Nat /\ \A k \in 1..Len(p[i]) : buf[st[i] + k] = p[i][k]
                /\ st[i] + Len(p[i]) <= Len(buf)
    <3>1. i \in 1..n /\ le[i] >= 25
      BY <2>10, <2>11 DEF Systems
    <3>2. /\ IsStructure(p[i], ty[i], le[i]) /\ st[i] \in Nat
          /\ \A k \in 1..Len(p[i]) : buf[st[i] + k] = p[i][k]
          /\ st[i + 1] = st[i] + Len(p[i]) /\ st[i + 1] <= Len(buf)
      BY <2>8, <3>1, Zenon DEF Table
    <3>3. p[i] \in Seq(Nat) /\ le[i] \in Nat /\ Len(p[i]) >= le[i] + 2
      BY <3>2, Zenon DEF IsStructure
    <3>4. Len(p[i]) >= 27
      BY <3>1, <3>3
    <3>5. p[i] = StructureBytes(i)
      BY <2>2, <3>1, Zenon
    <3> QED
      BY <3>1, <3>2, <3>3, <3>4, <3>5
  <2>12. systems # {} => m \in systems
    <3>1. systems \in SUBSET Nat
      BY <2>1, <2>9
    <3> QED
      BY <3>1, Smallest, Zenon
  <2>13. systems # {} => UuidAt(buf, st[m] + 8) = uuid
    <3> SUFFICES ASSUME systems # {} PROVE UuidAt(buf, st[m] + 8) = uuid
      OBVIOUS
    <3>1. m \in systems
      BY <2>12
    <3>2. PICK off, b, r : off = st[m] /\ b = StructureBytes(m) /\ r = raw
      OBVIOUS
    <3> HIDE DEF systems, m
    <3>3. /\ b \in Seq(Nat) /\ Len(b) >= 27 /\ off \in Nat
          /\ \A k \in 1..Len(b) : buf[off + k] = b[k]
      BY <2>11, <3>1, <3>2
    <3>4. r = SubSeq(b, 9, 24)
      BY <3>2, Zenon
    <3>5. Printed(UuidAt(buf, off + 8), r)
      BY <2>9, <3>3, <3>4, UuidIs, Zenon
    <3> QED
      BY <3>2, <3>5, Zenon DEF Printed
  <2>14. RawSmbiosUuid(buf) = IF systems = {} THEN <<>> ELSE UuidAt(buf, st[m] + 8)
    <3>1. CASE Len(buf) < 32
      <4>1. RawSmbiosUuid(buf) = <<>>
        BY <3>1 DEF RawSmbiosUuid
      <4>2. systems = {}
        <5>1. ASSUME NEW i \in systems PROVE FALSE
          <6>1. /\ i \in 1..n /\ Len(p[i]) >= 27 /\ st[i] \in Nat /\ p[i] \in Seq(Nat)
                /\ st[i] + Len(p[i]) <= Len(buf)
            BY <2>11, <5>1
          <6>2. st[i] >= 8
            BY <2>8, <6>1 DEF HeaderLen
          <6> QED
            BY <2>9, <3>1, <6>1, <6>2
        <5> HIDE DEF systems
        <5> QED
          BY <5>1
      <4> QED
        BY <4>1, <4>2, Zenon
    <3>2. CASE ~(Len(buf) < 32)
      <4>1. Len(buf) >= 32
        BY <2>9, <3>2
      <4>2. PICK f : IsWalk(f, buf) /\ RawSmbiosUuid(buf) = f[HeaderLen]
        BY <2>9, <4>1, WalkIs, Zenon
      <4>3. Finds(f, buf, n, st, ty, le, 1)
        BY <2>8, <4>2, WalkFinds, Zenon
      <4> HIDE DEF systems
      <4> QED
        BY <2>8, <2>10, <4>2, <4>3, Zenon DEF Finds
    <3> QED
      BY <3>1, <3>2
  <2>15. RawSmbiosUuid(buf) = IF systems = {} THEN <<>> ELSE uuid
    <3> HIDE DEF systems, m, uuid
    <3> QED
      BY <2>13, <2>14, Zenon
  <2> QED
    BY <2>1, <2>2, <2>3, <2>15, Zenon DEF FirstSystemUuid
<1> QED
  BY <1>1, TableInvariant, PTL
=============================================================================
