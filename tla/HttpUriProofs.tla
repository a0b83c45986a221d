--------------------------- MODULE HttpUriProofs ---------------------------
(***************************************************************************)
(* Proofs about HttpUri for every text. First what find and substr give: a  *)
(* text that ends before the first of some characters, cut at one more, has *)
(* its end where the text as a whole has the first of all these. With that  *)
(* each cut of parseUri is where the grammar has the end of a part. Then    *)
(* the loop of encodeBase64: behind q whole groups, at most two bytes wait  *)
(* in charArray. The inductive invariant says stage by stage what is cut    *)
(* off and what is left to cut.                                             *)
(***************************************************************************)
EXTENDS HttpUri, FiniteSetTheorems, SequenceTheorems, NaturalsInduction,
        WellFoundedInduction, TLAPS

\* A set of numbers that is not empty has a least one.
LEMMA Least ==
    ASSUME NEW T, T \subseteq Nat, T # {}
    PROVE  \E n \in T : \A m \in T : n <= m
<1>1. IsWellFoundedOn(OpToRel(<, Nat), Nat)
  BY NatLessThanWellFounded, Zenon
<1>2. PICK n \in T : \A m \in T : ~(<<m, n>> \in OpToRel(<, Nat))
  BY <1>1, WFMin, Zenon
<1>3. \A m \in T : ~(m < n)
  BY <1>2, Zenon DEF OpToRel
<1> QED
  BY <1>3

\* n is the first position of s with one of these characters, or its end
IsFirst(s, cs, n) ==
    /\ n \in 1..(Len(s) + 1)
    /\ \A m \in 1..(n - 1) : s[m] \notin cs
    /\ n <= Len(s) => s[n] \in cs

\* First gives it, and there is no other.
LEMMA FirstIs ==
    ASSUME NEW X, NEW s \in Seq(X), NEW cs
    PROVE  /\ IsFirst(s, cs, First(s, cs))
           /\ \A n : IsFirst(s, cs, n) => n = First(s, cs)
<1> DEFINE T == {n \in 1..(Len(s) + 1) : n <= Len(s) => s[n] \in cs}
           P == {n \in DOMAIN s : \A m \in 1..n : s[m] \notin cs}
<1>0. Len(s) \in Nat /\ DOMAIN s = 1..Len(s)
  OBVIOUS
<1>1. ASSUME NEW n, IsFirst(s, cs, n) PROVE n = First(s, cs)
  <2>1. n \in Nat /\ n - 1 \in Nat /\ n \in 1..(Len(s) + 1)
    BY <1>0, <1>1 DEF IsFirst
  <2>2. P = 1..(n - 1)
    <3>1. ASSUME NEW k \in 1..(n - 1) PROVE k \in P
      BY <1>0, <1>1, <2>1, <3>1 DEF IsFirst
    <3>2. ASSUME NEW k \in P PROVE k \in 1..(n - 1)
      BY <1>0, <1>1, <2>1, <3>2 DEF IsFirst
    <3> QED
      BY <3>1, <3>2
  <2>3. Cardinality(1..(n - 1)) = n - 1
    BY <2>1, FS_Interval
  <2>4. First(s, cs) = Cardinality(P) + 1
    BY DEF First
  <2> HIDE DEF P
  <2> QED
    BY <2>1, <2>2, <2>3, <2>4
<1>2. \E n : IsFirst(s, cs, n)
  <2>1. T \subseteq Nat /\ Len(s) + 1 \in T
    BY <1>0
  <2>2. PICK n \in T : \A m \in T : n <= m
    <3> HIDE DEF T
    <3> QED
      BY <2>1, Least, Zenon
  <2>3. ASSUME NEW m \in 1..(n - 1) PROVE s[m] \notin cs
    BY <1>0, <2>2
  <2> QED
    BY <2>2, <2>3 DEF IsFirst
<1> QED
  BY <1>1, <1>2

\* A part of a text.
LEMMA Part ==
    ASSUME NEW X, NEW s \in Seq(X), NEW a \in Nat \ {0}, NEW b \in Nat, b <= Len(s)
    PROVE  /\ SubSeq(s, a, b) \in Seq(X)
           /\ Len(SubSeq(s, a, b)) = IF a <= b THEN b - a + 1 ELSE 0
           /\ \A k \in 1..(b - a + 1) : SubSeq(s, a, b)[k] = s[a + k - 1]
<1>1. \A k \in a..b : s[k] \in X
  OBVIOUS
<1> QED
  BY <1>1, SubSeqProperties

\* w is the part of s from a to b
IsPart(X, s, a, b, w) ==
    /\ w \in Seq(X) /\ Len(w) = (IF a <= b THEN b - a + 1 ELSE 0)
    /\ \A k \in 1..(b - a + 1) : w[k] = s[a + k - 1]

\* Part, for a part with a name.
LEMMA PartIs ==
    ASSUME NEW X, NEW s \in Seq(X), NEW a \in Nat \ {0}, NEW b \in Nat, b <= Len(s),
           NEW w, w = SubSeq(s, a, b)
    PROVE  IsPart(X, s, a, b, w)
<1>1. /\ SubSeq(s, a, b) \in Seq(X)
      /\ Len(SubSeq(s, a, b)) = IF a <= b THEN b - a + 1 ELSE 0
      /\ \A k \in 1..(b - a + 1) : SubSeq(s, a, b)[k] = s[a + k - 1]
  BY Part
<1> QED
  BY <1>1, Zenon DEF IsPart

\* A part of the beginning of a text is a part of the text.
LEMMA PartOfPart ==
    ASSUME NEW X, NEW s \in Seq(X), NEW e \in 1..(Len(s) + 1),
           NEW t, t = SubSeq(s, 1, e - 1),
           NEW a \in 1..e, NEW b \in 0..(e - 1)
    PROVE  t \in Seq(X) /\ Len(t) = e - 1 /\ SubSeq(t, a, b) = SubSeq(s, a, b)
<1> DEFINE u == SubSeq(t, a, b)
           w == SubSeq(s, a, b)
<1>0. Len(s) \in Nat /\ e - 1 \in Nat /\ e - 1 <= Len(s) /\ a \in Nat \ {0} /\ b \in Nat
      /\ b <= Len(s)
  OBVIOUS
<1>1. t \in Seq(X) /\ Len(t) = e - 1 /\ \A k \in 1..(e - 1) : t[k] = s[k]
  <2>1. /\ SubSeq(s, 1, e - 1) \in Seq(X)
        /\ Len(SubSeq(s, 1, e - 1)) = IF 1 <= e - 1 THEN e - 1 - 1 + 1 ELSE 0
        /\ \A k \in 1..(e - 1 - 1 + 1) : SubSeq(s, 1, e - 1)[k] = s[1 + k - 1]
    BY <1>0, Part
  <2> QED
    BY <1>0, <2>1
<1>2. /\ u \in Seq(X) /\ Len(u) = (IF a <= b THEN b - a + 1 ELSE 0)
      /\ \A k \in 1..(b - a + 1) : u[k] = t[a + k - 1]
  <2>1. b <= Len(t)
    BY <1>0, <1>1
  <2>2. IsPart(X, t, a, b, u)
    BY <1>0, <1>1, <2>1, PartIs, Zenon
  <2> QED
    BY <2>2, Zenon DEF IsPart
<1>3. /\ w \in Seq(X) /\ Len(w) = (IF a <= b THEN b - a + 1 ELSE 0)
      /\ \A k \in 1..(b - a + 1) : w[k] = s[a + k - 1]
  <2>1. IsPart(X, s, a, b, w)
    BY <1>0, PartIs, Zenon
  <2> QED
    BY <2>1, Zenon DEF IsPart
<1> HIDE DEF u, w
<1>4. \A k \in 1..(b - a + 1) : a + k - 1 \in 1..(e - 1)
  BY <1>0
<1>5. \A k \in 1..Len(u) : u[k] = w[k]
  BY <1>0, <1>1, <1>2, <1>3, <1>4
<1>6. u = w
  BY <1>2, <1>3, <1>5, SeqEqual, Zenon
<1> QED
  BY <1>1, <1>6 DEF u, w

\* Where find finds a character, and the texts that it cuts.
LEMMA FindIs ==
    ASSUME NEW X, NEW s \in Seq(X), NEW ch
    PROVE  /\ Find(s, ch) = First(s, {ch})
           /\ Has(s, ch) <=> First(s, {ch}) <= Len(s)
           /\ First(s, {ch}) \in 1..(Len(s) + 1)
           /\ Has(s, ch) => s[First(s, {ch})] = ch
<1>1. Find(s, ch) = First(s, {ch})
  <2>1. {n \in DOMAIN s : \A m \in 1..n : s[m] # ch}
          = {n \in DOMAIN s : \A m \in 1..n : s[m] \notin {ch}}
    OBVIOUS
  <2> QED
    BY <2>1 DEF Find, First
<1>2. IsFirst(s, {ch}, First(s, {ch}))
  BY FirstIs
<1> DEFINE p == First(s, {ch})
<1> HIDE DEF p
<1>3. /\ p \in 1..(Len(s) + 1) /\ \A m \in 1..(p - 1) : s[m] # ch
      /\ p <= Len(s) => s[p] = ch
  BY <1>2, Zenon DEF IsFirst, p
<1>4. Has(s, ch) <=> p <= Len(s)
  <2>1. DOMAIN s = 1..Len(s) /\ Len(s) \in Nat
    OBVIOUS
  <2>2. ASSUME NEW n \in DOMAIN s, s[n] = ch PROVE p <= Len(s)
    BY <1>3, <2>1, <2>2
  <2>3. ASSUME p <= Len(s) PROVE p \in DOMAIN s /\ s[p] = ch
    BY <1>3, <2>1, <2>3
  <2> QED
    BY <2>2, <2>3 DEF Has
<1> QED
  BY <1>1, <1>3, <1>4 DEF p

\* s, the text up to e, is cut at ch at the place p of the text R
CutIn(R, s, ch, e, p) ==
    /\ (IF Has(s, ch) THEN Before(s, ch) ELSE s) = SubSeq(R, 1, p - 1)
    /\ (IF Has(s, ch) THEN Behind(s, ch) ELSE <<>>) = SubSeq(R, p + 1, e - 1)
    /\ (IF Has(s, ch) THEN <<ch>> \o Behind(s, ch) ELSE <<>>) = SubSeq(R, p, e - 1)
    /\ Has(s, ch) => SubSeq(R, p, e - 1) # <<>>

\* A text that ends before the first of the characters cs is cut at ch where
\* the text as a whole has the first of cs or ch.
LEMMA CutAt ==
    ASSUME NEW X, NEW R \in Seq(X), NEW cs, NEW ch,
           NEW e, IsFirst(R, cs, e), NEW s, s = SubSeq(R, 1, e - 1),
           NEW p, p = First(R, cs \cup {ch})
    PROVE  IsFirst(R, cs \cup {ch}, p) /\ CutIn(R, s, ch, e, p)
<1>0. e \in 1..(Len(R) + 1) /\ Len(R) \in Nat
  BY DEF IsFirst
<1>1. s \in Seq(X) /\ Len(s) = e - 1 /\ \A k \in 1..(e - 1) : s[k] = R[k]
  <2>1. e - 1 \in Nat /\ e - 1 <= Len(R)
    BY <1>0
  <2>2. /\ SubSeq(R, 1, e - 1) \in Seq(X)
        /\ Len(SubSeq(R, 1, e - 1)) = IF 1 <= e - 1 THEN e - 1 - 1 + 1 ELSE 0
        /\ \A k \in 1..(e - 1 - 1 + 1) : SubSeq(R, 1, e - 1)[k] = R[1 + k - 1]
    BY <2>1, Part
  <2> QED
    BY <1>0, <2>2
<1>2. IsFirst(R, cs \cup {ch}, p)
  BY FirstIs
<1>3. p \in 1..(Len(R) + 1) /\ p <= e
  <2>1. /\ p \in 1..(Len(R) + 1)
        /\ \A m \in 1..(p - 1) : R[m] \notin cs
        /\ e <= Len(R) => R[e] \in cs
    BY <1>2, Zenon DEF IsFirst
  <2>2. ASSUME ~(p <= e) PROVE FALSE
    <3>1. e \in 1..(p - 1) /\ e <= Len(R)
      BY <1>0, <2>1, <2>2
    <3> QED
      BY <2>1, <3>1, Zenon
  <2> QED
    BY <2>1, <2>2
<1>4. IsFirst(s, {ch}, p)
  <2>1. /\ \A m \in 1..(p - 1) : R[m] # ch
        /\ p <= Len(R) => R[p] \in cs \cup {ch}
        /\ \A m \in 1..(e - 1) : R[m] \notin cs
    BY <1>2, Zenon DEF IsFirst
  <2>2. p \in 1..(Len(s) + 1)
    BY <1>0, <1>1, <1>3
  <2>3. \A m \in 1..(p - 1) : s[m] \notin {ch}
    <3>1. \A m \in 1..(p - 1) : m \in 1..(e - 1)
      BY <1>0, <1>3
    <3> QED
      BY <1>1, <2>1, <3>1, Zenon
  <2>4. ASSUME p <= Len(s) PROVE s[p] \in {ch}
    <3>1. p \in 1..(e - 1) /\ p <= Len(R)
      BY <1>0, <1>1, <1>3, <2>4
    <3> QED
      BY <1>1, <2>1, <3>1
  <2> QED
    BY <2>2, <2>3, <2>4, Zenon DEF IsFirst
<1>5. p = First(s, {ch})
  BY <1>1, <1>4, FirstIs, Zenon
<1>6. Has(s, ch) <=> p < e
  <2>1. Has(s, ch) <=> p <= Len(s)
    BY <1>1, <1>5, FindIs, Zenon
  <2> QED
    BY <1>0, <1>1, <1>3, <2>1
<1>7. \A a \in 1..e, b \in 0..(e - 1) : SubSeq(s, a, b) = SubSeq(R, a, b)
  BY <1>0, PartOfPart
<1>8. ASSUME p < e
      PROVE  /\ R[p] = ch
             /\ Before(s, ch) = SubSeq(R, 1, p - 1)
             /\ Behind(s, ch) = SubSeq(R, p + 1, e - 1)
  <2>1. Find(s, ch) = p
    BY <1>1, <1>5, FindIs, Zenon
  <2>2. p \in 1..(e - 1) /\ p <= Len(s)
    BY <1>0, <1>1, <1>3, <1>8
  <2>3. s[p] = ch
    BY <1>4, <2>2 DEF IsFirst
  <2>4. 1 \in 1..e /\ p - 1 \in 0..(e - 1) /\ p + 1 \in 1..e /\ e - 1 \in 0..(e - 1)
    BY <1>0, <1>3, <1>8
  <2>5. /\ SubSeq(s, 1, p - 1) = SubSeq(R, 1, p - 1)
        /\ SubSeq(s, p + 1, e - 1) = SubSeq(R, p + 1, e - 1)
    BY <1>7, <2>4, Zenon
  <2> QED
    BY <1>1, <2>1, <2>2, <2>3, <2>5, Zenon DEF Before, Behind
<1>9. p \in 1..e
  BY <1>0, <1>3
<1>10. ASSUME p < e PROVE CutIn(R, s, ch, e, p)
  <2> DEFINE d == e - 1
  <2>1. p \in 1..Len(R) /\ d \in p..Len(R) /\ d \in Nat /\ p \in Nat \ {0}
    BY <1>0, <1>9, <1>10
  <2> HIDE DEF d
  <2>2. SubSeq(R, p, d) = <<R[p]>> \o SubSeq(R, p + 1, d)
    BY <2>1, SubSeqRecursiveFirst, Zenon
  <2>3. Len(SubSeq(R, p, d)) = d - p + 1
    <3>1. Len(SubSeq(R, p, d)) = IF p <= d THEN d - p + 1 ELSE 0
      BY <2>1, <1>0, Part
    <3> QED
      BY <2>1, <3>1
  <2>4. SubSeq(R, p, d) # <<>>
    <3>1. d - p + 1 # 0 /\ Len(<<>>) = 0
      BY <2>1
    <3> QED
      BY <2>3, <3>1, Zenon
  <2> QED
    BY <1>6, <1>8, <1>10, <2>2, <2>4, Zenon DEF d, CutIn
<1>11. ASSUME p = e PROVE CutIn(R, s, ch, e, p)
  <2>1. SubSeq(R, p + 1, e - 1) = <<>> /\ SubSeq(R, p, e - 1) = <<>>
    <3>1. \A m, n \in Int : n < m => SubSeq(R, m, n) = <<>>
      BY SubSeqEmpty
    <3>2. p + 1 \in Int /\ e - 1 \in Int /\ p \in Int /\ e - 1 < p + 1 /\ e - 1 < p
      BY <1>0, <1>11
    <3> QED
      BY <3>1, <3>2, Zenon
  <2>2. ~Has(s, ch)
    BY <1>0, <1>6, <1>11
  <2>3. s = SubSeq(R, 1, p - 1)
    BY <1>11, Zenon
  <2> QED
    BY <2>1, <2>2, <2>3, Zenon DEF CutIn
<1>12. p < e \/ p = e
  BY <1>0, <1>9
<1> QED
  BY <1>2, <1>10, <1>11, <1>12

\* Nothing is lost or doubled where a text is cut in two.
LEMMA SplitAt ==
    ASSUME NEW X, NEW s \in Seq(X), NEW ch, Has(s, ch)
    PROVE  /\ Before(s, ch) \in Seq(X) /\ Behind(s, ch) \in Seq(X)
           /\ s = Before(s, ch) \o <<ch>> \o Behind(s, ch)
<1> DEFINE p == First(s, {ch})
           l == Len(s)
           q == p - 1
<1>1. p \in 1..l /\ s[p] = ch /\ Find(s, ch) = p /\ l \in Nat
  <2>1. /\ Find(s, ch) = First(s, {ch})
        /\ First(s, {ch}) <= Len(s)
        /\ First(s, {ch}) \in 1..(Len(s) + 1)
        /\ s[First(s, {ch})] = ch
    BY FindIs
  <2> QED
    BY <2>1
<1> HIDE DEF p, l
<1>2. q \in 0..l /\ q \in (1 - 1)..l /\ l \in q..l /\ q + 1 = p /\ q \in Nat /\ q <= l
      /\ 1 \in 1..(l + 1) /\ l \in p..l /\ p + 1 \in Nat \ {0} /\ 1 \in Nat \ {0}
  BY <1>1
<1> HIDE DEF q
<1>3. SubSeq(s, 1, q) \o SubSeq(s, q + 1, l) = SubSeq(s, 1, l)
  BY <1>2, ConcatAdjacentSubSeq, Zenon DEF l
<1>4. SubSeq(s, 1, l) = s
  BY SubSeqFull DEF l
<1>5. SubSeq(s, p, l) = <<s[p]>> \o SubSeq(s, p + 1, l)
  BY <1>1, <1>2, SubSeqRecursiveFirst DEF l
<1>6. SubSeq(s, 1, q) \in Seq(X) /\ SubSeq(s, p + 1, l) \in Seq(X)
  <2>1. \A a \in Nat \ {0}, b \in Nat : b <= Len(s) => SubSeq(s, a, b) \in Seq(X)
    BY Part
  <2> QED
    BY <1>1, <1>2, <2>1 DEF l
<1>7. <<ch>> \in Seq(X)
  <2>1. s[p] \in X
    BY <1>1 DEF l
  <2> QED
    BY <1>1, <2>1
<1>8. Before(s, ch) = SubSeq(s, 1, q) /\ Behind(s, ch) = SubSeq(s, p + 1, l)
  BY <1>1 DEF Before, Behind, q, l
<1> DEFINE u == SubSeq(s, 1, q)
           w == SubSeq(s, p + 1, l)
<1>9. s = u \o (<<ch>> \o w)
  BY <1>1, <1>2, <1>3, <1>4, <1>5, Zenon
<1>10. u \in Seq(X) /\ w \in Seq(X)
  BY <1>6
<1> HIDE DEF u, w
<1>11. (u \o <<ch>>) \o w = u \o (<<ch>> \o w)
  BY <1>7, <1>10, ConcatAssociative
<1> QED
  BY <1>8, <1>9, <1>10, <1>11, Zenon DEF u, w

----------------------------------------------------------------------------
(* encodeBase64.                                                            *)

\* the bits of a character, and the bytes of four of them
Digit(ch) == IF ch = 64 THEN 0 ELSE ch
Bytes(w, x, y, z) == <<Digit(w) * 4 + Digit(x) \div 16,
                       (Digit(x) % 16) * 16 + Digit(y) \div 4,
                       (Digit(y) % 4) * 64 + Digit(z)>>

\* the characters w, x, y and z carry the bytes a, b and d
Hold(w, x, y, z, a, b, d) ==
    /\ w \in 0..63 /\ x \in 0..63 /\ y \in 0..63 /\ z \in 0..63
    /\ Bytes(w, x, y, z) = <<a, b, d>>

\* The four characters of three bytes carry these bytes.
LEMMA Quantum ==
    ASSUME NEW a \in 0..255, NEW b \in 0..255, NEW d \in 0..255
    PROVE  Hold(Encoder!First(a), Encoder!Second(a, b), Encoder!Third(b, d),
                Encoder!Fourth(d), a, b, d)
<1> DEFINE w == Encoder!First(a)
           x == Encoder!Second(a, b)
           y == Encoder!Third(b, d)
           z == Encoder!Fourth(d)
<1>1. /\ w \in 0..63 /\ x \in 0..63 /\ y \in 0..63 /\ z \in 0..63
      /\ w * 4 + x \div 16 = a
      /\ (x % 16) * 16 + y \div 4 = b
      /\ (y % 4) * 64 + z = d
  BY DEF Encoder!First, Encoder!Second, Encoder!Third, Encoder!Fourth
<1> HIDE DEF w, x, y, z
<1>2. Digit(w) = w /\ Digit(x) = x /\ Digit(y) = y /\ Digit(z) = z
  <2>1. \A n \in 0..63 : Digit(n) = n
    BY DEF Digit
  <2> QED
    BY <1>1, <2>1
<1>3. Hold(w, x, y, z, a, b, d)
  BY <1>1, <1>2 DEF Hold, Bytes
<1> QED
  BY <1>3 DEF w, x, y, z

\* Decoded looks at the four characters of its group.
LEMMA DecodedIs ==
    ASSUME NEW s, NEW g \in Nat
    PROVE  Encoder!Decoded(s, g)
             = Bytes(s[4 * g + 1], s[4 * g + 2], s[4 * g + 3], s[4 * g + 4])
BY DEF Encoder!Decoded, Bytes, Digit, Encoder!Pad

\* t is s, of q groups, with one more
OneMore(s, t, q, w, x, y, z) ==
    /\ t \in Seq(0..64) /\ Len(t) = 4 * q + 4
    /\ \A n \in 1..(4 * q) : t[n] = s[n]
    /\ t[4 * q + 1] = w /\ t[4 * q + 2] = x /\ t[4 * q + 3] = y /\ t[4 * q + 4] = z
    /\ \A g \in 0..(q - 1) : Encoder!Decoded(t, g) = Encoder!Decoded(s, g)
    /\ Encoder!Decoded(t, q) = Bytes(w, x, y, z)

\* Four more characters leave the groups before them alone.
LEMMA GroupAppended ==
    ASSUME NEW s \in Seq(0..64), NEW q \in Nat, Len(s) = 4 * q,
           NEW w \in 0..64, NEW x \in 0..64, NEW y \in 0..64, NEW z \in 0..64,
           NEW t, t = s \o <<w, x, y, z>>
    PROVE  OneMore(s, t, q, w, x, y, z)
<1> DEFINE f == <<w, x, y, z>>
<1>1. f \in Seq(0..64) /\ Len(f) = 4 /\ f[1] = w /\ f[2] = x /\ f[3] = y /\ f[4] = z
  OBVIOUS
<1> HIDE DEF f
<1>2. /\ t \in Seq(0..64) /\ Len(t) = Len(s) + Len(f)
      /\ \A n \in 1..(Len(s) + Len(f)) : t[n] = IF n <= Len(s) THEN s[n] ELSE f[n - Len(s)]
  <2>1. t = s \o f
    BY DEF f
  <2>2. /\ s \o f \in Seq(0..64) /\ Len(s \o f) = Len(s) + Len(f)
        /\ \A n \in 1..(Len(s) + Len(f)) :
              (s \o f)[n] = IF n <= Len(s) THEN s[n] ELSE f[n - Len(s)]
    <3>1. f \in Seq(0..64)
      BY <1>1
    <3> QED
      BY <3>1, ConcatProperties, Zenon
  <2> QED
    BY <2>1, <2>2, Zenon
<1>3. \A n \in 1..(4 * q + 4) : t[n] = IF n <= 4 * q THEN s[n] ELSE f[n - 4 * q]
  BY <1>1, <1>2, Zenon
<1>4. \A n \in 1..(4 * q) : t[n] = s[n]
  BY <1>3
<1>5. t[4 * q + 1] = w /\ t[4 * q + 2] = x /\ t[4 * q + 3] = y /\ t[4 * q + 4] = z
  <2>1. \A k \in 1..4 : /\ 4 * q + k \in 1..(4 * q + 4) /\ ~(4 * q + k <= 4 * q)
                        /\ 4 * q + k - 4 * q = k
    OBVIOUS
  <2>2. ASSUME NEW k \in 1..4 PROVE t[4 * q + k] = f[k]
    <3>1. PICK n \in 1..(4 * q + 4) : n = 4 * q + k
      BY <2>1
    <3>2. ~(n <= 4 * q) /\ n - 4 * q = k
      BY <3>1
    <3>3. t[n] = f[n - 4 * q]
      BY <1>3, <3>2, Zenon
    <3> QED
      BY <3>1, <3>2, <3>3
  <2>3. 1 \in 1..4 /\ 2 \in 1..4 /\ 3 \in 1..4 /\ 4 \in 1..4
    OBVIOUS
  <2> QED
    BY <1>1, <2>2, <2>3, Zenon
<1>6. ASSUME NEW g \in 0..(q - 1) PROVE Encoder!Decoded(t, g) = Encoder!Decoded(s, g)
  <2>1. g \in Nat /\ \A k \in 1..4 : 4 * g + k \in 1..(4 * q)
    OBVIOUS
  <2>2. /\ t[4 * g + 1] = s[4 * g + 1] /\ t[4 * g + 2] = s[4 * g + 2]
        /\ t[4 * g + 3] = s[4 * g + 3] /\ t[4 * g + 4] = s[4 * g + 4]
    <3>1. ASSUME NEW k \in 1..4 PROVE t[4 * g + k] = s[4 * g + k]
      BY <1>4, <2>1, Zenon
    <3>2. 1 \in 1..4 /\ 2 \in 1..4 /\ 3 \in 1..4 /\ 4 \in 1..4
      OBVIOUS
    <3> QED
      BY <3>1, <3>2, Zenon
  <2>3. /\ Encoder!Decoded(s, g)
             = Bytes(s[4 * g + 1], s[4 * g + 2], s[4 * g + 3], s[4 * g + 4])
        /\ Encoder!Decoded(t, g)
             = Bytes(t[4 * g + 1], t[4 * g + 2], t[4 * g + 3], t[4 * g + 4])
    BY <2>1, DecodedIs, Zenon
  <2> QED
    BY <2>2, <2>3
<1>7. Encoder!Decoded(t, q) = Bytes(w, x, y, z)
  <2>1. Encoder!Decoded(t, q)
          = Bytes(t[4 * q + 1], t[4 * q + 2], t[4 * q + 3], t[4 * q + 4])
    BY DecodedIs, Zenon
  <2> QED
    BY <1>5, <2>1, Zenon
<1>8. Len(t) = 4 * q + 4
  BY <1>1, <1>2
<1> QED
  BY <1>2, <1>4, <1>5, <1>6, <1>7, <1>8, Zenon DEF OneMore

\* the first q groups of characters carry the bytes of s
InGroups(s, characters, q) ==
    /\ \A n \in 1..(4 * q) : characters[n] \in 0..63
    /\ \A g \in 0..(q - 1), k \in 1..3 : Encoder!Decoded(characters, g)[k] = s[3 * g + k]

Groups(q) == Len(result) = 4 * q /\ InGroups(input, result, q)

\* the loop of encodeBase64: c bytes behind q groups are in charArray
Encoding ==
    /\ input \in Seq(0..255)
    /\ i \in 0..Len(input) /\ c \in 0..2
    /\ charArray \in [0..2 -> 0..255]
    /\ result \in Seq(0..64)
    /\ \E q \in Nat : /\ i = 3 * q + c /\ Groups(q)
                      /\ \A k \in 0..(c - 1) : charArray[k] = input[3 * q + k + 1]

\* A group of three bytes more.
LEMMA GroupMore ==
    ASSUME NEW q \in Nat, Groups(q), result \in Seq(0..64),
           NEW w, NEW x, NEW y, NEW z,
           Hold(w, x, y, z, input[3 * q + 1], input[3 * q + 2], input[3 * q + 3]),
           result' = result \o <<w, x, y, z>>, input' = input
    PROVE  result' \in Seq(0..64) /\ Groups(q + 1)'
<1>1. /\ result' \in Seq(0..64) /\ Len(result') = 4 * q + 4
      /\ \A n \in 1..(4 * q) : result'[n] = result[n]
      /\ result'[4 * q + 1] = w /\ result'[4 * q + 2] = x
      /\ result'[4 * q + 3] = y /\ result'[4 * q + 4] = z
      /\ \A g \in 0..(q - 1) : Encoder!Decoded(result', g) = Encoder!Decoded(result, g)
      /\ Encoder!Decoded(result', q) = Bytes(w, x, y, z)
  <2>1. Len(result) = 4 * q
    BY DEF Groups
  <2>2. w \in 0..64 /\ x \in 0..64 /\ y \in 0..64 /\ z \in 0..64
    BY DEF Hold
  <2>3. OneMore(result, result', q, w, x, y, z)
    BY <2>1, <2>2, GroupAppended, Zenon
  <2> QED
    BY <2>3, Zenon DEF OneMore
<1>2. \A n \in 1..(4 * (q + 1)) : result'[n] \in 0..63
  <2>1. \A n \in 1..(4 * (q + 1)) : \/ n \in 1..(4 * q)
                                    \/ n = 4 * q + 1 \/ n = 4 * q + 2
                                    \/ n = 4 * q + 3 \/ n = 4 * q + 4
    OBVIOUS
  <2> QED
    BY <1>1, <2>1, Zenon DEF Groups, InGroups, Hold
<1>3. ASSUME NEW g \in 0..q, NEW k \in 1..3
      PROVE  Encoder!Decoded(result', g)[k] = input[3 * g + k]
  <2>1. CASE g = q
    <3>1. Bytes(w, x, y, z) = <<input[3 * q + 1], input[3 * q + 2], input[3 * q + 3]>>
      BY DEF Hold
    <3>2. Encoder!Decoded(result', q)
             = <<input[3 * q + 1], input[3 * q + 2], input[3 * q + 3]>>
      BY <1>1, <3>1, Zenon
    <3>3. CASE k = 1
      BY <2>1, <3>2, <3>3
    <3>4. CASE k = 2
      BY <2>1, <3>2, <3>4
    <3>5. CASE k = 3
      BY <2>1, <3>2, <3>5
    <3> QED
      BY <3>3, <3>4, <3>5
  <2>2. CASE g # q
    <3>1. g \in 0..(q - 1)
      BY <2>2
    <3> QED
      BY <1>1, <3>1, Zenon DEF Groups, InGroups
  <2> QED
    BY <2>1, <2>2
<1>4. 4 * (q + 1) = 4 * q + 4 /\ (q + 1) - 1 = q
  OBVIOUS
<1> QED
  BY <1>1, <1>2, <1>3, <1>4, Zenon DEF Groups, InGroups

\* A turn of the loop.
LEMMA CollectInv ==
    ASSUME Encoding, Encoder!Collect
    PROVE  Encoding'
<1> DEFINE a == [charArray EXCEPT ![c] = input[i + 1]]
<1>1. /\ input \in Seq(0..255) /\ i \in 0..Len(input) /\ c \in 0..2
      /\ charArray \in [0..2 -> 0..255] /\ result \in Seq(0..64)
  BY DEF Encoding
<1>2. PICK q \in Nat : /\ i = 3 * q + c /\ Groups(q)
                       /\ \A k \in 0..(c - 1) : charArray[k] = input[3 * q + k + 1]
  BY DEF Encoding
<1>3. /\ i < Len(input) /\ i' = i + 1 /\ input' = input
      /\ charArray' = a /\ c' = (c + 1) % 3
      /\ result' = IF c + 1 = 3
                   THEN result \o <<Encoder!First(a[0]), Encoder!Second(a[0], a[1]),
                                    Encoder!Third(a[1], a[2]), Encoder!Fourth(a[2])>>
                   ELSE result
  BY DEF Encoder!Collect
<1>4. i + 1 \in 1..Len(input) /\ input[i + 1] \in 0..255
  <2>1. Len(input) \in Nat
    BY <1>1
  <2>2. i + 1 \in 1..Len(input)
    BY <1>1, <1>3, <2>1
  <2>3. \A n \in 1..Len(input) : input[n] \in 0..255
    <3>1. input \in Seq(0..255)
      BY <1>1
    <3> QED
      BY <3>1, ElementOfSeq
  <2> QED
    BY <2>2, <2>3, Zenon
<1>5. a \in [0..2 -> 0..255] /\ \A k \in 0..c : a[k] = input[3 * q + k + 1]
  <2>1. a \in [0..2 -> 0..255] /\ a[c] = input[i + 1]
    BY <1>1, <1>4, Zenon
  <2>2. ASSUME NEW k \in 0..c PROVE a[k] = input[3 * q + k + 1]
    <3>1. CASE k = c
      BY <1>1, <1>2, <2>1, <3>1
    <3>2. CASE k # c
      <4>1. k \in 0..(c - 1) /\ k \in 0..2
        BY <1>1, <3>2
      <4>2. a[k] = charArray[k]
        BY <1>1, <3>2, <4>1
      <4> QED
        BY <1>2, <4>1, <4>2
    <3> QED
      BY <3>1, <3>2
  <2> QED
    BY <2>1, <2>2
<1> HIDE DEF a
<1>6. CASE c # 2
  <2>1. c' = c + 1 /\ result' = result /\ c' - 1 = c
    <3>1. c = 0 \/ c = 1
      BY <1>1, <1>6
    <3>2. c + 1 # 3 /\ (c + 1) % 3 = c + 1 /\ c + 1 - 1 = c
      BY <3>1
    <3>3. c' = c + 1 /\ result' = result
      BY <1>3, <3>2, Zenon
    <3>4. c' - 1 = c
      BY <3>1, <3>3
    <3> QED
      BY <3>3, <3>4
  <2>2. Groups(q)'
    BY <1>2, <1>3, <2>1, Zenon DEF Groups
  <2>3. i' \in 0..Len(input') /\ c' \in 0..2 /\ i' = 3 * q + c'
    BY <1>1, <1>2, <1>3, <1>6, <2>1
  <2>4. \A k \in 0..(c' - 1) : charArray'[k] = input'[3 * q + k + 1]
    BY <1>3, <1>5, <2>1
  <2>5. /\ input' \in Seq(0..255) /\ charArray' \in [0..2 -> 0..255]
        /\ result' \in Seq(0..64)
    BY <1>1, <1>3, <1>5, <2>1
  <2> QED
    BY <2>2, <2>3, <2>4, <2>5, Zenon DEF Encoding
<1>7. CASE c = 2
  <2>1. c' = 0
    BY <1>3, <1>7
  <2>2. /\ a[0] \in 0..255 /\ a[1] \in 0..255 /\ a[2] \in 0..255
        /\ a[0] = input[3 * q + 1] /\ a[1] = input[3 * q + 2] /\ a[2] = input[3 * q + 3]
    <3>1. 3 * q + 0 + 1 = 3 * q + 1 /\ 3 * q + 1 + 1 = 3 * q + 2 /\ 3 * q + 2 + 1 = 3 * q + 3
      OBVIOUS
    <3>2. /\ a[0] = input[3 * q + 0 + 1] /\ a[1] = input[3 * q + 1 + 1]
          /\ a[2] = input[3 * q + 2 + 1]
      BY <1>5, <1>7
    <3>3. a[0] \in 0..255 /\ a[1] \in 0..255 /\ a[2] \in 0..255
      BY <1>5
    <3> QED
      BY <3>1, <3>2, <3>3, Zenon
  <2> DEFINE w == Encoder!First(a[0])
             x == Encoder!Second(a[0], a[1])
             y == Encoder!Third(a[1], a[2])
             z == Encoder!Fourth(a[2])
  <2>3. Hold(w, x, y, z, a[0], a[1], a[2])
    BY <2>2, Quantum, Zenon
  <2>4. result' = result \o <<w, x, y, z>>
    BY <1>3, <1>7
  <2> HIDE DEF w, x, y, z
  <2>5. result' \in Seq(0..64) /\ Groups(q + 1)'
    <3>1. Hold(w, x, y, z, input[3 * q + 1], input[3 * q + 2], input[3 * q + 3])
      BY <2>2, <2>3
    <3>2. Groups(q) /\ result \in Seq(0..64) /\ input' = input
      BY <1>1, <1>2, <1>3
    <3> QED
      BY <2>4, <3>1, <3>2, GroupMore, Zenon
  <2>6. i' \in 0..Len(input') /\ i' = 3 * (q + 1) + c' /\ q + 1 \in Nat /\ c' \in 0..2
    BY <1>1, <1>2, <1>3, <1>7, <2>1
  <2>7. \A k \in 0..(c' - 1) : charArray'[k] = input'[3 * (q + 1) + k + 1]
    BY <2>1
  <2>8. input' \in Seq(0..255) /\ charArray' \in [0..2 -> 0..255]
    BY <1>1, <1>3, <1>5
  <2> QED
    BY <2>5, <2>6, <2>7, <2>8, Zenon DEF Encoding
<1> QED
  BY <1>6, <1>7

\* How many characters that are.
LEMMA Counts ==
    ASSUME NEW q \in Nat
    PROVE  /\ (3 * q + 0 + 2) \div 3 = q /\ (8 * (3 * q + 0) + 5) \div 6 = 4 * q
           /\ (3 * q + 1 + 2) \div 3 = q + 1 /\ (8 * (3 * q + 1) + 5) \div 6 = 4 * q + 1 + 1
           /\ (3 * q + 2 + 2) \div 3 = q + 1 /\ (8 * (3 * q + 2) + 5) \div 6 = 4 * q + 1 + 2
OBVIOUS

\* r bytes are left over behind q groups, and the last four characters carry them
LeftOver(s, q, r, w, x, y, z) ==
    /\ r \in {1, 2} /\ Len(s) = 3 * q + r
    /\ w \in 0..63 /\ x \in 0..63 /\ z = 64
    /\ IF r = 1 THEN y = 64 ELSE y \in 0..63
    /\ \A k \in 1..3 : Bytes(w, x, y, z)[k] = IF k <= r THEN s[3 * q + k] ELSE 0

\* What is left over is padded.
LEMMA Padded ==
    ASSUME NEW s, NEW q \in Nat, NEW r, NEW old, NEW t,
           NEW w, NEW x, NEW y, NEW z,
           OneMore(old, t, q, w, x, y, z), InGroups(s, old, q),
           LeftOver(s, q, r, w, x, y, z)
    PROVE  Encoder!Carries(t, s)
<1>0. r \in {1, 2} /\ Len(s) = 3 * q + r
  BY DEF LeftOver
<1>1. (Len(s) + 2) \div 3 = q + 1 /\ (8 * Len(s) + 5) \div 6 = 4 * q + 1 + r
  <2>1. CASE r = 1
    BY <1>0, <2>1, Counts, Zenon
  <2>2. CASE r = 2
    BY <1>0, <2>2, Counts, Zenon
  <2> QED
    BY <1>0, <2>1, <2>2
<1>2. Len(t) = 4 * (q + 1) /\ DOMAIN t = 1..(4 * (q + 1))
  <2>1. t \in Seq(0..64) /\ Len(t) = 4 * q + 4
    BY DEF OneMore
  <2> QED
    BY <2>1
<1>3. ASSUME NEW n \in DOMAIN t
      PROVE  IF n <= 4 * q + 1 + r THEN t[n] \in 0..63 ELSE t[n] = 64
  <2>1. \/ n \in 1..(4 * q) \/ n = 4 * q + 1 \/ n = 4 * q + 2
        \/ n = 4 * q + 3 \/ n = 4 * q + 4
    <3>1. n \in 1..(4 * (q + 1))
      BY <1>2
    <3> QED
      BY <3>1
  <2>2. /\ \A m \in 1..(4 * q) : t[m] = old[m]
        /\ t[4 * q + 1] = w /\ t[4 * q + 2] = x /\ t[4 * q + 3] = y /\ t[4 * q + 4] = z
    BY DEF OneMore
  <2>3. CASE n \in 1..(4 * q)
    <3>1. n <= 4 * q + 1 + r
      BY <1>0, <2>3
    <3>2. t[n] \in 0..63
      BY <2>2, <2>3 DEF InGroups
    <3> QED
      BY <3>1, <3>2
  <2>4. CASE n = 4 * q + 1 \/ n = 4 * q + 2
    <3>1. n <= 4 * q + 1 + r
      BY <1>0, <2>4
    <3>2. t[n] \in 0..63
      BY <2>2, <2>4, Zenon DEF LeftOver
    <3> QED
      BY <3>1, <3>2
  <2>5. CASE n = 4 * q + 3
    <3>1. (n <= 4 * q + 1 + r) <=> r # 1
      BY <1>0, <2>5
    <3>2. IF r = 1 THEN t[n] = 64 ELSE t[n] \in 0..63
      BY <2>2, <2>5 DEF LeftOver
    <3> QED
      BY <3>1, <3>2
  <2>6. CASE n = 4 * q + 4
    <3>1. ~(n <= 4 * q + 1 + r)
      BY <1>0, <2>6
    <3>2. t[n] = 64
      BY <2>2, <2>6 DEF LeftOver
    <3> QED
      BY <3>1, <3>2
  <2> QED
    BY <2>1, <2>3, <2>4, <2>5, <2>6
<1>4. ASSUME NEW g \in 0..q, NEW k \in 1..3
      PROVE  Encoder!Decoded(t, g)[k] = IF 3 * g + k <= Len(s) THEN s[3 * g + k] ELSE 0
  <2>1. CASE g = q
    <3>1. Encoder!Decoded(t, q) = Bytes(w, x, y, z)
      BY DEF OneMore
    <3>2. (3 * q + k <= Len(s)) <=> k <= r
      BY <1>0
    <3>3. Bytes(w, x, y, z)[k] = IF k <= r THEN s[3 * q + k] ELSE 0
      BY DEF LeftOver
    <3>4. Encoder!Decoded(t, q)[k] = IF 3 * q + k <= Len(s) THEN s[3 * q + k] ELSE 0
      BY <3>1, <3>2, <3>3, Zenon
    <3> QED
      BY <2>1, <3>4, Zenon
  <2>2. CASE g # q
    <3>1. g \in 0..(q - 1) /\ 3 * g + k <= Len(s)
      BY <1>0, <2>2
    <3>2. Encoder!Decoded(t, g) = Encoder!Decoded(old, g)
      BY <3>1 DEF OneMore
    <3>3. Encoder!Decoded(old, g)[k] = s[3 * g + k]
      BY <3>1, Zenon DEF InGroups
    <3> QED
      BY <3>1, <3>2, <3>3
  <2> QED
    BY <2>1, <2>2
<1> DEFINE groups == (Len(s) + 2) \div 3
           digits == (8 * Len(s) + 5) \div 6
<1>5. groups = q + 1 /\ digits = 4 * q + 1 + r
  BY <1>1
<1> HIDE DEF groups, digits
<1>6. Len(t) = 4 * groups
  BY <1>2, <1>5
<1>7. \A n \in DOMAIN t : IF n <= digits THEN t[n] \in 0..63 ELSE t[n] = 64
  BY <1>3, <1>5, Zenon
<1>8. \A g \in 0..(groups - 1) : g \in 0..q
  BY <1>5
<1>9. \A g \in 0..(groups - 1), k \in 1..3 :
         Encoder!Decoded(t, g)[k] = IF 3 * g + k <= Len(s) THEN s[3 * g + k] ELSE 0
  BY <1>4, <1>8, Zenon
<1> QED
  BY <1>6, <1>7, <1>9, Zenon DEF Encoder!Carries, Encoder!Pad, groups, digits

\* Behind the loop.
LEMMA FinishCarries ==
    ASSUME Encoding, Encoder!Finish
    PROVE  Encoder!Carries(result', input')
<1>1. /\ input \in Seq(0..255) /\ i \in 0..Len(input) /\ c \in 0..2
      /\ charArray \in [0..2 -> 0..255] /\ result \in Seq(0..64)
  BY DEF Encoding
<1>2. PICK q \in Nat : /\ i = 3 * q + c /\ Groups(q)
                       /\ \A k \in 0..(c - 1) : charArray[k] = input[3 * q + k + 1]
  BY DEF Encoding
<1>3. i = Len(input) /\ input' = input
  BY DEF Encoder!Finish
<1> DEFINE a == charArray[0]
           b == charArray[1]
<1>4. a \in 0..255 /\ b \in 0..255 /\ 0 \in 0..255
  BY <1>1
<1>5. /\ c = 0 => result' = result \o <<>>
      /\ c = 1 => result' = result \o <<Encoder!First(a), Encoder!Second(a, 0), 64, 64>>
      /\ c = 2 => result' = result \o <<Encoder!First(a), Encoder!Second(a, b),
                                         Encoder!Third(b, 0), 64>>
  <2>1. CASE c = 0
    BY <2>1 DEF Encoder!Finish
  <2>2. CASE c = 1
    BY <2>2 DEF Encoder!Finish, Encoder!Pad
  <2>3. CASE c = 2
    BY <2>3 DEF Encoder!Finish, Encoder!Pad
  <2> QED
    BY <1>1, <2>1, <2>2, <2>3, Zenon
<1> HIDE DEF a, b
<1>6. Len(result) = 4 * q /\ InGroups(input, result, q)
  BY <1>2 DEF Groups
<1>7. Encoder!Third(0, 0) = 0 /\ Encoder!Fourth(0) = 0
  BY DEF Encoder!Third, Encoder!Fourth
<1>8. \A w, x, y : /\ Bytes(w, x, y, 64) = Bytes(w, x, y, 0)
                   /\ Bytes(w, x, 64, 64) = Bytes(w, x, 0, 0)
  <2>1. Digit(64) = 0 /\ Digit(0) = 0
    BY DEF Digit
  <2> QED
    BY <2>1, Zenon DEF Bytes
<1>9. CASE c = 0
  <2>1. result' = result
    <3>1. result \o <<>> = result
      BY <1>1, ConcatEmptySeq
    <3> QED
      BY <1>5, <1>9, <3>1
  <2>2. /\ (Len(input) + 2) \div 3 = q /\ (8 * Len(input) + 5) \div 6 = 4 * q
        /\ Len(input) = 3 * q
    <3>1. Len(input) = 3 * q + 0
      BY <1>2, <1>3, <1>9
    <3> QED
      BY <3>1, Counts
  <2>3. DOMAIN result = 1..(4 * q)
    BY <1>1, <1>6
  <2>4. \A n \in DOMAIN result : n <= 4 * q
    BY <2>3
  <2>5. \A g \in 0..(q - 1), k \in 1..3 : 3 * g + k <= Len(input)
    BY <2>2
  <2> QED
    BY <1>3, <1>6, <2>1, <2>2, <2>3, <2>4, <2>5, Zenon DEF Encoder!Carries, InGroups
<1>10. CASE c = 1
  <2> DEFINE w == Encoder!First(a)
             x == Encoder!Second(a, 0)
  <2>1. Hold(w, x, 0, 0, a, 0, 0)
    BY <1>4, <1>7, Quantum, Zenon
  <2>2. result' = result \o <<w, x, 64, 64>>
    BY <1>5, <1>10
  <2> HIDE DEF w, x
  <2>3. w \in 0..63 /\ x \in 0..63 /\ w \in 0..64 /\ x \in 0..64 /\ 64 \in 0..64
        /\ Bytes(w, x, 64, 64) = <<a, 0, 0>>
    BY <1>8, <2>1 DEF Hold
  <2>4. OneMore(result, result', q, w, x, 64, 64)
    BY <1>1, <1>6, <2>2, <2>3, GroupAppended, Zenon
  <2>5. a = input[3 * q + 1]
    <3>1. 0 \in 0..(c - 1) /\ 3 * q + 0 + 1 = 3 * q + 1
      BY <1>10
    <3> QED
      BY <1>2, <3>1 DEF a
  <2>6. \A k \in 1..3 : Bytes(w, x, 64, 64)[k] = IF k <= 1 THEN input[3 * q + k] ELSE 0
    BY <2>3, <2>5
  <2>7. Len(input) = 3 * q + 1
    BY <1>2, <1>3, <1>10
  <2>8. LeftOver(input, q, 1, w, x, 64, 64)
    BY <2>3, <2>6, <2>7 DEF LeftOver
  <2> QED
    BY <1>3, <1>6, <2>4, <2>8, Padded
<1>11. CASE c = 2
  <2> DEFINE w == Encoder!First(a)
             x == Encoder!Second(a, b)
             y == Encoder!Third(b, 0)
  <2>1. Hold(w, x, y, 0, a, b, 0)
    BY <1>4, <1>7, Quantum, Zenon
  <2>2. result' = result \o <<w, x, y, 64>>
    BY <1>5, <1>11, Zenon
  <2> HIDE DEF w, x, y
  <2>3. w \in 0..63 /\ x \in 0..63 /\ y \in 0..63
        /\ w \in 0..64 /\ x \in 0..64 /\ y \in 0..64 /\ 64 \in 0..64
        /\ Bytes(w, x, y, 64) = <<a, b, 0>>
    BY <1>8, <2>1 DEF Hold
  <2>4. OneMore(result, result', q, w, x, y, 64)
    BY <1>1, <1>6, <2>2, <2>3, GroupAppended, Zenon
  <2>5. a = input[3 * q + 1] /\ b = input[3 * q + 2]
    <3>1. 0 \in 0..(c - 1) /\ 1 \in 0..(c - 1)
          /\ 3 * q + 0 + 1 = 3 * q + 1 /\ 3 * q + 1 + 1 = 3 * q + 2
      BY <1>11
    <3> QED
      BY <1>2, <3>1 DEF a, b
  <2>6. \A k \in 1..3 : Bytes(w, x, y, 64)[k] = IF k <= 2 THEN input[3 * q + k] ELSE 0
    BY <2>3, <2>5
  <2>7. Len(input) = 3 * q + 2
    BY <1>2, <1>3, <1>11
  <2>8. LeftOver(input, q, 2, w, x, y, 64)
    BY <2>3, <2>6, <2>7 DEF LeftOver
  <2> QED
    BY <1>3, <1>6, <2>4, <2>8, Padded
<1> QED
  BY <1>1, <1>9, <1>10, <1>11

----------------------------------------------------------------------------
(* From the text of the URL to the request.                                 *)

\* what the encoder is given
Userinfo == uri["user"] \o <<":">> \o uri["password"]
UserBytes == [n \in DOMAIN Userinfo |-> ByteOf[Userinfo[n]]]

\* l and r are what a ":" in s, if there is one, has on its sides
Halves(s, l, r) == IF Has(s, ":") THEN s = l \o <<":">> \o r ELSE l = s /\ r = <<>>

\* a carries the credentials info, whose bytes are given
Authorized(a, info, bytes) ==
    IF info = <<":">> THEN a = <<>> ELSE Encoder!Carries(a, bytes)

Stages == {"scheme", "fragment", "query", "path", "user", "encode", "base64", "fields",
           "sent", "failed"}

UriTypes ==
    /\ text \in Texts
    /\ stage \in Stages
    /\ uri \in [Parts -> Seq(DOMAIN ByteOf)]
    /\ authority \in Seq(DOMAIN ByteOf)

\* what is cut off, and what is left to cut
CutInv ==
    /\ stage = "fragment" => authority = Rest
    /\ stage = "query" => authority = SubSeq(Rest, 1, EndOfQuery - 1)
    /\ stage = "path" => authority = SubSeq(Rest, 1, EndOfPath - 1)
    /\ stage = "user" \/ Parsed => authority = AuthorityText /\ uri["path"] = OrSlash(PathText)
    /\ stage \in {"scheme", "fragment"} => uri["fragment"] = <<>>
    /\ stage \in {"scheme", "fragment", "query"} => uri["query"] = <<>>
    /\ stage \in {"query", "path", "user"} \/ Parsed => uri["fragment"] = FragmentText
    /\ stage \in {"path", "user"} \/ Parsed => uri["query"] = QueryText

SplitInv ==
    Parsed => /\ Halves(InfoText, uri["user"], uri["password"])
              /\ Halves(HostText, uri["host"], uri["port"])

\* from the credentials to the request
RequestInv ==
    /\ stage \in {"scheme", "fragment", "query", "path", "user", "encode"} => result = <<>>
    /\ stage = "base64" => Encoding /\ input = UserBytes /\ Userinfo # <<":">>
    /\ stage = "fields" => Authorized(result, Userinfo, UserBytes)
    /\ stage = "sent" =>
          /\ request.host = uri["host"]
          /\ request.target = uri["path"]
                \o (IF uri["query"] = <<>> THEN <<>> ELSE <<"?">> \o uri["query"])
          /\ Authorized(request.authorization, Userinfo, UserBytes)

UriInv == UriTypes /\ CutInv /\ SplitInv /\ RequestInv

\* The texts of the parts are texts.
LEMMA RestIs ==
    ASSUME text \in Texts
    PROVE  Rest \in Seq(DOMAIN ByteOf)
<1> DEFINE n == First(text, {":"})
           l == Len(text)
<1>1. text \in Seq(DOMAIN ByteOf)
  BY ConstantsAssumption
<1>2. n \in Nat \ {0} /\ l \in Nat
  BY <1>1, FirstIs DEF IsFirst
<1> HIDE DEF n, l
<1>3. n + 3 \in Nat \ {0}
  BY <1>2
<1>4. SubSeq(text, n + 3, l) \in Seq(DOMAIN ByteOf)
  BY <1>1, <1>2, <1>3, Part DEF l
<1> QED
  BY <1>4 DEF Rest, n, l

\* The text does not change, and neither do its parts.
LEMMA TextsFixed ==
    ASSUME text' = text
    PROVE  /\ Rest' = Rest
           /\ EndOfQuery' = EndOfQuery /\ EndOfPath' = EndOfPath
           /\ AuthorityText' = AuthorityText /\ PathText' = PathText
           /\ QueryText' = QueryText /\ FragmentText' = FragmentText
           /\ InfoText' = InfoText /\ HostText' = HostText
<1>1. Rest' = Rest
  BY DEF Rest
<1>2. EndOfQuery' = EndOfQuery /\ EndOfPath' = EndOfPath /\ EndOfAuthority' = EndOfAuthority
  BY <1>1 DEF EndOfQuery, EndOfPath, EndOfAuthority
<1>3. AuthorityText' = AuthorityText /\ PathText' = PathText
      /\ QueryText' = QueryText /\ FragmentText' = FragmentText
  BY <1>1, <1>2 DEF AuthorityText, PathText, QueryText, FragmentText
<1>4. InfoText' = InfoText /\ HostText' = HostText
  BY <1>3 DEF InfoText, HostText
<1> QED
  BY <1>1, <1>2, <1>3, <1>4

\* The three cuts of parseUri are where the grammar has the ends of the parts.
LEMMA Ends ==
    ASSUME text \in Texts
    PROVE  /\ IsFirst(Rest, {}, Len(Rest) + 1)
           /\ IsFirst(Rest, {"#"}, EndOfQuery)
           /\ IsFirst(Rest, {"?", "#"}, EndOfPath)
           /\ CutIn(Rest, Rest, "#", Len(Rest) + 1, EndOfQuery)
           /\ CutIn(Rest, SubSeq(Rest, 1, EndOfQuery - 1), "?", EndOfQuery, EndOfPath)
           /\ CutIn(Rest, SubSeq(Rest, 1, EndOfPath - 1), "/", EndOfPath, EndOfAuthority)
<1>0. Rest \in Seq(DOMAIN ByteOf)
  BY RestIs
<1>1. PICK e : e = Len(Rest) + 1
  OBVIOUS
<1>2. IsFirst(Rest, {}, e) /\ Rest = SubSeq(Rest, 1, e - 1)
  <2>1. Len(Rest) \in Nat /\ e - 1 = Len(Rest)
    BY <1>0, <1>1
  <2>2. SubSeq(Rest, 1, Len(Rest)) = Rest
    BY <1>0, SubSeqFull
  <2> QED
    BY <1>1, <2>1, <2>2 DEF IsFirst
<1>3. /\ EndOfQuery = First(Rest, {} \cup {"#"})
      /\ EndOfPath = First(Rest, {"#"} \cup {"?"})
      /\ EndOfAuthority = First(Rest, {"?", "#"} \cup {"/"})
  <2>1. {} \cup {"#"} = {"#"} /\ {"#"} \cup {"?"} = {"?", "#"}
        /\ {"?", "#"} \cup {"/"} = {"/", "?", "#"}
    OBVIOUS
  <2> QED
    BY <2>1, Zenon DEF EndOfQuery, EndOfPath, EndOfAuthority
<1>4. IsFirst(Rest, {"#"}, EndOfQuery) /\ IsFirst(Rest, {"?", "#"}, EndOfPath)
  BY <1>0, FirstIs DEF EndOfQuery, EndOfPath
<1>5. CutIn(Rest, Rest, "#", e, EndOfQuery)
  BY <1>0, <1>2, <1>3, CutAt
<1>6. CutIn(Rest, SubSeq(Rest, 1, EndOfQuery - 1), "?", EndOfQuery, EndOfPath)
  BY <1>0, <1>3, <1>4, CutAt, Zenon
<1>7. CutIn(Rest, SubSeq(Rest, 1, EndOfPath - 1), "/", EndOfPath, EndOfAuthority)
  BY <1>0, <1>3, <1>4, CutAt, Zenon
<1> QED
  BY <1>1, <1>2, <1>4, <1>5, <1>6, <1>7

LEMMA UriInit ==
    Init => UriInv
<1> SUFFICES ASSUME Init PROVE UriInv
  OBVIOUS
<1> USE DEF Init
<1>1. UriTypes
  BY DEF UriTypes, Stages
<1>2. \A p \in Parts : uri[p] = <<>>
  OBVIOUS
<1>3. "fragment" \in Parts /\ "query" \in Parts
  BY DEF Parts
<1>4. CutInv /\ SplitInv /\ RequestInv
  BY <1>2, <1>3 DEF CutInv, SplitInv, RequestInv, Parsed
<1> QED
  BY <1>1, <1>4 DEF UriInv

\* The scheme ends where the text has its first ":".
LEMMA SchemeInv ==
    ASSUME UriInv, Scheme
    PROVE  UriInv'
<1> DEFINE schemes == {n \in 1..(Len(text) - 3) :
                         /\ isAlphaChar(text[1])
                         /\ \A m \in 1..n : isSchemeChar(text[m])
                         /\ SubSeq(text, n + 1, n + 3) = <<":", "/", "/">>}
<1>0. UriTypes /\ CutInv /\ RequestInv /\ stage = "scheme"
  BY DEF UriInv, Scheme
<1>1. text' = text /\ request' = request /\ result' = result
  BY DEF Scheme, Goto, base64Vars
<1>2. CASE stage' = "failed" /\ UNCHANGED <<uri, authority>>
  BY <1>0, <1>1, <1>2
     DEF UriInv, UriTypes, CutInv, SplitInv, RequestInv, Parsed, Stages
<1>3. ASSUME NEW n \in schemes,
             uri' = [uri EXCEPT !["scheme"] = SubSeq(text, 1, n)],
             authority' = SubSeq(text, n + 4, Len(text)),
             stage' = "fragment"
      PROVE  UriInv'
  <2>1. text \in Seq(DOMAIN ByteOf) /\ Len(text) \in Nat /\ n \in 1..(Len(text) - 3)
    BY <1>0, ConstantsAssumption DEF UriTypes
  <2>2. IsFirst(text, {":"}, n + 1)
    <3>1. /\ n + 1 \in 1..(Len(text) + 1) /\ (n + 1) - 1 = n
          /\ n + 1 \in Nat \ {0} /\ n + 3 \in Nat
          /\ n + 3 <= Len(text) /\ 1 \in 1..(n + 3 - (n + 1) + 1) /\ n + 1 + 1 - 1 = n + 1
      BY <2>1
    <3>2. ASSUME NEW m \in 1..n PROVE text[m] \notin {":"}
      <4>1. isSchemeChar(text[m])
        OBVIOUS
      <4> QED
        BY <4>1 DEF isSchemeChar, isAlphaChar, isDigitChar
    <3>3. text[n + 1] = ":"
      <4>1. PICK a, b : a = n + 1 /\ b = n + 3
        OBVIOUS
      <4>2. \A k \in 1..(b - a + 1) : SubSeq(text, a, b)[k] = text[a + k - 1]
        BY <2>1, <3>1, <4>1, Part
      <4>3. SubSeq(text, a, b)[1] = text[a]
        BY <3>1, <4>1, <4>2
      <4>4. SubSeq(text, a, b) = <<":", "/", "/">>
        BY <4>1
      <4>5. <<":", "/", "/">>[1] = ":"
        OBVIOUS
      <4> QED
        BY <4>1, <4>3, <4>4, <4>5, Zenon
    <3> QED
      BY <3>1, <3>2, <3>3 DEF IsFirst
  <2>3. First(text, {":"}) = n + 1
    BY <2>1, <2>2, FirstIs
  <2>4. authority' = Rest
    <3>1. n + 1 + 3 = n + 4
      BY <2>1
    <3> QED
      BY <1>3, <2>3, <3>1, Zenon DEF Rest
  <2>5. Rest \in Seq(DOMAIN ByteOf) /\ Rest' = Rest
    BY <1>0, <1>1, RestIs, TextsFixed DEF UriTypes
  <2>6. SubSeq(text, 1, n) \in Seq(DOMAIN ByteOf)
    <3>1. 1 \in Nat \ {0} /\ n \in Nat /\ n <= Len(text)
      BY <2>1
    <3> QED
      BY <2>1, <3>1, Part
  <2>7. UriTypes'
    BY <1>0, <1>1, <1>3, <2>4, <2>5, <2>6, Zenon DEF UriTypes, Stages
  <2>8. uri'["fragment"] = uri["fragment"] /\ uri'["query"] = uri["query"]
    BY <1>0, <1>3 DEF UriTypes, Parts
  <2>9. CutInv'
    BY <1>0, <1>3, <2>4, <2>5, <2>8 DEF CutInv, Parsed
  <2>10. SplitInv' /\ RequestInv'
    BY <1>0, <1>1, <1>3 DEF SplitInv, RequestInv, Parsed
  <2> QED
    BY <2>7, <2>9, <2>10 DEF UriInv
<1> QED
  BY <1>2, <1>3, Zenon DEF Scheme, Goto

\* The fragment and the query.
LEMMA FragmentInv ==
    ASSUME UriInv, Fragment
    PROVE  UriInv'
<1>0. UriTypes /\ CutInv /\ RequestInv /\ stage = "fragment" /\ stage' = "query"
  BY DEF UriInv, Fragment, Cut, Goto
<1>1. text' = text /\ request' = request /\ result' = result
  BY DEF Fragment, Cut, Goto, base64Vars
<1>2. text \in Texts /\ authority = Rest /\ authority \in Seq(DOMAIN ByteOf)
      /\ uri \in [Parts -> Seq(DOMAIN ByteOf)] /\ uri["fragment"] = <<>> /\ uri["query"] = <<>>
  BY <1>0 DEF UriTypes, CutInv
<1>3. IF Has(authority, "#")
      THEN /\ uri' = [uri EXCEPT !["fragment"] = Behind(authority, "#")]
           /\ authority' = Before(authority, "#")
      ELSE uri' = uri /\ authority' = authority
  BY DEF Fragment, Cut
<1>4. Has(authority, "#") =>
         /\ Before(authority, "#") \in Seq(DOMAIN ByteOf)
         /\ Behind(authority, "#") \in Seq(DOMAIN ByteOf)
  BY <1>2, SplitAt, Zenon
<1>5. /\ authority' = (IF Has(authority, "#") THEN Before(authority, "#") ELSE authority)
      /\ uri'["fragment"] = (IF Has(authority, "#") THEN Behind(authority, "#") ELSE <<>>)
      /\ uri'["query"] = <<>>
      /\ uri' \in [Parts -> Seq(DOMAIN ByteOf)] /\ authority' \in Seq(DOMAIN ByteOf)
  BY <1>2, <1>3, <1>4 DEF Parts
<1>6. /\ authority' = SubSeq(Rest, 1, EndOfQuery - 1)
      /\ uri'["fragment"] = SubSeq(Rest, EndOfQuery + 1, Len(Rest) + 1 - 1)
  BY <1>2, <1>5, Ends DEF CutIn
<1>7. uri'["fragment"] = FragmentText
  <2>1. Len(Rest) + 1 - 1 = Len(Rest)
    BY <1>2
  <2> QED
    BY <1>6, <2>1, Zenon DEF FragmentText
<1>8. UriTypes'
  BY <1>0, <1>1, <1>2, <1>5 DEF UriTypes, Stages
<1>9. CutInv'
  BY <1>0, <1>1, <1>5, <1>6, <1>7, TextsFixed, Zenon DEF CutInv, Parsed
<1>10. SplitInv' /\ RequestInv'
  BY <1>0, <1>1 DEF SplitInv, RequestInv, Parsed
<1> QED
  BY <1>8, <1>9, <1>10 DEF UriInv

LEMMA QueryInv ==
    ASSUME UriInv, Query
    PROVE  UriInv'
<1>0. UriTypes /\ CutInv /\ RequestInv /\ stage = "query" /\ stage' = "path"
  BY DEF UriInv, Query, Cut, Goto
<1>1. text' = text /\ request' = request /\ result' = result
  BY DEF Query, Cut, Goto, base64Vars
<1>2. text \in Texts /\ authority = SubSeq(Rest, 1, EndOfQuery - 1)
      /\ authority \in Seq(DOMAIN ByteOf)
      /\ uri \in [Parts -> Seq(DOMAIN ByteOf)]
      /\ uri["fragment"] = FragmentText /\ uri["query"] = <<>>
  BY <1>0 DEF UriTypes, CutInv
<1>3. IF Has(authority, "?")
      THEN /\ uri' = [uri EXCEPT !["query"] = Behind(authority, "?")]
           /\ authority' = Before(authority, "?")
      ELSE uri' = uri /\ authority' = authority
  BY DEF Query, Cut
<1>4. Has(authority, "?") =>
         /\ Before(authority, "?") \in Seq(DOMAIN ByteOf)
         /\ Behind(authority, "?") \in Seq(DOMAIN ByteOf)
  BY <1>2, SplitAt, Zenon
<1>5. /\ authority' = (IF Has(authority, "?") THEN Before(authority, "?") ELSE authority)
      /\ uri'["query"] = (IF Has(authority, "?") THEN Behind(authority, "?") ELSE <<>>)
      /\ uri'["fragment"] = FragmentText
      /\ uri' \in [Parts -> Seq(DOMAIN ByteOf)] /\ authority' \in Seq(DOMAIN ByteOf)
  BY <1>2, <1>3, <1>4, Zenon DEF Parts
<1>6. CutIn(Rest, authority, "?", EndOfQuery, EndOfPath)
  BY <1>2, Ends
<1>7. /\ authority' = SubSeq(Rest, 1, EndOfPath - 1)
      /\ uri'["query"] = QueryText
  BY <1>5, <1>6 DEF CutIn, QueryText
<1>8. UriTypes'
  BY <1>0, <1>1, <1>2, <1>5 DEF UriTypes, Stages
<1>9. CutInv'
  BY <1>0, <1>1, <1>5, <1>7, TextsFixed, Zenon DEF CutInv, Parsed
<1>10. SplitInv' /\ RequestInv'
  BY <1>0, <1>1 DEF SplitInv, RequestInv, Parsed
<1> QED
  BY <1>8, <1>9, <1>10 DEF UriInv

\* The path, which is "/" when there is none.
LEMMA PathInv ==
    ASSUME UriInv, Path
    PROVE  UriInv'
<1>0. UriTypes /\ CutInv /\ RequestInv /\ stage = "path" /\ stage' = "user"
  BY DEF UriInv, Path, Goto
<1>1. text' = text /\ request' = request /\ result' = result
  BY DEF Path, Goto, base64Vars
<1>2. text \in Texts /\ authority = SubSeq(Rest, 1, EndOfPath - 1)
      /\ authority \in Seq(DOMAIN ByteOf)
      /\ uri \in [Parts -> Seq(DOMAIN ByteOf)]
      /\ uri["fragment"] = FragmentText /\ uri["query"] = QueryText
  BY <1>0 DEF UriTypes, CutInv
<1> DEFINE slash == "/"
<1>3. IF Has(authority, slash)
      THEN /\ uri' = [uri EXCEPT !["path"] = <<slash>> \o Behind(authority, slash)]
           /\ authority' = Before(authority, slash)
      ELSE uri' = [uri EXCEPT !["path"] = <<slash>>] /\ authority' = authority
  BY DEF Path
<1>4. <<slash>> \in Seq(DOMAIN ByteOf)
  BY ConstantsAssumption
<1>5. Has(authority, slash) =>
         /\ Before(authority, slash) \in Seq(DOMAIN ByteOf)
         /\ <<slash>> \o Behind(authority, slash) \in Seq(DOMAIN ByteOf)
  <2> HIDE DEF slash
  <2>1. Has(authority, slash) =>
           /\ Before(authority, slash) \in Seq(DOMAIN ByteOf)
           /\ Behind(authority, slash) \in Seq(DOMAIN ByteOf)
    BY <1>2, SplitAt, Zenon
  <2> QED
    BY <1>4, <2>1, ConcatProperties
<1>6. /\ authority' = (IF Has(authority, slash) THEN Before(authority, slash) ELSE authority)
      /\ uri'["path"] = (IF Has(authority, slash) THEN <<slash>> \o Behind(authority, slash)
                                                  ELSE <<slash>>)
      /\ uri'["fragment"] = FragmentText /\ uri'["query"] = QueryText
      /\ uri' \in [Parts -> Seq(DOMAIN ByteOf)] /\ authority' \in Seq(DOMAIN ByteOf)
  <2> HIDE DEF slash
  <2> QED
    BY <1>2, <1>3, <1>4, <1>5, Zenon DEF Parts
<1>7. CutIn(Rest, authority, "/", EndOfPath, EndOfAuthority)
  BY <1>2, Ends
<1>8. authority' = AuthorityText
  BY <1>6, <1>7 DEF CutIn, AuthorityText
<1>9. uri'["path"] = OrSlash(PathText)
  <2>1. /\ (IF Has(authority, "/") THEN <<"/">> \o Behind(authority, "/") ELSE <<>>) = PathText
        /\ Has(authority, "/") => PathText # <<>>
    BY <1>7, Zenon DEF CutIn, PathText
  <2> QED
    BY <1>6, <2>1, Zenon DEF OrSlash
<1>10. UriTypes'
  BY <1>0, <1>1, <1>2, <1>6 DEF UriTypes, Stages
<1>11. CutInv'
  BY <1>0, <1>1, <1>6, <1>8, <1>9, TextsFixed DEF CutInv, Parsed, OrSlash
<1>12. SplitInv' /\ RequestInv'
  BY <1>0, <1>1 DEF SplitInv, RequestInv, Parsed
<1> QED
  BY <1>10, <1>11, <1>12 DEF UriInv

\* The authority: what is before the first "@" and behind it, each cut in two.
LEMMA AuthorityInv ==
    ASSUME UriInv, Authority
    PROVE  UriInv'
<1> DEFINE info == IF Has(authority, "@") THEN Before(authority, "@") ELSE <<>>
           host == IF Has(authority, "@") THEN Behind(authority, "@") ELSE authority
           Left(s) == IF Has(s, ":") THEN Before(s, ":") ELSE s
           Right(s) == IF Has(s, ":") THEN Behind(s, ":") ELSE <<>>
<1>0. UriTypes /\ CutInv /\ RequestInv /\ stage = "user" /\ stage' = "encode"
  BY DEF UriInv, Authority, Goto
<1>1. text' = text /\ request' = request /\ result' = result /\ authority' = authority
  BY DEF Authority, Goto, base64Vars
<1>2. /\ text \in Texts /\ authority = AuthorityText
      /\ authority \in Seq(DOMAIN ByteOf)
      /\ uri \in [Parts -> Seq(DOMAIN ByteOf)] /\ uri["path"] = OrSlash(PathText)
      /\ uri["fragment"] = FragmentText /\ uri["query"] = QueryText
  BY <1>0 DEF UriTypes, CutInv
<1>3. uri' = [uri EXCEPT !["user"] = Left(info), !["password"] = Right(info),
                         !["host"] = Left(host), !["port"] = Right(host)]
  BY DEF Authority
<1>4. info = InfoText /\ host = HostText
  <2>1. Find(authority, "@") = First(authority, {"@"})
    BY <1>2, FindIs
  <2> QED
    BY <1>2, <2>1 DEF InfoText, HostText, Before, Behind
<1>5. info \in Seq(DOMAIN ByteOf) /\ host \in Seq(DOMAIN ByteOf)
  <2>1. Has(authority, "@") =>
           /\ Before(authority, "@") \in Seq(DOMAIN ByteOf)
           /\ Behind(authority, "@") \in Seq(DOMAIN ByteOf)
    BY <1>2, SplitAt, Zenon
  <2>2. <<>> \in Seq(DOMAIN ByteOf)
    OBVIOUS
  <2> QED
    BY <1>2, <2>1, <2>2, Zenon
<1>6. \A s \in Seq(DOMAIN ByteOf) :
         /\ Left(s) \in Seq(DOMAIN ByteOf) /\ Right(s) \in Seq(DOMAIN ByteOf)
         /\ Halves(s, Left(s), Right(s))
  <2> TAKE s \in Seq(DOMAIN ByteOf)
  <2>1. CASE Has(s, ":")
    <3>1. /\ Before(s, ":") \in Seq(DOMAIN ByteOf) /\ Behind(s, ":") \in Seq(DOMAIN ByteOf)
          /\ s = Before(s, ":") \o <<":">> \o Behind(s, ":")
      BY <2>1, SplitAt, Zenon
    <3> QED
      BY <2>1, <3>1 DEF Halves
  <2>2. CASE ~Has(s, ":")
    BY <2>2 DEF Halves
  <2> QED
    BY <2>1, <2>2
<1> HIDE DEF info, host, Left, Right
<1>7. /\ uri' \in [Parts -> Seq(DOMAIN ByteOf)]
      /\ uri'["user"] = Left(info) /\ uri'["password"] = Right(info)
      /\ uri'["host"] = Left(host) /\ uri'["port"] = Right(host)
      /\ uri'["path"] = uri["path"] /\ uri'["query"] = uri["query"]
      /\ uri'["fragment"] = uri["fragment"]
  <2>1. /\ Left(info) \in Seq(DOMAIN ByteOf) /\ Right(info) \in Seq(DOMAIN ByteOf)
        /\ Left(host) \in Seq(DOMAIN ByteOf) /\ Right(host) \in Seq(DOMAIN ByteOf)
    BY <1>5, <1>6
  <2> QED
    BY <1>2, <1>3, <2>1, Zenon DEF Parts
<1>8. UriTypes'
  BY <1>0, <1>1, <1>2, <1>7 DEF UriTypes, Stages
<1>9. CutInv'
  BY <1>0, <1>1, <1>2, <1>7, TextsFixed DEF CutInv, Parsed, OrSlash
<1>10. SplitInv'
  <2>1. /\ Halves(InfoText, uri'["user"], uri'["password"])
        /\ Halves(HostText, uri'["host"], uri'["port"])
    BY <1>4, <1>5, <1>6, <1>7
  <2>2. InfoText' = InfoText /\ HostText' = HostText
    BY <1>1, TextsFixed
  <2> QED
    BY <2>1, <2>2, Zenon DEF SplitInv, Halves, Has
<1>11. RequestInv'
  BY <1>0, <1>1 DEF RequestInv
<1> QED
  BY <1>8, <1>9, <1>10, <1>11 DEF UriInv

\* Once the URL is parsed, its parts stay.
LEMMA PartsStay ==
    ASSUME UriInv, Parsed, UNCHANGED <<text, uri, authority>>,
           stage' \in {"base64", "fields", "sent", "failed"}
    PROVE  UriTypes' /\ CutInv' /\ SplitInv' /\ Userinfo' = Userinfo /\ UserBytes' = UserBytes
<1>1. UriTypes'
  BY DEF UriInv, UriTypes, Stages
<1>2. CutInv' /\ SplitInv'
  <2>1. CASE stage' = "failed"
    BY <2>1 DEF CutInv, SplitInv, Parsed
  <2>2. CASE stage' # "failed"
    <3>1. Parsed' /\ stage' \in {"base64", "fields", "sent"}
      BY <2>2 DEF Parsed
    <3>2. CutInv'
      BY <3>1, TextsFixed DEF UriInv, CutInv, OrSlash
    <3>3. SplitInv'
      BY <3>1, TextsFixed, Zenon DEF UriInv, SplitInv, Halves, Has
    <3> QED
      BY <3>2, <3>3
  <2> QED
    BY <2>1, <2>2
<1>3. Userinfo' = Userinfo
  BY DEF Userinfo
<1>4. UserBytes' = UserBytes
  BY <1>3 DEF UserBytes
<1> QED
  BY <1>1, <1>2, <1>3, <1>4

\* The credentials are bytes.
LEMMA UserBytesAre ==
    ASSUME UriTypes
    PROVE  UserBytes \in Seq(0..255)
<1>1. /\ uri["user"] \in Seq(DOMAIN ByteOf) /\ uri["password"] \in Seq(DOMAIN ByteOf)
      /\ <<":">> \in Seq(DOMAIN ByteOf)
  BY ConstantsAssumption DEF UriTypes, Parts
<1>2. Userinfo \in Seq(DOMAIN ByteOf)
  <2>1. uri["user"] \o <<":">> \in Seq(DOMAIN ByteOf)
    BY <1>1, ConcatProperties
  <2> QED
    BY <1>1, <2>1, ConcatProperties DEF Userinfo
<1>3. /\ Len(Userinfo) \in Nat /\ DOMAIN Userinfo = 1..Len(Userinfo)
      /\ \A n \in 1..Len(Userinfo) : Userinfo[n] \in DOMAIN ByteOf
  BY <1>2, ElementOfSeq
<1>4. UserBytes = [n \in 1..Len(Userinfo) |-> ByteOf[Userinfo[n]]]
  BY <1>3 DEF UserBytes
<1>5. \A n \in 1..Len(Userinfo) : ByteOf[Userinfo[n]] \in 0..255
  BY <1>3, ConstantsAssumption
<1>6. UserBytes \in [1..Len(Userinfo) -> 0..255]
  BY <1>4, <1>5, Zenon
<1> QED
  <2>1. \E n \in Nat : UserBytes \in [1..n -> 0..255]
    BY <1>3, <1>6, Zenon
  <2>2. UserBytes \in UNION {[1..n -> 0..255] : n \in Nat}
    BY <2>1, Zenon
  <2> QED
    BY <2>2, SeqDef, Zenon

\* The call of encodeBase64.
LEMMA EncodeInv ==
    ASSUME UriInv, Encode
    PROVE  UriInv'
<1>0. /\ stage = "encode" /\ Parsed /\ UriTypes /\ result = <<>>
      /\ UNCHANGED <<text, uri, authority, request>>
  BY DEF Encode, UriInv, RequestInv, Parsed
<1>1. CASE stage' = "failed"
  <2>1. UriTypes' /\ CutInv' /\ SplitInv'
    BY <1>0, <1>1, PartsStay
  <2> QED
    BY <1>1, <2>1 DEF UriInv, RequestInv
<1>2. CASE Userinfo = <<":">> /\ stage' = "fields" /\ UNCHANGED base64Vars
  <2>1. UriTypes' /\ CutInv' /\ SplitInv' /\ Userinfo' = Userinfo
    BY <1>0, <1>2, PartsStay
  <2>2. Authorized(result, Userinfo, UserBytes)'
    BY <1>0, <1>2, <2>1 DEF Authorized, base64Vars
  <2> QED
    BY <1>2, <2>1, <2>2 DEF UriInv, RequestInv
<1>3. CASE Userinfo # <<":">> /\ stage' = "base64" /\ Encoder!encodeBase64(UserBytes)
  <2>1. UriTypes' /\ CutInv' /\ SplitInv' /\ Userinfo' = Userinfo /\ UserBytes' = UserBytes
    BY <1>0, <1>3, PartsStay
  <2>2. /\ input' = UserBytes /\ i' = 0 /\ c' = 0 /\ result' = <<>>
        /\ charArray' \in [0..2 -> Garbage]
    BY <1>3 DEF Encoder!encodeBase64
  <2>3. Encoding'
    <3>1. input' \in Seq(0..255) /\ Len(input') \in Nat
      BY <1>0, <2>2, UserBytesAre
    <3>2. charArray' \in [0..2 -> 0..255]
      BY <2>2, ConstantsAssumption
    <3>3. i' = 3 * 0 + c' /\ i' \in 0..Len(input') /\ c' \in 0..2 /\ result' \in Seq(0..64)
      BY <2>2, <3>1
    <3>4. Groups(0)'
      BY <2>2 DEF Groups, InGroups
    <3>5. \A k \in 0..(c' - 1) : charArray'[k] = input'[3 * 0 + k + 1]
      BY <2>2
    <3> QED
      BY <3>1, <3>2, <3>3, <3>4, <3>5, Zenon DEF Encoding
  <2> QED
    BY <1>3, <2>1, <2>2, <2>3 DEF UriInv, RequestInv
<1> QED
  BY <1>1, <1>2, <1>3, Zenon DEF Encode, Userinfo, UserBytes

\* The turns of its loop and what is behind it.
LEMMA EncodeBytesInv ==
    ASSUME UriInv, EncodeBytes
    PROVE  UriInv'
<1>0. /\ stage = "base64" /\ Parsed /\ UNCHANGED <<text, uri, authority, request>>
      /\ Encoding /\ input = UserBytes /\ Userinfo # <<":">>
  BY DEF EncodeBytes, UriInv, RequestInv, Parsed
<1>1. CASE Encoder!Collect /\ stage' = stage
  <2>1. UriTypes' /\ CutInv' /\ SplitInv' /\ Userinfo' = Userinfo /\ UserBytes' = UserBytes
    BY <1>0, <1>1, PartsStay
  <2>2. Encoding'
    BY <1>0, <1>1, CollectInv
  <2>3. input' = input
    BY <1>1 DEF Encoder!Collect
  <2> QED
    BY <1>0, <1>1, <2>1, <2>2, <2>3 DEF UriInv, RequestInv
<1>2. CASE Encoder!Finish /\ stage' = "fields"
  <2>1. UriTypes' /\ CutInv' /\ SplitInv' /\ Userinfo' = Userinfo /\ UserBytes' = UserBytes
    BY <1>0, <1>2, PartsStay
  <2>2. Encoder!Carries(result', input')
    BY <1>0, <1>2, FinishCarries
  <2>3. input' = input
    BY <1>2 DEF Encoder!Finish
  <2>4. Encoder!Carries(result', UserBytes')
    BY <1>0, <2>1, <2>2, <2>3
  <2>5. Authorized(result, Userinfo, UserBytes)'
    BY <1>0, <2>1, <2>4 DEF Authorized
  <2> QED
    BY <1>2, <2>1, <2>5 DEF UriInv, RequestInv
<1> QED
  BY <1>1, <1>2 DEF EncodeBytes

\* The request line and the header fields.
LEMMA FieldsInv ==
    ASSUME UriInv, Fields
    PROVE  UriInv'
<1>0. /\ stage = "fields" /\ Parsed /\ UNCHANGED <<text, uri, authority>>
      /\ Authorized(result, Userinfo, UserBytes) /\ result' = result
  BY DEF Fields, UriInv, RequestInv, Parsed, base64Vars
<1>1. CASE stage' = "failed"
  <2>1. UriTypes' /\ CutInv' /\ SplitInv'
    BY <1>0, <1>1, PartsStay
  <2> QED
    BY <1>1, <2>1 DEF UriInv, RequestInv
<1>2. CASE /\ stage' = "sent"
           /\ request' = [target |-> uri["path"]
                             \o (IF uri["query"] = <<>> THEN <<>> ELSE <<"?">> \o uri["query"]),
                          host |-> uri["host"], authorization |-> result]
  <2>1. UriTypes' /\ CutInv' /\ SplitInv' /\ Userinfo' = Userinfo /\ UserBytes' = UserBytes
    BY <1>0, <1>2, PartsStay
  <2>2. /\ request'.host = uri["host"] /\ request'.authorization = result
        /\ request'.target = uri["path"]
              \o (IF uri["query"] = <<>> THEN <<>> ELSE <<"?">> \o uri["query"])
    BY <1>2, Zenon
  <2>3. Authorized(request.authorization, Userinfo, UserBytes)'
    BY <1>0, <2>1, <2>2, Zenon
  <2> QED
    BY <1>0, <1>2, <2>1, <2>2, <2>3, Zenon DEF UriInv, RequestInv
<1> QED
  BY <1>1, <1>2, Zenon DEF Fields

LEMMA UriNext ==
    ASSUME UriInv, [Next]_vars
    PROVE  UriInv'
<1>1. CASE UNCHANGED vars
  <2>1. text' = text /\ stage' = stage /\ uri' = uri /\ authority' = authority
        /\ request' = request /\ input' = input /\ i' = i /\ c' = c
        /\ charArray' = charArray /\ result' = result
    BY <1>1 DEF vars, base64Vars
  <2>2. UriTypes'
    BY <2>1 DEF UriInv, UriTypes
  <2>3. CutInv' /\ SplitInv'
    BY <2>1, TextsFixed, Zenon DEF UriInv, CutInv, SplitInv, Parsed, OrSlash, Halves, Has
  <2>4. Userinfo' = Userinfo /\ UserBytes' = UserBytes
    BY <2>1 DEF Userinfo, UserBytes
  <2>5. Encoding => Encoding'
    <3>1. \A q : Groups(q)' = Groups(q)
      BY <2>1 DEF Groups
    <3> QED
      BY <2>1, <3>1, Zenon DEF Encoding
  <2>6. Authorized(result, Userinfo, UserBytes) => Authorized(result, Userinfo, UserBytes)'
    BY <2>1, <2>4, Zenon
  <2>7. Authorized(request.authorization, Userinfo, UserBytes)
           => Authorized(request.authorization, Userinfo, UserBytes)'
    BY <2>1, <2>4, Zenon
  <2>8. RequestInv'
    BY <2>1, <2>4, <2>5, <2>6, <2>7, Zenon DEF UriInv, RequestInv
  <2> QED
    BY <2>2, <2>3, <2>8 DEF UriInv
<1> QED
  BY <1>1, SchemeInv, FragmentInv, QueryInv, PathInv, AuthorityInv, EncodeInv,
     EncodeBytesInv, FieldsInv DEF Next

(* parseUri, encodeBase64 and encodeHtml keep the invariant, for every text. *)
THEOREM UriInductive == Spec => []UriInv
BY UriInit, UriNext, PTL DEF Spec

(* Cutting the URL from its end to its front gives the parts of the grammar, *)
(* whatever the text.                                                        *)
THEOREM PartsCut == Spec => []PartsAsInGrammar
<1>1. UriInv => PartsAsInGrammar
  <2> SUFFICES ASSUME UriInv, Parsed
               PROVE  /\ authority = AuthorityText
                      /\ uri["path"] = OrSlash(PathText)
                      /\ uri["query"] = QueryText
                      /\ uri["fragment"] = FragmentText
                      /\ InfoText \in Joined(uri["user"], ":", uri["password"])
                      /\ HostText \in Joined(uri["host"], ":", uri["port"])
    BY DEF PartsAsInGrammar
  <2>1. \A s, l, r : Halves(s, l, r) => s \in Joined(l, ":", r)
    BY Zenon DEF Halves, Joined
  <2>2. /\ InfoText \in Joined(uri["user"], ":", uri["password"])
        /\ HostText \in Joined(uri["host"], ":", uri["port"])
    BY <2>1 DEF UriInv, SplitInv
  <2> QED
    BY <2>2 DEF UriInv, CutInv
<1> QED
  BY <1>1, UriInductive, PTL

(* The request names the resource of the URL, without fragment and           *)
(* credentials.                                                              *)
THEOREM ResourceNamed == Spec => []ServerSeesUri
<1>1. UriInv => ServerSeesUri
  <2> SUFFICES ASSUME UriInv, stage = "sent", ~Has(HostText, ":")
               PROVE  request.host \o request.target = Wanted
    BY Zenon DEF ServerSeesUri
  <2> DEFINE q == IF QueryText = <<>> THEN <<>> ELSE <<"?">> \o QueryText
             h == uri["host"]
             p == uri["path"]
  <2>1. h = HostText /\ p = OrSlash(PathText) /\ uri["query"] = QueryText
    BY DEF UriInv, SplitInv, CutInv, Parsed, Halves
  <2>2. request.host = h /\ request.target = p \o q
    BY <2>1 DEF UriInv, RequestInv
  <2>3. h \in Seq(DOMAIN ByteOf) /\ p \in Seq(DOMAIN ByteOf)
        /\ QueryText \in Seq(DOMAIN ByteOf)
    BY <2>1 DEF UriInv, UriTypes, Parts
  <2>4. q \in Seq(DOMAIN ByteOf)
    <3>1. <<"?">> \in Seq(DOMAIN ByteOf) /\ <<>> \in Seq(DOMAIN ByteOf)
      BY ConstantsAssumption
    <3>2. <<"?">> \o QueryText \in Seq(DOMAIN ByteOf)
      BY <2>3, <3>1, ConcatProperties
    <3> QED
      BY <3>1, <3>2, Zenon
  <2>5. Wanted = (h \o p) \o q
    BY <2>1 DEF Wanted
  <2> HIDE DEF h, p, q
  <2>6. (h \o p) \o q = h \o (p \o q)
    BY <2>3, <2>4, ConcatAssociative
  <2> QED
    BY <2>2, <2>5, <2>6
<1> QED
  BY <1>1, UriInductive, PTL

(* The Authorization field is decoded to the credentials of the URL, of any  *)
(* length and of any bytes.                                                  *)
THEOREM CredentialsDecoded == Spec => []CredentialsCarried
<1>1. UriInv => CredentialsCarried
  <2> DEFINE credentials == IF Has(InfoText, ":") THEN InfoText ELSE Append(InfoText, ":")
  <2> SUFFICES ASSUME UriInv, stage = "sent"
               PROVE  IF credentials = <<":">> THEN request.authorization = <<>>
                      ELSE Encoder!Carries(request.authorization,
                                 [n \in DOMAIN credentials |-> ByteOf[credentials[n]]])
    BY DEF CredentialsCarried
  <2>1. /\ Halves(InfoText, uri["user"], uri["password"])
        /\ Authorized(request.authorization, Userinfo, UserBytes)
    BY DEF UriInv, SplitInv, RequestInv, Parsed
  <2>2. uri["user"] \in Seq(DOMAIN ByteOf) /\ ":" \in DOMAIN ByteOf
    BY ConstantsAssumption DEF UriInv, UriTypes, Parts
  <2>3. credentials = Userinfo
    <3>1. CASE Has(InfoText, ":")
      BY <2>1, <3>1, Zenon DEF Halves, Userinfo
    <3>2. CASE ~Has(InfoText, ":")
      <4>1. uri["user"] = InfoText /\ uri["password"] = <<>>
        BY <2>1, <3>2 DEF Halves
      <4>2. Append(InfoText, ":") = InfoText \o <<":">>
        BY <2>2, <4>1, AppendIsConcat
      <4>3. Append(InfoText, ":") \in Seq(DOMAIN ByteOf)
        BY <2>2, <4>1
      <4>4. Append(InfoText, ":") \o <<>> = Append(InfoText, ":")
        BY <4>3, ConcatEmptySeq
      <4> QED
        BY <3>2, <4>1, <4>2, <4>4, Zenon DEF Userinfo
    <3> QED
      BY <3>1, <3>2
  <2> HIDE DEF credentials
  <2> QED
    BY <2>1, <2>3, Zenon DEF Authorized, UserBytes
<1> QED
  BY <1>1, UriInductive, PTL

=============================================================================
