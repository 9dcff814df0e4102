----------------------------- MODULE PbChannelProofs -----------------------------
(***************************************************************************)
(* The message classes, for messages of any size and bodies cut anywhere:    *)
(* every message built or read has its fields' types, and its computed size  *)
(* is the number of bytes written.  Loops are recursive functions, and what  *)
(* they compute is shown by induction, as the set of the rounds up to which  *)
(* it holds.  The last part shows that digits, tags, texts and packed arrays *)
(* are read as they were written.                                            *)
(***************************************************************************)
EXTENDS PbChannel, SequenceTheorems, WellFoundedInduction, TLAPS

-----------------------------------------------------------------------------
(* Induction and recursion.                                                 *)

\* A non-empty set of natural numbers has a least element.
LEMMA LeastNat ==
  ASSUME NEW Z \in SUBSET Nat, Z # {}
  PROVE  \E i \in Z : \A j \in Z : i <= j
<1> DEFINE R == OpToRel(<, Nat)
<1>1. IsWellFoundedOn(R, Nat)
  BY NatLessThanWellFounded
<1>2. \A i, j \in Nat : <<i, j>> \in R <=> i < j
  BY DEF OpToRel
<1> HIDE DEF R
<1>3. PICK i \in Z : \A j \in Z : ~(<<j, i>> \in R)
  BY <1>1, WFMin
<1>4. \A j \in Z : i \in Nat /\ j \in Nat /\ ~(j < i)
  BY <1>2, <1>3
<1>5. \A j \in Z : i <= j
  BY <1>4
<1> QED
  BY <1>5

\* A set that holds a and is closed under the step up to n holds a .. n.
LEMMA UpTo ==
  ASSUME NEW a \in Nat, NEW n \in Nat, NEW Z, a \in Z,
         \A i \in a .. n - 1 : i \in Z => i + 1 \in Z
  PROVE  \A i \in a .. n : i \in Z
<1> SUFFICES ASSUME NEW x \in a .. n, x \notin Z
             PROVE  FALSE
  OBVIOUS
<1> DEFINE M == {i \in Nat : i \in a .. n /\ i \notin Z}
<1>1. M \in SUBSET Nat /\ x \in M
  OBVIOUS
<1>2. \A i \in M : i \in Nat /\ i \in a .. n /\ i \notin Z
  OBVIOUS
<1>3. \A i \in Nat : i \in a .. n /\ i \notin Z => i \in M
  OBVIOUS
<1> HIDE DEF M
<1>4. PICK m \in M : \A j \in M : m <= j
  BY <1>1, LeastNat
<1>5. m \in Nat /\ m >= a /\ m <= n /\ m \notin Z /\ m # a
  BY <1>2
<1>6. m - 1 \in Nat /\ m - 1 \in a .. n - 1 /\ m - 1 \in a .. n
  BY <1>5
<1>7. m - 1 \notin M
  BY <1>4, <1>5, <1>6
<1>8. m - 1 \in Z
  BY <1>3, <1>6, <1>7
<1>9. (m - 1) + 1 \in Z
  BY <1>6, <1>8
<1> QED
  BY <1>5, <1>9

\* g starts with b and goes on with the steps F, up to n.
Follows(g, n, b, F) == g[0] = b /\ \A i \in 1 .. n : g[i] = F[i][g[i - 1]]

\* A recursion along 0 .. n with steps within V has a solution.
LEMMA Recursion ==
  ASSUME NEW V, NEW n \in Nat, NEW b \in V, NEW F,
         \A i \in 1 .. n : \A v \in V : F[i][v] \in V
  PROVE  \E g \in [0 .. n -> V] : Follows(g, n, b, F)
<1> USE DEF Follows
<1> DEFINE Sol(g, k) == Follows(g, k, b, F)
           Z == {k \in 0 .. n : \E g \in [0 .. k -> V] : Sol(g, k)}
<1>1. 0 \in Z
  <2> DEFINE g == [i \in 0 .. 0 |-> b]
  <2>1. g \in [0 .. 0 -> V] /\ Sol(g, 0)
    OBVIOUS
  <2> HIDE DEF g
  <2>2. 0 \in 0 .. n
    OBVIOUS
  <2> QED
    BY <2>1, <2>2
<1>2. ASSUME NEW k \in 0 .. n - 1, k \in Z
      PROVE  k + 1 \in Z
  <2>1. PICK g \in [0 .. k -> V] : Sol(g, k)
    BY <1>2
  <2> DEFINE h == [i \in 0 .. k + 1 |-> IF i = k + 1 THEN F[k + 1][g[k]] ELSE g[i]]
  <2>2. F[k + 1][g[k]] \in V
    OBVIOUS
  <2>3. h \in [0 .. k + 1 -> V]
    BY <2>2
  <2>4. h[0] = b /\ h[k + 1] = F[k + 1][g[k]] /\ \A i \in 0 .. k : h[i] = g[i]
    BY <2>1
  <2> HIDE DEF h
  <2>5. ASSUME NEW i \in 1 .. k + 1
        PROVE  h[i] = F[i][h[i - 1]]
    <3>1. CASE i = k + 1
      BY <2>4, <3>1
    <3>2. CASE i # k + 1
      <4>1. i \in 1 .. k /\ i \in 0 .. k /\ i - 1 \in 0 .. k
        BY <3>2
      <4> QED
        BY <2>1, <2>4, <4>1
    <3> QED
      BY <3>1, <3>2
  <2> QED
    BY <2>3, <2>4, <2>5
<1> HIDE DEF Z
<1>3. \A i \in 0 .. n : i \in Z
  <2>1. \A i \in 0 .. n - 1 : i \in Z => i + 1 \in Z
    BY <1>2
  <2>2. 0 \in Nat
    OBVIOUS
  <2> QED
    BY <1>1, <2>1, <2>2, UpTo
<1>4. n \in Z
  BY <1>3
<1> QED
  BY <1>4 DEF Z

\* What starts in V and does not leave it stays in it.
LEMMA StaysIn ==
  ASSUME NEW V, NEW n \in Nat, NEW f, f[0] \in V,
         \A i \in 1 .. n : f[i - 1] \in V => f[i] \in V
  PROVE  \A i \in 0 .. n : f[i] \in V
<1> DEFINE Z == {i \in 0 .. n : f[i] \in V}
<1>1. 0 \in Z /\ 0 \in Nat
  OBVIOUS
<1>2. ASSUME NEW i \in 0 .. n - 1, i \in Z
      PROVE  i + 1 \in Z
  <2>1. i + 1 \in 1 .. n /\ i + 1 \in 0 .. n /\ (i + 1) - 1 = i
    OBVIOUS
  <2>2. f[i] \in V
    BY <1>2
  <2>3. f[i + 1] \in V
    BY <2>1, <2>2
  <2> QED
    BY <2>1, <2>3
<1> HIDE DEF Z
<1>3. \A i \in 0 .. n : i \in Z
  BY <1>1, <1>2, UpTo
<1> QED
  BY <1>3 DEF Z
-----------------------------------------------------------------------------
(* Writing.                                                                 *)

\* Digits and bytes.
Str == Seq(Nat)

\* A non-empty set of positions of a sequence has a largest element.
LEMMA MaxOfPositions ==
  ASSUME NEW n \in Nat, NEW Z \in SUBSET (1 .. n), Z # {}
  PROVE  Max(Z) \in Z /\ \A z \in Z : z <= Max(Z)
<1> DEFINE M == {k \in Nat : n - k \in Z}
<1>1. M \in SUBSET Nat /\ M # {}
  <2>1. PICK z \in Z : TRUE
    OBVIOUS
  <2>2. z \in 1 .. n
    OBVIOUS
  <2>3. n - z \in Nat /\ n - (n - z) = z
    BY <2>2
  <2> QED
    BY <2>1, <2>3
<1>2. \A k \in M : k \in Nat /\ n - k \in Z
  OBVIOUS
<1>3. \A z \in Z : z \in 1 .. n /\ n - z \in M
  <2> SUFFICES ASSUME NEW z \in Z PROVE z \in 1 .. n /\ n - z \in M
    OBVIOUS
  <2>1. z \in 1 .. n
    OBVIOUS
  <2>2. n - z \in Nat /\ n - (n - z) = z
    BY <2>1
  <2> QED
    BY <2>1, <2>2
<1> HIDE DEF M
<1>4. PICK k \in M : \A l \in M : k <= l
  BY <1>1, LeastNat
<1>5. k \in Nat /\ n - k \in Z
  BY <1>2
<1>6. \A z \in Z : z <= n - k
  BY <1>3, <1>4, <1>5
<1>7. \E x \in Z : \A y \in Z : x >= y
  BY <1>3, <1>5, <1>6
<1>8. Max(Z) \in Z /\ \A y \in Z : Max(Z) >= y
  BY <1>7 DEF Max
<1> QED
  BY <1>3, <1>8

\* Leading zeros are left out.
LEMMA CanonicalType == \A d \in Str : Canonical(d) \in Str
<1> SUFFICES ASSUME NEW d \in Str PROVE Canonical(d) \in Str
  OBVIOUS
<1> DEFINE top == {i \in DOMAIN d : d[i] # 0}
           k == IF top = {} THEN 0 ELSE Max(top)
<1>1. Len(d) \in Nat /\ DOMAIN d = 1 .. Len(d) /\ \A i \in 1 .. Len(d) : d[i] \in Nat
  BY LenProperties, ElementOfSeq DEF Str
<1>2. top \in SUBSET (1 .. Len(d))
  BY <1>1
<1> HIDE DEF top
<1>3. k \in 0 .. Len(d)
  <2>1. CASE top = {}
    BY <1>1, <2>1
  <2>2. CASE top # {}
    <3>1. Max(top) \in top
      BY <1>1, <1>2, <2>2, MaxOfPositions
    <3>2. Max(top) \in 1 .. Len(d)
      BY <1>2, <3>1
    <3>3. k = Max(top)
      BY <2>2
    <3> HIDE DEF k
    <3> QED
      BY <1>1, <3>2, <3>3
  <2> QED
    BY <2>1, <2>2
<1>4. Canonical(d) = SubSeq(d, 1, k)
  BY DEF Canonical, top
<1> HIDE DEF k
<1>5. 1 \in Int /\ k \in Int /\ \A i \in 1 .. k : d[i] \in Nat
  BY <1>1, <1>3
<1>6. SubSeq(d, 1, k) \in Seq(Nat)
  BY <1>5, SubSeqProperties
<1> QED
  BY <1>4, <1>6 DEF Str

\* The first four digits and others are digits.
LEMMA FourAndMore ==
  ASSUME NEW d \in Str, Len(d) >= 5, NEW e \in Str
  PROVE  SubSeq(d, 1, 4) \o e \in Str
<1>1. Len(d) \in Nat /\ \A i \in 1 .. Len(d) : d[i] \in Nat
  BY LenProperties, ElementOfSeq DEF Str
<1>2. 1 \in Int /\ 4 \in Int /\ \A i \in 1 .. 4 : d[i] \in Nat
  BY <1>1
<1> DEFINE f == SubSeq(d, 1, 4)
<1>3. f \in Seq(Nat)
  BY <1>2, SubSeqProperties
<1> HIDE DEF f
<1>4. f \o e \in Seq(Nat)
  BY <1>3, ConcatProperties DEF Str
<1> QED
  BY <1>4 DEF f, Str

\* The casts give digits.
LEMMA CastTypes ==
  ASSUME NEW d \in Str
  PROVE  /\ UInt64(d) \in Str /\ UInt32(d) \in Str /\ Int32(d) \in Str
         /\ Bool(d) \in {<<>>, <<1>>}
<1>1. Len(d) \in Nat /\ \A i \in 1 .. Len(d) : d[i] \in Nat
  BY LenProperties, ElementOfSeq DEF Str
<1>2. UInt64(d) \in Str
  <2>1. CASE Len(d) = 10
    <3> DEFINE e == d[10] % 2
    <3>1. e \in Nat /\ 10 \in 1 .. Len(d)
      BY <1>1, <2>1
    <3>2. UInt64(d) = Canonical([d EXCEPT ![10] = e])
      BY <2>1 DEF UInt64
    <3> HIDE DEF e
    <3>3. [d EXCEPT ![10] = e] \in Seq(Nat)
      BY <3>1, ExceptSeq DEF Str
    <3> QED
      BY <3>2, <3>3, CanonicalType DEF Str
  <2>2. CASE Len(d) # 10
    BY <2>2, CanonicalType DEF UInt64
  <2> QED
    BY <2>1, <2>2
<1>3. UInt32(d) \in Str
  <2>1. CASE Len(d) < 5
    BY <2>1, CanonicalType DEF UInt32
  <2>2. CASE ~(Len(d) < 5)
    <3> DEFINE e == <<d[5] % 16>>
    <3>1. d[5] % 16 \in Nat
      BY <1>1, <2>2
    <3>2. e \in Str
      BY <3>1 DEF Str
    <3>3. UInt32(d) = Canonical(SubSeq(d, 1, 4) \o e)
      BY <2>2 DEF UInt32
    <3> HIDE DEF e
    <3>4. SubSeq(d, 1, 4) \o e \in Str
      BY <1>1, <2>2, <3>2, FourAndMore
    <3> QED
      BY <3>3, <3>4, CanonicalType
  <2> QED
    BY <2>1, <2>2
<1>4. Int32(d) \in Str
  <2>1. CASE Len(d) >= 5 /\ d[5] % 16 >= 8
    <3> DEFINE x == d[5] % 16
               e == <<112 + x, 127, 127, 127, 127, 1>>
    <3>1. x \in Nat
      BY <1>1, <2>1
    <3>2. Int32(d) = SubSeq(d, 1, 4) \o e
      BY <2>1 DEF Int32
    <3> HIDE DEF x
    <3>3. e \in Str
      BY <3>1 DEF Str
    <3> HIDE DEF e
    <3> QED
      BY <2>1, <3>2, <3>3, FourAndMore
  <2>2. CASE ~(Len(d) >= 5 /\ d[5] % 16 >= 8)
    BY <1>3, <2>2 DEF Int32
  <2> QED
    BY <2>1, <2>2
<1>5. Bool(d) \in {<<>>, <<1>>}
  BY DEF Bool
<1> QED
  BY <1>2, <1>3, <1>4, <1>5

\* Sizes have digits.
LEMMA DigitsType == \A n \in Nat : Digits(n) \in Str
<1> SUFFICES ASSUME NEW n \in Nat PROVE Digits(n) \in Str
  OBVIOUS
<1> DEFINE d == <<n % 128, (n \div 128) % 128, n \div 16384>>
<1>1. n % 128 \in Nat /\ n \div 128 \in Nat /\ n \div 16384 \in Nat
  OBVIOUS
<1>2. (n \div 128) % 128 \in Nat
  BY <1>1
<1>3. d \in Str
  BY <1>1, <1>2 DEF Str
<1> HIDE DEF d
<1>4. Digits(n) = Canonical(d)
  BY DEF Digits, d
<1> QED
  BY <1>3, <1>4, CanonicalType

\* Digits stand for a number.
LEMMA NumberType == \A d \in Str : Number(d) \in Nat
<1> SUFFICES ASSUME NEW d \in Str PROVE Number(d) \in Nat
  OBVIOUS
<1> DEFINE D(i) == IF i <= Len(d) THEN d[i] ELSE 0
<1>1. Len(d) \in Nat /\ \A i \in 1 .. Len(d) : d[i] \in Nat
  BY LenProperties, ElementOfSeq DEF Str
<1>2. D(1) \in Nat /\ D(2) \in Nat /\ D(3) \in Nat /\ D(4) \in Nat
  BY <1>1
<1>3. Number(d) = IF Len(d) > 4 THEN Huge ELSE D(1) + 128 * (D(2) + 128 * (D(3) + 128 * D(4)))
  BY DEF Number
<1> HIDE DEF D
<1>4. D(1) + 128 * (D(2) + 128 * (D(3) + 128 * D(4))) \in Nat
  BY <1>2
<1>5. Huge \in Nat
  BY DEF Huge
<1> QED
  BY <1>3, <1>4, <1>5

\* A varint is as long as its size says.
LEMMA WriteVarintSize ==
  ASSUME NEW d \in Str
  PROVE  /\ WriteVarint(d) \in Str /\ VarintSize(d) \in Nat /\ VarintSize(d) >= 1
         /\ Len(WriteVarint(d)) = VarintSize(d)
<1>1. Len(d) \in Nat /\ DOMAIN d = 1 .. Len(d) /\ \A i \in 1 .. Len(d) : d[i] \in Nat
  BY LenProperties, ElementOfSeq DEF Str
<1>2. CASE d = <<>>
  BY <1>2 DEF WriteVarint, VarintSize, Str
<1>3. CASE d # <<>>
  <2> DEFINE n == Len(d)
             w == [i \in 1 .. n |-> IF i < n THEN d[i] + 128 ELSE d[i]]
  <2>1. WriteVarint(d) = w /\ VarintSize(d) = n
    BY <1>1, <1>3 DEF WriteVarint, VarintSize
  <2>2. n \in Nat /\ n >= 1
    BY <1>1, <1>3, EmptySeq DEF Str
  <2>3. \A i \in 1 .. n : (IF i < n THEN d[i] + 128 ELSE d[i]) \in Nat
    BY <1>1
  <2>4. w \in Seq(Nat) /\ Len(w) = n
    BY <2>2, <2>3
  <2> QED
    BY <2>1, <2>2, <2>4 DEF Str
<1> QED
  BY <1>2, <1>3

\* Sequences of digits or bytes one behind the other.
LEMMA StrConcat ==
  ASSUME NEW s \in Str, NEW t \in Str
  PROVE  s \o t \in Str /\ Len(s \o t) = Len(s) + Len(t) /\ Len(s) \in Nat /\ Len(t) \in Nat
BY ConcatProperties, LenProperties DEF Str

\* A length and what it is the length of.
LEMMA WriteBytesSize ==
  ASSUME NEW tag \in Str, NEW s \in Str
  PROVE  /\ WriteBytes(tag, s) \in Str
         /\ Len(WriteBytes(tag, s)) = VarintSize(tag) + LengthSize(Len(s))
         /\ LengthSize(Len(s)) \in Nat /\ LengthSize(Len(s)) >= 1
<1> DEFINE t == WriteVarint(tag)
           d == Digits(Len(s))
           l == WriteVarint(d)
<1>1. Len(s) \in Nat
  BY LenProperties DEF Str
<1>2. d \in Str
  BY <1>1, DigitsType
<1> HIDE DEF d
<1>3. t \in Str /\ Len(t) = VarintSize(tag) /\ VarintSize(tag) \in Nat
  BY WriteVarintSize
<1>4. l \in Str /\ Len(l) = VarintSize(d) /\ VarintSize(d) \in Nat /\ VarintSize(d) >= 1
  BY <1>2, WriteVarintSize
<1> HIDE DEF t, l
<1>5. t \o l \in Str /\ Len(t \o l) = Len(t) + Len(l)
  BY <1>3, <1>4, StrConcat
<1> DEFINE tl == t \o l
<1>6. tl \in Str /\ Len(tl) = Len(t) + Len(l)
  BY <1>5
<1> HIDE DEF tl
<1>7. tl \o s \in Str /\ Len(tl \o s) = Len(tl) + Len(s)
  BY <1>6, StrConcat
<1>8. WriteBytes(tag, s) = tl \o s
  BY DEF WriteBytes, tl, t, l, d
<1>9. LengthSize(Len(s)) = VarintSize(d) + Len(s)
  BY DEF LengthSize, d
<1>10. LengthSize(Len(s)) \in Nat /\ LengthSize(Len(s)) >= 1
  BY <1>1, <1>4, <1>9
<1>11. Len(tl \o s) = VarintSize(tag) + LengthSize(Len(s))
  BY <1>1, <1>3, <1>4, <1>6, <1>7, <1>9
<1> QED
  BY <1>7, <1>8, <1>10, <1>11

\* A field that is written unless it has its default is as long as its size says.
LEMMA FieldSizes ==
  ASSUME NEW tag \in Str, NEW s \in Str
  PROVE  /\ VarintField(tag, s) \in Str /\ BytesField(tag, s) \in Str
         /\ VarintFieldSize(tag, s) \in Nat /\ BytesFieldSize(tag, s) \in Nat
         /\ Len(VarintField(tag, s)) = VarintFieldSize(tag, s)
         /\ Len(BytesField(tag, s)) = BytesFieldSize(tag, s)
<1>1. <<>> \in Str /\ Len(<<>>) = 0
  BY EmptySeq DEF Str
<1>2. CASE s = <<>>
  BY <1>1, <1>2 DEF VarintField, BytesField, VarintFieldSize, BytesFieldSize
<1>3. CASE s # <<>>
  <2> DEFINE t == WriteVarint(tag)
             w == WriteVarint(s)
  <2>1. t \in Str /\ Len(t) = VarintSize(tag) /\ VarintSize(tag) \in Nat
    BY WriteVarintSize
  <2>2. w \in Str /\ Len(w) = VarintSize(s) /\ VarintSize(s) \in Nat
    BY WriteVarintSize
  <2>3. VarintField(tag, s) = t \o w /\ VarintFieldSize(tag, s) = VarintSize(tag) + VarintSize(s)
    BY <1>3 DEF VarintField, VarintFieldSize
  <2> HIDE DEF t, w
  <2>4. t \o w \in Str /\ Len(t \o w) = Len(t) + Len(w)
    BY <2>1, <2>2, StrConcat
  <2>5. BytesField(tag, s) = WriteBytes(tag, s)
        /\ BytesFieldSize(tag, s) = VarintSize(tag) + LengthSize(Len(s))
    BY <1>3 DEF BytesField, BytesFieldSize
  <2>6. /\ WriteBytes(tag, s) \in Str
        /\ Len(WriteBytes(tag, s)) = VarintSize(tag) + LengthSize(Len(s))
        /\ LengthSize(Len(s)) \in Nat
    BY WriteBytesSize
  <2> QED
    BY <2>1, <2>2, <2>3, <2>4, <2>5, <2>6
<1> QED
  BY <1>2, <1>3

\* f runs through a loop over the elements of s.
SumRun(f, s) == /\ f[0] = 0 /\ \A i \in 1 .. Len(s) : f[i] = f[i - 1] + s[i]
                /\ SumSeq(s) = f[Len(s)]
JoinRun(f, s) == /\ f[0] = <<>> /\ \A i \in 1 .. Len(s) : f[i] = f[i - 1] \o s[i]
                 /\ JoinSeq(s) = f[Len(s)]

\* A sum is reached step by step.
LEMMA SumSteps ==
  ASSUME NEW s \in Seq(Nat)
  PROVE  \E f : SumRun(f, s) /\ \A i \in 0 .. Len(s) : f[i] \in Nat
<1> DEFINE n == Len(s)
           V == Nat
           F == [i \in 1 .. n |-> [v \in V |-> v + s[i]]]
           sum[i \in 0 .. Len(s)] == IF i = 0 THEN 0 ELSE sum[i - 1] + s[i]
<1>1. n \in Nat /\ \A i \in 1 .. n : s[i] \in Nat
  BY LenProperties, ElementOfSeq
<1>2. \A i \in 1 .. n : \A v \in V : F[i][v] = v + s[i] /\ v + s[i] \in V
  BY <1>1
<1>3. SumSeq(s) = sum[Len(s)]
  BY DEF SumSeq
<1>4. 0 \in V
  OBVIOUS
<1> HIDE DEF F, V, n
<1>5. PICK g \in [0 .. n -> V] : Follows(g, n, 0, F)
  <2>1. \A i \in 1 .. n : \A v \in V : F[i][v] \in V
    BY <1>2
  <2>2. n \in Nat
    BY <1>1
  <2> QED
    BY <1>4, <2>1, <2>2, Recursion
<1>6. \A i \in 0 .. n : g[i] = IF i = 0 THEN 0 ELSE g[i - 1] + s[i]
  <2> SUFFICES ASSUME NEW i \in 0 .. n PROVE g[i] = IF i = 0 THEN 0 ELSE g[i - 1] + s[i]
    OBVIOUS
  <2>1. CASE i = 0
    BY <1>5, <2>1 DEF Follows
  <2>2. CASE i # 0
    <3>1. i \in 1 .. n /\ i - 1 \in 0 .. n
      BY <1>1, <2>2
    <3>2. g[i] = F[i][g[i - 1]] /\ g[i - 1] \in V
      BY <1>5, <3>1 DEF Follows
    <3> QED
      BY <1>2, <2>2, <3>1, <3>2
  <2> QED
    BY <2>1, <2>2
<1>7. g = [i \in 0 .. n |-> g[i]]
  OBVIOUS
<1>8. g = [i \in 0 .. Len(s) |-> IF i = 0 THEN 0 ELSE g[i - 1] + s[i]]
  BY <1>6, <1>7 DEF n
<1>9. sum = [i \in 0 .. Len(s) |-> IF i = 0 THEN 0 ELSE sum[i - 1] + s[i]]
  BY <1>8
<1> HIDE DEF sum
<1>10. \A i \in 0 .. n : sum[i] = IF i = 0 THEN 0 ELSE sum[i - 1] + s[i]
  BY <1>9 DEF n
<1>11. 0 \in 0 .. n /\ \A i \in 1 .. n : i \in 0 .. n /\ i # 0
  BY <1>1
<1>12. sum[0] = 0 /\ \A i \in 1 .. n : sum[i] = sum[i - 1] + s[i]
  BY <1>10, <1>11
<1>13. \A i \in 0 .. n : sum[i] \in V
  <2>1. \A i \in 1 .. n : sum[i - 1] \in V => sum[i] \in V
    BY <1>2, <1>12
  <2>2. sum[0] \in V
    BY <1>4, <1>12
  <2>3. n \in Nat
    BY <1>1
  <2> QED
    BY <2>1, <2>2, <2>3, StaysIn
<1> QED
  BY <1>3, <1>12, <1>13 DEF n, V, SumRun

\* What is written one after the other is reached step by step.
LEMMA JoinSteps ==
  ASSUME NEW s \in Seq(Str)
  PROVE  \E f : JoinRun(f, s) /\ \A i \in 0 .. Len(s) : f[i] \in Str
<1> DEFINE n == Len(s)
           V == Str
           F == [i \in 1 .. n |-> [v \in V |-> v \o s[i]]]
           join[i \in 0 .. Len(s)] == IF i = 0 THEN <<>> ELSE join[i - 1] \o s[i]
<1>1. n \in Nat /\ \A i \in 1 .. n : s[i] \in Str
  BY LenProperties, ElementOfSeq
<1>2. \A i \in 1 .. n : \A v \in V : F[i][v] = v \o s[i] /\ v \o s[i] \in V
  BY <1>1, StrConcat
<1>3. JoinSeq(s) = join[Len(s)]
  BY DEF JoinSeq
<1>4. <<>> \in V
  BY EmptySeq DEF Str
<1> HIDE DEF F, V, n
<1>5. PICK g \in [0 .. n -> V] : Follows(g, n, <<>>, F)
  <2>1. \A i \in 1 .. n : \A v \in V : F[i][v] \in V
    BY <1>2
  <2>2. n \in Nat
    BY <1>1
  <2> QED
    BY <1>4, <2>1, <2>2, Recursion
<1>6. \A i \in 0 .. n : g[i] = IF i = 0 THEN <<>> ELSE g[i - 1] \o s[i]
  <2> SUFFICES ASSUME NEW i \in 0 .. n PROVE g[i] = IF i = 0 THEN <<>> ELSE g[i - 1] \o s[i]
    OBVIOUS
  <2>1. CASE i = 0
    BY <1>5, <2>1 DEF Follows
  <2>2. CASE i # 0
    <3>1. i \in 1 .. n /\ i - 1 \in 0 .. n
      BY <1>1, <2>2
    <3>2. g[i] = F[i][g[i - 1]] /\ g[i - 1] \in V
      BY <1>5, <3>1 DEF Follows
    <3> QED
      BY <1>2, <2>2, <3>1, <3>2
  <2> QED
    BY <2>1, <2>2
<1>7. g = [i \in 0 .. n |-> g[i]]
  OBVIOUS
<1>8. g = [i \in 0 .. Len(s) |-> IF i = 0 THEN <<>> ELSE g[i - 1] \o s[i]]
  BY <1>6, <1>7 DEF n
<1>9. join = [i \in 0 .. Len(s) |-> IF i = 0 THEN <<>> ELSE join[i - 1] \o s[i]]
  BY <1>8
<1> HIDE DEF join
<1>10. \A i \in 0 .. n : join[i] = IF i = 0 THEN <<>> ELSE join[i - 1] \o s[i]
  BY <1>9 DEF n
<1>11. 0 \in 0 .. n /\ \A i \in 1 .. n : i \in 0 .. n /\ i # 0
  BY <1>1
<1>12. join[0] = <<>> /\ \A i \in 1 .. n : join[i] = join[i - 1] \o s[i]
  BY <1>10, <1>11
<1>13. \A i \in 0 .. n : join[i] \in V
  <2>1. \A i \in 1 .. n : join[i - 1] \in V => join[i] \in V
    BY <1>2, <1>12
  <2>2. join[0] \in V
    BY <1>4, <1>12
  <2>3. n \in Nat
    BY <1>1
  <2> QED
    BY <2>1, <2>2, <2>3, StaysIn
<1> QED
  BY <1>3, <1>12, <1>13 DEF n, V, JoinRun

\* The elements of a repeated field take as many bytes as the sum of their sizes.
LEMMA JoinSize ==
  ASSUME NEW s \in Seq(Str), NEW z \in Seq(Nat), Len(z) = Len(s),
         \A i \in 1 .. Len(s) : z[i] = Len(s[i])
  PROVE  JoinSeq(s) \in Str /\ SumSeq(z) \in Nat /\ Len(JoinSeq(s)) = SumSeq(z)
<1> DEFINE n == Len(s)
<1>1. n \in Nat /\ \A i \in 1 .. n : s[i] \in Str
  BY LenProperties, ElementOfSeq
<1>2. PICK f : JoinRun(f, s) /\ \A i \in 0 .. Len(s) : f[i] \in Str
  BY JoinSteps
<1>3. PICK g : SumRun(g, z) /\ \A i \in 0 .. Len(z) : g[i] \in Nat
  BY SumSteps
<1>4. /\ f[0] = <<>> /\ \A i \in 1 .. n : f[i] = f[i - 1] \o s[i]
      /\ JoinSeq(s) = f[n]
  BY <1>2 DEF JoinRun
<1>5. /\ g[0] = 0 /\ \A i \in 1 .. n : g[i] = g[i - 1] + z[i]
      /\ SumSeq(z) = g[n]
  BY <1>3 DEF SumRun
<1>6. \A i \in 0 .. n : f[i] \in Str /\ g[i] \in Nat
  BY <1>2, <1>3
<1> HIDE DEF n
<1> DEFINE Z == {i \in 0 .. n : Len(f[i]) = g[i]}
<1>7. 0 \in Z /\ 0 \in Nat
  BY <1>1, <1>4, <1>5
<1>8. ASSUME NEW i \in 0 .. n - 1, i \in Z
      PROVE  i + 1 \in Z
  <2>1. i + 1 \in 1 .. n /\ i + 1 \in 0 .. n /\ i \in 0 .. n /\ (i + 1) - 1 = i
    BY <1>1
  <2>2. f[i + 1] = f[i] \o s[i + 1] /\ g[i + 1] = g[i] + z[i + 1] /\ z[i + 1] = Len(s[i + 1])
    BY <1>4, <1>5, <2>1 DEF n
  <2>3. f[i] \in Str /\ s[i + 1] \in Str
    BY <1>1, <1>6, <2>1
  <2>4. Len(f[i] \o s[i + 1]) = Len(f[i]) + Len(s[i + 1])
    BY <2>3, StrConcat
  <2>5. Len(f[i]) = g[i]
    BY <1>8
  <2> QED
    BY <2>1, <2>2, <2>4, <2>5
<1>9. \A i \in 0 .. n : i \in Z
  <2> HIDE DEF Z
  <2> QED
    BY <1>1, <1>7, <1>8, UpTo
<1>10. n \in 0 .. n
  BY <1>1
<1> QED
  BY <1>4, <1>5, <1>6, <1>9, <1>10

\* A packed array is as long as its size says.
LEMMA PackedSizes ==
  ASSUME NEW tag \in Str, NEW s \in Seq(Str)
  PROVE  /\ WritePacked(tag, s) \in Str /\ PackedSize(s) \in Nat
         /\ Len(WritePacked(tag, s)) = VarintSize(tag) + LengthSize(PackedSize(s))
         /\ LengthSize(PackedSize(s)) \in Nat
<1> DEFINE n == Len(s)
           w == [i \in DOMAIN s |-> WriteVarint(s[i])]
           z == [i \in DOMAIN s |-> VarintSize(s[i])]
<1>1. n \in Nat /\ DOMAIN s = 1 .. n /\ \A i \in 1 .. n : s[i] \in Str
  BY LenProperties, ElementOfSeq
<1>2. \A i \in 1 .. n : /\ WriteVarint(s[i]) \in Str /\ VarintSize(s[i]) \in Nat
                        /\ Len(WriteVarint(s[i])) = VarintSize(s[i])
  BY <1>1, WriteVarintSize
<1>3. w \in Seq(Str) /\ Len(w) = n /\ \A i \in 1 .. n : w[i] = WriteVarint(s[i])
  BY <1>1, <1>2
<1>4. z \in Seq(Nat) /\ Len(z) = n /\ \A i \in 1 .. n : z[i] = VarintSize(s[i])
  BY <1>1, <1>2
<1>5. PackedSize(s) = SumSeq(z) /\ WritePacked(tag, s) = WriteBytes(tag, JoinSeq(w))
  BY DEF PackedSize, WritePacked
<1> HIDE DEF w, z, n
<1>6. \A i \in 1 .. Len(w) : z[i] = Len(w[i])
  BY <1>2, <1>3, <1>4
<1>7. JoinSeq(w) \in Str /\ SumSeq(z) \in Nat /\ Len(JoinSeq(w)) = SumSeq(z)
  BY <1>3, <1>4, <1>6, JoinSize
<1> DEFINE j == JoinSeq(w)
<1>8. j \in Str /\ Len(j) = PackedSize(s) /\ PackedSize(s) \in Nat /\ WritePacked(tag, s) = WriteBytes(tag, j)
  BY <1>5, <1>7
<1> HIDE DEF j
<1>9. /\ WriteBytes(tag, j) \in Str
      /\ Len(WriteBytes(tag, j)) = VarintSize(tag) + LengthSize(Len(j))
      /\ LengthSize(Len(j)) \in Nat
  BY <1>8, WriteBytesSize
<1> QED
  BY <1>8, <1>9
-----------------------------------------------------------------------------
(* Reading.                                                                 *)

Pos == Nat \ {0}
Reads(V) == [ok : BOOLEAN, val : V, pos : Pos]

\* What a reader returns.
LEMMA ReadType ==
  ASSUME NEW V, NEW ok \in BOOLEAN, NEW val \in V, NEW pos \in Pos
  PROVE  Read(ok, val, pos) \in Reads(V)
BY DEF Read, Reads

\* What a reader returned.
LEMMA ReadsHave ==
  ASSUME NEW V, NEW r \in Reads(V)
  PROVE  r.ok \in BOOLEAN /\ r.val \in V /\ r.pos \in Pos
BY DEF Reads

\* A byte is read wherever the reader looks.
LEMMA ByteAtType ==
  ASSUME NEW buf \in Str, NEW i \in Pos
  PROVE  ByteAt(buf, i) \in Nat
<1>1. Len(buf) \in Nat /\ \A k \in 1 .. Len(buf) : buf[k] \in Nat
  BY LenProperties, ElementOfSeq DEF Str
<1>2. CASE i <= Len(buf)
  <2>1. i \in 1 .. Len(buf)
    BY <1>1, <1>2 DEF Pos
  <2> QED
    BY <1>1, <1>2, <2>1 DEF ByteAt
<1>3. CASE ~(i <= Len(buf))
  BY <1>3 DEF ByteAt
<1> QED
  BY <1>2, <1>3

\* The n bytes from a position are bytes.
LEMMA FixedType ==
  ASSUME NEW buf \in Str, NEW pos \in Pos, NEW n \in Nat
  PROVE  [i \in 1 .. n |-> ByteAt(buf, pos + i - 1)] \in Str
<1>1. \A i \in 1 .. n : pos + i - 1 \in Pos
  BY DEF Pos
<1>2. \A i \in 1 .. n : ByteAt(buf, pos + i - 1) \in Nat
  BY <1>1, ByteAtType
<1> QED
  BY <1>2 DEF Str

\* A varint, whatever is there.
LEMMA ReadVarintType ==
  ASSUME NEW buf \in Str, NEW pos \in Pos, NEW w \in Nat
  PROVE  ReadVarint(buf, pos, w) \in Reads(Str)
<1> DEFINE ends == {n \in 1 .. w : ByteAt(buf, pos + n - 1) < 128}
           n    == Min(ends)
           d    == [i \in 1 .. n |-> ByteAt(buf, pos + i - 1) % 128]
<1>1. ReadVarint(buf, pos, w) = IF ends = {} THEN Read(FALSE, <<>>, pos)
                                ELSE Read(TRUE, UInt64(d), pos + n)
  BY DEF ReadVarint
<1>2. ends \in SUBSET Nat /\ \A k \in ends : k \in Pos
  BY DEF Pos
<1> HIDE DEF ends
<1>3. CASE ends = {}
  <2>1. <<>> \in Str
    BY EmptySeq DEF Str
  <2> QED
    BY <1>1, <1>3, <2>1, ReadType
<1>4. CASE ends # {}
  <2>1. \E x \in ends : \A y \in ends : x <= y
    BY <1>2, <1>4, LeastNat
  <2>2. n \in ends
    BY <2>1 DEF Min
  <2>3. n \in Pos
    BY <1>2, <2>2
  <2> HIDE DEF n
  <2>4. \A i \in 1 .. n : pos + i - 1 \in Pos
    BY <2>3 DEF Pos
  <2>5. \A i \in 1 .. n : ByteAt(buf, pos + i - 1) \in Nat
    BY <2>4, ByteAtType
  <2>6. \A i \in 1 .. n : ByteAt(buf, pos + i - 1) % 128 \in Nat
    BY <2>5
  <2>7. d \in Str
    BY <2>3, <2>6 DEF Str, Pos
  <2> HIDE DEF d
  <2>8. UInt64(d) \in Str
    BY <2>7, CastTypes
  <2>9. pos + n \in Pos
    BY <2>3 DEF Pos
  <2> QED
    BY <1>1, <1>4, <2>8, <2>9, ReadType
<1> QED
  BY <1>3, <1>4

\* Tags and sizes.
LEMMA ReadTagType ==
  ASSUME NEW buf \in Str, NEW pos \in Pos
  PROVE  ReadTag(buf, pos) \in Reads(Str) /\ ReadSize(buf, pos) \in Reads(Nat)
<1> DEFINE r == ReadVarint(buf, pos, 5)
<1>1. ReadTag(buf, pos) = [r EXCEPT !.val = UInt32(@)] /\ ReadSize(buf, pos) = SizeOf(r)
  BY DEF ReadTag, ReadSize
<1>2. r \in Reads(Str)
  BY ReadVarintType
<1> HIDE DEF r
<1>3. r.ok \in BOOLEAN /\ r.val \in Str /\ r.pos \in Pos
  BY <1>2, ReadsHave
<1>4. UInt32(r.val) \in Str /\ Number(r.val) \in Nat
  BY <1>3, CastTypes, NumberType
<1>5. [r EXCEPT !.val = UInt32(@)] \in Reads(Str)
  BY <1>2, <1>4 DEF Reads
<1>6. SizeOf(r) \in Reads(Nat)
  <2>1. (r.ok /\ (Len(r.val) = 5 => r.val[5] < 8)) \in BOOLEAN
    OBVIOUS
  <2> QED
    BY <1>3, <1>4, <2>1, ReadType DEF SizeOf
<1> QED
  BY <1>1, <1>5, <1>6

\* A part of what is on the wire.
LEMMA WirePart ==
  ASSUME NEW w \in Str, NEW i \in Nat, NEW j \in Nat, i >= 1, j <= Len(w)
  PROVE  SubSeq(w, i, j) \in Str
<1>1. Len(w) \in Nat /\ \A k \in 1 .. Len(w) : w[k] \in Nat
  BY LenProperties, ElementOfSeq DEF Str
<1>2. i \in Int /\ j \in Int /\ \A k \in i .. j : w[k] \in Nat
  BY <1>1
<1>3. SubSeq(w, i, j) \in Seq(Nat)
  BY <1>2, SubSeqProperties
<1> QED
  BY <1>3 DEF Str

\* A string.
LEMMA ReadStringType ==
  ASSUME NEW buf \in Str, NEW pos \in Pos
  PROVE  ReadString(buf, pos) \in Reads(Str)
<1> DEFINE n == ReadSize(buf, pos)
           s == [i \in 1 .. n.val |-> ByteAt(buf, n.pos + i - 1)]
<1>1. n \in Reads(Nat) /\ ReadString(buf, pos) = StringOf(buf, n)
  BY ReadTagType DEF ReadString
<1> HIDE DEF n
<1>2. n.val \in Nat /\ n.pos \in Pos
  BY <1>1, ReadsHave
<1>3. s \in Str
  BY <1>2, FixedType
<1> DEFINE part == IF n.ok /\ InPlace(buf, n.pos) THEN SubSeq(buf, n.pos, Len(buf)) ELSE <<>>
<1>4. StringOf(buf, n) = IF n.ok /\ n.pos + n.val - 1 <= Readable(buf, n.pos)
                         THEN Read(TRUE, s, n.pos + n.val) ELSE Read(FALSE, part, n.pos)
  BY DEF StringOf
<1>5. part \in Str
  <2>1. <<>> \in Str
    BY EmptySeq DEF Str
  <2>2. n.pos \in Nat /\ n.pos >= 1 /\ Len(buf) \in Nat /\ Len(buf) <= Len(buf)
    BY <1>2, LenProperties DEF Pos, Str
  <2>3. SubSeq(buf, n.pos, Len(buf)) \in Str
    BY <2>2, WirePart
  <2> QED
    BY <2>1, <2>3
<1>6. n.pos + n.val \in Pos
  BY <1>2 DEF Pos
<1> HIDE DEF s, part
<1>7. Read(TRUE, s, n.pos + n.val) \in Reads(Str) /\ Read(FALSE, part, n.pos) \in Reads(Str)
  BY <1>2, <1>3, <1>5, <1>6, ReadType
<1> QED
  BY <1>1, <1>4, <1>7

\* One more varint of a packed array.
LEMMA NextVarintType ==
  ASSUME NEW buf \in Str, NEW end, NEW r \in Reads(Seq(Str))
  PROVE  NextVarint(r, buf, end) \in Reads(Seq(Str))
<1> DEFINE v == ReadVarint(buf, r.pos, 10)
<1>1. r.ok \in BOOLEAN /\ r.val \in Seq(Str) /\ r.pos \in Pos
  BY ReadsHave
<1>2. v \in Reads(Str)
  BY <1>1, ReadVarintType
<1>3. NextVarint(r, buf, end) = IF ~r.ok \/ r.pos >= end THEN r
                                ELSE IF v.ok THEN Read(TRUE, Append(r.val, v.val), v.pos)
                                ELSE Read(FALSE, r.val, r.pos)
  BY DEF NextVarint
<1> HIDE DEF v
<1>4. v.val \in Str /\ v.pos \in Pos
  BY <1>2, ReadsHave
<1>5. Append(r.val, v.val) \in Seq(Str)
  BY <1>1, <1>4, AppendProperties
<1>6. Read(TRUE, Append(r.val, v.val), v.pos) \in Reads(Seq(Str))
  BY <1>4, <1>5, ReadType
<1>7. Read(FALSE, r.val, r.pos) \in Reads(Seq(Str))
  BY <1>1, ReadType
<1> QED
  BY <1>3, <1>6, <1>7

\* f runs through the loop of ReadVarints.
VarintSteps(f, buf, pos, end) ==
  /\ f[0] = Read(TRUE, <<>>, pos)
  /\ \A k \in 1 .. Len(buf) + SlopBytes : f[k] = NextVarint(f[k - 1], buf, end)
  /\ ReadVarints(buf, pos, end) = f[Len(buf) + SlopBytes]

\* The varints of a packed array are read step by step.
LEMMA VarintsRun ==
  ASSUME NEW buf \in Str, NEW pos \in Pos, NEW end
  PROVE  \E f : VarintSteps(f, buf, pos, end) /\ \A k \in 0 .. Len(buf) + SlopBytes : f[k] \in Reads(Seq(Str))
<1> DEFINE n == Len(buf) + SlopBytes
           V == Reads(Seq(Str))
           b == Read(TRUE, <<>>, pos)
           F == [i \in 1 .. n |-> [v \in V |-> NextVarint(v, buf, end)]]
           read[k \in 0 .. Len(buf) + SlopBytes] == IF k = 0 THEN Read(TRUE, <<>>, pos) ELSE NextVarint(read[k - 1], buf, end)
<1>1. n \in Nat
  BY LenProperties DEF Str, SlopBytes
<1>2. \A v \in V : NextVarint(v, buf, end) \in V
  BY NextVarintType
<1>3. \A i \in 1 .. n : \A v \in V : F[i][v] = NextVarint(v, buf, end) /\ F[i][v] \in V
  BY <1>2
<1>4. ReadVarints(buf, pos, end) = read[Len(buf) + SlopBytes]
  BY DEF ReadVarints
<1>5. b \in V
  BY EmptySeq, ReadType
<1> HIDE DEF F, V, n
<1>6. PICK g \in [0 .. n -> V] : Follows(g, n, b, F)
  <2> HIDE DEF b
  <2> QED
    BY <1>1, <1>3, <1>5, Recursion
<1>7. \A k \in 0 .. n : g[k] = IF k = 0 THEN b ELSE NextVarint(g[k - 1], buf, end)
  <2> HIDE DEF b
  <2> SUFFICES ASSUME NEW k \in 0 .. n PROVE g[k] = IF k = 0 THEN b ELSE NextVarint(g[k - 1], buf, end)
    OBVIOUS
  <2>1. CASE k = 0
    BY <1>6, <2>1 DEF Follows
  <2>2. CASE k # 0
    <3>1. k \in 1 .. n /\ k - 1 \in 0 .. n
      BY <1>1, <2>2
    <3>2. g[k] = F[k][g[k - 1]] /\ g[k - 1] \in V
      BY <1>6, <3>1 DEF Follows
    <3> QED
      BY <1>3, <2>2, <3>1, <3>2
  <2> QED
    BY <2>1, <2>2
<1>8. g = [k \in 0 .. n |-> g[k]]
  OBVIOUS
<1>9. g = [k \in 0 .. Len(buf) + SlopBytes |->
             IF k = 0 THEN Read(TRUE, <<>>, pos)
             ELSE NextVarint(g[k - 1], buf, end)]
  BY <1>7, <1>8 DEF n
<1>10. read = [k \in 0 .. Len(buf) + SlopBytes |->
             IF k = 0 THEN Read(TRUE, <<>>, pos)
             ELSE NextVarint(read[k - 1], buf, end)]
  BY <1>9
<1> HIDE DEF read
<1>11. \A k \in 0 .. n : read[k] = IF k = 0 THEN b ELSE NextVarint(read[k - 1], buf, end)
  BY <1>10 DEF n
<1> HIDE DEF b
<1>12. 0 \in 0 .. n /\ \A k \in 1 .. n : k \in 0 .. n /\ k # 0
  BY <1>1
<1>13. read[0] = b /\ \A k \in 1 .. n : read[k] = NextVarint(read[k - 1], buf, end)
  BY <1>11, <1>12
<1>14. \A k \in 0 .. n : read[k] \in V
  <2>1. \A k \in 1 .. n : read[k - 1] \in V => read[k] \in V
    BY <1>2, <1>13
  <2>2. read[0] \in V
    BY <1>5, <1>13
  <2> QED
    BY <1>1, <2>1, <2>2, StaysIn
<1> QED
  BY <1>4, <1>13, <1>14 DEF n, V, b, VarintSteps

\* All the varints of a packed array.
LEMMA ReadVarintsType ==
  ASSUME NEW buf \in Str, NEW pos \in Pos, NEW end
  PROVE  ReadVarints(buf, pos, end) \in Reads(Seq(Str))
<1>1. PICK f : VarintSteps(f, buf, pos, end) /\ \A k \in 0 .. Len(buf) + SlopBytes : f[k] \in Reads(Seq(Str))
  BY VarintsRun
<1>2. Len(buf) + SlopBytes \in Nat
  BY LenProperties DEF Str, SlopBytes
<1>3. Len(buf) + SlopBytes \in 0 .. Len(buf) + SlopBytes
  BY <1>2
<1> QED
  BY <1>1, <1>3 DEF VarintSteps

\* A packed array.
LEMMA ReadPackedType ==
  ASSUME NEW buf \in Str, NEW pos \in Pos
  PROVE  ReadPacked(buf, pos) \in Reads(Seq(Str))
<1> DEFINE n == ReadSize(buf, pos)
<1>1. n \in Reads(Nat) /\ ReadPacked(buf, pos) = PackedOf(buf, n)
  BY ReadTagType DEF ReadPacked
<1> HIDE DEF n
<1> DEFINE fits == n.pos + n.val - 1 <= Readable(buf, n.pos)
           end  == IF fits THEN n.pos + n.val
                   ELSE IF InPlace(buf, n.pos) THEN Len(buf) - SlopBytes + 1 ELSE Len(buf) + 1
           r    == ReadVarints(buf, n.pos, end)
           good == fits /\ r.ok /\ r.pos = end
<1>2. n.pos \in Pos
  BY <1>1, ReadsHave
<1>3. PackedOf(buf, n) = IF n.ok THEN Read(good, r.val, r.pos) ELSE Read(FALSE, <<>>, n.pos)
  BY DEF PackedOf
<1>4. good \in BOOLEAN
  OBVIOUS
<1> HIDE DEF good, end
<1>5. r \in Reads(Seq(Str))
  BY <1>2, ReadVarintsType
<1> HIDE DEF r
<1>6. r.val \in Seq(Str) /\ r.pos \in Pos
  BY <1>5, ReadsHave
<1>7. Read(good, r.val, r.pos) \in Reads(Seq(Str)) /\ Read(FALSE, <<>>, n.pos) \in Reads(Seq(Str))
  BY <1>2, <1>4, <1>6, EmptySeq, ReadType
<1> QED
  BY <1>1, <1>3, <1>7

\* An unknown field that is no group.
LEMMA ReadUngroupedType ==
  ASSUME NEW tag \in Str, NEW buf \in Str, NEW pos \in Pos
  PROVE  ReadUngrouped(tag, buf, pos) \in Reads(Str)
<1> DEFINE Kept(r, bytes) == Read(r.ok, IF r.ok THEN WriteVarint(tag) \o bytes ELSE <<>>, r.pos)
           Varint(r) == Kept(r, WriteVarint(r.val))
           String(r) == Kept(r, WriteVarint(Digits(Len(r.val))) \o r.val)
           r0 == ReadVarint(buf, pos, 10)
           r2 == ReadString(buf, pos)
           r1 == Read(TRUE, <<>>, pos + 8)
           r5 == Read(TRUE, <<>>, pos + 4)
           f8 == Fixed(buf, pos, 8)
           f4 == Fixed(buf, pos, 4)
           bad == Read(FALSE, <<>>, pos)
<1>1. <<>> \in Str /\ WriteVarint(tag) \in Str
  BY EmptySeq, WriteVarintSize DEF Str
<1>2. ASSUME NEW r \in Reads(Str), NEW bytes \in Str
      PROVE  Kept(r, bytes) \in Reads(Str)
  <2>1. r.ok \in BOOLEAN /\ r.pos \in Pos
    BY ReadsHave
  <2>2. WriteVarint(tag) \o bytes \in Str
    BY <1>1, StrConcat
  <2> DEFINE val == IF r.ok THEN WriteVarint(tag) \o bytes ELSE <<>>
  <2>3. val \in Str
    BY <1>1, <2>2
  <2> HIDE DEF val
  <2>4. Read(r.ok, val, r.pos) \in Reads(Str)
    BY <2>1, <2>3, ReadType
  <2> QED
    BY <2>4 DEF val
<1>3. r0 \in Reads(Str) /\ r2 \in Reads(Str)
  BY ReadVarintType, ReadStringType
<1>4. pos + 8 \in Pos /\ pos + 4 \in Pos
  BY DEF Pos
<1>5. r1 \in Reads(Str) /\ r5 \in Reads(Str) /\ bad \in Reads(Str)
  BY <1>1, <1>4, ReadType
<1>6. f8 \in Str /\ f4 \in Str
  BY FixedType DEF Fixed
<1>7. Varint(r0) \in Reads(Str)
  <2> HIDE DEF r0, Kept
  <2>1. WriteVarint(r0.val) \in Str
    BY <1>3, ReadsHave, WriteVarintSize
  <2> QED
    BY <1>2, <1>3, <2>1
<1>8. String(r2) \in Reads(Str)
  <2> HIDE DEF r2, Kept
  <2>1. r2.val \in Str /\ Len(r2.val) \in Nat
    BY <1>3, ReadsHave, LenProperties DEF Str
  <2>2. WriteVarint(Digits(Len(r2.val))) \in Str
    BY <2>1, DigitsType, WriteVarintSize
  <2>3. WriteVarint(Digits(Len(r2.val))) \o r2.val \in Str
    BY <2>1, <2>2, StrConcat
  <2> QED
    BY <1>2, <1>3, <2>3
<1>9. Kept(r1, f8) \in Reads(Str) /\ Kept(r5, f4) \in Reads(Str)
  <2> HIDE DEF r1, r5, f8, f4, Kept
  <2> QED
    BY <1>2, <1>5, <1>6
<1>10. ReadUngrouped(tag, buf, pos) =
        IF FieldNumber0(tag) THEN bad ELSE
        CASE WireType(tag) = 0 -> Varint(r0)
          [] WireType(tag) = 1 -> Kept(r1, f8)
          [] WireType(tag) = 2 -> String(r2)
          [] WireType(tag) = 5 -> Kept(r5, f4)
          [] OTHER             -> bad
  BY DEF ReadUngrouped
<1> DEFINE a0 == Varint(r0)
           a1 == Kept(r1, f8)
           a2 == String(r2)
           a5 == Kept(r5, f4)
<1>11. a0 \in Reads(Str) /\ a1 \in Reads(Str) /\ a2 \in Reads(Str) /\ a5 \in Reads(Str)
  BY <1>7, <1>8, <1>9
<1>12. ReadUngrouped(tag, buf, pos) =
        IF FieldNumber0(tag) THEN bad ELSE
        CASE WireType(tag) = 0 -> a0 [] WireType(tag) = 1 -> a1 [] WireType(tag) = 2 -> a2
          [] WireType(tag) = 5 -> a5 [] OTHER -> bad
  BY <1>10
<1> HIDE DEF a0, a1, a2, a5, bad
<1> QED
  BY <1>5, <1>11, <1>12

\* The state of the reading of a group.
Groups == [ok : BOOLEAN, val : Str, pos : Pos, open : Seq(Str)]

\* One more field of a group.
LEMMA NextInGroupType ==
  ASSUME NEW buf \in Str, NEW g \in Groups
  PROVE  NextInGroup(g, buf) \in Groups
<1> DEFINE t     == ReadTag(buf, g.pos)
           ended == t.val # <<>> /\ t.val = [Last(g.open) EXCEPT ![1] = @ + 1]
           f     == ReadUngrouped(t.val, buf, t.pos)
           Took(bytes, pos, open) == [ok |-> TRUE, val |-> g.val \o bytes, pos |-> pos, open |-> open]
           Failed(pos) == [ok |-> FALSE, val |-> <<>>, pos |-> pos, open |-> g.open]
<1>1. g.ok \in BOOLEAN /\ g.val \in Str /\ g.pos \in Pos /\ g.open \in Seq(Str)
  BY DEF Groups
<1>2. t \in Reads(Str)
  BY <1>1, ReadTagType
<1>3. NextInGroup(g, buf) =
        IF ~g.ok \/ g.open = <<>> THEN g
        ELSE IF g.pos > Len(buf) \/ ~t.ok THEN Failed(g.pos)
        ELSE IF ended THEN Took(WriteVarint(t.val), t.pos, Front(g.open))
        ELSE IF StartsGroup(t.val) THEN Took(WriteVarint(t.val), t.pos, Append(g.open, t.val))
        ELSE IF f.ok THEN Took(f.val, f.pos, g.open) ELSE Failed(f.pos)
  BY DEF NextInGroup
<1> HIDE DEF t, ended
<1>4. t.val \in Str /\ t.pos \in Pos /\ WriteVarint(t.val) \in Str
  BY <1>2, ReadsHave, WriteVarintSize
<1>5. f \in Reads(Str)
  BY <1>4, ReadUngroupedType
<1> HIDE DEF f
<1>6. f.val \in Str /\ f.pos \in Pos
  BY <1>5, ReadsHave
<1>7. ASSUME NEW bytes \in Str, NEW pos \in Pos, NEW open \in Seq(Str)
      PROVE  Took(bytes, pos, open) \in Groups
  <2>1. g.val \o bytes \in Str
    BY <1>1, StrConcat
  <2> QED
    BY <2>1 DEF Groups
<1>8. ASSUME NEW pos \in Pos
      PROVE  Failed(pos) \in Groups
  <2>1. <<>> \in Str
    BY EmptySeq DEF Str
  <2> QED
    BY <1>1, <2>1 DEF Groups
<1>9. g.open # <<>> => Front(g.open) \in Seq(Str)
  <2> SUFFICES ASSUME g.open # <<>> PROVE Front(g.open) \in Seq(Str)
    OBVIOUS
  <2> DEFINE o == g.open
             k == Len(o) - 1
  <2>1. o \in Seq(Str) /\ Len(o) \in Nat /\ Len(o) # 0 /\ \A i \in 1 .. Len(o) : o[i] \in Str
    BY <1>1, LenProperties, ElementOfSeq, EmptySeq
  <2>2. Front(g.open) = SubSeq(o, 1, k)
    BY DEF Front
  <2> HIDE DEF o
  <2>3. 1 \in Int /\ k \in Int /\ \A i \in 1 .. k : o[i] \in Str
    BY <2>1
  <2> HIDE DEF k
  <2>4. SubSeq(o, 1, k) \in Seq(Str)
    BY <2>3, SubSeqProperties
  <2> QED
    BY <2>2, <2>4
<1>10. Append(g.open, t.val) \in Seq(Str)
  BY <1>1, <1>4, AppendProperties
<1> HIDE DEF Took, Failed
<1>11. CASE ~g.ok \/ g.open = <<>>
  BY <1>3, <1>11
<1>12. CASE ~(~g.ok \/ g.open = <<>>)
  <2>1. Front(g.open) \in Seq(Str)
    BY <1>9, <1>12
  <2>2. /\ Failed(g.pos) \in Groups /\ Failed(f.pos) \in Groups
        /\ Took(WriteVarint(t.val), t.pos, Front(g.open)) \in Groups
        /\ Took(WriteVarint(t.val), t.pos, Append(g.open, t.val)) \in Groups
        /\ Took(f.val, f.pos, g.open) \in Groups
    BY <1>1, <1>4, <1>6, <1>7, <1>8, <1>10, <2>1
  <2> QED
    BY <1>3, <1>12, <2>2
<1> QED
  BY <1>11, <1>12

\* A group.
LEMMA ReadGroupType ==
  ASSUME NEW start \in Str, NEW buf \in Str, NEW pos \in Pos
  PROVE  ReadGroup(start, buf, pos) \in Reads(Str)
<1> DEFINE n == Len(buf) + 1
           V == Groups
           b == [ok |-> TRUE, val |-> WriteVarint(start), pos |-> pos, open |-> <<start>>]
           F == [i \in 1 .. n |-> [v \in V |-> NextInGroup(v, buf)]]
           group[k \in 0 .. Len(buf) + 1] ==
             IF k = 0 THEN [ok |-> TRUE, val |-> WriteVarint(start), pos |-> pos, open |-> <<start>>]
             ELSE NextInGroup(group[k - 1], buf)
           Whole(g) == Read(g.ok, g.val, g.pos)
<1>1. n \in Nat
  BY LenProperties DEF Str
<1>2. \A v \in V : NextInGroup(v, buf) \in V
  BY NextInGroupType
<1>3. \A i \in 1 .. n : \A v \in V : F[i][v] = NextInGroup(v, buf) /\ F[i][v] \in V
  BY <1>2
<1>4. ReadGroup(start, buf, pos) = Whole(group[Len(buf) + 1])
  BY DEF ReadGroup
<1>5. b \in V
  <2>1. WriteVarint(start) \in Str /\ <<start>> \in Seq(Str)
    BY WriteVarintSize
  <2> QED
    BY <2>1 DEF Groups
<1> HIDE DEF F, V, n
<1>6. PICK g \in [0 .. n -> V] : Follows(g, n, b, F)
  <2> HIDE DEF b
  <2> QED
    BY <1>1, <1>3, <1>5, Recursion
<1>7. \A k \in 0 .. n : g[k] = IF k = 0 THEN b ELSE NextInGroup(g[k - 1], buf)
  <2> HIDE DEF b
  <2> SUFFICES ASSUME NEW k \in 0 .. n PROVE g[k] = IF k = 0 THEN b ELSE NextInGroup(g[k - 1], buf)
    OBVIOUS
  <2>1. CASE k = 0
    BY <1>6, <2>1 DEF Follows
  <2>2. CASE k # 0
    <3>1. k \in 1 .. n /\ k - 1 \in 0 .. n
      BY <1>1, <2>2
    <3>2. g[k] = F[k][g[k - 1]] /\ g[k - 1] \in V
      BY <1>6, <3>1 DEF Follows
    <3> QED
      BY <1>3, <2>2, <3>1, <3>2
  <2> QED
    BY <2>1, <2>2
<1>8. g = [k \in 0 .. n |-> g[k]]
  OBVIOUS
<1>9. g = [k \in 0 .. Len(buf) + 1 |->
             IF k = 0 THEN [ok |-> TRUE, val |-> WriteVarint(start), pos |-> pos, open |-> <<start>>]
             ELSE NextInGroup(g[k - 1], buf)]
  BY <1>7, <1>8 DEF n
<1>10. group = [k \in 0 .. Len(buf) + 1 |->
             IF k = 0 THEN [ok |-> TRUE, val |-> WriteVarint(start), pos |-> pos, open |-> <<start>>]
             ELSE NextInGroup(group[k - 1], buf)]
  BY <1>9
<1> HIDE DEF group
<1>11. \A k \in 0 .. n : group[k] = IF k = 0 THEN b ELSE NextInGroup(group[k - 1], buf)
  BY <1>10 DEF n
<1> HIDE DEF b
<1>12. 0 \in 0 .. n /\ \A k \in 1 .. n : k \in 0 .. n /\ k # 0
  BY <1>1
<1>13. group[0] = b /\ \A k \in 1 .. n : group[k] = NextInGroup(group[k - 1], buf)
  BY <1>11, <1>12
<1>14. \A k \in 0 .. n : group[k] \in V
  <2>1. \A k \in 1 .. n : group[k - 1] \in V => group[k] \in V
    BY <1>2, <1>13
  <2>2. group[0] \in V
    BY <1>5, <1>13
  <2> QED
    BY <1>1, <2>1, <2>2, StaysIn
<1>15. n \in 0 .. n
  BY <1>1
<1>16. group[n] \in V
  BY <1>14, <1>15
<1>17. \A x \in Groups : Whole(x) \in Reads(Str)
  BY DEF Groups, Read, Reads
<1>18. group[Len(buf) + 1] \in Groups
  BY <1>16 DEF n, V
<1> HIDE DEF Whole
<1> QED
  BY <1>4, <1>17, <1>18

\* Any unknown field.
LEMMA ReadUnknownType ==
  ASSUME NEW tag \in Str, NEW buf \in Str, NEW pos \in Pos
  PROVE  ReadUnknown(tag, buf, pos) \in Reads(Str)
BY ReadGroupType, ReadUngroupedType DEF ReadUnknown
-----------------------------------------------------------------------------
(* The messages.                                                            *)

oneInfoMsgs == [key : Str, data : Str, unk : Str]
PushReqMsgs == [infos : Seq(oneInfoMsgs), unk : Str]
PushRspMsgs == [errCode : Str, errDesc : Str, unk : Str]
PullReqMsgs == [keys : Seq(Str), field : Seq(Str), unk : Str]
PullRspMsgs == [errCode : Str, errDesc : Str, data : Seq(Str), unk : Str]
DelCacheReqMsgs  == [key : Str, unk : Str]
DelCacheRspMsgs  == [succ : {<<>>, <<1>>}, unk : Str]
HelloRequestMsgs == [name : Str, unk : Str]
HelloReplyMsgs   == [message : Str, unk : Str]
TestPbMsgs == [sence : Str, tablename : Str, page : Str, unk : Str]

\* The messages of a type: every field holds what its type allows.
Msgs(t) ==
  CASE t = "oneInfo"      -> oneInfoMsgs
    [] t = "PushReq"      -> PushReqMsgs
    [] t = "PushRsp"      -> PushRspMsgs
    [] t = "PullReq"      -> PullReqMsgs
    [] t = "PullRsp"      -> PullRspMsgs
    [] t = "DelCacheReq"  -> DelCacheReqMsgs
    [] t = "DelCacheRsp"  -> DelCacheRspMsgs
    [] t = "HelloRequest" -> HelloRequestMsgs
    [] t = "HelloReply"   -> HelloReplyMsgs
    [] t = "TestPb"       -> TestPbMsgs

\* The state of a parse.
States(M) == [ok : BOOLEAN, stop : BOOLEAN, m : M, pos : Pos]

\* A field has been read.
LEMMA ParsedType ==
  ASSUME NEW M, NEW V, NEW r \in Reads(V), NEW m \in M
  PROVE  Parsed(r, m) \in States(M)
<1>1. r.ok \in BOOLEAN /\ r.pos \in Pos
  BY ReadsHave
<1> QED
  BY <1>1 DEF Parsed, States

\* A string has been read and looked at.
LEMMA Utf8Type ==
  ASSUME NEW s \in Reads(Str)
  PROVE  [s EXCEPT !.ok = @ /\ IsUtf8(s.val)] \in Reads(Str)
<1> DEFINE u == s.ok /\ IsUtf8(s.val)
<1>1. u \in BOOLEAN
  BY DEF IsUtf8
<1>2. [s EXCEPT !.ok = @ /\ IsUtf8(s.val)] = [s EXCEPT !.ok = u]
  BY DEF Reads
<1> HIDE DEF u
<1>3. [s EXCEPT !.ok = u] \in Reads(Str)
  BY <1>1 DEF Reads
<1> QED
  BY <1>2, <1>3

\* An unknown field only adds to the unknown fields.
LEMMA UnusualType ==
  ASSUME NEW M, NEW m \in M, NEW tag \in Str, NEW buf \in Str, NEW pos \in Pos,
         \A u \in Str : [m EXCEPT !.unk = @ \o u] \in M
  PROVE  Unusual(m, tag, buf, pos) \in States(M)
<1> DEFINE r == ReadUnknown(tag, buf, pos)
           k == [m EXCEPT !.unk = @ \o r.val]
           e == [ok |-> TRUE, stop |-> TRUE, m |-> m, pos |-> pos]
<1>1. Unusual(m, tag, buf, pos) = IF tag = <<>> \/ WireType(tag) = 4 THEN e ELSE Parsed(r, k)
  BY DEF Unusual
<1>2. e \in States(M)
  BY DEF States
<1>3. r \in Reads(Str)
  BY ReadUnknownType
<1> HIDE DEF r, e
<1>4. r.val \in Str
  BY <1>3, ReadsHave
<1>5. k \in M
  BY <1>4
<1> HIDE DEF k
<1>6. Parsed(r, k) \in States(M)
  BY <1>3, <1>5, ParsedType
<1> QED
  BY <1>1, <1>2, <1>6

\* The fields of a oneInfo.
LEMMA oneInfoField ==
  ASSUME NEW m \in oneInfoMsgs, NEW tag \in Str, NEW buf \in Str, NEW pos \in Pos
  PROVE  oneInfo_InternalParse(m, tag, buf, pos) \in States(oneInfoMsgs)
<1> DEFINE v == ReadVarint(buf, pos, 10)
           s == ReadString(buf, pos)
           mv == [m EXCEPT !.key = v.val]
           ms == [m EXCEPT !.data = s.val]
           u == Unusual(m, tag, buf, pos)
<1>1. v \in Reads(Str) /\ s \in Reads(Str)
  BY ReadVarintType, ReadStringType
<1>2. oneInfo_InternalParse(m, tag, buf, pos) =
        CASE tag = <<8>> -> Parsed(v, mv) [] tag = <<18>> -> Parsed(s, ms) [] OTHER -> u
  BY DEF oneInfo_InternalParse
<1> HIDE DEF v, s
<1>3. v.val \in Str /\ s.val \in Str
  BY <1>1, ReadsHave
<1>4. mv \in oneInfoMsgs /\ ms \in oneInfoMsgs
  BY <1>3 DEF oneInfoMsgs
<1>5. ASSUME NEW x \in Str PROVE [m EXCEPT !.unk = @ \o x] \in oneInfoMsgs
  <2>1. m.unk \in Str
    BY DEF oneInfoMsgs
  <2>2. m.unk \o x \in Str
    BY <2>1, StrConcat
  <2> QED
    BY <2>2 DEF oneInfoMsgs
<1>6. u \in States(oneInfoMsgs)
  BY <1>5, UnusualType
<1> HIDE DEF mv, ms, u
<1> DEFINE pv == Parsed(v, mv)
           ps == Parsed(s, ms)
<1>7. pv \in States(oneInfoMsgs) /\ ps \in States(oneInfoMsgs)
  BY <1>1, <1>4, ParsedType
<1>8. oneInfo_InternalParse(m, tag, buf, pos) = CASE tag = <<8>> -> pv [] tag = <<18>> -> ps [] OTHER -> u
  BY <1>2
<1> HIDE DEF pv, ps
<1> QED
  BY <1>6, <1>7, <1>8

\* A round of the loop over the fields.
LEMMA NextFieldType ==
  ASSUME NEW M, NEW r \in States(M), NEW t \in Reads(Str), NEW field \in States(M), NEW buf, NEW limit
  PROVE  NextField(r, t, field, buf, limit) \in States(M)
<1> DEFINE p == Parsed(t, r.m)
<1>1. r.m \in M
  BY DEF States
<1>2. p \in States(M)
  BY <1>1, ParsedType
<1>3. NextField(r, t, field, buf, limit) =
        IF ~r.ok \/ r.stop \/ r.pos >= limit \/ r.pos > Len(buf) THEN r ELSE IF t.ok THEN field ELSE p
  BY DEF NextField
<1> HIDE DEF p
<1> QED
  BY <1>2, <1>3

\* The start and the end of the loop.
LEMMA StartAndEndType ==
  ASSUME NEW M
  PROVE  /\ \A m \in M, pos \in Pos : ParseStart(m, pos) \in States(M)
         /\ \A r \in States(M) : \A buf, limit : ParseEnd(r, buf, limit) \in States(M)
<1>1. ASSUME NEW m \in M, NEW pos \in Pos PROVE ParseStart(m, pos) \in States(M)
  BY DEF ParseStart, States
<1>2. ASSUME NEW r \in States(M), NEW buf, NEW limit PROVE ParseEnd(r, buf, limit) \in States(M)
  <2> DEFINE e == (r.pos = limit /\ r.pos <= Len(buf) + 1)
             x == [r EXCEPT !.ok = e]
  <2>1. e \in BOOLEAN
    OBVIOUS
  <2>2. ParseEnd(r, buf, limit) = IF r.ok /\ ~r.stop THEN x ELSE r
    BY DEF ParseEnd
  <2> HIDE DEF e
  <2>3. x \in States(M)
    BY <2>1 DEF States
  <2> HIDE DEF x
  <2> QED
    BY <2>2, <2>3
<1> QED
  BY <1>1, <1>2

\* A new oneInfo.
LEMMA oneInfoNewType == oneInfo_New \in oneInfoMsgs
<1>1. <<>> \in Str
  BY EmptySeq DEF Str
<1> QED
  BY <1>1 DEF oneInfo_New, oneInfoMsgs

\* A round of the loop of a oneInfo.
LEMMA oneInfoRoundType ==
  ASSUME NEW buf \in Str, NEW limit, NEW r \in States(oneInfoMsgs)
  PROVE  oneInfo_Round(r, buf, limit) \in States(oneInfoMsgs)
<1> DEFINE t == ReadTag(buf, r.pos)
           f == oneInfo_InternalParse(r.m, t.val, buf, t.pos)
<1>1. r.m \in oneInfoMsgs /\ r.pos \in Pos
  BY DEF States
<1>2. t \in Reads(Str)
  BY <1>1, ReadTagType
<1>3. oneInfo_Round(r, buf, limit) = NextField(r, t, f, buf, limit)
  BY DEF oneInfo_Round
<1> HIDE DEF t
<1>4. t.val \in Str /\ t.pos \in Pos
  BY <1>2, ReadsHave
<1>5. f \in States(oneInfoMsgs)
  BY <1>1, <1>4, oneInfoField
<1> HIDE DEF f
<1> QED
  BY <1>2, <1>3, <1>5, NextFieldType

\* f runs through the loop of a nested oneInfo.
oneInfoSteps(f, buf, pos, limit) ==
  /\ f[0] = ParseStart(oneInfo_New, pos)
  /\ \A k \in 1 .. Len(buf) : f[k] = oneInfo_Round(f[k - 1], buf, limit)
  /\ oneInfo_ParseMessage(buf, pos, limit) = ParseEnd(f[Len(buf)], buf, limit)

\* A nested oneInfo is parsed step by step.
LEMMA oneInfoRun ==
  ASSUME NEW buf \in Str, NEW pos \in Pos, NEW limit
  PROVE  \E f : oneInfoSteps(f, buf, pos, limit) /\ \A k \in 0 .. Len(buf) : f[k] \in States(oneInfoMsgs)
<1> DEFINE n == Len(buf)
           V == States(oneInfoMsgs)
           b == ParseStart(oneInfo_New, pos)
           F == [i \in 1 .. n |-> [v \in V |-> oneInfo_Round(v, buf, limit)]]
           read[k \in 0 .. Len(buf)] == IF k = 0 THEN ParseStart(oneInfo_New, pos) ELSE oneInfo_Round(read[k - 1], buf, limit)
<1>1. n \in Nat
  BY LenProperties DEF Str
<1>2. \A v \in V : oneInfo_Round(v, buf, limit) \in V
  BY oneInfoRoundType
<1>3. \A i \in 1 .. n : \A v \in V : F[i][v] = oneInfo_Round(v, buf, limit) /\ F[i][v] \in V
  BY <1>2
<1>4. oneInfo_ParseMessage(buf, pos, limit) = ParseEnd(read[Len(buf)], buf, limit)
  BY DEF oneInfo_ParseMessage
<1>5. b \in V
  BY oneInfoNewType, StartAndEndType
<1> HIDE DEF F, V, n
<1>6. PICK g \in [0 .. n -> V] : Follows(g, n, b, F)
  <2> HIDE DEF b
  <2> QED
    BY <1>1, <1>3, <1>5, Recursion
<1>7. \A k \in 0 .. n : g[k] = IF k = 0 THEN b ELSE oneInfo_Round(g[k - 1], buf, limit)
  <2> HIDE DEF b
  <2> SUFFICES ASSUME NEW k \in 0 .. n PROVE g[k] = IF k = 0 THEN b ELSE oneInfo_Round(g[k - 1], buf, limit)
    OBVIOUS
  <2>1. CASE k = 0
    BY <1>6, <2>1 DEF Follows
  <2>2. CASE k # 0
    <3>1. k \in 1 .. n /\ k - 1 \in 0 .. n
      BY <1>1, <2>2
    <3>2. g[k] = F[k][g[k - 1]] /\ g[k - 1] \in V
      BY <1>6, <3>1 DEF Follows
    <3> QED
      BY <1>3, <2>2, <3>1, <3>2
  <2> QED
    BY <2>1, <2>2
<1>8. g = [k \in 0 .. n |-> g[k]]
  OBVIOUS
<1>9. g = [k \in 0 .. Len(buf) |->
             IF k = 0 THEN ParseStart(oneInfo_New, pos)
             ELSE oneInfo_Round(g[k - 1], buf, limit)]
  BY <1>7, <1>8 DEF n
<1>10. read = [k \in 0 .. Len(buf) |->
             IF k = 0 THEN ParseStart(oneInfo_New, pos)
             ELSE oneInfo_Round(read[k - 1], buf, limit)]
  BY <1>9
<1> HIDE DEF read
<1>11. \A k \in 0 .. n : read[k] = IF k = 0 THEN b ELSE oneInfo_Round(read[k - 1], buf, limit)
  BY <1>10 DEF n
<1> HIDE DEF b
<1>12. 0 \in 0 .. n /\ \A k \in 1 .. n : k \in 0 .. n /\ k # 0
  BY <1>1
<1>13. read[0] = b /\ \A k \in 1 .. n : read[k] = oneInfo_Round(read[k - 1], buf, limit)
  BY <1>11, <1>12
<1>14. \A k \in 0 .. n : read[k] \in V
  <2>1. \A k \in 1 .. n : read[k - 1] \in V => read[k] \in V
    BY <1>2, <1>13
  <2>2. read[0] \in V
    BY <1>5, <1>13
  <2> QED
    BY <1>1, <2>1, <2>2, StaysIn
<1> QED
  BY <1>4, <1>13, <1>14 DEF n, V, b, oneInfoSteps

\* A nested oneInfo.
LEMMA oneInfoParsed ==
  ASSUME NEW buf \in Str, NEW pos \in Pos, NEW limit
  PROVE  oneInfo_ParseMessage(buf, pos, limit) \in States(oneInfoMsgs)
<1>1. PICK f : oneInfoSteps(f, buf, pos, limit) /\ \A k \in 0 .. Len(buf) : f[k] \in States(oneInfoMsgs)
  BY oneInfoRun
<1>2. Len(buf) \in Nat
  BY LenProperties DEF Str
<1>3. f[Len(buf)] \in States(oneInfoMsgs)
  BY <1>1, <1>2
<1>4. ParseEnd(f[Len(buf)], buf, limit) \in States(oneInfoMsgs)
  BY <1>3, StartAndEndType
<1> QED
  BY <1>1, <1>4 DEF oneInfoSteps

\* The fields of a PushRsp.
LEMMA PushRspField ==
  ASSUME NEW m \in PushRspMsgs, NEW tag \in Str, NEW buf \in Str, NEW pos \in Pos
  PROVE  PushRsp_InternalParse(m, tag, buf, pos) \in States(PushRspMsgs)
<1> DEFINE v == ReadVarint(buf, pos, 10)
           s == ReadString(buf, pos)
           r0 == v
           m0 == PushRsp_set_errcode(m, v.val)
           r1 == [s EXCEPT !.ok = @ /\ IsUtf8(s.val)]
           m1 == PushRsp_set_errdesc(m, s.val)
           u == Unusual(m, tag, buf, pos)
<1>1. v \in Reads(Str) /\ s \in Reads(Str)
  BY ReadStringType, ReadVarintType
<1>2. PushRsp_InternalParse(m, tag, buf, pos) =
        CASE tag = <<8>> -> Parsed(r0, m0) [] tag = <<18>> -> Parsed(r1, m1) [] OTHER -> u
  BY DEF PushRsp_InternalParse
<1> HIDE DEF v, s
<1>3. v.val \in Str /\ s.val \in Str
  BY <1>1, ReadsHave
<1>4. r0 \in Reads(Str) /\ r1 \in Reads(Str)
  BY <1>1, Utf8Type
<1>5. m0 \in PushRspMsgs /\ m1 \in PushRspMsgs
  <2>1. m0 \in PushRspMsgs
    <3>1. Int32(v.val) \in Str
      BY <1>3, CastTypes
    <3> QED
      BY <3>1 DEF PushRspMsgs, PushRsp_set_errcode
  <2>2. m1 \in PushRspMsgs
    BY <1>3 DEF PushRspMsgs, PushRsp_set_errdesc
  <2> QED
    BY <2>1, <2>2
<1>6. ASSUME NEW x \in Str PROVE [m EXCEPT !.unk = @ \o x] \in PushRspMsgs
  <2>1. m.unk \in Str
    BY DEF PushRspMsgs
  <2>2. m.unk \o x \in Str
    BY <2>1, StrConcat
  <2> QED
    BY <2>2 DEF PushRspMsgs
<1>7. u \in States(PushRspMsgs)
  BY <1>6, UnusualType
<1> HIDE DEF r0, m0, r1, m1, u
<1> DEFINE p0 == Parsed(r0, m0)
           p1 == Parsed(r1, m1)
<1>8. p0 \in States(PushRspMsgs) /\ p1 \in States(PushRspMsgs)
  BY <1>4, <1>5, ParsedType
<1>9. PushRsp_InternalParse(m, tag, buf, pos) =
        CASE tag = <<8>> -> p0 [] tag = <<18>> -> p1 [] OTHER -> u
  BY <1>2
<1> HIDE DEF p0, p1
<1> QED
  BY <1>7, <1>8, <1>9

\* The fields of a PullRsp.
LEMMA PullRspField ==
  ASSUME NEW m \in PullRspMsgs, NEW tag \in Str, NEW buf \in Str, NEW pos \in Pos
  PROVE  PullRsp_InternalParse(m, tag, buf, pos) \in States(PullRspMsgs)
<1> DEFINE v == ReadVarint(buf, pos, 10)
           s == ReadString(buf, pos)
           r0 == v
           m0 == PullRsp_set_errcode(m, v.val)
           r1 == [s EXCEPT !.ok = @ /\ IsUtf8(s.val)]
           m1 == PullRsp_set_errdesc(m, s.val)
           r2 == s
           m2 == PullRsp_add_data(m, s.val)
           u == Unusual(m, tag, buf, pos)
<1>1. v \in Reads(Str) /\ s \in Reads(Str)
  BY ReadStringType, ReadVarintType
<1>2. PullRsp_InternalParse(m, tag, buf, pos) =
        CASE tag = <<8>> -> Parsed(r0, m0) [] tag = <<18>> -> Parsed(r1, m1) [] tag = <<26>> -> Parsed(r2, m2) [] OTHER -> u
  BY DEF PullRsp_InternalParse
<1> HIDE DEF v, s
<1>3. v.val \in Str /\ s.val \in Str
  BY <1>1, ReadsHave
<1>4. r0 \in Reads(Str) /\ r1 \in Reads(Str) /\ r2 \in Reads(Str)
  BY <1>1, Utf8Type
<1>5. m0 \in PullRspMsgs /\ m1 \in PullRspMsgs /\ m2 \in PullRspMsgs
  <2>1. m0 \in PullRspMsgs
    <3>1. Int32(v.val) \in Str
      BY <1>3, CastTypes
    <3> QED
      BY <3>1 DEF PullRspMsgs, PullRsp_set_errcode
  <2>2. m1 \in PullRspMsgs
    BY <1>3 DEF PullRspMsgs, PullRsp_set_errdesc
  <2>3. m2 \in PullRspMsgs
    <3>1. m.data \in Seq(Str) /\ s.val \in Str
      BY <1>3, CastTypes DEF PullRspMsgs
    <3>2. Append(m.data, s.val) \in Seq(Str)
      BY <3>1, AppendProperties
    <3> QED
      BY <3>2 DEF PullRspMsgs, PullRsp_add_data
  <2> QED
    BY <2>1, <2>2, <2>3
<1>6. ASSUME NEW x \in Str PROVE [m EXCEPT !.unk = @ \o x] \in PullRspMsgs
  <2>1. m.unk \in Str
    BY DEF PullRspMsgs
  <2>2. m.unk \o x \in Str
    BY <2>1, StrConcat
  <2> QED
    BY <2>2 DEF PullRspMsgs
<1>7. u \in States(PullRspMsgs)
  BY <1>6, UnusualType
<1> HIDE DEF r0, m0, r1, m1, r2, m2, u
<1> DEFINE p0 == Parsed(r0, m0)
           p1 == Parsed(r1, m1)
           p2 == Parsed(r2, m2)
<1>8. p0 \in States(PullRspMsgs) /\ p1 \in States(PullRspMsgs) /\ p2 \in States(PullRspMsgs)
  BY <1>4, <1>5, ParsedType
<1>9. PullRsp_InternalParse(m, tag, buf, pos) =
        CASE tag = <<8>> -> p0 [] tag = <<18>> -> p1 [] tag = <<26>> -> p2 [] OTHER -> u
  BY <1>2
<1> HIDE DEF p0, p1, p2
<1> QED
  BY <1>7, <1>8, <1>9

\* The fields of a PullReq, packed or not.
LEMMA PullReqField ==
  ASSUME NEW m \in PullReqMsgs, NEW tag \in Str, NEW buf \in Str, NEW pos \in Pos
  PROVE  PullReq_InternalParse(m, tag, buf, pos) \in States(PullReqMsgs)
<1> DEFINE p == ReadPacked(buf, pos)
           v == ReadVarint(buf, pos, 10)
           r0 == p
           m0 == [m EXCEPT !.keys = @ \o p.val]
           r1 == v
           m1 == PullReq_add_keys(m, v.val)
           r2 == p
           m2 == [m EXCEPT !.field = @ \o [i \in DOMAIN p.val |-> UInt32(p.val[i])]]
           r3 == v
           m3 == PullReq_add_field(m, v.val)
           u == Unusual(m, tag, buf, pos)
<1>1. p \in Reads(Seq(Str)) /\ v \in Reads(Str)
  BY ReadPackedType, ReadVarintType
<1>2. PullReq_InternalParse(m, tag, buf, pos) =
        CASE tag = <<10>> -> Parsed(r0, m0) [] tag = <<8>> -> Parsed(r1, m1) [] tag = <<18>> -> Parsed(r2, m2) [] tag = <<16>> -> Parsed(r3, m3) [] OTHER -> u
  BY DEF PullReq_InternalParse
<1> HIDE DEF p, v
<1>3. p.val \in Seq(Str) /\ v.val \in Str
  BY <1>1, ReadsHave
<1>4. r0 \in Reads(Seq(Str)) /\ r1 \in Reads(Str) /\ r2 \in Reads(Seq(Str)) /\ r3 \in Reads(Str)
  BY <1>1, Utf8Type
<1>5. m0 \in PullReqMsgs /\ m1 \in PullReqMsgs /\ m2 \in PullReqMsgs /\ m3 \in PullReqMsgs
  <2>1. m0 \in PullReqMsgs
    <3>1. m.keys \in Seq(Str)
      BY DEF PullReqMsgs
    <3>2. m.keys \o p.val \in Seq(Str)
      BY <1>3, <3>1, ConcatProperties
    <3> QED
      BY <3>2 DEF PullReqMsgs
  <2>2. m1 \in PullReqMsgs
    <3>1. m.keys \in Seq(Str) /\ v.val \in Str
      BY <1>3, CastTypes DEF PullReqMsgs
    <3>2. Append(m.keys, v.val) \in Seq(Str)
      BY <3>1, AppendProperties
    <3> QED
      BY <3>2 DEF PullReqMsgs, PullReq_add_keys
  <2>3. m2 \in PullReqMsgs
    <3> DEFINE w == [i \in DOMAIN p.val |-> UInt32(p.val[i])]
    <3>1. Len(p.val) \in Nat /\ DOMAIN p.val = 1 .. Len(p.val) /\ \A i \in 1 .. Len(p.val) : p.val[i] \in Str
      BY <1>3, LenProperties, ElementOfSeq
    <3>2. \A i \in 1 .. Len(p.val) : UInt32(p.val[i]) \in Str
      BY <3>1, CastTypes
    <3>3. w \in Seq(Str)
      BY <3>1, <3>2
    <3>4. m.field \in Seq(Str)
      BY DEF PullReqMsgs
    <3> HIDE DEF w
    <3>5. m.field \o w \in Seq(Str)
      BY <3>3, <3>4, ConcatProperties
    <3>6. [m EXCEPT !.field = @ \o w] \in PullReqMsgs
      BY <3>5 DEF PullReqMsgs
    <3> QED
      BY <3>6 DEF w
  <2>4. m3 \in PullReqMsgs
    <3>1. m.field \in Seq(Str) /\ UInt32(v.val) \in Str
      BY <1>3, CastTypes DEF PullReqMsgs
    <3>2. Append(m.field, UInt32(v.val)) \in Seq(Str)
      BY <3>1, AppendProperties
    <3> QED
      BY <3>2 DEF PullReqMsgs, PullReq_add_field
  <2> QED
    BY <2>1, <2>2, <2>3, <2>4
<1>6. ASSUME NEW x \in Str PROVE [m EXCEPT !.unk = @ \o x] \in PullReqMsgs
  <2>1. m.unk \in Str
    BY DEF PullReqMsgs
  <2>2. m.unk \o x \in Str
    BY <2>1, StrConcat
  <2> QED
    BY <2>2 DEF PullReqMsgs
<1>7. u \in States(PullReqMsgs)
  BY <1>6, UnusualType
<1> HIDE DEF r0, m0, r1, m1, r2, m2, r3, m3, u
<1> DEFINE p0 == Parsed(r0, m0)
           p1 == Parsed(r1, m1)
           p2 == Parsed(r2, m2)
           p3 == Parsed(r3, m3)
<1>8. p0 \in States(PullReqMsgs) /\ p1 \in States(PullReqMsgs) /\ p2 \in States(PullReqMsgs) /\ p3 \in States(PullReqMsgs)
  BY <1>4, <1>5, ParsedType
<1>9. PullReq_InternalParse(m, tag, buf, pos) =
        CASE tag = <<10>> -> p0 [] tag = <<8>> -> p1 [] tag = <<18>> -> p2 [] tag = <<16>> -> p3 [] OTHER -> u
  BY <1>2
<1> HIDE DEF p0, p1, p2, p3
<1> QED
  BY <1>7, <1>8, <1>9

\* The field of a DelCacheReq.
LEMMA DelCacheReqField ==
  ASSUME NEW m \in DelCacheReqMsgs, NEW tag \in Str, NEW buf \in Str, NEW pos \in Pos
  PROVE  DelCacheReq_InternalParse(m, tag, buf, pos) \in States(DelCacheReqMsgs)
<1> DEFINE v == ReadVarint(buf, pos, 10)
           r0 == v
           m0 == [m EXCEPT !.key = v.val]
           u == Unusual(m, tag, buf, pos)
<1>1. v \in Reads(Str)
  BY ReadVarintType
<1>2. DelCacheReq_InternalParse(m, tag, buf, pos) =
        IF tag = <<8>> THEN Parsed(r0, m0) ELSE u
  BY DEF DelCacheReq_InternalParse
<1> HIDE DEF v
<1>3. v.val \in Str
  BY <1>1, ReadsHave
<1>4. r0 \in Reads(Str)
  BY <1>1, Utf8Type
<1>5. m0 \in DelCacheReqMsgs
  <2>1. m0 \in DelCacheReqMsgs
    BY <1>3 DEF DelCacheReqMsgs
  <2> QED
    BY <2>1
<1>6. ASSUME NEW x \in Str PROVE [m EXCEPT !.unk = @ \o x] \in DelCacheReqMsgs
  <2>1. m.unk \in Str
    BY DEF DelCacheReqMsgs
  <2>2. m.unk \o x \in Str
    BY <2>1, StrConcat
  <2> QED
    BY <2>2 DEF DelCacheReqMsgs
<1>7. u \in States(DelCacheReqMsgs)
  BY <1>6, UnusualType
<1> HIDE DEF r0, m0, u
<1> DEFINE p0 == Parsed(r0, m0)
<1>8. p0 \in States(DelCacheReqMsgs)
  BY <1>4, <1>5, ParsedType
<1>9. DelCacheReq_InternalParse(m, tag, buf, pos) =
        IF tag = <<8>> THEN p0 ELSE u
  BY <1>2
<1> HIDE DEF p0
<1> QED
  BY <1>7, <1>8, <1>9

\* The field of a DelCacheRsp.
LEMMA DelCacheRspField ==
  ASSUME NEW m \in DelCacheRspMsgs, NEW tag \in Str, NEW buf \in Str, NEW pos \in Pos
  PROVE  DelCacheRsp_InternalParse(m, tag, buf, pos) \in States(DelCacheRspMsgs)
<1> DEFINE v == ReadVarint(buf, pos, 10)
           r0 == v
           m0 == DelCacheRsp_set_succ(m, v.val)
           u == Unusual(m, tag, buf, pos)
<1>1. v \in Reads(Str)
  BY ReadVarintType
<1>2. DelCacheRsp_InternalParse(m, tag, buf, pos) =
        IF tag = <<8>> THEN Parsed(r0, m0) ELSE u
  BY DEF DelCacheRsp_InternalParse
<1> HIDE DEF v
<1>3. v.val \in Str
  BY <1>1, ReadsHave
<1>4. r0 \in Reads(Str)
  BY <1>1, Utf8Type
<1>5. m0 \in DelCacheRspMsgs
  <2>1. m0 \in DelCacheRspMsgs
    <3>1. Bool(v.val) \in {<<>>, <<1>>}
      BY <1>3, CastTypes
    <3> QED
      BY <3>1 DEF DelCacheRspMsgs, DelCacheRsp_set_succ
  <2> QED
    BY <2>1
<1>6. ASSUME NEW x \in Str PROVE [m EXCEPT !.unk = @ \o x] \in DelCacheRspMsgs
  <2>1. m.unk \in Str
    BY DEF DelCacheRspMsgs
  <2>2. m.unk \o x \in Str
    BY <2>1, StrConcat
  <2> QED
    BY <2>2 DEF DelCacheRspMsgs
<1>7. u \in States(DelCacheRspMsgs)
  BY <1>6, UnusualType
<1> HIDE DEF r0, m0, u
<1> DEFINE p0 == Parsed(r0, m0)
<1>8. p0 \in States(DelCacheRspMsgs)
  BY <1>4, <1>5, ParsedType
<1>9. DelCacheRsp_InternalParse(m, tag, buf, pos) =
        IF tag = <<8>> THEN p0 ELSE u
  BY <1>2
<1> HIDE DEF p0
<1> QED
  BY <1>7, <1>8, <1>9

\* The field of a HelloRequest.
LEMMA HelloRequestField ==
  ASSUME NEW m \in HelloRequestMsgs, NEW tag \in Str, NEW buf \in Str, NEW pos \in Pos
  PROVE  HelloRequest_InternalParse(m, tag, buf, pos) \in States(HelloRequestMsgs)
<1> DEFINE s == ReadString(buf, pos)
           r0 == [s EXCEPT !.ok = @ /\ IsUtf8(s.val)]
           m0 == HelloRequest_set_name(m, s.val)
           u == Unusual(m, tag, buf, pos)
<1>1. s \in Reads(Str)
  BY ReadStringType
<1>2. HelloRequest_InternalParse(m, tag, buf, pos) =
        IF tag = <<10>> THEN Parsed(r0, m0) ELSE u
  BY DEF HelloRequest_InternalParse
<1> HIDE DEF s
<1>3. s.val \in Str
  BY <1>1, ReadsHave
<1>4. r0 \in Reads(Str)
  BY <1>1, Utf8Type
<1>5. m0 \in HelloRequestMsgs
  <2>1. m0 \in HelloRequestMsgs
    BY <1>3 DEF HelloRequestMsgs, HelloRequest_set_name
  <2> QED
    BY <2>1
<1>6. ASSUME NEW x \in Str PROVE [m EXCEPT !.unk = @ \o x] \in HelloRequestMsgs
  <2>1. m.unk \in Str
    BY DEF HelloRequestMsgs
  <2>2. m.unk \o x \in Str
    BY <2>1, StrConcat
  <2> QED
    BY <2>2 DEF HelloRequestMsgs
<1>7. u \in States(HelloRequestMsgs)
  BY <1>6, UnusualType
<1> HIDE DEF r0, m0, u
<1> DEFINE p0 == Parsed(r0, m0)
<1>8. p0 \in States(HelloRequestMsgs)
  BY <1>4, <1>5, ParsedType
<1>9. HelloRequest_InternalParse(m, tag, buf, pos) =
        IF tag = <<10>> THEN p0 ELSE u
  BY <1>2
<1> HIDE DEF p0
<1> QED
  BY <1>7, <1>8, <1>9

\* The field of a HelloReply.
LEMMA HelloReplyField ==
  ASSUME NEW m \in HelloReplyMsgs, NEW tag \in Str, NEW buf \in Str, NEW pos \in Pos
  PROVE  HelloReply_InternalParse(m, tag, buf, pos) \in States(HelloReplyMsgs)
<1> DEFINE s == ReadString(buf, pos)
           r0 == [s EXCEPT !.ok = @ /\ IsUtf8(s.val)]
           m0 == HelloReply_set_message(m, s.val)
           u == Unusual(m, tag, buf, pos)
<1>1. s \in Reads(Str)
  BY ReadStringType
<1>2. HelloReply_InternalParse(m, tag, buf, pos) =
        IF tag = <<10>> THEN Parsed(r0, m0) ELSE u
  BY DEF HelloReply_InternalParse
<1> HIDE DEF s
<1>3. s.val \in Str
  BY <1>1, ReadsHave
<1>4. r0 \in Reads(Str)
  BY <1>1, Utf8Type
<1>5. m0 \in HelloReplyMsgs
  <2>1. m0 \in HelloReplyMsgs
    BY <1>3 DEF HelloReplyMsgs, HelloReply_set_message
  <2> QED
    BY <2>1
<1>6. ASSUME NEW x \in Str PROVE [m EXCEPT !.unk = @ \o x] \in HelloReplyMsgs
  <2>1. m.unk \in Str
    BY DEF HelloReplyMsgs
  <2>2. m.unk \o x \in Str
    BY <2>1, StrConcat
  <2> QED
    BY <2>2 DEF HelloReplyMsgs
<1>7. u \in States(HelloReplyMsgs)
  BY <1>6, UnusualType
<1> HIDE DEF r0, m0, u
<1> DEFINE p0 == Parsed(r0, m0)
<1>8. p0 \in States(HelloReplyMsgs)
  BY <1>4, <1>5, ParsedType
<1>9. HelloReply_InternalParse(m, tag, buf, pos) =
        IF tag = <<10>> THEN p0 ELSE u
  BY <1>2
<1> HIDE DEF p0
<1> QED
  BY <1>7, <1>8, <1>9

\* The field of a PushReq, an info that is parsed within its size.
LEMMA PushReqField ==
  ASSUME NEW m \in PushReqMsgs, NEW tag \in Str, NEW buf \in Str, NEW pos \in Pos
  PROVE  PushReq_InternalParse(m, tag, buf, pos) \in States(PushReqMsgs)
<1> DEFINE M == PushReqMsgs
           n == ReadSize(buf, pos)
           r == oneInfo_ParseMessage(buf, n.pos, n.pos + n.val)
           e == r.ok /\ ~r.stop
           m0 == PushReq_add_infos(m, oneInfo_New)
           m1 == PushReq_add_infos(m, r.m)
           p0 == Parsed(n, m0)
           p1 == Parsed([r EXCEPT !.ok = e], m1)
           u == Unusual(m, tag, buf, pos)
<1>1. n \in Reads(Nat)
  BY ReadTagType
<1>2. n.pos \in Pos
  <2> HIDE DEF n
  <2> QED
    BY <1>1, ReadsHave
<1>3. r \in States(oneInfoMsgs)
  <2> HIDE DEF n
  <2> QED
    BY <1>2, oneInfoParsed
<1>4. PushReq_InternalParse(m, tag, buf, pos) =
        CASE tag = <<10>> /\ ~n.ok -> p0 [] tag = <<10>> /\ n.ok -> p1 [] OTHER -> u
  <2> HIDE DEF n, u, m0, m1
  <2> DEFINE q == [r EXCEPT !.ok = @ /\ ~r.stop]
  <2>1. q = [r EXCEPT !.ok = e]
    <3> HIDE DEF r
    <3> QED
      BY <1>3 DEF States
  <2>2. PushReq_InternalParse(m, tag, buf, pos) =
          CASE tag = <<10>> /\ ~n.ok -> p0 [] tag = <<10>> /\ n.ok -> Parsed(q, m1) [] OTHER -> u
    BY DEF PushReq_InternalParse, n, u, m0, m1
  <2> HIDE DEF q
  <2> QED
    BY <2>1, <2>2
<1> HIDE DEF r, n
<1>5. e \in BOOLEAN /\ r.m \in oneInfoMsgs /\ r.pos \in Pos
  BY <1>3 DEF States
<1>6. oneInfo_New \in oneInfoMsgs
  <2>1. <<>> \in Str
    BY EmptySeq DEF Str
  <2> QED
    BY <2>1 DEF oneInfo_New, oneInfoMsgs
<1>7. ASSUME NEW o \in oneInfoMsgs PROVE PushReq_add_infos(m, o) \in M
  <2>1. m.infos \in Seq(oneInfoMsgs)
    BY DEF PushReqMsgs
  <2>2. Append(m.infos, o) \in Seq(oneInfoMsgs)
    BY <2>1, AppendProperties
  <2> QED
    BY <2>2 DEF PushReq_add_infos, PushReqMsgs
<1>8. m0 \in M /\ m1 \in M
  BY <1>5, <1>6, <1>7
<1>9. ASSUME NEW x \in Str PROVE [m EXCEPT !.unk = @ \o x] \in M
  <2>1. m.unk \in Str
    BY DEF PushReqMsgs
  <2>2. m.unk \o x \in Str
    BY <2>1, StrConcat
  <2> QED
    BY <2>2 DEF PushReqMsgs
<1>10. u \in States(M)
  BY <1>9, UnusualType
<1> HIDE DEF m0, m1, e, M
<1>11. p0 \in States(M)
  BY <1>1, <1>8, ParsedType
<1>12. p1 \in States(M)
  <2> DEFINE q == [r EXCEPT !.ok = e]
  <2>1. q.ok = e /\ q.pos = r.pos
    BY <1>3 DEF States
  <2> HIDE DEF q
  <2>2. Parsed(q, m1) \in States(M)
    BY <1>5, <1>8, <2>1 DEF Parsed, States
  <2> QED
    BY <2>2 DEF q
<1> HIDE DEF p0, p1, u
<1> QED
  BY <1>4, <1>10, <1>11, <1>12 DEF M

\* A string read through a CodedInputStream, or what there is of it.
LEMMA CodedStringType ==
  ASSUME NEW old \in Str, NEW buf \in Str, NEW pos \in Pos
  PROVE  ReadText(old, buf, pos) \in Reads(Str)
<1> DEFINE v        == ReadVarint(buf, pos, 10)
           n        == Coded(buf, v)
           size     == UInt32(n.val)
           negative == Len(size) = 5 /\ size[5] >= 8
           end      == n.pos + Number(size)
           last     == IF end <= Len(buf) THEN end - 1 ELSE Len(buf)
           sub      == SubSeq(buf, n.pos, last)
           fits     == end <= Len(buf) + 1
           s        == CodedString(old, buf, pos)
<1>1. v \in Reads(Str)
  BY ReadVarintType
<1>2. s = IF ~n.ok \/ negative THEN Read(FALSE, old, pos) ELSE Read(fits, sub, end)
  BY DEF CodedString
<1>3. n.val = v.val /\ n.pos = v.pos
  <2> HIDE DEF v
  <2> QED
    BY <1>1 DEF Coded, Reads
<1>4. v.val \in Str /\ v.pos \in Pos
  <2> HIDE DEF v
  <2> QED
    BY <1>1, ReadsHave
<1>5. n.val \in Str /\ n.pos \in Pos
  BY <1>3, <1>4
<1> HIDE DEF n, v
<1>6. size \in Str
  BY <1>5, CastTypes
<1> HIDE DEF size
<1>7. end \in Pos
  BY <1>5, <1>6, NumberType DEF Pos
<1> HIDE DEF end
<1>8. Len(buf) \in Nat /\ \A i \in 1 .. Len(buf) : buf[i] \in Nat
  BY LenProperties, ElementOfSeq DEF Str
<1>9. last \in Int /\ last <= Len(buf)
  BY <1>7, <1>8 DEF Pos
<1> HIDE DEF last
<1>10. n.pos \in Int /\ \A i \in n.pos .. last : buf[i] \in Nat
  BY <1>5, <1>8, <1>9 DEF Pos
<1>11. sub \in Str
  <2> DEFINE p == n.pos
  <2>1. p \in Int /\ \A i \in p .. last : buf[i] \in Nat
    BY <1>10
  <2> HIDE DEF p
  <2>2. SubSeq(buf, p, last) \in Seq(Nat)
    BY <1>9, <2>1, SubSeqProperties
  <2> QED
    BY <2>2 DEF Str, p
<1> HIDE DEF sub
<1>12. fits \in BOOLEAN
  OBVIOUS
<1> HIDE DEF fits, negative
<1>13. Read(FALSE, old, pos) \in Reads(Str) /\ Read(fits, sub, end) \in Reads(Str)
  BY <1>7, <1>11, <1>12, ReadType
<1>14. s \in Reads(Str)
  BY <1>2, <1>13
<1>15. ReadText(old, buf, pos) = [s EXCEPT !.ok = @ /\ IsUtf8(s.val)]
  BY DEF ReadText
<1> HIDE DEF s
<1> QED
  BY <1>14, <1>15, Utf8Type

\* What a CodedInputStream has read.
LEMMA CodedType ==
  ASSUME NEW r \in Reads(Str), NEW buf \in Str
  PROVE  Coded(buf, r) \in Reads(Str)
<1> DEFINE e == r.ok /\ r.pos <= Len(buf) + 1
<1>1. e \in BOOLEAN
  OBVIOUS
<1>2. Coded(buf, r) = [r EXCEPT !.ok = e]
  BY DEF Coded, Reads
<1> HIDE DEF e
<1>3. [r EXCEPT !.ok = e] \in Reads(Str)
  BY <1>1 DEF Reads
<1> QED
  BY <1>2, <1>3

\* The state of the parse of a TestPb.
TestPbStates == [ok : BOOLEAN, done : BOOLEAN, atEnd : BOOLEAN, m : TestPbMsgs, pos : Pos]

\* The fields of a TestPb.
LEMMA TestPbField ==
  ASSUME NEW buf \in Str, NEW r \in TestPbStates
  PROVE  TestPb_Round(r, buf) \in TestPbStates
<1> DEFINE m == r.m
           t == Coded(buf, ReadVarint(buf, r.pos, 10))
           tag == IF t.ok THEN UInt32(t.val) ELSE <<>>
           Go(x, next)  == [ok |-> x.ok, done |-> ~x.ok, atEnd |-> FALSE, m |-> next, pos |-> x.pos]
           s == ReadText(m.sence, buf, t.pos)
           v == Coded(buf, ReadVarint(buf, t.pos, 10))
           n == ReadText(m.tablename, buf, t.pos)
           u == IF WireType(tag) = 4 THEN Read(FALSE, <<>>, t.pos)
                ELSE Coded(buf, ReadUnknown(tag, buf, t.pos))
           ms == TestPb_set_sence(m, s.val)
           mv == IF v.ok THEN TestPb_set_page(m, v.val) ELSE m
           mn == TestPb_set_tablename(m, n.val)
           mu == IF u.ok THEN [m EXCEPT !.unk = @ \o u.val] ELSE m
           e == [r EXCEPT !.done = TRUE, !.atEnd = r.pos > Len(buf)]
<1>1. TestPb_Round(r, buf) =
        CASE r.done -> r
          [] ~r.done /\ tag = <<>> -> e
          [] ~r.done /\ tag = <<10>> -> Go(s, ms)
          [] ~r.done /\ tag = <<16>> -> Go(v, mv)
          [] ~r.done /\ tag = TableNameTag -> Go(n, mn)
          [] OTHER -> Go(u, mu)
  BY DEF TestPb_Round
<1>2. m \in TestPbMsgs /\ r.pos \in Pos
  BY DEF TestPbStates
<1>3. m.sence \in Str /\ m.tablename \in Str /\ m.page \in Str /\ m.unk \in Str
  BY <1>2 DEF TestPbMsgs
<1> HIDE DEF m
<1>4. t \in Reads(Str)
  BY <1>2, ReadVarintType, CodedType
<1> HIDE DEF t
<1>5. t.val \in Str /\ t.pos \in Pos
  BY <1>4, ReadsHave
<1>6. tag \in Str
  <2>1. <<>> \in Str
    BY EmptySeq DEF Str
  <2> QED
    BY <1>5, <2>1, CastTypes
<1> HIDE DEF tag
<1>7. s \in Reads(Str) /\ n \in Reads(Str)
  BY <1>3, <1>5, CodedStringType
<1>8. v \in Reads(Str)
  BY <1>5, ReadVarintType, CodedType
<1>9. u \in Reads(Str)
  <2>1. <<>> \in Str
    BY EmptySeq DEF Str
  <2>2. Read(FALSE, <<>>, t.pos) \in Reads(Str)
    BY <1>5, <2>1, ReadType
  <2>3. ReadUnknown(tag, buf, t.pos) \in Reads(Str)
    BY <1>5, <1>6, ReadUnknownType
  <2>4. Coded(buf, ReadUnknown(tag, buf, t.pos)) \in Reads(Str)
    BY <2>3, CodedType
  <2> QED
    BY <2>2, <2>4
<1> HIDE DEF s, n, v, u
<1>10. s.val \in Str /\ n.val \in Str /\ v.val \in Str /\ u.val \in Str
  BY <1>7, <1>8, <1>9, ReadsHave
<1>11. ms \in TestPbMsgs /\ mn \in TestPbMsgs
  BY <1>2, <1>10 DEF TestPbMsgs, TestPb_set_sence, TestPb_set_tablename
<1>12. mv \in TestPbMsgs
  <2>1. Int32(v.val) \in Str
    BY <1>10, CastTypes
  <2> QED
    BY <1>2, <2>1 DEF TestPbMsgs, TestPb_set_page
<1>13. mu \in TestPbMsgs
  <2>1. m.unk \o u.val \in Str
    BY <1>3, <1>10, StrConcat
  <2> QED
    BY <1>2, <2>1 DEF TestPbMsgs
<1> HIDE DEF ms, mn, mv, mu
<1>14. ASSUME NEW x \in Reads(Str), NEW next \in TestPbMsgs
       PROVE  Go(x, next) \in TestPbStates
  <2>1. x.ok \in BOOLEAN /\ x.pos \in Pos
    BY ReadsHave
  <2>2. (~x.ok) \in BOOLEAN
    OBVIOUS
  <2> QED
    BY <2>1, <2>2 DEF TestPbStates
<1>15. e \in TestPbStates
  <2> DEFINE z == r.pos > Len(buf)
  <2>1. z \in BOOLEAN
    OBVIOUS
  <2> HIDE DEF z
  <2>2. [r EXCEPT !.done = TRUE, !.atEnd = z] \in TestPbStates
    BY <2>1 DEF TestPbStates
  <2> QED
    BY <2>2 DEF z
<1> HIDE DEF Go, e
<1>16. /\ Go(s, ms) \in TestPbStates /\ Go(v, mv) \in TestPbStates
       /\ Go(n, mn) \in TestPbStates /\ Go(u, mu) \in TestPbStates
  BY <1>7, <1>8, <1>9, <1>11, <1>12, <1>13, <1>14
<1> DEFINE gs == Go(s, ms)
           gv == Go(v, mv)
           gn == Go(n, mn)
           gu == Go(u, mu)
<1>17. gs \in TestPbStates /\ gv \in TestPbStates /\ gn \in TestPbStates /\ gu \in TestPbStates
  BY <1>16
<1>18. TestPb_Round(r, buf) =
         CASE r.done -> r [] ~r.done /\ tag = <<>> -> e [] ~r.done /\ tag = <<10>> -> gs
           [] ~r.done /\ tag = <<16>> -> gv [] ~r.done /\ tag = TableNameTag -> gn [] OTHER -> gu
  BY <1>1
<1> HIDE DEF gs, gv, gn, gu
<1> QED
  BY <1>15, <1>17, <1>18

\* A message a receiver is left with.
Gots(M) == [m : M, ok : BOOLEAN]

\* f runs through the loop of a TestPb.
TestPbStart == [ok |-> TRUE, done |-> FALSE, atEnd |-> FALSE, m |-> TestPb_New, pos |-> 1]
TestPbSteps(f, buf) ==
  /\ f[0] = TestPbStart
  /\ \A k \in 1 .. Len(buf) + 1 : f[k] = TestPb_Round(f[k - 1], buf)
  /\ TestPb_MergePartialFromCodedStream(TestPb_New, buf) = f[Len(buf) + 1]

\* A TestPb is parsed step by step.
LEMMA TestPbRun ==
  ASSUME NEW buf \in Str
  PROVE  \E f : TestPbSteps(f, buf) /\ \A k \in 0 .. Len(buf) + 1 : f[k] \in TestPbStates
<1> DEFINE n == Len(buf) + 1
           V == TestPbStates
           b == [ok |-> TRUE, done |-> FALSE, atEnd |-> FALSE, m |-> TestPb_New, pos |-> 1]
           F == [i \in 1 .. n |-> [v \in V |-> TestPb_Round(v, buf)]]
           read[k \in 0 .. Len(buf) + 1] == IF k = 0 THEN [ok |-> TRUE, done |-> FALSE, atEnd |-> FALSE, m |-> TestPb_New, pos |-> 1] ELSE TestPb_Round(read[k - 1], buf)
<1>1. n \in Nat
  BY LenProperties DEF Str
<1>2. \A v \in V : TestPb_Round(v, buf) \in V
  BY TestPbField
<1>3. \A i \in 1 .. n : \A v \in V : F[i][v] = TestPb_Round(v, buf) /\ F[i][v] \in V
  BY <1>2
<1>4. TestPb_MergePartialFromCodedStream(TestPb_New, buf) = read[Len(buf) + 1]
  BY DEF TestPb_MergePartialFromCodedStream
<1>5. b \in V
  <2>1. <<>> \in Str /\ 1 \in Pos
    BY EmptySeq DEF Str, Pos
  <2>2. TestPb_New \in TestPbMsgs
    BY <2>1 DEF TestPb_New, TestPbMsgs
  <2> QED
    BY <2>1, <2>2 DEF TestPbStates
<1> HIDE DEF F, V, n
<1>6. PICK g \in [0 .. n -> V] : Follows(g, n, b, F)
  <2> HIDE DEF b
  <2> QED
    BY <1>1, <1>3, <1>5, Recursion
<1>7. \A k \in 0 .. n : g[k] = IF k = 0 THEN b ELSE TestPb_Round(g[k - 1], buf)
  <2> HIDE DEF b
  <2> SUFFICES ASSUME NEW k \in 0 .. n PROVE g[k] = IF k = 0 THEN b ELSE TestPb_Round(g[k - 1], buf)
    OBVIOUS
  <2>1. CASE k = 0
    BY <1>6, <2>1 DEF Follows
  <2>2. CASE k # 0
    <3>1. k \in 1 .. n /\ k - 1 \in 0 .. n
      BY <1>1, <2>2
    <3>2. g[k] = F[k][g[k - 1]] /\ g[k - 1] \in V
      BY <1>6, <3>1 DEF Follows
    <3> QED
      BY <1>3, <2>2, <3>1, <3>2
  <2> QED
    BY <2>1, <2>2
<1>8. g = [k \in 0 .. n |-> g[k]]
  OBVIOUS
<1>9. g = [k \in 0 .. Len(buf) + 1 |->
             IF k = 0 THEN [ok |-> TRUE, done |-> FALSE, atEnd |-> FALSE, m |-> TestPb_New, pos |-> 1]
             ELSE TestPb_Round(g[k - 1], buf)]
  BY <1>7, <1>8 DEF n
<1>10. read = [k \in 0 .. Len(buf) + 1 |->
             IF k = 0 THEN [ok |-> TRUE, done |-> FALSE, atEnd |-> FALSE, m |-> TestPb_New, pos |-> 1]
             ELSE TestPb_Round(read[k - 1], buf)]
  BY <1>9
<1> HIDE DEF read
<1>11. \A k \in 0 .. n : read[k] = IF k = 0 THEN b ELSE TestPb_Round(read[k - 1], buf)
  BY <1>10 DEF n
<1> HIDE DEF b
<1>12. 0 \in 0 .. n /\ \A k \in 1 .. n : k \in 0 .. n /\ k # 0
  BY <1>1
<1>13. read[0] = b /\ \A k \in 1 .. n : read[k] = TestPb_Round(read[k - 1], buf)
  BY <1>11, <1>12
<1>14. \A k \in 0 .. n : read[k] \in V
  <2>1. \A k \in 1 .. n : read[k - 1] \in V => read[k] \in V
    BY <1>2, <1>13
  <2>2. read[0] \in V
    BY <1>5, <1>13
  <2> QED
    BY <1>1, <2>1, <2>2, StaysIn
<1>15. b = TestPbStart
  BY DEF b, TestPbStart
<1> QED
  BY <1>4, <1>13, <1>14, <1>15 DEF n, V, TestPbSteps

\* A TestPb.
LEMMA TestPbParsed ==
  ASSUME NEW buf \in Str
  PROVE  TestPb_ParseFromString(buf) \in Gots(TestPbMsgs)
<1> DEFINE r == TestPb_MergePartialFromCodedStream(TestPb_New, buf)
<1>1. PICK f : TestPbSteps(f, buf) /\ \A k \in 0 .. Len(buf) + 1 : f[k] \in TestPbStates
  BY TestPbRun
<1>2. Len(buf) + 1 \in Nat
  BY LenProperties DEF Str
<1>3. f[Len(buf) + 1] \in TestPbStates
  BY <1>1, <1>2
<1>4. r \in TestPbStates
  BY <1>1, <1>3 DEF TestPbSteps
<1>5. TestPb_ParseFromString(buf) = [m |-> r.m, ok |-> r.ok /\ r.atEnd]
  BY DEF TestPb_ParseFromString
<1> HIDE DEF r
<1>6. r.m \in TestPbMsgs /\ (r.ok /\ r.atEnd) \in BOOLEAN
  BY <1>4 DEF TestPbStates
<1> QED
  BY <1>5, <1>6 DEF Gots

\* The messages of each type.
LEMMA MsgsAre ==
  /\ Msgs("oneInfo") = oneInfoMsgs
  /\ Msgs("PushReq") = PushReqMsgs
  /\ Msgs("PushRsp") = PushRspMsgs
  /\ Msgs("PullReq") = PullReqMsgs
  /\ Msgs("PullRsp") = PullRspMsgs
  /\ Msgs("DelCacheReq") = DelCacheReqMsgs
  /\ Msgs("DelCacheRsp") = DelCacheRspMsgs
  /\ Msgs("HelloRequest") = HelloRequestMsgs
  /\ Msgs("HelloReply") = HelloReplyMsgs
  /\ Msgs("TestPb") = TestPbMsgs
BY DEF Msgs

\* A new message.
LEMMA NewType ==
  ASSUME NEW t \in MessageTypes
  PROVE  New(t) \in Msgs(t)
<1>1. <<>> \in Str /\ \A S : <<>> \in Seq(S)
  BY EmptySeq DEF Str
<1>2. CASE t = "oneInfo"
  <2>1. oneInfo_New \in oneInfoMsgs
    BY <1>1 DEF oneInfo_New, oneInfoMsgs
  <2>2. New("oneInfo") = oneInfo_New
    BY DEF New
  <2> QED
    BY <1>2, <2>1, <2>2, MsgsAre
<1>3. CASE t = "PushReq"
  <2>1. PushReq_New \in PushReqMsgs
    BY <1>1 DEF PushReq_New, PushReqMsgs
  <2>2. New("PushReq") = PushReq_New
    BY DEF New
  <2> QED
    BY <1>3, <2>1, <2>2, MsgsAre
<1>4. CASE t = "PushRsp"
  <2>1. PushRsp_New \in PushRspMsgs
    BY <1>1 DEF PushRsp_New, PushRspMsgs
  <2>2. New("PushRsp") = PushRsp_New
    BY DEF New
  <2> QED
    BY <1>4, <2>1, <2>2, MsgsAre
<1>5. CASE t = "PullReq"
  <2>1. PullReq_New \in PullReqMsgs
    BY <1>1 DEF PullReq_New, PullReqMsgs
  <2>2. New("PullReq") = PullReq_New
    BY DEF New
  <2> QED
    BY <1>5, <2>1, <2>2, MsgsAre
<1>6. CASE t = "PullRsp"
  <2>1. PullRsp_New \in PullRspMsgs
    BY <1>1 DEF PullRsp_New, PullRspMsgs
  <2>2. New("PullRsp") = PullRsp_New
    BY DEF New
  <2> QED
    BY <1>6, <2>1, <2>2, MsgsAre
<1>7. CASE t = "DelCacheReq"
  <2>1. DelCacheReq_New \in DelCacheReqMsgs
    BY <1>1 DEF DelCacheReq_New, DelCacheReqMsgs
  <2>2. New("DelCacheReq") = DelCacheReq_New
    BY DEF New
  <2> QED
    BY <1>7, <2>1, <2>2, MsgsAre
<1>8. CASE t = "DelCacheRsp"
  <2>1. DelCacheRsp_New \in DelCacheRspMsgs
    BY <1>1 DEF DelCacheRsp_New, DelCacheRspMsgs
  <2>2. New("DelCacheRsp") = DelCacheRsp_New
    BY DEF New
  <2> QED
    BY <1>8, <2>1, <2>2, MsgsAre
<1>9. CASE t = "HelloRequest"
  <2>1. HelloRequest_New \in HelloRequestMsgs
    BY <1>1 DEF HelloRequest_New, HelloRequestMsgs
  <2>2. New("HelloRequest") = HelloRequest_New
    BY DEF New
  <2> QED
    BY <1>9, <2>1, <2>2, MsgsAre
<1>10. CASE t = "HelloReply"
  <2>1. HelloReply_New \in HelloReplyMsgs
    BY <1>1 DEF HelloReply_New, HelloReplyMsgs
  <2>2. New("HelloReply") = HelloReply_New
    BY DEF New
  <2> QED
    BY <1>10, <2>1, <2>2, MsgsAre
<1>11. CASE t = "TestPb"
  <2>1. TestPb_New \in TestPbMsgs
    BY <1>1 DEF TestPb_New, TestPbMsgs
  <2>2. New("TestPb") = TestPb_New
    BY DEF New
  <2> QED
    BY <1>11, <2>1, <2>2, MsgsAre
<1> QED
  BY <1>2, <1>3, <1>4, <1>5, <1>6, <1>7, <1>8, <1>9, <1>10, <1>11 DEF MessageTypes

\* A field of any message but a TestPb.
LEMMA FieldType ==
  ASSUME NEW t \in MessageTypes \ {"TestPb"}, NEW m \in Msgs(t), NEW tag \in Str, NEW buf \in Str, NEW pos \in Pos
  PROVE  InternalParse(t, m, tag, buf, pos) \in States(Msgs(t))
<1>1. CASE t = "oneInfo"
  <2>1. m \in oneInfoMsgs
    BY <1>1, MsgsAre
  <2>2. oneInfo_InternalParse(m, tag, buf, pos) \in States(oneInfoMsgs)
    BY <2>1, oneInfoField
  <2>3. InternalParse("oneInfo", m, tag, buf, pos) = oneInfo_InternalParse(m, tag, buf, pos)
    BY DEF InternalParse
  <2> QED
    BY <1>1, <2>2, <2>3, MsgsAre
<1>2. CASE t = "PushReq"
  <2>1. m \in PushReqMsgs
    BY <1>2, MsgsAre
  <2>2. PushReq_InternalParse(m, tag, buf, pos) \in States(PushReqMsgs)
    BY <2>1, PushReqField
  <2>3. InternalParse("PushReq", m, tag, buf, pos) = PushReq_InternalParse(m, tag, buf, pos)
    BY DEF InternalParse
  <2> QED
    BY <1>2, <2>2, <2>3, MsgsAre
<1>3. CASE t = "PushRsp"
  <2>1. m \in PushRspMsgs
    BY <1>3, MsgsAre
  <2>2. PushRsp_InternalParse(m, tag, buf, pos) \in States(PushRspMsgs)
    BY <2>1, PushRspField
  <2>3. InternalParse("PushRsp", m, tag, buf, pos) = PushRsp_InternalParse(m, tag, buf, pos)
    BY DEF InternalParse
  <2> QED
    BY <1>3, <2>2, <2>3, MsgsAre
<1>4. CASE t = "PullReq"
  <2>1. m \in PullReqMsgs
    BY <1>4, MsgsAre
  <2>2. PullReq_InternalParse(m, tag, buf, pos) \in States(PullReqMsgs)
    BY <2>1, PullReqField
  <2>3. InternalParse("PullReq", m, tag, buf, pos) = PullReq_InternalParse(m, tag, buf, pos)
    BY DEF InternalParse
  <2> QED
    BY <1>4, <2>2, <2>3, MsgsAre
<1>5. CASE t = "PullRsp"
  <2>1. m \in PullRspMsgs
    BY <1>5, MsgsAre
  <2>2. PullRsp_InternalParse(m, tag, buf, pos) \in States(PullRspMsgs)
    BY <2>1, PullRspField
  <2>3. InternalParse("PullRsp", m, tag, buf, pos) = PullRsp_InternalParse(m, tag, buf, pos)
    BY DEF InternalParse
  <2> QED
    BY <1>5, <2>2, <2>3, MsgsAre
<1>6. CASE t = "DelCacheReq"
  <2>1. m \in DelCacheReqMsgs
    BY <1>6, MsgsAre
  <2>2. DelCacheReq_InternalParse(m, tag, buf, pos) \in States(DelCacheReqMsgs)
    BY <2>1, DelCacheReqField
  <2>3. InternalParse("DelCacheReq", m, tag, buf, pos) = DelCacheReq_InternalParse(m, tag, buf, pos)
    BY DEF InternalParse
  <2> QED
    BY <1>6, <2>2, <2>3, MsgsAre
<1>7. CASE t = "DelCacheRsp"
  <2>1. m \in DelCacheRspMsgs
    BY <1>7, MsgsAre
  <2>2. DelCacheRsp_InternalParse(m, tag, buf, pos) \in States(DelCacheRspMsgs)
    BY <2>1, DelCacheRspField
  <2>3. InternalParse("DelCacheRsp", m, tag, buf, pos) = DelCacheRsp_InternalParse(m, tag, buf, pos)
    BY DEF InternalParse
  <2> QED
    BY <1>7, <2>2, <2>3, MsgsAre
<1>8. CASE t = "HelloRequest"
  <2>1. m \in HelloRequestMsgs
    BY <1>8, MsgsAre
  <2>2. HelloRequest_InternalParse(m, tag, buf, pos) \in States(HelloRequestMsgs)
    BY <2>1, HelloRequestField
  <2>3. InternalParse("HelloRequest", m, tag, buf, pos) = HelloRequest_InternalParse(m, tag, buf, pos)
    BY DEF InternalParse
  <2> QED
    BY <1>8, <2>2, <2>3, MsgsAre
<1>9. CASE t = "HelloReply"
  <2>1. m \in HelloReplyMsgs
    BY <1>9, MsgsAre
  <2>2. HelloReply_InternalParse(m, tag, buf, pos) \in States(HelloReplyMsgs)
    BY <2>1, HelloReplyField
  <2>3. InternalParse("HelloReply", m, tag, buf, pos) = HelloReply_InternalParse(m, tag, buf, pos)
    BY DEF InternalParse
  <2> QED
    BY <1>9, <2>2, <2>3, MsgsAre
<1> QED
  BY <1>1, <1>2, <1>3, <1>4, <1>5, <1>6, <1>7, <1>8, <1>9 DEF MessageTypes

\* A round of the loop of any message but a TestPb.
LEMMA RoundType ==
  ASSUME NEW kind \in MessageTypes \ {"TestPb"}, NEW buf \in Str, NEW limit, NEW r \in States(Msgs(kind))
  PROVE  Round(kind, r, buf, limit) \in States(Msgs(kind))
<1> DEFINE t == ReadTag(buf, r.pos)
           f == InternalParse(kind, r.m, t.val, buf, t.pos)
<1>1. r.m \in Msgs(kind) /\ r.pos \in Pos
  BY DEF States
<1>2. t \in Reads(Str)
  BY <1>1, ReadTagType
<1>3. Round(kind, r, buf, limit) = NextField(r, t, f, buf, limit)
  BY DEF Round
<1> HIDE DEF t
<1>4. t.val \in Str /\ t.pos \in Pos
  BY <1>2, ReadsHave
<1>5. f \in States(Msgs(kind))
  BY <1>1, <1>4, FieldType
<1> HIDE DEF f
<1> QED
  BY <1>2, <1>3, <1>5, NextFieldType

\* What ParseFromString makes of the state its loop ends in.
Verdict(r) == [m |-> r.m, ok |-> r.ok /\ ~r.stop]

\* f runs through the loop of ParseFromString.
ParseSteps(f, kind, buf) ==
  /\ f[0] = ParseStart(New(kind), 1)
  /\ \A k \in 1 .. Len(buf) : f[k] = Round(kind, f[k - 1], buf, Len(buf) + 1)
  /\ ParseFromString(kind, buf) = Verdict(ParseEnd(f[Len(buf)], buf, Len(buf) + 1))

\* A message is parsed step by step.
LEMMA ParseRun ==
  ASSUME NEW kind \in MessageTypes \ {"TestPb"}, NEW buf \in Str
  PROVE  \E f : ParseSteps(f, kind, buf) /\ \A k \in 0 .. Len(buf) : f[k] \in States(Msgs(kind))
<1> DEFINE n == Len(buf)
           V == States(Msgs(kind))
           b == ParseStart(New(kind), 1)
           F == [i \in 1 .. n |-> [v \in V |-> Round(kind, v, buf, Len(buf) + 1)]]
           read[k \in 0 .. Len(buf)] == IF k = 0 THEN ParseStart(New(kind), 1) ELSE Round(kind, read[k - 1], buf, Len(buf) + 1)
<1>1. n \in Nat
  BY LenProperties DEF Str
<1>2. \A v \in V : Round(kind, v, buf, Len(buf) + 1) \in V
  BY RoundType
<1>3. \A i \in 1 .. n : \A v \in V : F[i][v] = Round(kind, v, buf, Len(buf) + 1) /\ F[i][v] \in V
  BY <1>2
<1>4. ParseFromString(kind, buf) = Verdict(ParseEnd(read[Len(buf)], buf, Len(buf) + 1))
  BY DEF ParseFromString, Verdict
<1>5. b \in V
  <2>1. 1 \in Pos /\ New(kind) \in Msgs(kind)
    BY NewType DEF Pos
  <2> QED
    BY <2>1, StartAndEndType
<1> HIDE DEF F, V, n
<1>6. PICK g \in [0 .. n -> V] : Follows(g, n, b, F)
  <2> HIDE DEF b
  <2> QED
    BY <1>1, <1>3, <1>5, Recursion
<1>7. \A k \in 0 .. n : g[k] = IF k = 0 THEN b ELSE Round(kind, g[k - 1], buf, Len(buf) + 1)
  <2> HIDE DEF b
  <2> SUFFICES ASSUME NEW k \in 0 .. n PROVE g[k] = IF k = 0 THEN b ELSE Round(kind, g[k - 1], buf, Len(buf) + 1)
    OBVIOUS
  <2>1. CASE k = 0
    BY <1>6, <2>1 DEF Follows
  <2>2. CASE k # 0
    <3>1. k \in 1 .. n /\ k - 1 \in 0 .. n
      BY <1>1, <2>2
    <3>2. g[k] = F[k][g[k - 1]] /\ g[k - 1] \in V
      BY <1>6, <3>1 DEF Follows
    <3> QED
      BY <1>3, <2>2, <3>1, <3>2
  <2> QED
    BY <2>1, <2>2
<1>8. g = [k \in 0 .. n |-> g[k]]
  OBVIOUS
<1>9. g = [k \in 0 .. Len(buf) |->
             IF k = 0 THEN ParseStart(New(kind), 1)
             ELSE Round(kind, g[k - 1], buf, Len(buf) + 1)]
  BY <1>7, <1>8 DEF n
<1>10. read = [k \in 0 .. Len(buf) |->
             IF k = 0 THEN ParseStart(New(kind), 1)
             ELSE Round(kind, read[k - 1], buf, Len(buf) + 1)]
  BY <1>9
<1> HIDE DEF read
<1>11. \A k \in 0 .. n : read[k] = IF k = 0 THEN b ELSE Round(kind, read[k - 1], buf, Len(buf) + 1)
  BY <1>10 DEF n
<1> HIDE DEF b
<1>12. 0 \in 0 .. n /\ \A k \in 1 .. n : k \in 0 .. n /\ k # 0
  BY <1>1
<1>13. read[0] = b /\ \A k \in 1 .. n : read[k] = Round(kind, read[k - 1], buf, Len(buf) + 1)
  BY <1>11, <1>12
<1>14. \A k \in 0 .. n : read[k] \in V
  <2>1. \A k \in 1 .. n : read[k - 1] \in V => read[k] \in V
    BY <1>2, <1>13
  <2>2. read[0] \in V
    BY <1>5, <1>13
  <2> QED
    BY <1>1, <2>1, <2>2, StaysIn
<1> QED
  BY <1>4, <1>13, <1>14 DEF n, V, b, ParseSteps

\* What a receiver makes of a chunk, whatever is in it, is a message.
LEMMA ParseType ==
  ASSUME NEW t \in MessageTypes, NEW buf \in Str
  PROVE  ParseFromString(t, buf) \in Gots(Msgs(t))
<1>1. CASE t = "TestPb"
  <2>1. TestPb_ParseFromString(buf) \in Gots(TestPbMsgs)
    BY TestPbParsed
  <2>2. ParseFromString(t, buf) = TestPb_ParseFromString(buf)
    BY <1>1 DEF ParseFromString
  <2> QED
    BY <1>1, <2>1, <2>2, MsgsAre
<1>2. CASE t # "TestPb"
  <2>1. t \in MessageTypes \ {"TestPb"}
    BY <1>2
  <2>2. PICK f : ParseSteps(f, t, buf) /\ \A k \in 0 .. Len(buf) : f[k] \in States(Msgs(t))
    BY <2>1, ParseRun
  <2>3. Len(buf) \in Nat
    BY LenProperties DEF Str
  <2>4. f[Len(buf)] \in States(Msgs(t))
    BY <2>2, <2>3
  <2> DEFINE l == ParseEnd(f[Len(buf)], buf, Len(buf) + 1)
  <2>5. l \in States(Msgs(t))
    BY <2>4, StartAndEndType
  <2>6. ParseFromString(t, buf) = Verdict(l)
    BY <2>2 DEF ParseSteps
  <2> HIDE DEF l
  <2>7. l.m \in Msgs(t) /\ (l.ok /\ ~l.stop) \in BOOLEAN
    BY <2>5 DEF States
  <2>8. Verdict(l) \in Gots(Msgs(t))
    BY <2>7 DEF Gots, Verdict
  <2> QED
    BY <2>6, <2>8
<1> QED
  BY <1>1, <1>2

\* The later of two values of a field is a value of the field.
LEMMA NewerType ==
  ASSUME NEW V, NEW a \in V, NEW b \in V
  PROVE  Newer(a, b) \in V
BY DEF Newer

\* Merging two messages of a type, or copying one into the other, gives a message of the type.
LEMMA MergeType ==
  ASSUME NEW t \in MessageTypes, NEW m \in Msgs(t), NEW from \in Msgs(t)
  PROVE  MergeFrom(t, m, from) \in Msgs(t) /\ CopyFrom(t, m, from) \in Msgs(t)
<1>1. <<>> \in Str /\ (\A S : <<>> \in Seq(S)) /\ <<>> \in {<<>>, <<1>>}
  BY EmptySeq DEF Str
<1>2. CASE t = "oneInfo"
  <2>1. m \in oneInfoMsgs /\ from \in oneInfoMsgs
    BY <1>2, MsgsAre
  <2>2. ASSUME NEW a \in oneInfoMsgs PROVE oneInfo_MergeFrom(a, from) \in oneInfoMsgs
    <3>1. a.unk \in Str /\ from.unk \in Str
      BY <2>1 DEF oneInfoMsgs
    <3>2. a.unk \o from.unk \in Str
      BY <3>1, StrConcat
    <3>3. a.key \in Str /\ from.key \in Str
      BY <2>1 DEF oneInfoMsgs
    <3>4. Newer(a.key, from.key) \in Str
      BY <3>3, NewerType
    <3>5. a.data \in Str /\ from.data \in Str
      BY <2>1 DEF oneInfoMsgs
    <3>6. Newer(a.data, from.data) \in Str
      BY <3>5, NewerType
    <3> QED
      BY <3>2, <3>4, <3>6 DEF oneInfoMsgs, oneInfo_MergeFrom
  <2>3. oneInfo_Clear(m) \in oneInfoMsgs
    BY <1>1, <2>1 DEF oneInfoMsgs, oneInfo_Clear
  <2>4. oneInfo_MergeFrom(m, from) \in oneInfoMsgs /\ oneInfo_CopyFrom(m, from) \in oneInfoMsgs
    BY <2>1, <2>2, <2>3 DEF oneInfo_CopyFrom
  <2>5. MergeFrom("oneInfo", m, from) = oneInfo_MergeFrom(m, from) /\ CopyFrom("oneInfo", m, from) = oneInfo_CopyFrom(m, from)
    BY DEF MergeFrom, CopyFrom
  <2> QED
    BY <1>2, <2>4, <2>5, MsgsAre
<1>3. CASE t = "PushReq"
  <2>1. m \in PushReqMsgs /\ from \in PushReqMsgs
    BY <1>3, MsgsAre
  <2>2. ASSUME NEW a \in PushReqMsgs PROVE PushReq_MergeFrom(a, from) \in PushReqMsgs
    <3>1. a.unk \in Str /\ from.unk \in Str
      BY <2>1 DEF PushReqMsgs
    <3>2. a.unk \o from.unk \in Str
      BY <3>1, StrConcat
    <3>3. a.infos \in Seq(oneInfoMsgs) /\ from.infos \in Seq(oneInfoMsgs)
      BY <2>1 DEF PushReqMsgs
    <3>4. a.infos \o from.infos \in Seq(oneInfoMsgs)
      BY <3>3, ConcatProperties
    <3> QED
      BY <3>2, <3>4 DEF PushReqMsgs, PushReq_MergeFrom
  <2>3. PushReq_Clear(m) \in PushReqMsgs
    BY <1>1, <2>1 DEF PushReqMsgs, PushReq_Clear
  <2>4. PushReq_MergeFrom(m, from) \in PushReqMsgs /\ PushReq_CopyFrom(m, from) \in PushReqMsgs
    BY <2>1, <2>2, <2>3 DEF PushReq_CopyFrom
  <2>5. MergeFrom("PushReq", m, from) = PushReq_MergeFrom(m, from) /\ CopyFrom("PushReq", m, from) = PushReq_CopyFrom(m, from)
    BY DEF MergeFrom, CopyFrom
  <2> QED
    BY <1>3, <2>4, <2>5, MsgsAre
<1>4. CASE t = "PushRsp"
  <2>1. m \in PushRspMsgs /\ from \in PushRspMsgs
    BY <1>4, MsgsAre
  <2>2. ASSUME NEW a \in PushRspMsgs PROVE PushRsp_MergeFrom(a, from) \in PushRspMsgs
    <3>1. a.unk \in Str /\ from.unk \in Str
      BY <2>1 DEF PushRspMsgs
    <3>2. a.unk \o from.unk \in Str
      BY <3>1, StrConcat
    <3>3. a.errCode \in Str /\ from.errCode \in Str
      BY <2>1 DEF PushRspMsgs
    <3>4. Newer(a.errCode, from.errCode) \in Str
      BY <3>3, NewerType
    <3>5. a.errDesc \in Str /\ from.errDesc \in Str
      BY <2>1 DEF PushRspMsgs
    <3>6. Newer(a.errDesc, from.errDesc) \in Str
      BY <3>5, NewerType
    <3> QED
      BY <3>2, <3>4, <3>6 DEF PushRspMsgs, PushRsp_MergeFrom
  <2>3. PushRsp_Clear(m) \in PushRspMsgs
    BY <1>1, <2>1 DEF PushRspMsgs, PushRsp_Clear
  <2>4. PushRsp_MergeFrom(m, from) \in PushRspMsgs /\ PushRsp_CopyFrom(m, from) \in PushRspMsgs
    BY <2>1, <2>2, <2>3 DEF PushRsp_CopyFrom
  <2>5. MergeFrom("PushRsp", m, from) = PushRsp_MergeFrom(m, from) /\ CopyFrom("PushRsp", m, from) = PushRsp_CopyFrom(m, from)
    BY DEF MergeFrom, CopyFrom
  <2> QED
    BY <1>4, <2>4, <2>5, MsgsAre
<1>5. CASE t = "PullReq"
  <2>1. m \in PullReqMsgs /\ from \in PullReqMsgs
    BY <1>5, MsgsAre
  <2>2. ASSUME NEW a \in PullReqMsgs PROVE PullReq_MergeFrom(a, from) \in PullReqMsgs
    <3>1. a.unk \in Str /\ from.unk \in Str
      BY <2>1 DEF PullReqMsgs
    <3>2. a.unk \o from.unk \in Str
      BY <3>1, StrConcat
    <3>3. a.keys \in Seq(Str) /\ from.keys \in Seq(Str)
      BY <2>1 DEF PullReqMsgs
    <3>4. a.keys \o from.keys \in Seq(Str)
      BY <3>3, ConcatProperties
    <3>5. a.field \in Seq(Str) /\ from.field \in Seq(Str)
      BY <2>1 DEF PullReqMsgs
    <3>6. a.field \o from.field \in Seq(Str)
      BY <3>5, ConcatProperties
    <3> QED
      BY <3>2, <3>4, <3>6 DEF PullReqMsgs, PullReq_MergeFrom
  <2>3. PullReq_Clear(m) \in PullReqMsgs
    BY <1>1, <2>1 DEF PullReqMsgs, PullReq_Clear
  <2>4. PullReq_MergeFrom(m, from) \in PullReqMsgs /\ PullReq_CopyFrom(m, from) \in PullReqMsgs
    BY <2>1, <2>2, <2>3 DEF PullReq_CopyFrom
  <2>5. MergeFrom("PullReq", m, from) = PullReq_MergeFrom(m, from) /\ CopyFrom("PullReq", m, from) = PullReq_CopyFrom(m, from)
    BY DEF MergeFrom, CopyFrom
  <2> QED
    BY <1>5, <2>4, <2>5, MsgsAre
<1>6. CASE t = "PullRsp"
  <2>1. m \in PullRspMsgs /\ from \in PullRspMsgs
    BY <1>6, MsgsAre
  <2>2. ASSUME NEW a \in PullRspMsgs PROVE PullRsp_MergeFrom(a, from) \in PullRspMsgs
    <3>1. a.unk \in Str /\ from.unk \in Str
      BY <2>1 DEF PullRspMsgs
    <3>2. a.unk \o from.unk \in Str
      BY <3>1, StrConcat
    <3>3. a.errCode \in Str /\ from.errCode \in Str
      BY <2>1 DEF PullRspMsgs
    <3>4. Newer(a.errCode, from.errCode) \in Str
      BY <3>3, NewerType
    <3>5. a.errDesc \in Str /\ from.errDesc \in Str
      BY <2>1 DEF PullRspMsgs
    <3>6. Newer(a.errDesc, from.errDesc) \in Str
      BY <3>5, NewerType
    <3>7. a.data \in Seq(Str) /\ from.data \in Seq(Str)
      BY <2>1 DEF PullRspMsgs
    <3>8. a.data \o from.data \in Seq(Str)
      BY <3>7, ConcatProperties
    <3> QED
      BY <3>2, <3>4, <3>6, <3>8 DEF PullRspMsgs, PullRsp_MergeFrom
  <2>3. PullRsp_Clear(m) \in PullRspMsgs
    BY <1>1, <2>1 DEF PullRspMsgs, PullRsp_Clear
  <2>4. PullRsp_MergeFrom(m, from) \in PullRspMsgs /\ PullRsp_CopyFrom(m, from) \in PullRspMsgs
    BY <2>1, <2>2, <2>3 DEF PullRsp_CopyFrom
  <2>5. MergeFrom("PullRsp", m, from) = PullRsp_MergeFrom(m, from) /\ CopyFrom("PullRsp", m, from) = PullRsp_CopyFrom(m, from)
    BY DEF MergeFrom, CopyFrom
  <2> QED
    BY <1>6, <2>4, <2>5, MsgsAre
<1>7. CASE t = "DelCacheReq"
  <2>1. m \in DelCacheReqMsgs /\ from \in DelCacheReqMsgs
    BY <1>7, MsgsAre
  <2>2. ASSUME NEW a \in DelCacheReqMsgs PROVE DelCacheReq_MergeFrom(a, from) \in DelCacheReqMsgs
    <3>1. a.unk \in Str /\ from.unk \in Str
      BY <2>1 DEF DelCacheReqMsgs
    <3>2. a.unk \o from.unk \in Str
      BY <3>1, StrConcat
    <3>3. a.key \in Str /\ from.key \in Str
      BY <2>1 DEF DelCacheReqMsgs
    <3>4. Newer(a.key, from.key) \in Str
      BY <3>3, NewerType
    <3> QED
      BY <3>2, <3>4 DEF DelCacheReqMsgs, DelCacheReq_MergeFrom
  <2>3. DelCacheReq_Clear(m) \in DelCacheReqMsgs
    BY <1>1, <2>1 DEF DelCacheReqMsgs, DelCacheReq_Clear
  <2>4. DelCacheReq_MergeFrom(m, from) \in DelCacheReqMsgs /\ DelCacheReq_CopyFrom(m, from) \in DelCacheReqMsgs
    BY <2>1, <2>2, <2>3 DEF DelCacheReq_CopyFrom
  <2>5. MergeFrom("DelCacheReq", m, from) = DelCacheReq_MergeFrom(m, from) /\ CopyFrom("DelCacheReq", m, from) = DelCacheReq_CopyFrom(m, from)
    BY DEF MergeFrom, CopyFrom
  <2> QED
    BY <1>7, <2>4, <2>5, MsgsAre
<1>8. CASE t = "DelCacheRsp"
  <2>1. m \in DelCacheRspMsgs /\ from \in DelCacheRspMsgs
    BY <1>8, MsgsAre
  <2>2. ASSUME NEW a \in DelCacheRspMsgs PROVE DelCacheRsp_MergeFrom(a, from) \in DelCacheRspMsgs
    <3>1. a.unk \in Str /\ from.unk \in Str
      BY <2>1 DEF DelCacheRspMsgs
    <3>2. a.unk \o from.unk \in Str
      BY <3>1, StrConcat
    <3>3. a.succ \in {<<>>, <<1>>} /\ from.succ \in {<<>>, <<1>>}
      BY <2>1 DEF DelCacheRspMsgs
    <3>4. Newer(a.succ, from.succ) \in {<<>>, <<1>>}
      BY <3>3, NewerType
    <3> QED
      BY <3>2, <3>4 DEF DelCacheRspMsgs, DelCacheRsp_MergeFrom
  <2>3. DelCacheRsp_Clear(m) \in DelCacheRspMsgs
    BY <1>1, <2>1 DEF DelCacheRspMsgs, DelCacheRsp_Clear
  <2>4. DelCacheRsp_MergeFrom(m, from) \in DelCacheRspMsgs /\ DelCacheRsp_CopyFrom(m, from) \in DelCacheRspMsgs
    BY <2>1, <2>2, <2>3 DEF DelCacheRsp_CopyFrom
  <2>5. MergeFrom("DelCacheRsp", m, from) = DelCacheRsp_MergeFrom(m, from) /\ CopyFrom("DelCacheRsp", m, from) = DelCacheRsp_CopyFrom(m, from)
    BY DEF MergeFrom, CopyFrom
  <2> QED
    BY <1>8, <2>4, <2>5, MsgsAre
<1>9. CASE t = "HelloRequest"
  <2>1. m \in HelloRequestMsgs /\ from \in HelloRequestMsgs
    BY <1>9, MsgsAre
  <2>2. ASSUME NEW a \in HelloRequestMsgs PROVE HelloRequest_MergeFrom(a, from) \in HelloRequestMsgs
    <3>1. a.unk \in Str /\ from.unk \in Str
      BY <2>1 DEF HelloRequestMsgs
    <3>2. a.unk \o from.unk \in Str
      BY <3>1, StrConcat
    <3>3. a.name \in Str /\ from.name \in Str
      BY <2>1 DEF HelloRequestMsgs
    <3>4. Newer(a.name, from.name) \in Str
      BY <3>3, NewerType
    <3> QED
      BY <3>2, <3>4 DEF HelloRequestMsgs, HelloRequest_MergeFrom
  <2>3. HelloRequest_Clear(m) \in HelloRequestMsgs
    BY <1>1, <2>1 DEF HelloRequestMsgs, HelloRequest_Clear
  <2>4. HelloRequest_MergeFrom(m, from) \in HelloRequestMsgs /\ HelloRequest_CopyFrom(m, from) \in HelloRequestMsgs
    BY <2>1, <2>2, <2>3 DEF HelloRequest_CopyFrom
  <2>5. MergeFrom("HelloRequest", m, from) = HelloRequest_MergeFrom(m, from) /\ CopyFrom("HelloRequest", m, from) = HelloRequest_CopyFrom(m, from)
    BY DEF MergeFrom, CopyFrom
  <2> QED
    BY <1>9, <2>4, <2>5, MsgsAre
<1>10. CASE t = "HelloReply"
  <2>1. m \in HelloReplyMsgs /\ from \in HelloReplyMsgs
    BY <1>10, MsgsAre
  <2>2. ASSUME NEW a \in HelloReplyMsgs PROVE HelloReply_MergeFrom(a, from) \in HelloReplyMsgs
    <3>1. a.unk \in Str /\ from.unk \in Str
      BY <2>1 DEF HelloReplyMsgs
    <3>2. a.unk \o from.unk \in Str
      BY <3>1, StrConcat
    <3>3. a.message \in Str /\ from.message \in Str
      BY <2>1 DEF HelloReplyMsgs
    <3>4. Newer(a.message, from.message) \in Str
      BY <3>3, NewerType
    <3> QED
      BY <3>2, <3>4 DEF HelloReplyMsgs, HelloReply_MergeFrom
  <2>3. HelloReply_Clear(m) \in HelloReplyMsgs
    BY <1>1, <2>1 DEF HelloReplyMsgs, HelloReply_Clear
  <2>4. HelloReply_MergeFrom(m, from) \in HelloReplyMsgs /\ HelloReply_CopyFrom(m, from) \in HelloReplyMsgs
    BY <2>1, <2>2, <2>3 DEF HelloReply_CopyFrom
  <2>5. MergeFrom("HelloReply", m, from) = HelloReply_MergeFrom(m, from) /\ CopyFrom("HelloReply", m, from) = HelloReply_CopyFrom(m, from)
    BY DEF MergeFrom, CopyFrom
  <2> QED
    BY <1>10, <2>4, <2>5, MsgsAre
<1>11. CASE t = "TestPb"
  <2>1. m \in TestPbMsgs /\ from \in TestPbMsgs
    BY <1>11, MsgsAre
  <2>2. ASSUME NEW a \in TestPbMsgs PROVE TestPb_MergeFrom(a, from) \in TestPbMsgs
    <3>1. a.unk \in Str /\ from.unk \in Str
      BY <2>1 DEF TestPbMsgs
    <3>2. a.unk \o from.unk \in Str
      BY <3>1, StrConcat
    <3>3. a.sence \in Str /\ from.sence \in Str
      BY <2>1 DEF TestPbMsgs
    <3>4. Newer(a.sence, from.sence) \in Str
      BY <3>3, NewerType
    <3>5. a.tablename \in Str /\ from.tablename \in Str
      BY <2>1 DEF TestPbMsgs
    <3>6. Newer(a.tablename, from.tablename) \in Str
      BY <3>5, NewerType
    <3>7. a.page \in Str /\ from.page \in Str
      BY <2>1 DEF TestPbMsgs
    <3>8. Newer(a.page, from.page) \in Str
      BY <3>7, NewerType
    <3> QED
      BY <3>2, <3>4, <3>6, <3>8 DEF TestPbMsgs, TestPb_MergeFrom
  <2>3. TestPb_Clear(m) \in TestPbMsgs
    BY <1>1, <2>1 DEF TestPbMsgs, TestPb_Clear
  <2>4. TestPb_MergeFrom(m, from) \in TestPbMsgs /\ TestPb_CopyFrom(m, from) \in TestPbMsgs
    BY <2>1, <2>2, <2>3 DEF TestPb_CopyFrom
  <2>5. MergeFrom("TestPb", m, from) = TestPb_MergeFrom(m, from) /\ CopyFrom("TestPb", m, from) = TestPb_CopyFrom(m, from)
    BY DEF MergeFrom, CopyFrom
  <2> QED
    BY <1>11, <2>4, <2>5, MsgsAre
<1> QED
  BY <1>2, <1>3, <1>4, <1>5, <1>6, <1>7, <1>8, <1>9, <1>10, <1>11 DEF MessageTypes

-----------------------------------------------------------------------------
(* The sizes.                                                               *)

\* What is written is as long as it should be.
Exact(size, bytes) == bytes \in Str /\ size \in Nat /\ size = Len(bytes)

\* Parts that are written one after the other.
LEMMA ExactConcat ==
  ASSUME NEW a, NEW b, NEW x, NEW y, Exact(a, x), Exact(b, y)
  PROVE  Exact(a + b, x \o y) /\ Exact(b + a, x \o y)
<1>1. x \in Str /\ y \in Str /\ a \in Nat /\ b \in Nat /\ a = Len(x) /\ b = Len(y)
  BY DEF Exact
<1>2. x \o y \in Str /\ Len(x \o y) = Len(x) + Len(y)
  BY <1>1, StrConcat
<1>3. a + b \in Nat /\ b + a \in Nat /\ a + b = Len(x \o y) /\ b + a = Len(x \o y)
  BY <1>1, <1>2
<1> QED
  BY <1>2, <1>3 DEF Exact

\* A field that is left out when it has its default, and the unknown fields.
LEMMA ExactField ==
  ASSUME NEW tag \in Str, NEW s \in Str
  PROVE  /\ Exact(VarintFieldSize(tag, s), VarintField(tag, s))
         /\ Exact(BytesFieldSize(tag, s), BytesField(tag, s))
         /\ Exact(Len(s), s)
<1>1. Len(s) \in Nat
  BY LenProperties DEF Str
<1> QED
  BY <1>1, FieldSizes DEF Exact

\* The tags, each of one byte but for the one of TableName.
LEMMA TagsAre ==
  /\ \A n \in Nat : <<n>> \in Str /\ VarintSize(<<n>>) = 1 /\ Len(<<n>>) = 1
  /\ TableNameTag \in Str
<1>1. ASSUME NEW n \in Nat PROVE <<n>> \in Str /\ VarintSize(<<n>>) = 1 /\ Len(<<n>>) = 1
  <2>1. <<n>> \in Str /\ Len(<<n>>) = 1
    BY DEF Str
  <2>2. <<n>> # <<>>
    BY <2>1, EmptySeq
  <2> QED
    BY <2>1, <2>2 DEF VarintSize
<1>2. TableNameTag \in Str
  BY DEF TableNameTag, Str
<1> QED
  BY <1>1, <1>2

\* A oneInfo.
LEMMA oneInfoExact ==
  ASSUME NEW m \in oneInfoMsgs
  PROVE  Exact(oneInfo_ByteSizeLong(m), oneInfo_InternalSerialize(m))
<1>1. m.key \in Str /\ m.data \in Str /\ m.unk \in Str
  BY DEF oneInfoMsgs
<1> DEFINE a == VarintFieldSize(<<8>>, m.key)
           b == BytesFieldSize(<<18>>, m.data)
           c == Len(m.unk)
           x == VarintField(<<8>>, m.key)
           y == BytesField(<<18>>, m.data)
           z == m.unk
<1>2. Exact(a, x) /\ Exact(b, y) /\ Exact(c, z)
  BY <1>1, TagsAre, ExactField
<1>3. oneInfo_ByteSizeLong(m) = a + b + c /\ oneInfo_InternalSerialize(m) = x \o y \o z
  BY DEF oneInfo_ByteSizeLong, oneInfo_InternalSerialize
<1> HIDE DEF a, b, c, x, y, z
<1>4. Exact(a + b, x \o y)
  BY <1>2, ExactConcat
<1>5. Exact((a + b) + c, (x \o y) \o z)
  BY <1>2, <1>4, ExactConcat
<1> QED
  BY <1>3, <1>5

\* A PushReq: an info is written with the size computed for it before.
LEMMA PushReqExact ==
  ASSUME NEW m \in PushReqMsgs
  PROVE  Exact(PushReq_ByteSizeLong(m), PushReq_InternalSerialize(m))
<1> DEFINE s == m.infos
           n == Len(s)
           Size(i) == oneInfo_ByteSizeLong(s[i])
           Bytes(i) == oneInfo_InternalSerialize(s[i])
           W(i) == <<10>> \o WriteVarint(Digits(Size(i))) \o Bytes(i)
           Z(i) == 1 + LengthSize(Size(i))
           w == [i \in DOMAIN s |-> W(i)]
           z == [i \in DOMAIN s |-> Z(i)]
<1>1. s \in Seq(oneInfoMsgs) /\ m.unk \in Str
  BY DEF PushReqMsgs
<1>2. PushReq_InternalSerialize(m) = JoinSeq(w) \o m.unk /\ PushReq_ByteSizeLong(m) = SumSeq(z) + Len(m.unk)
  BY DEF PushReq_InternalSerialize, PushReq_ByteSizeLong
<1> HIDE DEF s
<1>3. n \in Nat /\ DOMAIN s = 1 .. n /\ \A i \in 1 .. n : s[i] \in oneInfoMsgs
  BY <1>1, LenProperties, ElementOfSeq
<1>4. ASSUME NEW i \in 1 .. n PROVE W(i) \in Str /\ Z(i) \in Nat /\ Z(i) = Len(W(i))
  <2> DEFINE size == Size(i)
             bytes == Bytes(i)
             d == Digits(size)
             l == WriteVarint(d)
  <2>1. Exact(size, bytes)
    BY <1>3, oneInfoExact
  <2>2. W(i) = <<10>> \o l \o bytes /\ Z(i) = 1 + (VarintSize(d) + size)
    BY DEF LengthSize
  <2> HIDE DEF size, bytes, W, Z
  <2>3. bytes \in Str /\ size \in Nat /\ size = Len(bytes)
    BY <2>1 DEF Exact
  <2>4. d \in Str
    BY <2>3, DigitsType
  <2> HIDE DEF d
  <2>5. l \in Str /\ Len(l) = VarintSize(d) /\ VarintSize(d) \in Nat
    BY <2>4, WriteVarintSize
  <2> HIDE DEF l
  <2> DEFINE h == <<10>>
             hl == h \o l
  <2>6. h \in Str /\ Len(h) = 1
    BY TagsAre
  <2> HIDE DEF h
  <2>7. hl \in Str /\ Len(hl) = 1 + Len(l)
    BY <2>5, <2>6, StrConcat
  <2>8. W(i) = hl \o bytes
    BY <2>2 DEF h
  <2> HIDE DEF hl
  <2>9. hl \o bytes \in Str /\ Len(hl \o bytes) = Len(hl) + Len(bytes)
    BY <2>3, <2>7, StrConcat
  <2>10. Z(i) \in Nat /\ Z(i) = Len(hl) + Len(bytes)
    BY <2>2, <2>3, <2>5, <2>7
  <2> QED
    BY <2>8, <2>9, <2>10
<1> HIDE DEF n, W, Z
<1>5. w \in Seq(Str) /\ Len(w) = n /\ (\A i \in 1 .. n : w[i] = W(i))
  BY <1>3, <1>4
<1>6. z \in Seq(Nat) /\ Len(z) = n /\ (\A i \in 1 .. n : z[i] = Z(i))
  BY <1>3, <1>4
<1> HIDE DEF w, z
<1>7. \A i \in 1 .. Len(w) : z[i] = Len(w[i])
  BY <1>4, <1>5, <1>6
<1>8. JoinSeq(w) \in Str /\ SumSeq(z) \in Nat /\ Len(JoinSeq(w)) = SumSeq(z)
  BY <1>5, <1>6, <1>7, JoinSize
<1>9. Exact(SumSeq(z), JoinSeq(w))
  BY <1>8 DEF Exact
<1>10. Exact(Len(m.unk), m.unk)
  BY <1>1, ExactField
<1>11. Exact(SumSeq(z) + Len(m.unk), JoinSeq(w) \o m.unk)
  BY <1>9, <1>10, ExactConcat
<1> QED
  BY <1>2, <1>11

\* A PushRsp.
LEMMA PushRspExact ==
  ASSUME NEW m \in PushRspMsgs
  PROVE  Exact(PushRsp_ByteSizeLong(m), PushRsp_InternalSerialize(m))
<1>1. m.errCode \in Str /\ m.errDesc \in Str /\ m.unk \in Str
  BY DEF PushRspMsgs
<1> DEFINE a == VarintFieldSize(<<8>>, m.errCode)
           b == BytesFieldSize(<<18>>, m.errDesc)
           c == Len(m.unk)
           x == VarintField(<<8>>, m.errCode)
           y == BytesField(<<18>>, m.errDesc)
           z == m.unk
<1>2. Exact(a, x) /\ Exact(b, y) /\ Exact(c, z)
  BY <1>1, TagsAre, ExactField
<1>3. PushRsp_ByteSizeLong(m) = a + b + c /\ PushRsp_InternalSerialize(m) = x \o y \o z
  BY DEF PushRsp_ByteSizeLong, PushRsp_InternalSerialize
<1> HIDE DEF a, b, c, x, y, z
<1>4. Exact(a + b, x \o y)
  BY <1>2, ExactConcat
<1>5. Exact((a + b) + c, (x \o y) \o z)
  BY <1>2, <1>4, ExactConcat
<1> QED
  BY <1>3, <1>5

\* A packed array that is left out when it is empty.
LEMMA ExactPacked ==
  ASSUME NEW n \in Nat, NEW s \in Seq(Str)
  PROVE  Exact(IF PackedSize(s) > 0 THEN 1 + LengthSize(PackedSize(s)) ELSE 0,
               IF PackedSize(s) > 0 THEN WritePacked(<<n>>, s) ELSE <<>>)
<1> DEFINE tag == <<n>>
           p == PackedSize(s)
           l == LengthSize(p)
           w == WritePacked(tag, s)
<1>1. tag \in Str /\ VarintSize(tag) = 1
  BY TagsAre
<1> HIDE DEF tag
<1>2. w \in Str /\ p \in Nat /\ Len(w) = VarintSize(tag) + l /\ l \in Nat
  BY <1>1, PackedSizes
<1>3. <<>> \in Str /\ Len(<<>>) = 0
  BY EmptySeq DEF Str
<1> HIDE DEF p, l, w
<1>4. 1 + l \in Nat /\ 1 + l = Len(w)
  BY <1>1, <1>2
<1>5. Exact(1 + l, w) /\ Exact(0, <<>>)
  BY <1>2, <1>3, <1>4 DEF Exact
<1>6. Exact(IF p > 0 THEN 1 + l ELSE 0, IF p > 0 THEN w ELSE <<>>)
  BY <1>5
<1> QED
  BY <1>6 DEF p, l, w, tag

\* A PullReq.
LEMMA PullReqExact ==
  ASSUME NEW m \in PullReqMsgs
  PROVE  Exact(PullReq_ByteSizeLong(m), PullReq_InternalSerialize(m))
<1> DEFINE a == IF PackedSize(m.keys) > 0 THEN 1 + LengthSize(PackedSize(m.keys)) ELSE 0
           b == IF PackedSize(m.field) > 0 THEN 1 + LengthSize(PackedSize(m.field)) ELSE 0
           c == Len(m.unk)
           x == IF PackedSize(m.keys) > 0 THEN WritePacked(<<10>>, m.keys) ELSE <<>>
           y == IF PackedSize(m.field) > 0 THEN WritePacked(<<18>>, m.field) ELSE <<>>
           z == m.unk
<1>1. m.keys \in Seq(Str) /\ m.field \in Seq(Str) /\ m.unk \in Str
  BY DEF PullReqMsgs
<1>2. Exact(a, x)
  BY <1>1, ExactPacked
<1>3. Exact(b, y)
  BY <1>1, ExactPacked
<1>4. Exact(c, z)
  BY <1>1, ExactField
<1>5. PullReq_ByteSizeLong(m) = a + b + c /\ PullReq_InternalSerialize(m) = x \o y \o z
  BY DEF PullReq_ByteSizeLong, PullReq_InternalSerialize
<1> HIDE DEF a, b, c, x, y, z
<1>6. Exact(a + b, x \o y)
  BY <1>2, <1>3, ExactConcat
<1>7. Exact((a + b) + c, (x \o y) \o z)
  BY <1>4, <1>6, ExactConcat
<1> QED
  BY <1>5, <1>7

\* A PullRsp: an empty element of data takes two bytes.
LEMMA PullRspExact ==
  ASSUME NEW m \in PullRspMsgs
  PROVE  Exact(PullRsp_ByteSizeLong(m), PullRsp_InternalSerialize(m))
<1> DEFINE s == m.data
           n == Len(s)
           w == [i \in DOMAIN s |-> WriteBytes(<<26>>, s[i])]
           v == [i \in DOMAIN s |-> 1 + LengthSize(Len(s[i]))]
           a == VarintFieldSize(<<8>>, m.errCode)
           b == BytesFieldSize(<<18>>, m.errDesc)
           c == Len(m.unk)
           d == SumSeq(v)
           x == VarintField(<<8>>, m.errCode)
           y == BytesField(<<18>>, m.errDesc)
           z == m.unk
           j == JoinSeq(w)
<1>1. m.errCode \in Str /\ m.errDesc \in Str /\ m.unk \in Str /\ s \in Seq(Str)
  BY DEF PullRspMsgs
<1>2. Exact(a, x) /\ Exact(b, y) /\ Exact(c, z)
  BY <1>1, TagsAre, ExactField
<1>3. PullRsp_ByteSizeLong(m) = d + b + a + c /\ PullRsp_InternalSerialize(m) = x \o y \o j \o z
  BY DEF PullRsp_ByteSizeLong, PullRsp_InternalSerialize
<1> HIDE DEF s, a, b, c, x, y, z
<1>4. n \in Nat /\ DOMAIN s = 1 .. n /\ \A i \in 1 .. n : s[i] \in Str
  BY <1>1, LenProperties, ElementOfSeq
<1>5. ASSUME NEW i \in 1 .. n
      PROVE  /\ WriteBytes(<<26>>, s[i]) \in Str /\ 1 + LengthSize(Len(s[i])) \in Nat
             /\ 1 + LengthSize(Len(s[i])) = Len(WriteBytes(<<26>>, s[i]))
  <2> DEFINE tag == <<26>>
             e == s[i]
  <2>1. tag \in Str /\ VarintSize(tag) = 1 /\ e \in Str
    BY <1>4, TagsAre
  <2> HIDE DEF tag, e
  <2>2. /\ WriteBytes(tag, e) \in Str
        /\ Len(WriteBytes(tag, e)) = VarintSize(tag) + LengthSize(Len(e))
        /\ LengthSize(Len(e)) \in Nat
    BY <2>1, WriteBytesSize
  <2>3. 1 + LengthSize(Len(e)) \in Nat /\ 1 + LengthSize(Len(e)) = Len(WriteBytes(tag, e))
    BY <2>1, <2>2
  <2> QED
    BY <2>2, <2>3 DEF tag, e
<1> HIDE DEF n
<1>6. w \in Seq(Str) /\ Len(w) = n /\ (\A i \in 1 .. n : w[i] = WriteBytes(<<26>>, s[i]))
  BY <1>4, <1>5
<1>7. v \in Seq(Nat) /\ Len(v) = n /\ (\A i \in 1 .. n : v[i] = 1 + LengthSize(Len(s[i])))
  BY <1>4, <1>5
<1> HIDE DEF w, v
<1>8. \A i \in 1 .. Len(w) : v[i] = Len(w[i])
  BY <1>5, <1>6, <1>7
<1>9. JoinSeq(w) \in Str /\ SumSeq(v) \in Nat /\ Len(JoinSeq(w)) = SumSeq(v)
  BY <1>6, <1>7, <1>8, JoinSize
<1>10. Exact(d, j)
  BY <1>9 DEF Exact
<1> HIDE DEF d, j
<1>11. Exact(a + b, x \o y)
  BY <1>2, ExactConcat
<1>12. Exact(d + (a + b), (x \o y) \o j)
  BY <1>10, <1>11, ExactConcat
<1>13. Exact((d + (a + b)) + c, ((x \o y) \o j) \o z)
  BY <1>2, <1>12, ExactConcat
<1>14. d + b + a + c = (d + (a + b)) + c
  <2>1. a \in Nat /\ b \in Nat /\ c \in Nat /\ d \in Nat
    BY <1>2, <1>10 DEF Exact
  <2> QED
    BY <2>1
<1> QED
  BY <1>3, <1>13, <1>14

\* A DelCacheReq, and a DelCacheRsp, whose flag is 0 or 1.
LEMMA DelCacheExact ==
  /\ \A m \in DelCacheReqMsgs : Exact(DelCacheReq_ByteSizeLong(m), DelCacheReq_InternalSerialize(m))
  /\ \A m \in DelCacheRspMsgs : Exact(DelCacheRsp_ByteSizeLong(m), DelCacheRsp_InternalSerialize(m))
<1>1. ASSUME NEW m \in DelCacheReqMsgs
      PROVE  Exact(DelCacheReq_ByteSizeLong(m), DelCacheReq_InternalSerialize(m))
  <2> DEFINE a == VarintFieldSize(<<8>>, m.key)
             x == VarintField(<<8>>, m.key)
             c == Len(m.unk)
             z == m.unk
  <2>1. m.key \in Str /\ m.unk \in Str
    BY DEF DelCacheReqMsgs
  <2>2. Exact(a, x) /\ Exact(c, z)
    BY <2>1, TagsAre, ExactField
  <2>3. DelCacheReq_ByteSizeLong(m) = a + c /\ DelCacheReq_InternalSerialize(m) = x \o z
    BY DEF DelCacheReq_ByteSizeLong, DelCacheReq_InternalSerialize
  <2> HIDE DEF a, c, x, z
  <2>4. Exact(a + c, x \o z)
    BY <2>2, ExactConcat
  <2> QED
    BY <2>3, <2>4
<1>2. ASSUME NEW m \in DelCacheRspMsgs
      PROVE  Exact(DelCacheRsp_ByteSizeLong(m), DelCacheRsp_InternalSerialize(m))
  <2> DEFINE a == IF m.succ = <<>> THEN 0 ELSE 1 + 1
             x == VarintField(<<8>>, m.succ)
             c == Len(m.unk)
             z == m.unk
  <2>1. m.succ \in {<<>>, <<1>>} /\ m.unk \in Str
    BY DEF DelCacheRspMsgs
  <2>2. m.succ \in Str /\ <<8>> \in Str /\ VarintSize(<<8>>) = 1 /\ VarintSize(<<1>>) = 1
    BY <2>1, TagsAre, EmptySeq DEF Str
  <2>3. Exact(VarintFieldSize(<<8>>, m.succ), x) /\ Exact(c, z)
    BY <2>1, <2>2, ExactField
  <2>4. a = VarintFieldSize(<<8>>, m.succ)
    <3>1. CASE m.succ = <<>>
      BY <3>1 DEF VarintFieldSize
    <3>2. CASE m.succ # <<>>
      <4>1. VarintSize(m.succ) = 1
        BY <2>1, <2>2, <3>2
      <4> QED
        BY <2>2, <3>2, <4>1 DEF VarintFieldSize
    <3> QED
      BY <3>1, <3>2
  <2>5. DelCacheRsp_ByteSizeLong(m) = a + c /\ DelCacheRsp_InternalSerialize(m) = x \o z
    BY DEF DelCacheRsp_ByteSizeLong, DelCacheRsp_InternalSerialize
  <2> HIDE DEF a, c, x, z
  <2>6. Exact(a + c, x \o z)
    BY <2>3, <2>4, ExactConcat
  <2> QED
    BY <2>5, <2>6
<1> QED
  BY <1>1, <1>2

\* A HelloRequest and a HelloReply.
LEMMA HelloExact ==
  /\ \A m \in HelloRequestMsgs : Exact(HelloRequest_ByteSizeLong(m), HelloRequest_InternalSerialize(m))
  /\ \A m \in HelloReplyMsgs : Exact(HelloReply_ByteSizeLong(m), HelloReply_InternalSerialize(m))
<1>1. ASSUME NEW m \in HelloRequestMsgs
      PROVE  Exact(HelloRequest_ByteSizeLong(m), HelloRequest_InternalSerialize(m))
  <2> DEFINE a == BytesFieldSize(<<10>>, m.name)
             x == BytesField(<<10>>, m.name)
             c == Len(m.unk)
             z == m.unk
  <2>1. m.name \in Str /\ m.unk \in Str
    BY DEF HelloRequestMsgs
  <2>2. Exact(a, x) /\ Exact(c, z)
    BY <2>1, TagsAre, ExactField
  <2>3. HelloRequest_ByteSizeLong(m) = a + c /\ HelloRequest_InternalSerialize(m) = x \o z
    BY DEF HelloRequest_ByteSizeLong, HelloRequest_InternalSerialize
  <2> HIDE DEF a, c, x, z
  <2>4. Exact(a + c, x \o z)
    BY <2>2, ExactConcat
  <2> QED
    BY <2>3, <2>4
<1>2. ASSUME NEW m \in HelloReplyMsgs
      PROVE  Exact(HelloReply_ByteSizeLong(m), HelloReply_InternalSerialize(m))
  <2> DEFINE a == BytesFieldSize(<<10>>, m.message)
             x == BytesField(<<10>>, m.message)
             c == Len(m.unk)
             z == m.unk
  <2>1. m.message \in Str /\ m.unk \in Str
    BY DEF HelloReplyMsgs
  <2>2. Exact(a, x) /\ Exact(c, z)
    BY <2>1, TagsAre, ExactField
  <2>3. HelloReply_ByteSizeLong(m) = a + c /\ HelloReply_InternalSerialize(m) = x \o z
    BY DEF HelloReply_ByteSizeLong, HelloReply_InternalSerialize
  <2> HIDE DEF a, c, x, z
  <2>4. Exact(a + c, x \o z)
    BY <2>2, ExactConcat
  <2> QED
    BY <2>3, <2>4
<1> QED
  BY <1>1, <1>2

\* A TestPb: its size is added up in another order than it is written.
LEMMA TestPbExact ==
  ASSUME NEW m \in TestPbMsgs
  PROVE  Exact(TestPb_ByteSizeLong(m), TestPb_SerializeWithCachedSizes(m))
<1> DEFINE a == BytesFieldSize(<<10>>, m.sence)
           b == VarintFieldSize(<<16>>, m.page)
           c == BytesFieldSize(TableNameTag, m.tablename)
           d == Len(m.unk)
           x == BytesField(<<10>>, m.sence)
           y == VarintField(<<16>>, m.page)
           z == BytesField(TableNameTag, m.tablename)
           w == m.unk
<1>1. m.sence \in Str /\ m.page \in Str /\ m.tablename \in Str /\ m.unk \in Str
  BY DEF TestPbMsgs
<1>2. Exact(a, x) /\ Exact(b, y) /\ Exact(c, z) /\ Exact(d, w)
  BY <1>1, TagsAre, ExactField
<1>3. TestPb_ByteSizeLong(m) = d + a + c + b /\ TestPb_SerializeWithCachedSizes(m) = x \o y \o z \o w
  BY DEF TestPb_ByteSizeLong, TestPb_SerializeWithCachedSizes
<1> HIDE DEF a, b, c, d, x, y, z, w
<1>4. Exact(a + b, x \o y)
  BY <1>2, ExactConcat
<1>5. Exact((a + b) + c, (x \o y) \o z)
  BY <1>2, <1>4, ExactConcat
<1>6. Exact(((a + b) + c) + d, ((x \o y) \o z) \o w)
  BY <1>2, <1>5, ExactConcat
<1>7. d + a + c + b = ((a + b) + c) + d
  <2>1. a \in Nat /\ b \in Nat /\ c \in Nat /\ d \in Nat
    BY <1>2 DEF Exact
  <2> QED
    BY <2>1
<1> QED
  BY <1>3, <1>6, <1>7

\* Every message of every type is written in as many bytes as were computed for it.
THEOREM SizesAreExact ==
  ASSUME NEW t \in MessageTypes, NEW m \in Msgs(t)
  PROVE  Exact(ByteSizeLong(t, m), SerializeToString(t, m))
<1>1. SerializeToString(t, m) = InternalSerialize(t, m)
  BY DEF SerializeToString
<1>2. CASE t = "oneInfo"
  <2>1. m \in oneInfoMsgs
    BY <1>2, MsgsAre
  <2>2. Exact(oneInfo_ByteSizeLong(m), oneInfo_InternalSerialize(m))
    BY <2>1, oneInfoExact
  <2>3. ByteSizeLong("oneInfo", m) = oneInfo_ByteSizeLong(m) /\ InternalSerialize("oneInfo", m) = oneInfo_InternalSerialize(m)
    BY DEF ByteSizeLong, InternalSerialize
  <2> QED
    BY <1>1, <1>2, <2>2, <2>3
<1>3. CASE t = "PushReq"
  <2>1. m \in PushReqMsgs
    BY <1>3, MsgsAre
  <2>2. Exact(PushReq_ByteSizeLong(m), PushReq_InternalSerialize(m))
    BY <2>1, PushReqExact
  <2>3. ByteSizeLong("PushReq", m) = PushReq_ByteSizeLong(m) /\ InternalSerialize("PushReq", m) = PushReq_InternalSerialize(m)
    BY DEF ByteSizeLong, InternalSerialize
  <2> QED
    BY <1>1, <1>3, <2>2, <2>3
<1>4. CASE t = "PushRsp"
  <2>1. m \in PushRspMsgs
    BY <1>4, MsgsAre
  <2>2. Exact(PushRsp_ByteSizeLong(m), PushRsp_InternalSerialize(m))
    BY <2>1, PushRspExact
  <2>3. ByteSizeLong("PushRsp", m) = PushRsp_ByteSizeLong(m) /\ InternalSerialize("PushRsp", m) = PushRsp_InternalSerialize(m)
    BY DEF ByteSizeLong, InternalSerialize
  <2> QED
    BY <1>1, <1>4, <2>2, <2>3
<1>5. CASE t = "PullReq"
  <2>1. m \in PullReqMsgs
    BY <1>5, MsgsAre
  <2>2. Exact(PullReq_ByteSizeLong(m), PullReq_InternalSerialize(m))
    BY <2>1, PullReqExact
  <2>3. ByteSizeLong("PullReq", m) = PullReq_ByteSizeLong(m) /\ InternalSerialize("PullReq", m) = PullReq_InternalSerialize(m)
    BY DEF ByteSizeLong, InternalSerialize
  <2> QED
    BY <1>1, <1>5, <2>2, <2>3
<1>6. CASE t = "PullRsp"
  <2>1. m \in PullRspMsgs
    BY <1>6, MsgsAre
  <2>2. Exact(PullRsp_ByteSizeLong(m), PullRsp_InternalSerialize(m))
    BY <2>1, PullRspExact
  <2>3. ByteSizeLong("PullRsp", m) = PullRsp_ByteSizeLong(m) /\ InternalSerialize("PullRsp", m) = PullRsp_InternalSerialize(m)
    BY DEF ByteSizeLong, InternalSerialize
  <2> QED
    BY <1>1, <1>6, <2>2, <2>3
<1>7. CASE t = "DelCacheReq"
  <2>1. m \in DelCacheReqMsgs
    BY <1>7, MsgsAre
  <2>2. Exact(DelCacheReq_ByteSizeLong(m), DelCacheReq_InternalSerialize(m))
    BY <2>1, DelCacheExact
  <2>3. ByteSizeLong("DelCacheReq", m) = DelCacheReq_ByteSizeLong(m) /\ InternalSerialize("DelCacheReq", m) = DelCacheReq_InternalSerialize(m)
    BY DEF ByteSizeLong, InternalSerialize
  <2> QED
    BY <1>1, <1>7, <2>2, <2>3
<1>8. CASE t = "DelCacheRsp"
  <2>1. m \in DelCacheRspMsgs
    BY <1>8, MsgsAre
  <2>2. Exact(DelCacheRsp_ByteSizeLong(m), DelCacheRsp_InternalSerialize(m))
    BY <2>1, DelCacheExact
  <2>3. ByteSizeLong("DelCacheRsp", m) = DelCacheRsp_ByteSizeLong(m) /\ InternalSerialize("DelCacheRsp", m) = DelCacheRsp_InternalSerialize(m)
    BY DEF ByteSizeLong, InternalSerialize
  <2> QED
    BY <1>1, <1>8, <2>2, <2>3
<1>9. CASE t = "HelloRequest"
  <2>1. m \in HelloRequestMsgs
    BY <1>9, MsgsAre
  <2>2. Exact(HelloRequest_ByteSizeLong(m), HelloRequest_InternalSerialize(m))
    BY <2>1, HelloExact
  <2>3. ByteSizeLong("HelloRequest", m) = HelloRequest_ByteSizeLong(m) /\ InternalSerialize("HelloRequest", m) = HelloRequest_InternalSerialize(m)
    BY DEF ByteSizeLong, InternalSerialize
  <2> QED
    BY <1>1, <1>9, <2>2, <2>3
<1>10. CASE t = "HelloReply"
  <2>1. m \in HelloReplyMsgs
    BY <1>10, MsgsAre
  <2>2. Exact(HelloReply_ByteSizeLong(m), HelloReply_InternalSerialize(m))
    BY <2>1, HelloExact
  <2>3. ByteSizeLong("HelloReply", m) = HelloReply_ByteSizeLong(m) /\ InternalSerialize("HelloReply", m) = HelloReply_InternalSerialize(m)
    BY DEF ByteSizeLong, InternalSerialize
  <2> QED
    BY <1>1, <1>10, <2>2, <2>3
<1>11. CASE t = "TestPb"
  <2>1. m \in TestPbMsgs
    BY <1>11, MsgsAre
  <2>2. Exact(TestPb_ByteSizeLong(m), TestPb_SerializeWithCachedSizes(m))
    BY <2>1, TestPbExact
  <2>3. ByteSizeLong("TestPb", m) = TestPb_ByteSizeLong(m) /\ InternalSerialize("TestPb", m) = TestPb_SerializeWithCachedSizes(m)
    BY DEF ByteSizeLong, InternalSerialize
  <2> QED
    BY <1>1, <1>11, <2>2, <2>3
<1> QED
  BY <1>2, <1>3, <1>4, <1>5, <1>6, <1>7, <1>8, <1>9, <1>10, <1>11 DEF MessageTypes

-----------------------------------------------------------------------------
(* The channel.                                                             *)

\* Digits and bytes are numbers.
LEMMA SmallNumbers ==
  ASSUME NEW n \in Nat, NEW s \in Seq(0 .. n)
  PROVE  s \in Str
<1>1. Len(s) \in Nat /\ DOMAIN s = 1 .. Len(s) /\ \A i \in 1 .. Len(s) : s[i] \in 0 .. n
  BY LenProperties, ElementOfSeq
<1>2. s = [i \in 1 .. Len(s) |-> s[i]] /\ \A i \in 1 .. Len(s) : s[i] \in Nat
  BY <1>1
<1> DEFINE k == Len(s)
<1> HIDE DEF k
<1>3. k \in Nat /\ s \in [1 .. k -> Nat]
  BY <1>1, <1>2 DEF k
<1> QED
  BY <1>3 DEF Str

\* The values of the fields are digits and bytes.
LEMMA InputsTyped ==
  ASSUME NEW t \in Types
  PROVE  /\ t \in MessageTypes /\ (\A v \in Ints[t] : v \in Str) /\ (\A s \in Texts[t] : s \in Str)
<1>1. t \in MessageTypes
  BY ChannelAssumption
<1>2. ASSUME NEW v \in Ints[t] PROVE v \in Str
  <2>1. 127 \in Nat /\ v \in Seq(0 .. 127)
    BY ChannelAssumption
  <2> DEFINE n == 127
  <2>2. n \in Nat /\ v \in Seq(0 .. n)
    BY <2>1
  <2> HIDE DEF n
  <2> QED
    BY <2>2, SmallNumbers
<1>3. ASSUME NEW s \in Texts[t] PROVE s \in Str
  <2>1. s \in Seq(Byte)
    BY ChannelAssumption
  <2> DEFINE n == 255
  <2>2. n \in Nat /\ s \in Seq(0 .. n)
    BY <2>1 DEF Byte
  <2> HIDE DEF n
  <2> QED
    BY <2>2, SmallNumbers
<1> QED
  BY <1>1, <1>2, <1>3

\* What an accessor makes of a message of a type is a message of the type.
LEMMA EditsType ==
  ASSUME type \in Types, NEW m \in Msgs(type), NEW e \in Edits(m)
  PROVE  e \in Msgs(type)
<1>1. /\ type \in MessageTypes /\ (\A v \in Ints[type] : v \in Str) /\ (\A s \in Texts[type] : s \in Str)
  BY InputsTyped
<1>2. \A v \in Ints[type] : UInt32(v) \in Str /\ Int32(v) \in Str /\ Bool(v) \in {<<>>, <<1>>}
  BY <1>1, CastTypes
<1>3. \A o \in oneInfos : o \in oneInfoMsgs
  <2> SUFFICES ASSUME NEW o \in oneInfos PROVE o \in oneInfoMsgs
    OBVIOUS
  <2>1. PICK v \in Ints[type], s \in Texts[type] : o = oneInfo_set_data(oneInfo_set_key(oneInfo_New, v), s)
    BY DEF oneInfos
  <2>2. v \in Str /\ s \in Str /\ <<>> \in Str
    BY <1>1, EmptySeq DEF Str
  <2> QED
    BY <2>1, <2>2 DEF oneInfoMsgs, oneInfo_set_data, oneInfo_set_key, oneInfo_New
<1>4. \A S : <<>> \in Seq(S)
  BY EmptySeq
<1>5. CASE type = "oneInfo"
  <2>1. m \in oneInfoMsgs
    BY <1>5, MsgsAre
  <2>2. ASSUME NEW v \in Ints[type]
       PROVE  oneInfo_set_key(m, v) \in oneInfoMsgs
    BY <1>1, <2>1 DEF oneInfoMsgs, oneInfo_set_key
  <2>3. ASSUME NEW s \in Texts[type]
       PROVE  oneInfo_set_data(m, s) \in oneInfoMsgs
    BY <1>1, <2>1 DEF oneInfoMsgs, oneInfo_set_data
  <2>4. \/ (\E v \in Ints[type] : e = oneInfo_set_key(m, v))
        \/ (\E s \in Texts[type] : e = oneInfo_set_data(m, s))
    BY <1>5 DEF Edits, StringValues
  <2>5. e \in oneInfoMsgs
    BY <2>2, <2>3, <2>4
  <2> QED
    BY <1>5, <2>5, MsgsAre
<1>6. CASE type = "PushReq"
  <2>1. m \in PushReqMsgs
    BY <1>6, MsgsAre
  <2>2. ASSUME NEW o \in oneInfos
       PROVE  PushReq_add_infos(m, o) \in PushReqMsgs
    <3>1. m.infos \in Seq(oneInfoMsgs) /\ o \in oneInfoMsgs
      BY <1>3, <2>1 DEF PushReqMsgs
    <3>2. Append(m.infos, o) \in Seq(oneInfoMsgs)
      BY <3>1, AppendProperties
    <3> QED
      BY <2>1, <3>2 DEF PushReqMsgs, PushReq_add_infos
  <2>3. ASSUME NEW i \in DOMAIN m.infos, NEW o \in oneInfos
       PROVE  PushReq_mutable_infos(m, i, o) \in PushReqMsgs
    <3> DEFINE q == m.infos
               x == o
    <3>1. q \in Seq(oneInfoMsgs) /\ x \in oneInfoMsgs
      BY <1>3, <2>1 DEF PushReqMsgs
    <3>2. i \in 1 .. Len(q)
      BY <3>1, LenProperties
    <3>3. PushReq_mutable_infos(m, i, o) = [m EXCEPT !.infos = [q EXCEPT ![i] = x]]
      BY DEF PushReq_mutable_infos
    <3> HIDE DEF q, x
    <3>4. [q EXCEPT ![i] = x] \in Seq(oneInfoMsgs)
      BY <3>1, <3>2, ExceptSeq
    <3>5. [m EXCEPT !.infos = [q EXCEPT ![i] = x]] \in PushReqMsgs
      BY <2>1, <3>4 DEF PushReqMsgs
    <3> QED
      BY <3>3, <3>5
  <2>4. PushReq_clear_infos(m) \in PushReqMsgs
    BY <1>4, <2>1 DEF PushReqMsgs, PushReq_clear_infos
  <2>5. \/ (\E o \in oneInfos : e = PushReq_add_infos(m, o))
        \/ (\E i \in DOMAIN m.infos, o \in oneInfos : e = PushReq_mutable_infos(m, i, o))
        \/ e = PushReq_clear_infos(m)
    BY <1>6 DEF Edits, StringValues
  <2>6. e \in PushReqMsgs
    BY <2>2, <2>3, <2>4, <2>5
  <2> QED
    BY <1>6, <2>6, MsgsAre
<1>7. CASE type = "PushRsp"
  <2>1. m \in PushRspMsgs
    BY <1>7, MsgsAre
  <2>2. ASSUME NEW v \in Ints[type]
       PROVE  PushRsp_set_errcode(m, v) \in PushRspMsgs
    BY <1>2, <2>1 DEF PushRspMsgs, PushRsp_set_errcode
  <2>3. ASSUME NEW s \in Texts[type]
       PROVE  PushRsp_set_errdesc(m, s) \in PushRspMsgs
    BY <1>1, <2>1 DEF PushRspMsgs, PushRsp_set_errdesc
  <2>4. \/ (\E v \in Ints[type] : e = PushRsp_set_errcode(m, v))
        \/ (\E s \in Texts[type] : e = PushRsp_set_errdesc(m, s))
    BY <1>7 DEF Edits, StringValues
  <2>5. e \in PushRspMsgs
    BY <2>2, <2>3, <2>4
  <2> QED
    BY <1>7, <2>5, MsgsAre
<1>8. CASE type = "PullReq"
  <2>1. m \in PullReqMsgs
    BY <1>8, MsgsAre
  <2>2. ASSUME NEW v \in Ints[type]
       PROVE  PullReq_add_keys(m, v) \in PullReqMsgs
    <3>1. m.keys \in Seq(Str) /\ v \in Str
      BY <1>1, <2>1 DEF PullReqMsgs
    <3>2. Append(m.keys, v) \in Seq(Str)
      BY <3>1, AppendProperties
    <3> QED
      BY <2>1, <3>2 DEF PullReqMsgs, PullReq_add_keys
  <2>3. ASSUME NEW v \in Ints[type]
       PROVE  PullReq_add_field(m, v) \in PullReqMsgs
    <3>1. m.field \in Seq(Str) /\ UInt32(v) \in Str
      BY <1>2, <2>1 DEF PullReqMsgs
    <3>2. Append(m.field, UInt32(v)) \in Seq(Str)
      BY <3>1, AppendProperties
    <3> QED
      BY <2>1, <3>2 DEF PullReqMsgs, PullReq_add_field
  <2>4. ASSUME NEW i \in DOMAIN m.keys, NEW v \in Ints[type]
       PROVE  PullReq_set_keys(m, i, v) \in PullReqMsgs
    <3> DEFINE q == m.keys
               x == v
    <3>1. q \in Seq(Str) /\ x \in Str
      BY <1>1, <2>1 DEF PullReqMsgs
    <3>2. i \in 1 .. Len(q)
      BY <3>1, LenProperties
    <3>3. PullReq_set_keys(m, i, v) = [m EXCEPT !.keys = [q EXCEPT ![i] = x]]
      BY DEF PullReq_set_keys
    <3> HIDE DEF q, x
    <3>4. [q EXCEPT ![i] = x] \in Seq(Str)
      BY <3>1, <3>2, ExceptSeq
    <3>5. [m EXCEPT !.keys = [q EXCEPT ![i] = x]] \in PullReqMsgs
      BY <2>1, <3>4 DEF PullReqMsgs
    <3> QED
      BY <3>3, <3>5
  <2>5. ASSUME NEW i \in DOMAIN m.field, NEW v \in Ints[type]
       PROVE  PullReq_set_field(m, i, v) \in PullReqMsgs
    <3> DEFINE q == m.field
               x == UInt32(v)
    <3>1. q \in Seq(Str) /\ x \in Str
      BY <1>2, <2>1 DEF PullReqMsgs
    <3>2. i \in 1 .. Len(q)
      BY <3>1, LenProperties
    <3>3. PullReq_set_field(m, i, v) = [m EXCEPT !.field = [q EXCEPT ![i] = x]]
      BY DEF PullReq_set_field
    <3> HIDE DEF q, x
    <3>4. [q EXCEPT ![i] = x] \in Seq(Str)
      BY <3>1, <3>2, ExceptSeq
    <3>5. [m EXCEPT !.field = [q EXCEPT ![i] = x]] \in PullReqMsgs
      BY <2>1, <3>4 DEF PullReqMsgs
    <3> QED
      BY <3>3, <3>5
  <2>6. PullReq_clear_keys(m) \in PullReqMsgs
    BY <1>4, <2>1 DEF PullReqMsgs, PullReq_clear_keys
  <2>7. PullReq_clear_field(m) \in PullReqMsgs
    BY <1>4, <2>1 DEF PullReqMsgs, PullReq_clear_field
  <2>8. \/ (\E v \in Ints[type] : e = PullReq_add_keys(m, v))
        \/ (\E v \in Ints[type] : e = PullReq_add_field(m, v))
        \/ (\E i \in DOMAIN m.keys, v \in Ints[type] : e = PullReq_set_keys(m, i, v))
        \/ (\E i \in DOMAIN m.field, v \in Ints[type] : e = PullReq_set_field(m, i, v))
        \/ e = PullReq_clear_keys(m)
        \/ e = PullReq_clear_field(m)
    BY <1>8 DEF Edits, StringValues
  <2>9. e \in PullReqMsgs
    BY <2>2, <2>3, <2>4, <2>5, <2>6, <2>7, <2>8
  <2> QED
    BY <1>8, <2>9, MsgsAre
<1>9. CASE type = "PullRsp"
  <2>1. m \in PullRspMsgs
    BY <1>9, MsgsAre
  <2>2. ASSUME NEW v \in Ints[type]
       PROVE  PullRsp_set_errcode(m, v) \in PullRspMsgs
    BY <1>2, <2>1 DEF PullRspMsgs, PullRsp_set_errcode
  <2>3. ASSUME NEW s \in Texts[type]
       PROVE  PullRsp_set_errdesc(m, s) \in PullRspMsgs
    BY <1>1, <2>1 DEF PullRspMsgs, PullRsp_set_errdesc
  <2>4. ASSUME NEW s \in Texts[type]
       PROVE  PullRsp_add_data(m, s) \in PullRspMsgs
    <3>1. m.data \in Seq(Str) /\ s \in Str
      BY <1>1, <2>1 DEF PullRspMsgs
    <3>2. Append(m.data, s) \in Seq(Str)
      BY <3>1, AppendProperties
    <3> QED
      BY <2>1, <3>2 DEF PullRspMsgs, PullRsp_add_data
  <2>5. ASSUME NEW i \in DOMAIN m.data, NEW s \in Texts[type]
       PROVE  PullRsp_set_data(m, i, s) \in PullRspMsgs
    <3> DEFINE q == m.data
               x == s
    <3>1. q \in Seq(Str) /\ x \in Str
      BY <1>1, <2>1 DEF PullRspMsgs
    <3>2. i \in 1 .. Len(q)
      BY <3>1, LenProperties
    <3>3. PullRsp_set_data(m, i, s) = [m EXCEPT !.data = [q EXCEPT ![i] = x]]
      BY DEF PullRsp_set_data
    <3> HIDE DEF q, x
    <3>4. [q EXCEPT ![i] = x] \in Seq(Str)
      BY <3>1, <3>2, ExceptSeq
    <3>5. [m EXCEPT !.data = [q EXCEPT ![i] = x]] \in PullRspMsgs
      BY <2>1, <3>4 DEF PullRspMsgs
    <3> QED
      BY <3>3, <3>5
  <2>6. PullRsp_clear_data(m) \in PullRspMsgs
    BY <1>4, <2>1 DEF PullRspMsgs, PullRsp_clear_data
  <2>7. \/ (\E v \in Ints[type] : e = PullRsp_set_errcode(m, v))
        \/ (\E s \in Texts[type] : e = PullRsp_set_errdesc(m, s))
        \/ (\E s \in Texts[type] : e = PullRsp_add_data(m, s))
        \/ (\E i \in DOMAIN m.data, s \in Texts[type] : e = PullRsp_set_data(m, i, s))
        \/ e = PullRsp_clear_data(m)
    BY <1>9 DEF Edits, StringValues
  <2>8. e \in PullRspMsgs
    BY <2>2, <2>3, <2>4, <2>5, <2>6, <2>7
  <2> QED
    BY <1>9, <2>8, MsgsAre
<1>10. CASE type = "DelCacheReq"
  <2>1. m \in DelCacheReqMsgs
    BY <1>10, MsgsAre
  <2>2. ASSUME NEW v \in Ints[type]
       PROVE  DelCacheReq_set_key(m, v) \in DelCacheReqMsgs
    BY <1>1, <2>1 DEF DelCacheReqMsgs, DelCacheReq_set_key
  <2>3. (\E v \in Ints[type] : e = DelCacheReq_set_key(m, v))
    BY <1>10 DEF Edits, StringValues
  <2>4. e \in DelCacheReqMsgs
    BY <2>2, <2>3
  <2> QED
    BY <1>10, <2>4, MsgsAre
<1>11. CASE type = "DelCacheRsp"
  <2>1. m \in DelCacheRspMsgs
    BY <1>11, MsgsAre
  <2>2. ASSUME NEW v \in Ints[type]
       PROVE  DelCacheRsp_set_succ(m, v) \in DelCacheRspMsgs
    BY <1>2, <2>1 DEF DelCacheRspMsgs, DelCacheRsp_set_succ
  <2>3. (\E v \in Ints[type] : e = DelCacheRsp_set_succ(m, v))
    BY <1>11 DEF Edits, StringValues
  <2>4. e \in DelCacheRspMsgs
    BY <2>2, <2>3
  <2> QED
    BY <1>11, <2>4, MsgsAre
<1>12. CASE type = "HelloRequest"
  <2>1. m \in HelloRequestMsgs
    BY <1>12, MsgsAre
  <2>2. ASSUME NEW s \in Texts[type]
       PROVE  HelloRequest_set_name(m, s) \in HelloRequestMsgs
    BY <1>1, <2>1 DEF HelloRequestMsgs, HelloRequest_set_name
  <2>3. (\E s \in Texts[type] : e = HelloRequest_set_name(m, s))
    BY <1>12 DEF Edits, StringValues
  <2>4. e \in HelloRequestMsgs
    BY <2>2, <2>3
  <2> QED
    BY <1>12, <2>4, MsgsAre
<1>13. CASE type = "HelloReply"
  <2>1. m \in HelloReplyMsgs
    BY <1>13, MsgsAre
  <2>2. ASSUME NEW s \in Texts[type]
       PROVE  HelloReply_set_message(m, s) \in HelloReplyMsgs
    BY <1>1, <2>1 DEF HelloReplyMsgs, HelloReply_set_message
  <2>3. (\E s \in Texts[type] : e = HelloReply_set_message(m, s))
    BY <1>13 DEF Edits, StringValues
  <2>4. e \in HelloReplyMsgs
    BY <2>2, <2>3
  <2> QED
    BY <1>13, <2>4, MsgsAre
<1>14. CASE type = "TestPb"
  <2>1. m \in TestPbMsgs
    BY <1>14, MsgsAre
  <2>2. ASSUME NEW s \in Texts[type]
       PROVE  TestPb_set_sence(m, s) \in TestPbMsgs
    BY <1>1, <2>1 DEF TestPbMsgs, TestPb_set_sence
  <2>3. ASSUME NEW v \in Ints[type]
       PROVE  TestPb_set_page(m, v) \in TestPbMsgs
    BY <1>2, <2>1 DEF TestPbMsgs, TestPb_set_page
  <2>4. ASSUME NEW s \in Texts[type]
       PROVE  TestPb_set_tablename(m, s) \in TestPbMsgs
    BY <1>1, <2>1 DEF TestPbMsgs, TestPb_set_tablename
  <2>5. \/ (\E s \in Texts[type] : e = TestPb_set_sence(m, s))
        \/ (\E v \in Ints[type] : e = TestPb_set_page(m, v))
        \/ (\E s \in Texts[type] : e = TestPb_set_tablename(m, s))
    BY <1>14 DEF Edits, StringValues
  <2>6. e \in TestPbMsgs
    BY <2>2, <2>3, <2>4, <2>5
  <2> QED
    BY <1>14, <2>6, MsgsAre
<1> QED
  BY <1>1, <1>5, <1>6, <1>7, <1>8, <1>9, <1>10, <1>11, <1>12, <1>13, <1>14 DEF MessageTypes

\* Every message built, sent or read has the fields of its type, whatever the chunks.
MessagesTyped ==
  /\ type \in Types /\ msg \in Msgs(type)
  /\ sent \in Seq(Msgs(type)) /\ wire \in Str
  /\ got \in Seq(Gots(Msgs(type)))

\* A new body.
LEMMA InitTyped == Init => MessagesTyped
<1> SUFFICES ASSUME Init PROVE MessagesTyped
  OBVIOUS
<1>1. type \in Types /\ msg = New(type) /\ sent = <<>> /\ wire = <<>> /\ got = <<>>
  BY DEF Init
<1>2. New(type) \in Msgs(type)
  BY <1>1, InputsTyped, NewType
<1>3. \A S : <<>> \in Seq(S)
  BY EmptySeq
<1> QED
  BY <1>1, <1>2, <1>3 DEF MessagesTyped, Str

\* Every step.
LEMMA StepTyped == MessagesTyped /\ [Next]_vars => MessagesTyped'
<1> SUFFICES ASSUME MessagesTyped, [Next]_vars PROVE MessagesTyped'
  OBVIOUS
<1>1. /\ type \in Types /\ msg \in Msgs(type) /\ sent \in Seq(Msgs(type)) /\ wire \in Str
      /\ got \in Seq(Gots(Msgs(type)))
  BY DEF MessagesTyped
<1>2. type \in MessageTypes
  BY <1>1, InputsTyped
<1>3. CASE Edit
  <2>1. msg' \in Msgs(type)
    BY <1>1, <1>3, EditsType DEF Edit
  <2>2. type' = type /\ sent' = sent /\ wire' = wire /\ got' = got
    BY <1>3 DEF Edit
  <2> QED
    BY <1>1, <2>1, <2>2 DEF MessagesTyped
<1>4. CASE Copy
  <2>1. sent # <<>> /\ msg' = CopyFrom(type, msg, Last(sent))
    BY <1>4 DEF Copy
  <2>2. Len(sent) \in Nat /\ Len(sent) # 0 /\ \A i \in 1 .. Len(sent) : sent[i] \in Msgs(type)
    BY <1>1, <2>1, LenProperties, ElementOfSeq, EmptySeq
  <2>3. Len(sent) \in 1 .. Len(sent)
    BY <2>2
  <2>4. Last(sent) \in Msgs(type)
    BY <2>2, <2>3 DEF Last
  <2>5. msg' \in Msgs(type)
    BY <1>1, <1>2, <2>1, <2>4, MergeType
  <2>6. type' = type /\ sent' = sent /\ wire' = wire /\ got' = got
    BY <1>4 DEF Copy
  <2> QED
    BY <1>1, <2>5, <2>6 DEF MessagesTyped
<1>5. CASE Clear
  <2>1. msg' = CopyFrom(type, msg, New(type))
    BY <1>5 DEF Clear
  <2>2. New(type) \in Msgs(type)
    BY <1>2, NewType
  <2>3. msg' \in Msgs(type)
    BY <1>1, <1>2, <2>1, <2>2, MergeType
  <2>4. type' = type /\ sent' = sent /\ wire' = wire /\ got' = got
    BY <1>5 DEF Clear
  <2> QED
    BY <1>1, <2>3, <2>4 DEF MessagesTyped
<1>6. CASE Send
  <2> DEFINE s == SerializeToString(type, msg)
  <2>1. sent' = Append(sent, msg) /\ wire' = wire \o s
    BY <1>6 DEF Send
  <2>2. s \in Str
    BY <1>1, <1>2, SizesAreExact DEF Exact
  <2> HIDE DEF s
  <2>3. sent' \in Seq(Msgs(type))
    BY <1>1, <2>1, AppendProperties
  <2>4. wire' \in Str
    BY <1>1, <2>1, <2>2, StrConcat
  <2>5. type' = type /\ msg' = msg /\ got' = got
    BY <1>6 DEF Send
  <2> QED
    BY <1>1, <2>3, <2>4, <2>5 DEF MessagesTyped
<1>7. ASSUME NEW how \in {"closed", "nul"}, Close(how) PROVE MessagesTyped'
  <2>1. msg' = New(type) /\ wire' = IF how = "nul" THEN Append(wire, 0) ELSE wire
    BY <1>7 DEF Close
  <2>2. msg' \in Msgs(type)
    BY <1>2, <2>1, NewType
  <2>3. Append(wire, 0) \in Str
    <3>1. 0 \in Nat /\ wire \in Seq(Nat)
      BY <1>1 DEF Str
    <3>2. Append(wire, 0) \in Seq(Nat)
      BY <3>1, AppendProperties
    <3> QED
      BY <3>2 DEF Str
  <2>4. wire' \in Str
    BY <1>1, <2>1, <2>3
  <2>5. type' = type /\ sent' = sent /\ got' = got
    BY <1>7 DEF Close
  <2> QED
    BY <1>1, <2>2, <2>4, <2>5 DEF MessagesTyped
<1>8. ASSUME NEW n \in 1 .. Len(wire), Deliver(n) PROVE MessagesTyped'
  <2> DEFINE chunk == SubSeq(wire, 1, n)
             rest == SubSeq(wire, n + 1, Len(wire))
             p == ParseFromString(type, chunk)
  <2>1. got' = Append(got, p) /\ wire' = rest
    BY <1>8 DEF Deliver
  <2>3. Len(wire) \in Nat /\ Len(wire) <= Len(wire)
    BY <1>1, LenProperties DEF Str
  <2>2. n \in Nat /\ 1 \in Nat /\ n + 1 \in Nat /\ n + 1 >= 1 /\ 1 >= 1 /\ n <= Len(wire)
    BY <2>3
  <2>4. chunk \in Str
    BY <1>1, <2>1, <2>2, WirePart
  <2>5. rest \in Str
    BY <1>1, <2>2, <2>3, WirePart
  <2> HIDE DEF chunk, rest
  <2>6. p \in Gots(Msgs(type))
    BY <1>2, <2>4, ParseType
  <2> HIDE DEF p
  <2>7. got' \in Seq(Gots(Msgs(type)))
    BY <1>1, <2>1, <2>6, AppendProperties
  <2>8. wire' \in Str
    BY <2>1, <2>5
  <2>9. type' = type /\ msg' = msg /\ sent' = sent
    BY <1>8 DEF Deliver
  <2> QED
    BY <1>1, <2>7, <2>8, <2>9 DEF MessagesTyped
<1>9. CASE UNCHANGED vars
  BY <1>1, <1>9 DEF vars, MessagesTyped
<1> QED
  BY <1>3, <1>4, <1>5, <1>6, <1>7, <1>8, <1>9 DEF Next

\* Nothing the receiver is sent, cut anywhere, makes a message other than of its type.
THEOREM MessagesStayTyped == Spec => []MessagesTyped
<1>1. Init => MessagesTyped
  BY InitTyped
<1>2. MessagesTyped /\ [Next]_vars => MessagesTyped'
  BY StepTyped
<1> QED
  BY <1>1, <1>2, PTL DEF Spec

\* The size computed for a message is the number of bytes written for it, for every
\* message built and every one read (ByteSizeLong against _InternalSerialize).
THEOREM SizeStaysExact == Spec => []SizeIsExact
<1>1. MessagesTyped => SizeIsExact
  <2> SUFFICES ASSUME MessagesTyped, NEW m \in {msg} \cup {got[i].m : i \in DOMAIN got}
               PROVE  ByteSizeLong(type, m) = Len(SerializeToString(type, m))
    BY DEF SizeIsExact
  <2>1. type \in MessageTypes
    BY InputsTyped DEF MessagesTyped
  <2>2. m \in Msgs(type)
    <3>1. CASE m = msg
      BY <3>1 DEF MessagesTyped
    <3>2. CASE \E i \in DOMAIN got : m = got[i].m
      <4>1. PICK i \in DOMAIN got : m = got[i].m
        BY <3>2
      <4>2. got \in Seq(Gots(Msgs(type)))
        BY DEF MessagesTyped
      <4>3. i \in 1 .. Len(got)
        BY <4>2, LenProperties
      <4>4. got[i] \in Gots(Msgs(type))
        BY <4>2, <4>3, ElementOfSeq
      <4> QED
        BY <4>1, <4>4 DEF Gots
    <3> QED
      BY <3>1, <3>2
  <2> QED
    BY <2>1, <2>2, SizesAreExact DEF Exact
<1> QED
  BY <1>1, MessagesStayTyped, PTL

-----------------------------------------------------------------------------
(* Digits in their shortest form.                                           *)

\* The digits of a number of 64 bits, of an unsigned and of a signed one of 32 bits.
Shortest(d) == d # <<>> => d[Len(d)] # 0
Digits64 == {d \in Str : /\ \A i \in 1 .. Len(d) : d[i] < 128
                         /\ Len(d) <= 10 /\ Shortest(d) /\ (Len(d) = 10 => d[10] < 2)}
Digits32 == {d \in Digits64 : Len(d) <= 5 /\ (Len(d) = 5 => d[5] < 16)}
SignExtended(d) == Len(d) = 10 /\ d[5] >= 120 /\ (\A i \in 6 .. 9 : d[i] = 127) /\ d[10] = 1
DigitsInt32 == {d \in Digits64 : (Len(d) <= 5 /\ (Len(d) = 5 => d[5] < 8)) \/ SignExtended(d)}

\* What Canonical leaves of a sequence of digits: a beginning of it that has no zero
\* at its end, and all of it if it had none.
LEMMA CanonicalShape ==
  ASSUME NEW d \in Str
  PROVE  /\ Shortest(Canonical(d)) /\ Len(Canonical(d)) <= Len(d)
         /\ \A i \in 1 .. Len(Canonical(d)) : Canonical(d)[i] = d[i]
         /\ Shortest(d) => Canonical(d) = d
         /\ \A i \in 1 .. Len(d) : d[i] # 0 => i <= Len(Canonical(d))
<1> DEFINE n == Len(d)
           top == {i \in DOMAIN d : d[i] # 0}
           k == IF top = {} THEN 0 ELSE Max(top)
           c == SubSeq(d, 1, k)
<1>1. n \in Nat /\ DOMAIN d = 1 .. n /\ \A i \in 1 .. n : d[i] \in Nat
  BY LenProperties, ElementOfSeq DEF Str
<1>2. top \in SUBSET (1 .. n) /\ (\A i \in 1 .. n : d[i] # 0 => i \in top) /\ (\A i \in top : d[i] # 0)
  BY <1>1
<1>3. Canonical(d) = c
  BY DEF Canonical
<1> HIDE DEF top, n
<1>4. k \in 0 .. n /\ (k # 0 => k \in top) /\ (\A i \in top : i <= k)
  <2>1. CASE top = {}
    BY <1>1, <2>1
  <2>2. CASE top # {}
    <3>2. Max(top) \in top /\ \A y \in top : y <= Max(top)
      BY <1>1, <1>2, <2>2, MaxOfPositions
    <3>3. k = Max(top)
      BY <2>2
    <3> HIDE DEF k
    <3>4. k \in 1 .. n /\ k \in top /\ \A y \in top : y <= k
      BY <1>2, <3>2, <3>3
    <3> QED
      BY <1>1, <3>4
  <2> QED
    BY <2>1, <2>2
<1> HIDE DEF k
<1>5. c \in Seq(Nat) /\ Len(c) = k /\ \A i \in 1 .. k : c[i] = d[i]
  <2>1. 1 \in Int /\ k \in Int /\ k \in Nat /\ \A i \in 1 .. k : d[i] \in Nat
    BY <1>1, <1>4
  <2>2. c \in Seq(Nat)
    BY <2>1, SubSeqProperties
  <2>3. Len(c) = k /\ \A i \in 1 .. k : c[i] = d[i]
    BY <2>1
  <2> QED
    BY <2>2, <2>3
<1>6. Shortest(d) => k = n
  <2> SUFFICES ASSUME Shortest(d) PROVE k = n
    OBVIOUS
  <2>1. CASE d = <<>>
    BY <1>4, <2>1 DEF n
  <2>2. CASE d # <<>>
    <3>1. n # 0
      BY <2>2, EmptySeq DEF n, Str
    <3>2. n \in 1 .. n /\ d[n] # 0
      BY <1>1, <2>2, <3>1 DEF Shortest, n
    <3>3. n \in top
      BY <1>2, <3>2
    <3> QED
      BY <1>1, <1>4, <3>3
  <2> QED
    BY <2>1, <2>2
<1>7. Shortest(d) => c = d
  <2> SUFFICES ASSUME Shortest(d) PROVE c = d
    OBVIOUS
  <2>1. Len(c) = Len(d) /\ \A i \in 1 .. Len(c) : c[i] = d[i]
    BY <1>5, <1>6 DEF n
  <2> HIDE DEF c
  <2> QED
    BY <1>5, <2>1, SeqEqual DEF Str
<1> HIDE DEF c
<1>8. Shortest(c)
  <2> SUFFICES ASSUME c # <<>> PROVE c[Len(c)] # 0
    BY DEF Shortest
  <2>1. k # 0
    BY <1>5, EmptySeq
  <2>2. k \in top /\ k \in 1 .. k
    BY <1>1, <1>4, <2>1
  <2> QED
    BY <1>2, <1>5, <2>2
<1>9. Len(c) <= Len(d)
  BY <1>1, <1>4, <1>5 DEF n
<1>10. \A i \in 1 .. Len(d) : d[i] # 0 => i <= Len(c)
  BY <1>2, <1>4, <1>5 DEF n
<1> QED
  BY <1>3, <1>5, <1>7, <1>8, <1>9, <1>10

\* What the digits of a number of 64 bits are.
LEMMA Digits64Are ==
  ASSUME NEW d \in Digits64
  PROVE  /\ d \in Str /\ Len(d) \in Nat /\ Len(d) <= 10 /\ Shortest(d) /\ (Len(d) = 10 => d[10] < 2)
         /\ \A i \in 1 .. Len(d) : d[i] \in Nat /\ d[i] < 128
<1>1. d \in Str /\ Len(d) <= 10 /\ Shortest(d) /\ (Len(d) = 10 => d[10] < 2) /\ (\A i \in 1 .. Len(d) : d[i] < 128)
  BY DEF Digits64
<1>2. Len(d) \in Nat /\ \A i \in 1 .. Len(d) : d[i] \in Nat
  BY <1>1, LenProperties, ElementOfSeq DEF Str
<1> QED
  BY <1>1, <1>2

\* A cast to 64 bits changes nothing of such a number,
LEMMA UInt64Same ==
  ASSUME NEW d \in Digits64
  PROVE  UInt64(d) = d
<1>1. /\ d \in Str /\ Len(d) \in Nat /\ Shortest(d) /\ (Len(d) = 10 => d[10] < 2)
      /\ \A i \in 1 .. Len(d) : d[i] \in Nat
  BY Digits64Are
<1>2. Canonical(d) = d
  BY <1>1, CanonicalShape
<1>3. CASE Len(d) = 10
  <2> DEFINE e == d[10] % 2
  <2>1. d[10] \in Nat /\ d[10] < 2
    BY <1>1, <1>3
  <2>2. e = d[10]
    BY <2>1
  <2> HIDE DEF e
  <2>3. [d EXCEPT ![10] = e] = d
    <3>1. DOMAIN d = 1 .. Len(d) /\ d = [i \in 1 .. Len(d) |-> d[i]]
      BY <1>1, LenProperties DEF Str
    <3> QED
      BY <2>2, <3>1
  <2>4. UInt64(d) = Canonical([d EXCEPT ![10] = e])
    BY <1>3 DEF UInt64, e
  <2> QED
    BY <1>2, <2>3, <2>4
<1>4. CASE Len(d) # 10
  BY <1>2, <1>4 DEF UInt64
<1> QED
  BY <1>3, <1>4

\* and what a cast to 64 bits changes nothing of is such a number.
LEMMA SameIsUInt64 ==
  ASSUME NEW v \in Seq(0 .. 127), Len(v) <= 10, v = UInt64(v)
  PROVE  v \in Digits64
<1>1. Len(v) \in Nat /\ \A i \in 1 .. Len(v) : v[i] \in Nat /\ v[i] < 128
  <2> DEFINE D == 0 .. 127
  <2>1. v \in Seq(D) /\ \A x \in D : x \in Nat /\ x < 128
    OBVIOUS
  <2> HIDE DEF D
  <2>2. Len(v) \in Nat /\ \A i \in 1 .. Len(v) : v[i] \in D
    BY <2>1, LenProperties, ElementOfSeq
  <2> QED
    BY <2>1, <2>2
<1>2. v \in Str
  <2> DEFINE n == 127
  <2>1. n \in Nat /\ v \in Seq(0 .. n)
    OBVIOUS
  <2> HIDE DEF n
  <2> QED
    BY <2>1, SmallNumbers
<1>3. \A i \in 1 .. Len(v) : v[i] < 128
  BY <1>1
<1>4. CASE Len(v) = 10
  <2> DEFINE e == v[10] % 2
             w == [v EXCEPT ![10] = e]
  <2>1. e \in Nat /\ e < 2 /\ 10 \in 1 .. Len(v)
    BY <1>1, <1>4, SMTT(60)
  <2>2. v = Canonical(w)
    BY <1>4 DEF UInt64
  <2> HIDE DEF e
  <2>3. w \in Str
    BY <1>2, <2>1, ExceptSeq DEF Str
  <2>4. w[10] = e
    BY <1>2, <2>1, LenProperties DEF Str
  <2> HIDE DEF w
  <2>5. Shortest(v) /\ \A i \in 1 .. Len(v) : v[i] = w[i]
    BY <2>2, <2>3, CanonicalShape
  <2>6. v[10] < 2
    BY <2>1, <2>4, <2>5
  <2> QED
    BY <1>1, <1>2, <1>3, <1>4, <2>5, <2>6 DEF Digits64
<1>5. CASE Len(v) # 10
  <2>1. v = Canonical(v)
    BY <1>5 DEF UInt64
  <2>2. Shortest(v)
    BY <1>2, <2>1, CanonicalShape
  <2> QED
    BY <1>1, <1>2, <1>3, <1>5, <2>2 DEF Digits64
<1> QED
  BY <1>4, <1>5

\* The first four digits of a number and other ones.
FourAnd(d, e) == SubSeq(d, 1, 4) \o e

\* What they are digit by digit.
LEMMA FirstFour ==
  ASSUME NEW d \in Str, Len(d) >= 5, NEW e \in Str
  PROVE  /\ FourAnd(d, e) \in Str /\ Len(FourAnd(d, e)) = 4 + Len(e)
         /\ \A i \in 1 .. 4 : FourAnd(d, e)[i] = d[i]
         /\ \A i \in 1 .. Len(e) : FourAnd(d, e)[4 + i] = e[i]
<1>1. Len(d) \in Nat /\ Len(e) \in Nat /\ \A i \in 1 .. Len(d) : d[i] \in Nat
  BY LenProperties, ElementOfSeq DEF Str
<1> DEFINE f == SubSeq(d, 1, 4)
<1>2. f \in Seq(Nat) /\ Len(f) = 4 /\ \A i \in 1 .. 4 : f[i] = d[i]
  <2>1. 1 \in Int /\ 4 \in Int /\ \A i \in 1 .. 4 : d[i] \in Nat
    BY <1>1
  <2>2. f \in Seq(Nat)
    BY <2>1, SubSeqProperties
  <2>3. Len(f) = 4 /\ \A i \in 1 .. 4 : f[i] = d[i]
    BY <1>1
  <2> QED
    BY <2>2, <2>3
<1> HIDE DEF f
<1> DEFINE g == f \o e
<1>3. g \in Seq(Nat) /\ Len(g) = 4 + Len(e) /\ (\A i \in 1 .. Len(g) : g[i] = IF i <= 4 THEN f[i] ELSE e[i - 4])
  <2> DEFINE S == Nat
  <2>1. f \in Seq(S) /\ e \in Seq(S)
    BY <1>2 DEF Str
  <2> HIDE DEF S
  <2>2. f \o e \in Seq(S) /\ Len(f \o e) = Len(f) + Len(e)
        /\ \A i \in 1 .. Len(f) + Len(e) : (f \o e)[i] = IF i <= Len(f) THEN f[i] ELSE e[i - Len(f)]
    BY <2>1, ConcatProperties
  <2> HIDE DEF g
  <2>3. g \in Seq(S) /\ Len(g) = Len(f) + Len(e)
        /\ \A i \in 1 .. Len(f) + Len(e) : g[i] = IF i <= Len(f) THEN f[i] ELSE e[i - Len(f)]
    BY <2>2 DEF g
  <2> QED
    BY <1>1, <1>2, <2>3 DEF S
<1> HIDE DEF g
<1>4. \A i \in 1 .. 4 : g[i] = d[i]
  BY <1>1, <1>2, <1>3, SMTT(60)
<1>5. \A i \in 1 .. Len(e) : g[4 + i] = e[i]
  <2> SUFFICES ASSUME NEW i \in 1 .. Len(e) PROVE g[4 + i] = e[i]
    OBVIOUS
  <2>1. 4 + i \in 1 .. Len(g) /\ ~(4 + i <= 4) /\ (4 + i) - 4 = i
    BY <1>1, <1>3
  <2> QED
    BY <1>3, <2>1
<1> QED
  BY <1>3, <1>4, <1>5 DEF g, f, Str, FourAnd

\* A cast to 32 bits gives a number of 32 bits, and changes nothing of one.
LEMMA UInt32Digits ==
  ASSUME NEW d \in Digits64
  PROVE  UInt32(d) \in Digits32 /\ (d \in Digits32 => UInt32(d) = d)
<1>1. /\ d \in Str /\ Len(d) \in Nat /\ Len(d) <= 10 /\ Shortest(d) /\ (Len(d) = 10 => d[10] < 2)
      /\ \A i \in 1 .. Len(d) : d[i] \in Nat /\ d[i] < 128
  BY Digits64Are
<1>2. CASE Len(d) < 5
  <2>1. UInt32(d) = d
    BY <1>1, <1>2, CanonicalShape DEF UInt32
  <2>2. d \in Digits32
    BY <1>1, <1>2 DEF Digits32
  <2> QED
    BY <2>1, <2>2
<1>3. CASE ~(Len(d) < 5)
  <2> DEFINE x == d[5] % 16
             e == <<x>>
             w == FourAnd(d, e)
             c == Canonical(w)
  <2>1. x \in Nat /\ x < 16
    BY <1>1, <1>3
  <2>2. UInt32(d) = c
    BY <1>3 DEF UInt32, FourAnd
  <2>3. x = IF d[5] < 16 THEN d[5] ELSE x
    BY <1>1, <1>3
  <2> HIDE DEF x
  <2>4. e \in Str /\ Len(e) = 1 /\ e[1] = x
    BY <2>1 DEF Str
  <2> HIDE DEF e
  <2>5. w \in Str /\ Len(w) = 4 + 1 /\ (\A i \in 1 .. 4 : w[i] = d[i]) /\ w[4 + 1] = x
    <3>1. d \in Str /\ Len(d) >= 5
      <4>1. Len(d) \in Nat /\ ~(Len(d) < 5) /\ d \in Str
        BY <1>1, <1>3
      <4> QED
        BY <4>1
    <3>2. /\ FourAnd(d, e) \in Str /\ Len(FourAnd(d, e)) = 4 + Len(e)
          /\ \A i \in 1 .. 4 : FourAnd(d, e)[i] = d[i]
          /\ \A i \in 1 .. Len(e) : FourAnd(d, e)[4 + i] = e[i]
      BY <2>4, <3>1, FirstFour
    <3> HIDE DEF w
    <3>3. /\ w \in Str /\ Len(w) = 4 + Len(e) /\ (\A i \in 1 .. 4 : w[i] = d[i])
          /\ \A i \in 1 .. Len(e) : w[4 + i] = e[i]
      BY <3>2 DEF w
    <3> QED
      BY <2>4, <3>3
  <2>6. Len(w) = 5 /\ w[5] = x
    BY <2>5
  <2>7. \A i \in 1 .. 5 : w[i] < 128
    <3> SUFFICES ASSUME NEW i \in 1 .. 5 PROVE w[i] < 128
      OBVIOUS
    <3>1. CASE i = 5
      BY <2>1, <2>6, <3>1
    <3>2. CASE i # 5
      <4>1. i \in 1 .. 4 /\ i \in 1 .. Len(d)
        BY <1>1, <1>3, <3>2
      <4> QED
        BY <1>1, <2>5, <4>1
    <3> QED
      BY <3>1, <3>2
  <2> HIDE DEF w
  <2>8. c \in Str /\ Shortest(c) /\ Len(c) <= 5 /\ (\A i \in 1 .. Len(c) : c[i] = w[i]) /\ (Shortest(w) => c = w)
    BY <2>5, <2>6, CanonicalShape, CanonicalType
  <2> HIDE DEF c
  <2>9. Len(c) \in Nat
    BY <2>8, LenProperties DEF Str
  <2>10. \A i \in 1 .. Len(c) : c[i] < 128
    BY <2>7, <2>8, <2>9
  <2>11. Len(c) = 5 => c[5] < 16
    BY <2>1, <2>6, <2>8
  <2>12. c \in Digits32
    BY <2>8, <2>9, <2>10, <2>11 DEF Digits32, Digits64
  <2>13. ASSUME d \in Digits32 PROVE c = d
    <3>0. Len(d) <= 5 /\ (Len(d) = 5 => d[5] < 16)
      BY <2>13 DEF Digits32
    <3>1. Len(d) = 5 /\ d[5] < 16
      <4> DEFINE l == Len(d)
      <4>1. l \in Nat /\ ~(l < 5) /\ l <= 5 /\ (l = 5 => d[5] < 16)
        BY <1>1, <1>3, <3>0
      <4> HIDE DEF l
      <4>2. l = 5
        BY <4>1
      <4> QED
        BY <4>1, <4>2 DEF l
    <3>2. x = d[5]
      BY <2>3, <3>1
    <3>3. \A i \in 1 .. 5 : w[i] = d[i]
      BY <2>5, <2>6, <3>2
    <3>4. w = d
      BY <1>1, <2>5, <2>6, <3>1, <3>3, SeqEqual DEF Str
    <3> QED
      BY <1>1, <2>8, <3>4
  <2> QED
    BY <2>2, <2>12, <2>13
<1> QED
  BY <1>2, <1>3

\* A cast to int32 gives a number that a cast to int32 changes nothing of.
LEMMA Int32Digits ==
  ASSUME NEW d \in Digits64
  PROVE  Int32(d) \in DigitsInt32 /\ (d \in DigitsInt32 => Int32(d) = d)
<1>1. /\ d \in Str /\ Len(d) \in Nat /\ Len(d) <= 10 /\ Shortest(d) /\ (Len(d) = 10 => d[10] < 2)
      /\ \A i \in 1 .. Len(d) : d[i] \in Nat /\ d[i] < 128
  BY Digits64Are
<1>2. CASE Len(d) >= 5 /\ d[5] % 16 >= 8
  <2> DEFINE x == d[5] % 16
             y == 112 + x
             e == <<y, 127, 127, 127, 127, 1>>
             w == FourAnd(d, e)
  <2>1. x \in Nat /\ x < 16 /\ x >= 8
    BY <1>1, <1>2
  <2>2. Int32(d) = w
    BY <1>2 DEF Int32, FourAnd
  <2>3. d[5] >= 120 => y = d[5]
    BY <1>1, <1>2
  <2>4. y \in Nat /\ y >= 120 /\ y < 128
    BY <2>1
  <2>4a. d[5] < 8 => FALSE
    BY <1>1, <1>2
  <2> HIDE DEF x, y
  <2>5. /\ e \in Str /\ Len(e) = 6 /\ e[1] = y /\ e[2] = 127 /\ e[3] = 127 /\ e[4] = 127 /\ e[5] = 127 /\ e[6] = 1
    BY <2>4 DEF Str
  <2> HIDE DEF e
  <2>6. /\ w \in Str /\ Len(w) = 4 + 6 /\ (\A i \in 1 .. 4 : w[i] = d[i])
        /\ (\A i \in 1 .. 6 : w[4 + i] = e[i])
    <3>1. d \in Str /\ Len(d) >= 5 /\ e \in Str
      BY <1>1, <1>2, <2>5
    <3>2. /\ FourAnd(d, e) \in Str /\ Len(FourAnd(d, e)) = 4 + Len(e)
          /\ \A i \in 1 .. 4 : FourAnd(d, e)[i] = d[i]
          /\ \A i \in 1 .. Len(e) : FourAnd(d, e)[4 + i] = e[i]
      BY <3>1, FirstFour
    <3> HIDE DEF w
    <3>3. /\ w \in Str /\ Len(w) = 4 + Len(e) /\ (\A i \in 1 .. 4 : w[i] = d[i])
          /\ \A i \in 1 .. Len(e) : w[4 + i] = e[i]
      BY <3>2 DEF w
    <3> QED
      BY <2>5, <3>3
  <2> HIDE DEF w
  <2>7. Len(w) = 10 /\ w[5] = y /\ w[6] = 127 /\ w[7] = 127 /\ w[8] = 127 /\ w[9] = 127 /\ w[10] = 1
    <3>1. w[4 + 1] = e[1] /\ w[4 + 2] = e[2] /\ w[4 + 3] = e[3] /\ w[4 + 4] = e[4] /\ w[4 + 5] = e[5] /\ w[4 + 6] = e[6]
      BY <2>6
    <3> QED
      BY <2>5, <2>6, <3>1
  <2>8. \A i \in 1 .. 10 : w[i] < 128
    <3> SUFFICES ASSUME NEW i \in 1 .. 10 PROVE w[i] < 128
      OBVIOUS
    <3>1. CASE i \in 1 .. 4
      <4>1. i \in 1 .. Len(d)
        BY <1>1, <1>2, <3>1
      <4> QED
        BY <1>1, <2>6, <3>1, <4>1
    <3>2. CASE i \notin 1 .. 4
      <4>1. i = 5 \/ i = 6 \/ i = 7 \/ i = 8 \/ i = 9 \/ i = 10
        BY <3>2
      <4> QED
        BY <2>4, <2>7, <4>1
    <3> QED
      BY <3>1, <3>2
  <2>9. Shortest(w)
    BY <2>7 DEF Shortest
  <2>10. \A i \in 6 .. 9 : w[i] = 127
    <3> SUFFICES ASSUME NEW i \in 6 .. 9 PROVE w[i] = 127
      OBVIOUS
    <3>1. i = 6 \/ i = 7 \/ i = 8 \/ i = 9
      OBVIOUS
    <3> QED
      BY <2>7, <3>1
  <2>11. w \in Digits64
    <3>1. w \in Str /\ (\A i \in 1 .. Len(w) : w[i] < 128) /\ Len(w) <= 10 /\ w[10] < 2
      BY <2>6, <2>7, <2>8
    <3> QED
      BY <2>9, <3>1 DEF Digits64
  <2>12. w \in DigitsInt32
    BY <2>4, <2>7, <2>10, <2>11 DEF DigitsInt32, SignExtended
  <2>13. ASSUME d \in DigitsInt32 PROVE w = d
    <3>0. (Len(d) <= 5 /\ (Len(d) = 5 => d[5] < 8)) \/ SignExtended(d)
      BY <2>13 DEF DigitsInt32
    <3>1. SignExtended(d)
      <4> DEFINE l == Len(d)
      <4>1. l \in Nat /\ l >= 5 /\ ~(d[5] < 8) /\ ((l <= 5 /\ (l = 5 => d[5] < 8)) \/ SignExtended(d))
        BY <1>1, <1>2, <2>4a, <3>0
      <4> HIDE DEF l
      <4>2. l <= 5 => l = 5
        BY <4>1
      <4> QED
        BY <4>1, <4>2
    <3>2. Len(d) = 10 /\ d[5] >= 120 /\ d[6] = 127 /\ d[7] = 127 /\ d[8] = 127 /\ d[9] = 127 /\ d[10] = 1
      BY <3>1 DEF SignExtended
    <3>3. y = d[5]
      BY <2>3, <3>2
    <3>4. \A i \in 1 .. 10 : w[i] = d[i]
      <4> SUFFICES ASSUME NEW i \in 1 .. 10 PROVE w[i] = d[i]
        OBVIOUS
      <4>1. i \in 1 .. 4 \/ i = 5 \/ i = 6 \/ i = 7 \/ i = 8 \/ i = 9 \/ i = 10
        OBVIOUS
      <4> QED
        BY <2>6, <2>7, <3>2, <3>3, <4>1
    <3> QED
      <4>1. w \in Seq(Nat) /\ d \in Seq(Nat) /\ Len(w) = Len(d) /\ \A i \in 1 .. Len(w) : w[i] = d[i]
        BY <1>1, <2>6, <2>7, <3>2, <3>4 DEF Str
      <4> QED
        BY <4>1, SeqEqual
  <2> QED
    BY <2>2, <2>12, <2>13
<1>3. CASE ~(Len(d) >= 5 /\ d[5] % 16 >= 8)
  <2> DEFINE u == UInt32(d)
  <2>1. Int32(d) = u
    BY <1>3 DEF Int32
  <2>2. u \in Digits32 /\ (d \in Digits32 => u = d)
    BY UInt32Digits
  <2>3. Len(u) = 5 => u[5] < 8
    <3>1. CASE Len(d) < 5
      <4>1. u = d
        BY <1>1, <3>1, CanonicalShape DEF UInt32
      <4> HIDE DEF u
      <4> QED
        BY <3>1, <4>1
    <3>2. CASE ~(Len(d) < 5)
      <4> DEFINE x == d[5] % 16
                 e == <<x>>
                 w == FourAnd(d, e)
      <4>1. x \in Nat /\ x < 8
        BY <1>1, <1>3, <3>2
      <4>2. u = Canonical(w)
        BY <3>2 DEF UInt32, FourAnd
      <4> HIDE DEF x, u
      <4>3. e \in Str /\ Len(e) = 1 /\ e[1] = x
        BY <4>1 DEF Str
      <4> HIDE DEF e
      <4>4. w \in Str /\ w[4 + 1] = x
        <5>1. d \in Str /\ Len(d) >= 5
          <6>1. Len(d) \in Nat /\ ~(Len(d) < 5) /\ d \in Str
            BY <1>1, <3>2
          <6> QED
            BY <6>1
        <5>2. FourAnd(d, e) \in Str /\ \A i \in 1 .. Len(e) : FourAnd(d, e)[4 + i] = e[i]
          BY <4>3, <5>1, FirstFour
        <5> HIDE DEF w
        <5>3. w \in Str /\ \A i \in 1 .. Len(e) : w[4 + i] = e[i]
          BY <5>2 DEF w
        <5> QED
          BY <4>3, <5>3
      <4>5. w[5] = x
        BY <4>4
      <4> HIDE DEF w
      <4>6. \A i \in 1 .. Len(u) : u[i] = w[i]
        BY <4>2, <4>4, CanonicalShape
      <4> QED
        BY <4>1, <4>5, <4>6
    <3> QED
      BY <3>1, <3>2
  <2> HIDE DEF u
  <2>4. u \in DigitsInt32
    BY <2>2, <2>3 DEF DigitsInt32, Digits32
  <2>5. ASSUME d \in DigitsInt32 PROVE u = d
    <3>1. ~SignExtended(d)
      <4> SUFFICES ASSUME SignExtended(d) PROVE FALSE
        OBVIOUS
      <4>1. Len(d) = 10 /\ d[5] >= 120
        BY DEF SignExtended
      <4>2. d[5] \in Nat /\ d[5] < 128
        BY <1>1, <4>1
      <4>3. d[5] % 16 >= 8
        BY <4>1, <4>2
      <4> QED
        BY <1>3, <4>1, <4>3
    <3>2. Len(d) <= 5 /\ (Len(d) = 5 => d[5] < 8)
      BY <2>5, <3>1 DEF DigitsInt32
    <3>3. d \in Digits32
      BY <1>1, <3>2 DEF Digits32
    <3> QED
      BY <2>2, <3>3
  <2> QED
    BY <2>1, <2>4, <2>5
<1> QED
  BY <1>2, <1>3
-----------------------------------------------------------------------------
(* Reading what was written.                                                *)

\* The bytes s are in the buffer from position p on.
At(buf, p, s) == p + Len(s) <= Len(buf) + 1 /\ \A i \in 1 .. Len(s) : buf[(p - 1) + i] = s[i]

\* Two pieces that were written one after the other.
LEMMA AtConcat ==
  ASSUME NEW buf \in Str, NEW p \in Pos, NEW s \in Str, NEW t \in Str, At(buf, p, s \o t)
  PROVE  /\ At(buf, p, s) /\ At(buf, p + Len(s), t) /\ p + Len(s) \in Pos
         /\ Len(s) \in Nat /\ Len(t) \in Nat /\ Len(s \o t) = Len(s) + Len(t)
<1> DEFINE u == s \o t
           a == Len(s)
           b == Len(t)
           n == Len(buf)
<1>1. a \in Nat /\ b \in Nat /\ n \in Nat /\ p \in Nat /\ p >= 1
  BY LenProperties DEF Str, Pos
<1>2. Len(u) = a + b /\ \A i \in 1 .. a + b : u[i] = IF i <= a THEN s[i] ELSE t[i - a]
  <2> DEFINE S == Nat
  <2>1. s \in Seq(S) /\ t \in Seq(S)
    BY DEF Str
  <2> HIDE DEF S
  <2> QED
    BY <2>1, ConcatProperties
<1>3. p + Len(u) <= n + 1 /\ \A i \in 1 .. Len(u) : buf[(p - 1) + i] = u[i]
  BY DEF At
<1> HIDE DEF u, a, b, n
<1>4. p + a <= n + 1 /\ \A i \in 1 .. a : buf[(p - 1) + i] = s[i]
  <2>1. p + a <= n + 1
    BY <1>1, <1>2, <1>3
  <2>2. ASSUME NEW i \in 1 .. a PROVE buf[(p - 1) + i] = s[i]
    <3>1. i \in 1 .. a + b /\ i <= a
      BY <1>1
    <3> QED
      BY <1>2, <1>3, <3>1
  <2> QED
    BY <2>1, <2>2
<1>5. (p + a) + b <= n + 1 /\ \A i \in 1 .. b : buf[((p + a) - 1) + i] = t[i]
  <2>1. (p + a) + b <= n + 1
    BY <1>1, <1>2, <1>3
  <2>2. ASSUME NEW i \in 1 .. b PROVE buf[((p + a) - 1) + i] = t[i]
    <3> DEFINE k == a + i
    <3>1. k \in 1 .. a + b /\ ~(k <= a) /\ k - a = i /\ (p - 1) + k = ((p + a) - 1) + i
      BY <1>1
    <3> HIDE DEF k
    <3>2. buf[(p - 1) + k] = u[k] /\ u[k] = t[k - a]
      BY <1>2, <1>3, <3>1
    <3> QED
      BY <3>1, <3>2
  <2> QED
    BY <2>1, <2>2
<1>6. At(buf, p, s) /\ At(buf, p + a, t)
  BY <1>4, <1>5 DEF At, a, b, n
<1>7. p + a \in Pos
  BY <1>1 DEF Pos
<1> QED
  BY <1>1, <1>2, <1>6, <1>7 DEF a, b, u

\* A byte of a piece that was written.
LEMMA AtByte ==
  ASSUME NEW buf \in Str, NEW p \in Pos, NEW s \in Str, At(buf, p, s), NEW i \in 1 .. Len(s)
  PROVE  ByteAt(buf, p + i - 1) = s[i]
<1>1. Len(s) \in Nat /\ Len(buf) \in Nat /\ p \in Nat /\ p >= 1
  BY LenProperties DEF Str, Pos
<1>2. p + Len(s) <= Len(buf) + 1 /\ buf[(p - 1) + i] = s[i]
  BY DEF At
<1>3. p + i - 1 = (p - 1) + i /\ p + i - 1 <= Len(buf)
  BY <1>1, <1>2
<1> QED
  BY <1>2, <1>3 DEF ByteAt

\* The bytes of a varint: all but the last have their high bit set.
LEMMA VarintBytes ==
  ASSUME NEW d \in Digits64
  PROVE  /\ WriteVarint(d) \in Str /\ Len(WriteVarint(d)) = VarintSize(d) /\ VarintSize(d) \in 1 .. 10
         /\ \A i \in 1 .. VarintSize(d) - 1 : WriteVarint(d)[i] >= 128
         /\ WriteVarint(d)[VarintSize(d)] < 128
         /\ \A i \in 1 .. VarintSize(d) :
              WriteVarint(d)[i] % 128 = IF d = <<>> THEN 0 ELSE d[i]
         /\ d # <<>> => VarintSize(d) = Len(d)
         /\ d = <<>> => VarintSize(d) = 1
<1>1. /\ d \in Str /\ Len(d) \in Nat /\ Len(d) <= 10
      /\ \A i \in 1 .. Len(d) : d[i] \in Nat /\ d[i] < 128
  BY Digits64Are
<1>2. WriteVarint(d) \in Str /\ Len(WriteVarint(d)) = VarintSize(d) /\ VarintSize(d) \in Nat /\ VarintSize(d) >= 1
  BY <1>1, WriteVarintSize
<1>3. CASE d = <<>>
  <2>1. VarintSize(d) = 1 /\ WriteVarint(d) = <<0>>
    BY <1>3 DEF VarintSize, WriteVarint
  <2>2. WriteVarint(d)[1] = 0
    BY <2>1
  <2>3. 0 % 128 = 0 /\ 1 \in 1 .. 10
    OBVIOUS
  <2>4. \A i \in 1 .. 1 : WriteVarint(d)[i] % 128 = 0
    BY <2>2, <2>3
  <2> QED
    BY <1>2, <1>3, <2>1, <2>2, <2>3, <2>4
<1>4. CASE d # <<>>
  <2> DEFINE n == Len(d)
             e == WriteVarint(d)
  <2>1. VarintSize(d) = n /\ e = [i \in DOMAIN d |-> IF i < n THEN d[i] + 128 ELSE d[i]]
    BY <1>4 DEF VarintSize, WriteVarint
  <2>2. DOMAIN d = 1 .. n
    BY <1>1, LenProperties DEF Str
  <2>3. \A i \in 1 .. n : e[i] = IF i < n THEN d[i] + 128 ELSE d[i]
    BY <2>1, <2>2
  <2> HIDE DEF e, n
  <2>4. n \in Nat /\ n >= 1 /\ n <= 10 /\ \A i \in 1 .. n : d[i] \in Nat /\ d[i] < 128
    BY <1>1, <1>2, <2>1 DEF n
  <2>5. \A i \in 1 .. n - 1 : e[i] >= 128
    BY <2>3, <2>4
  <2>6. e[n] < 128
    <3>1. n \in 1 .. n /\ ~(n < n)
      BY <2>4
    <3> QED
      BY <2>3, <2>4, <3>1
  <2>7. ASSUME NEW i \in 1 .. n PROVE e[i] % 128 = d[i]
    <3>1. d[i] \in Nat /\ d[i] < 128 /\ e[i] = IF i < n THEN d[i] + 128 ELSE d[i]
      BY <2>3, <2>4
    <3>2. CASE i < n
      BY <3>1, <3>2
    <3>3. CASE ~(i < n)
      BY <3>1, <3>3
    <3> QED
      BY <3>2, <3>3
  <2> QED
    BY <1>2, <1>4, <2>1, <2>4, <2>5, <2>6, <2>7 DEF e
<1> QED
  BY <1>3, <1>4

\* A varint is read as the number that was written.
LEMMA ReadVarintAt ==
  ASSUME NEW buf \in Str, NEW p \in Pos, NEW d \in Digits64, NEW w \in Nat, VarintSize(d) <= w,
         At(buf, p, WriteVarint(d))
  PROVE  ReadVarint(buf, p, w) = Read(TRUE, d, p + VarintSize(d))
<1> DEFINE ends == {n \in 1 .. w : ByteAt(buf, p + n - 1) < 128}
           n    == Min(ends)
           r    == [i \in 1 .. n |-> ByteAt(buf, p + i - 1) % 128]
           s    == WriteVarint(d)
           z    == VarintSize(d)
<1>1. ReadVarint(buf, p, w) = IF ends = {} THEN Read(FALSE, <<>>, p) ELSE Read(TRUE, UInt64(r), p + n)
  BY DEF ReadVarint
<1>2. /\ s \in Str /\ Len(s) = z /\ z \in 1 .. 10 /\ (\A i \in 1 .. z - 1 : s[i] >= 128) /\ s[z] < 128
      /\ (\A i \in 1 .. z : s[i] % 128 = IF d = <<>> THEN 0 ELSE d[i])
      /\ (d # <<>> => z = Len(d)) /\ (d = <<>> => z = 1)
  BY VarintBytes
<1>3. z <= w /\ At(buf, p, s)
  OBVIOUS
<1> HIDE DEF s, z
<1>4. \A i \in 1 .. z : ByteAt(buf, p + i - 1) = s[i]
  BY <1>2, <1>3, AtByte
<1>5. z \in ends
  <2>1. z \in 1 .. w /\ z \in 1 .. z
    BY <1>2, <1>3
  <2> QED
    BY <1>2, <1>4, <2>1
<1>6. \A k \in ends : z <= k
  <2> SUFFICES ASSUME NEW k \in ends, ~(z <= k) PROVE FALSE
    OBVIOUS
  <2>1. k \in 1 .. w /\ ByteAt(buf, p + k - 1) < 128
    OBVIOUS
  <2>2. k \in 1 .. z - 1 /\ k \in 1 .. z
    BY <1>2, <2>1
  <2>3. s[k] >= 128 /\ s[k] < 128 /\ s[k] \in Nat
    BY <1>2, <1>4, <2>1, <2>2, ElementOfSeq DEF Str
  <2> QED
    BY <2>3
<1>7. \A k \in ends : k \in Nat
  OBVIOUS
<1> HIDE DEF ends
<1>8. n = z
  <2>1. n \in ends /\ \A k \in ends : n <= k
    BY <1>5, <1>6 DEF Min
  <2> HIDE DEF n
  <2>2. n <= z /\ z <= n /\ n \in Nat /\ z \in Nat
    BY <1>5, <1>6, <1>7, <2>1
  <2> QED
    BY <2>2
<1> DEFINE q == [i \in 1 .. z |-> ByteAt(buf, p + i - 1) % 128]
<1>9. r = q
  BY <1>8
<1> HIDE DEF n, r
<1>10. q = [i \in 1 .. z |-> IF d = <<>> THEN 0 ELSE d[i]]
  BY <1>2, <1>4
<1> HIDE DEF q
<1>11. UInt64(q) = d
  <2>1. CASE d = <<>>
    <3>1. q = [i \in 1 .. 1 |-> 0]
      BY <1>2, <1>10, <2>1
    <3>2. q \in Str /\ Len(q) = 1 /\ q[1] = 0
      BY <3>1 DEF Str
    <3> HIDE DEF q
    <3>3. UInt64(q) = Canonical(q)
      BY <3>2 DEF UInt64
    <3> DEFINE c == Canonical(q)
    <3>4. Shortest(c) /\ Len(c) <= 1 /\ (\A i \in 1 .. Len(c) : c[i] = q[i]) /\ c \in Str
      BY <3>2, CanonicalShape, CanonicalType
    <3> HIDE DEF c
    <3>5. Len(c) \in Nat
      BY <3>4, LenProperties DEF Str
    <3>6. Len(c) # 1
      <4> SUFFICES ASSUME Len(c) = 1 PROVE FALSE
        OBVIOUS
      <4>1. c[1] = 0
        BY <3>2, <3>4
      <4>2. c # <<>>
        OBVIOUS
      <4> QED
        BY <3>4, <4>1, <4>2 DEF Shortest
    <3>7. Len(c) = 0
      <4> DEFINE l == Len(c)
      <4>1. l \in Nat /\ l <= 1 /\ l # 1
        BY <3>4, <3>5, <3>6
      <4> HIDE DEF l
      <4>2. l = 0
        BY <4>1
      <4> QED
        BY <4>2 DEF l
    <3>8. c = <<>>
      BY <3>4, <3>7, EmptySeq DEF Str
    <3> QED
      BY <2>1, <3>3, <3>8 DEF c
  <2>2. CASE d # <<>>
    <3>1. d \in Seq(Nat)
      BY Digits64Are DEF Str
    <3>2. d = [i \in 1 .. Len(d) |-> d[i]]
      BY <3>1, LenProperties
    <3>3. q = d
      BY <1>2, <1>10, <2>2, <3>2
    <3> QED
      BY <3>3, UInt64Same
  <2> QED
    BY <2>1, <2>2
<1>12. ends # {}
  BY <1>5
<1> QED
  BY <1>1, <1>8, <1>9, <1>11, <1>12 DEF z

\* The digits of a size below 128, and the byte they are written as.
LEMMA SmallDigits ==
  ASSUME NEW n \in Nat, n < 128
  PROVE  /\ Digits(n) \in Digits64 /\ Digits(n) = (IF n = 0 THEN <<>> ELSE <<n>>)
         /\ VarintSize(Digits(n)) = 1 /\ Len(WriteVarint(Digits(n))) = 1 /\ WriteVarint(Digits(n)) \in Str
         /\ Number(Digits(n)) = n /\ Len(Digits(n)) <= 1
<1> DEFINE d == <<n, 0, 0>>
           c == Canonical(d)
<1>1. n % 128 = n /\ (n \div 128) % 128 = 0 /\ n \div 16384 = 0
  <2>1. n \div 128 = 0 /\ n \div 16384 = 0 /\ n % 128 = n
    OBVIOUS
  <2> QED
    BY <2>1
<1>2. Digits(n) = c
  BY <1>1 DEF Digits
<1>3. d \in Str /\ Len(d) = 3 /\ d[1] = n /\ d[2] = 0 /\ d[3] = 0
  BY DEF Str
<1> HIDE DEF d
<1>4. /\ c \in Str /\ Shortest(c) /\ Len(c) <= 3 /\ (\A i \in 1 .. Len(c) : c[i] = d[i])
      /\ (d[1] # 0 => 1 <= Len(c))
  BY <1>3, CanonicalShape, CanonicalType
<1> HIDE DEF c
<1>5. Len(c) \in Nat /\ (Len(c) # 0 => c # <<>>) /\ (Len(c) = 0 => c = <<>>)
  BY <1>4, LenProperties, EmptySeq DEF Str
<1>6. Len(c) # 2 /\ Len(c) # 3
  <2>1. Len(c) = 2 => c[2] = 0
    BY <1>3, <1>4
  <2>2. Len(c) = 3 => c[3] = 0
    BY <1>3, <1>4
  <2>3. Len(c) # 0 => c[Len(c)] # 0
    BY <1>4, <1>5 DEF Shortest
  <2> QED
    BY <2>1, <2>2, <2>3
<1>7. Len(c) = 0 \/ Len(c) = 1
  <2> DEFINE l == Len(c)
  <2>1. l \in Nat /\ l <= 3 /\ l # 2 /\ l # 3
    BY <1>4, <1>5, <1>6
  <2> HIDE DEF l
  <2>2. l = 0 \/ l = 1
    BY <2>1
  <2> QED
    BY <2>2 DEF l
<1>8. CASE Len(c) = 0
  <2>1. c = <<>>
    BY <1>5, <1>8
  <2>2. n = 0
    BY <1>3, <1>4, <1>8
  <2>3. c \in Digits64
    BY <1>4, <1>8, <2>1 DEF Digits64, Shortest
  <2>4. VarintSize(c) = 1 /\ WriteVarint(c) = <<0>>
    BY <2>1 DEF VarintSize, WriteVarint
  <2>5. Number(c) = 0
    BY <1>8 DEF Number
  <2>6. Len(WriteVarint(c)) = 1 /\ WriteVarint(c) \in Str
    BY <1>4, <2>4, WriteVarintSize
  <2> QED
    BY <1>2, <1>8, <2>1, <2>2, <2>3, <2>4, <2>5, <2>6
<1>9. CASE Len(c) = 1
  <2>1. c[1] = n /\ c # <<>>
    BY <1>3, <1>4, <1>5, <1>9
  <2>2. n # 0
    BY <1>4, <1>9, <2>1 DEF Shortest
  <2>3. c = <<n>>
    <3>1. <<n>> \in Seq(Nat) /\ Len(<<n>>) = 1 /\ <<n>>[1] = n
      OBVIOUS
    <3>2. c \in Seq(Nat) /\ Len(c) = Len(<<n>>) /\ \A i \in 1 .. Len(c) : c[i] = <<n>>[i]
      BY <1>4, <1>9, <2>1, <3>1 DEF Str
    <3> QED
      BY <3>1, <3>2, SeqEqual
  <2>4. c \in Digits64
    <3>1. \A i \in 1 .. Len(c) : c[i] < 128
      BY <1>9, <2>1
    <3>2. Len(c) <= 10 /\ Len(c) # 10
      BY <1>9
    <3> QED
      BY <1>4, <3>1, <3>2 DEF Digits64
  <2>5. VarintSize(c) = 1
    BY <1>9, <2>1 DEF VarintSize
  <2>6. Number(c) = n
    BY <1>9, <2>1 DEF Number
  <2>7. Len(WriteVarint(c)) = 1 /\ WriteVarint(c) \in Str
    BY <1>4, <2>5, WriteVarintSize
  <2> QED
    BY <1>2, <1>9, <2>2, <2>3, <2>4, <2>5, <2>6, <2>7
<1> QED
  BY <1>7, <1>8, <1>9

\* The bytes a size is written in.
SizeBytes(n) == VarintSize(Digits(n))

\* The digits of the size of a body or of a part of it: three at most, and the size
\* is the number they stand for.
LEMMA SizeDigits ==
  ASSUME NEW n \in Nat, n < SizeLimit
  PROVE  /\ Digits(n) \in Digits64 /\ Number(Digits(n)) = n /\ Len(Digits(n)) <= 3
         /\ SizeBytes(n) \in 1 .. 3 /\ SizeBytes(n) \in Nat
         /\ Len(WriteVarint(Digits(n))) = SizeBytes(n) /\ WriteVarint(Digits(n)) \in Str
<1> DEFINE a == n % 128
           b == (n \div 128) % 128
           c == n \div 16384
           d == <<a, b, c>>
           x == Canonical(d)
<1>1. /\ a \in 0 .. 127 /\ b \in 0 .. 127 /\ c \in 0 .. 127
      /\ n = a + 128 * (b + 128 * c)
  <2>1. n < 2097152
    BY DEF SizeLimit
  <2> DEFINE m == n \div 128
  <2>2. m \in Nat /\ n = 128 * m + a /\ a \in 0 .. 127
    OBVIOUS
  <2>3. m = 128 * (m \div 128) + (m % 128) /\ (m % 128) \in 0 .. 127 /\ (m \div 128) \in Nat
    <3> HIDE DEF m
    <3> QED
      BY <2>2
  <2>4. m \div 128 = c
    OBVIOUS
  <2> QED
    BY <2>1, <2>2, <2>3, <2>4
<1>2. Digits(n) = x
  BY DEF Digits
<1> HIDE DEF a, b, c
<1>3. d \in Str /\ Len(d) = 3 /\ d[1] = a /\ d[2] = b /\ d[3] = c
  BY <1>1 DEF Str
<1> HIDE DEF d
<1>4. /\ x \in Str /\ Shortest(x) /\ Len(x) <= 3 /\ (\A i \in 1 .. Len(x) : x[i] = d[i])
      /\ (\A i \in 1 .. 3 : d[i] # 0 => i <= Len(x))
  BY <1>3, CanonicalShape, CanonicalType
<1> HIDE DEF x
<1>5. Len(x) \in Nat /\ (Len(x) = 0 => x = <<>>)
  BY <1>4, LenProperties, EmptySeq DEF Str
<1> DEFINE Digit(i) == IF i <= Len(x) THEN x[i] ELSE 0
<1>6. Digit(1) = a /\ Digit(2) = b /\ Digit(3) = c /\ Digit(4) = 0
  <2>1. \A i \in 1 .. 3 : Digit(i) = d[i]
    BY <1>4, <1>5
  <2>2. ~(4 <= Len(x))
    BY <1>4, <1>5
  <2> QED
    BY <1>3, <2>1, <2>2
<1>7. Number(x) = Digit(1) + 128 * (Digit(2) + 128 * (Digit(3) + 128 * Digit(4)))
  BY <1>4, <1>5 DEF Number
<1>8. Number(x) = n
  BY <1>1, <1>6, <1>7
<1>9. x \in Digits64
  <2>1. \A i \in 1 .. Len(x) : x[i] < 128
    <3> SUFFICES ASSUME NEW i \in 1 .. Len(x) PROVE x[i] < 128
      OBVIOUS
    <3>1. x[i] = d[i] /\ (i = 1 \/ i = 2 \/ i = 3)
      BY <1>4, <1>5
    <3>2. d[i] < 128
      BY <1>1, <1>3, <3>1
    <3> QED
      BY <3>1, <3>2
  <2> DEFINE l == Len(x)
  <2>3. l \in Nat /\ l <= 3
    BY <1>4, <1>5
  <2> HIDE DEF l
  <2>4. l <= 10 /\ l # 10
    BY <2>3
  <2>2. Len(x) <= 10 /\ Len(x) # 10
    BY <2>4 DEF l
  <2> QED
    BY <1>4, <2>1, <2>2 DEF Digits64
<1>10. VarintSize(x) \in 1 .. 3 /\ VarintSize(x) \in Nat
  <2>1. VarintSize(x) >= 1 /\ VarintSize(x) \in Nat
    BY <1>4, WriteVarintSize
  <2>2. VarintSize(x) <= 3
    BY <1>4, <1>5 DEF VarintSize
  <2> QED
    BY <2>1, <2>2
<1>11. Len(WriteVarint(x)) = VarintSize(x) /\ WriteVarint(x) \in Str
  BY <1>4, WriteVarintSize
<1> QED
  BY <1>2, <1>4, <1>8, <1>9, <1>10, <1>11 DEF SizeBytes

\* The tag of a field with a small number is one byte, and is read from it; so is
\* the 0 that ends a body.
LEMMA ReadTagAt ==
  ASSUME NEW buf \in Str, NEW p \in Pos, NEW g \in Nat, g < 128
  PROVE  /\ g # 0 /\ At(buf, p, WriteVarint(<<g>>)) => ReadTag(buf, p) = Read(TRUE, <<g>>, p + 1)
         /\ At(buf, p, <<0>>) => ReadTag(buf, p) = Read(TRUE, <<>>, p + 1)
         /\ WriteVarint(<<g>>) \in Str /\ Len(WriteVarint(<<g>>)) = 1
<1>1. /\ Digits(g) \in Digits64 /\ Digits(g) = (IF g = 0 THEN <<>> ELSE <<g>>) /\ Len(Digits(g)) <= 1
      /\ VarintSize(Digits(g)) = 1
  BY SmallDigits
<1>2. ASSUME NEW d \in Digits64, VarintSize(d) = 1, Len(d) <= 1, At(buf, p, WriteVarint(d))
      PROVE  ReadTag(buf, p) = Read(TRUE, d, p + 1)
  <2> DEFINE r == ReadVarint(buf, p, 5)
  <2>1. r = Read(TRUE, d, p + 1)
    <3>1. 5 \in Nat /\ VarintSize(d) <= 5
      BY <1>2
    <3>2. r = Read(TRUE, d, p + VarintSize(d))
      BY <1>2, <3>1, ReadVarintAt
    <3> QED
      BY <1>2, <3>2
  <2>2. ReadTag(buf, p) = [r EXCEPT !.val = UInt32(@)]
    BY DEF ReadTag
  <2> HIDE DEF r
  <2>3. UInt32(d) = d
    <3>1. d \in Str /\ Shortest(d)
      BY <1>2, Digits64Are
    <3>2. UInt32(d) = Canonical(d)
      BY <1>2, <3>1, LenProperties DEF UInt32, Str
    <3> QED
      BY <3>1, <3>2, CanonicalShape
  <2> QED
    BY <2>1, <2>2, <2>3 DEF Read
<1>3. g # 0 /\ At(buf, p, WriteVarint(<<g>>)) => ReadTag(buf, p) = Read(TRUE, <<g>>, p + 1)
  BY <1>1, <1>2
<1>4. At(buf, p, <<0>>) => ReadTag(buf, p) = Read(TRUE, <<>>, p + 1)
  <2>1. <<>> \in Digits64 /\ VarintSize(<<>>) = 1 /\ Len(<<>>) <= 1
    <3> DEFINE z == 0
    <3>1. z \in Nat /\ z < 128 /\ z = 0
      OBVIOUS
    <3> HIDE DEF z
    <3>2. Digits(z) \in Digits64 /\ Digits(z) = (IF z = 0 THEN <<>> ELSE <<z>>) /\ Len(Digits(z)) <= 1 /\ VarintSize(Digits(z)) = 1
      BY <3>1, SmallDigits
    <3> QED
      BY <3>1, <3>2
  <2>2. WriteVarint(<<>>) = <<0>>
    BY DEF WriteVarint
  <2> QED
    BY <1>2, <2>1, <2>2
<1>5. WriteVarint(<<g>>) \in Str /\ Len(WriteVarint(<<g>>)) = 1
  BY TagsAre, WriteVarintSize
<1> QED
  BY <1>3, <1>4, <1>5

\* A size is read as it was written.
LEMMA ReadSizeAt ==
  ASSUME NEW buf \in Str, NEW p \in Pos, NEW n \in Nat, n < SizeLimit, At(buf, p, WriteVarint(Digits(n)))
  PROVE  ReadSize(buf, p) = Read(TRUE, n, p + SizeBytes(n))
<1> DEFINE r == ReadVarint(buf, p, 5)
           d == Digits(n)
<1>1. d \in Digits64 /\ VarintSize(d) = SizeBytes(n) /\ SizeBytes(n) \in 1 .. 3 /\ Number(d) = n /\ Len(d) <= 3
  BY SizeDigits DEF SizeBytes
<1>2. At(buf, p, WriteVarint(d)) /\ ReadSize(buf, p) = SizeOf(r)
  BY DEF ReadSize
<1> HIDE DEF d
<1>3. r = Read(TRUE, d, p + SizeBytes(n))
  <2>1. 5 \in Nat /\ VarintSize(d) <= 5
    BY <1>1
  <2>2. r = Read(TRUE, d, p + VarintSize(d))
    BY <1>1, <1>2, <2>1, ReadVarintAt
  <2> QED
    BY <1>1, <2>2
<1> HIDE DEF r
<1>4. r.ok = TRUE /\ r.val = d /\ r.pos = p + SizeBytes(n)
  BY <1>3 DEF Read
<1>5. (r.ok /\ (Len(r.val) = 5 => r.val[5] < 8)) = TRUE
  <2> DEFINE l == Len(d)
  <2>2. d \in Str
    BY <1>1, Digits64Are
  <2>3. l \in Nat /\ l <= 3
    BY <1>1, <2>2, LenProperties DEF Str
  <2> HIDE DEF l
  <2>4. l # 5
    BY <2>3
  <2>1. Len(d) # 5
    BY <2>4 DEF l
  <2> QED
    BY <1>4, <2>1
<1>6. SizeOf(r) = Read(TRUE, Number(r.val), r.pos)
  BY <1>5 DEF SizeOf
<1> QED
  BY <1>1, <1>2, <1>4, <1>6

\* A string is read as it was written.
LEMMA ReadStringAt ==
  ASSUME NEW buf \in Str, NEW p \in Pos, NEW s \in Str, Len(s) < SizeLimit,
         At(buf, p, WriteVarint(Digits(Len(s))) \o s)
  PROVE  ReadString(buf, p) = Read(TRUE, s, (p + SizeBytes(Len(s))) + Len(s))
<1> DEFINE n == Len(s)
           z == WriteVarint(Digits(n))
           r == ReadSize(buf, p)
           o == p + SizeBytes(n)
<1>1. n \in Nat /\ n < SizeLimit /\ Len(buf) \in Nat
  BY LenProperties DEF Str
<1>2. z \in Str /\ Len(z) = SizeBytes(n) /\ SizeBytes(n) \in Nat
  BY <1>1, SizeDigits
<1>3. At(buf, p, z) /\ At(buf, p + Len(z), s)
  <2> HIDE DEF z
  <2> QED
    BY <1>2, AtConcat DEF z, n
<1>4. r = Read(TRUE, n, o)
  <2> HIDE DEF n
  <2> QED
    BY <1>1, <1>3, ReadSizeAt
<1>5. ReadString(buf, p) = StringOf(buf, r)
  BY DEF ReadString
<1> HIDE DEF r, z
<1>6. r.ok = TRUE /\ r.val = n /\ r.pos = o
  BY <1>4 DEF Read
<1>7. At(buf, o, s) /\ o \in Pos /\ o \in Nat
  BY <1>2, <1>3 DEF Pos
<1>8. o + n <= Len(buf) + 1
  BY <1>7 DEF At
<1>9. r.ok /\ r.pos + r.val - 1 <= Readable(buf, r.pos)
  <2>1. o + n - 1 <= Readable(buf, o)
    BY <1>1, <1>7, <1>8 DEF SlopBytes, Readable
  <2> QED
    BY <1>6, <2>1
<1> DEFINE q == [i \in 1 .. r.val |-> ByteAt(buf, r.pos + i - 1)]
<1>10. StringOf(buf, r) = Read(TRUE, q, r.pos + r.val)
  BY <1>9 DEF StringOf
<1>11. q = s
  <2>1. q = [i \in 1 .. n |-> ByteAt(buf, o + i - 1)]
    BY <1>6
  <2>2. \A i \in 1 .. n : ByteAt(buf, o + i - 1) = s[i]
    BY <1>7, AtByte
  <2>3. s = [i \in 1 .. n |-> s[i]]
    BY LenProperties DEF Str
  <2> QED
    BY <2>1, <2>2, <2>3
<1> HIDE DEF q, n
<1> QED
  BY <1>5, <1>6, <1>10, <1>11 DEF n

\* The pieces of a sequence that was written are in the buffer one after the other.
LEMMA JoinAt ==
  ASSUME NEW buf \in Str, NEW p \in Pos, NEW s \in Seq(Str), At(buf, p, JoinSeq(s)),
         NEW f, JoinRun(f, s), \A i \in 0 .. Len(s) : f[i] \in Str
  PROVE  /\ \A i \in 1 .. Len(s) : At(buf, p + Len(f[i - 1]), s[i]) /\ Len(f[i]) = Len(f[i - 1]) + Len(s[i])
         /\ \A i \in 1 .. Len(s) : Len(f[i]) <= Len(JoinSeq(s))
<1> DEFINE n == Len(s)
           Z == {k \in 0 .. n : At(buf, p, f[n - k]) /\ Len(f[n - k]) <= Len(f[n])}
<1>1. n \in Nat /\ \A i \in 1 .. n : s[i] \in Str
  BY LenProperties, ElementOfSeq
<1>2. JoinSeq(s) = f[n] /\ \A i \in 1 .. n : f[i] = f[i - 1] \o s[i]
  BY DEF JoinRun
<1>3. \A i \in 1 .. n : i - 1 \in 0 .. n /\ i \in 0 .. n
  BY <1>1
<1>4. ASSUME NEW i \in 1 .. n, At(buf, p, f[i])
      PROVE  /\ At(buf, p, f[i - 1]) /\ At(buf, p + Len(f[i - 1]), s[i])
             /\ Len(f[i]) = Len(f[i - 1]) + Len(s[i])
             /\ Len(f[i]) \in Nat /\ Len(f[i - 1]) \in Nat /\ Len(s[i]) \in Nat
  <2> DEFINE x == f[i - 1]
             y == s[i]
  <2>1. x \in Str /\ y \in Str /\ f[i] = x \o y
    BY <1>1, <1>2, <1>3
  <2> HIDE DEF x, y
  <2>2. /\ At(buf, p, x) /\ At(buf, p + Len(x), y) /\ Len(x \o y) = Len(x) + Len(y)
        /\ Len(x) \in Nat /\ Len(y) \in Nat
    BY <1>4, <2>1, AtConcat
  <2>3. Len(x) + Len(y) \in Nat
    BY <2>2
  <2> QED
    BY <2>1, <2>2, <2>3 DEF x, y
<1>5. \A k \in 0 .. n : k \in Z
  <2>1. 0 \in Z
    <3>1. 0 \in 0 .. n /\ n - 0 = n /\ n \in 0 .. n
      BY <1>1
    <3>2. Len(f[n]) \in Nat
      BY <3>1, LenProperties DEF Str
    <3>3. Len(f[n]) <= Len(f[n])
      BY <3>2
    <3> QED
      BY <1>2, <3>1, <3>3
  <2>2. ASSUME NEW k \in 0 .. n - 1, k \in Z PROVE k + 1 \in Z
    <3>1. n - k \in 1 .. n /\ (n - k) - 1 = n - (k + 1) /\ k + 1 \in 0 .. n
      BY <1>1
    <3> DEFINE a == Len(f[n - k])
               b == Len(f[(n - k) - 1])
               c == Len(s[n - k])
               l == Len(f[n])
    <3>2. At(buf, p, f[n - k]) /\ a <= l
      BY <2>2
    <3>3. At(buf, p, f[(n - k) - 1]) /\ a = b + c /\ a \in Nat /\ b \in Nat /\ c \in Nat
      BY <1>4, <3>1, <3>2
    <3>4. l \in Nat
      <4>1. n \in 0 .. n
        BY <1>1
      <4> QED
        BY <4>1, LenProperties DEF Str
    <3> HIDE DEF a, b, c, l
    <3>5. b <= l
      BY <3>2, <3>3, <3>4
    <3> QED
      BY <3>1, <3>3, <3>5 DEF b, l
  <2> HIDE DEF Z
  <2>3. 0 \in Nat /\ \A k \in 0 .. n - 1 : k \in Z => k + 1 \in Z
    BY <2>2
  <2> HIDE DEF n
  <2> QED
    BY <1>1, <2>1, <2>3, UpTo
<1>6. ASSUME NEW i \in 1 .. n PROVE At(buf, p, f[i]) /\ Len(f[i]) <= Len(f[n])
  <2>1. n - i \in 0 .. n /\ n - (n - i) = i
    BY <1>1
  <2>2. n - i \in Z
    BY <1>5, <2>1
  <2> QED
    BY <2>1, <2>2
<1> QED
  BY <1>2, <1>4, <1>6

\* The first k elements of a sequence.
Prefix(v, k) == SubSeq(v, 1, k)

\* The beginnings of a sequence, one longer than the other.
LEMMA PrefixSteps ==
  ASSUME NEW S, NEW v \in Seq(S)
  PROVE  /\ Prefix(v, 0) = <<>> /\ Prefix(v, Len(v)) = v
         /\ \A k \in 0 .. Len(v) : Prefix(v, k) \in Seq(S)
         /\ \A k \in 1 .. Len(v) : Prefix(v, k) = Append(Prefix(v, k - 1), v[k])
<1> DEFINE n == Len(v)
<1>1. n \in Nat /\ \A i \in 1 .. n : v[i] \in S
  BY LenProperties, ElementOfSeq
<1>2. \A k \in 0 .. n : Prefix(v, k) \in Seq(S) /\ Len(Prefix(v, k)) = k /\ \A i \in 1 .. k : Prefix(v, k)[i] = v[i]
  <2> SUFFICES ASSUME NEW k \in 0 .. n
               PROVE  Prefix(v, k) \in Seq(S) /\ Len(Prefix(v, k)) = k /\ \A i \in 1 .. k : Prefix(v, k)[i] = v[i]
    OBVIOUS
  <2>1. 1 \in Int /\ k \in Int /\ k \in Nat /\ \A i \in 1 .. k : v[i] \in S
    BY <1>1
  <2>2. SubSeq(v, 1, k) \in Seq(S)
    BY <2>1, SubSeqProperties
  <2>3. Len(SubSeq(v, 1, k)) = k /\ \A i \in 1 .. k : SubSeq(v, 1, k)[i] = v[i]
    BY <2>1
  <2> QED
    BY <2>2, <2>3 DEF Prefix
<1>3. Prefix(v, 0) = <<>>
  <2>1. 0 \in 0 .. n
    BY <1>1
  <2>2. Prefix(v, 0) \in Seq(S) /\ Len(Prefix(v, 0)) = 0
    BY <1>2, <2>1
  <2> QED
    BY <2>2, EmptySeq
<1>4. Prefix(v, n) = v
  <2>1. n \in 0 .. n
    BY <1>1
  <2>2. Prefix(v, n) \in Seq(S) /\ Len(Prefix(v, n)) = n /\ \A i \in 1 .. n : Prefix(v, n)[i] = v[i]
    BY <1>2, <2>1
  <2> QED
    BY <2>2, SeqEqual
<1>5. ASSUME NEW k \in 1 .. n PROVE Prefix(v, k) = Append(Prefix(v, k - 1), v[k])
  <2> DEFINE a == Prefix(v, k - 1)
             b == Prefix(v, k)
             x == v[k]
             c == Append(a, x)
  <2>1. k - 1 \in 0 .. n /\ k \in 0 .. n /\ k \in Nat
    BY <1>1
  <2>2. a \in Seq(S) /\ Len(a) = k - 1 /\ (\A i \in 1 .. k - 1 : a[i] = v[i])
    BY <1>2, <2>1
  <2>3. b \in Seq(S) /\ Len(b) = k /\ (\A i \in 1 .. k : b[i] = v[i])
    BY <1>2, <2>1
  <2>4. x \in S
    BY <1>1
  <2> HIDE DEF a, b, x
  <2>5. c \in Seq(S) /\ Len(c) = Len(a) + 1 /\ (\A i \in 1 .. Len(a) : c[i] = a[i]) /\ c[Len(a) + 1] = x
    BY <2>2, <2>4, AppendProperties
  <2> HIDE DEF c
  <2>6. Len(c) = k /\ c[k] = x
    BY <2>1, <2>2, <2>5
  <2>7. \A i \in 1 .. k : b[i] = c[i]
    <3> SUFFICES ASSUME NEW i \in 1 .. k PROVE b[i] = c[i]
      OBVIOUS
    <3>1. CASE i = k
      BY <2>1, <2>3, <2>6, <3>1 DEF x
    <3>2. CASE i # k
      <4>1. i \in 1 .. k - 1
        BY <2>1, <3>2
      <4> QED
        BY <2>2, <2>3, <2>5, <4>1
    <3> QED
      BY <3>1, <3>2
  <2>8. b = c
    BY <2>3, <2>5, <2>6, <2>7, SeqEqual
  <2> QED
    BY <2>8 DEF a, b, c, x
<1> QED
  BY <1>2, <1>3, <1>4, <1>5

\* The bytes of a packed array.
Packed(v) == [i \in DOMAIN v |-> WriteVarint(v[i])]

\* They are bytes, an element after the other.
LEMMA PackedIs ==
  ASSUME NEW v \in Seq(Digits64)
  PROVE  /\ Packed(v) \in Seq(Str) /\ Len(Packed(v)) = Len(v) /\ Len(v) \in Nat
         /\ \A i \in 1 .. Len(v) : v[i] \in Digits64 /\ Packed(v)[i] = WriteVarint(v[i])
<1> DEFINE n == Len(v)
<1>1. n \in Nat /\ DOMAIN v = 1 .. n /\ \A i \in 1 .. n : v[i] \in Digits64
  BY LenProperties, ElementOfSeq
<1>2. \A i \in 1 .. n : WriteVarint(v[i]) \in Str
  BY <1>1, VarintBytes
<1>3. Packed(v) = [i \in 1 .. n |-> WriteVarint(v[i])]
  BY <1>1 DEF Packed
<1> HIDE DEF n
<1>4. Packed(v) \in Seq(Str) /\ Len(Packed(v)) = n /\ \A i \in 1 .. n : Packed(v)[i] = WriteVarint(v[i])
  BY <1>1, <1>2, <1>3
<1> QED
  BY <1>1, <1>4 DEF n

\* The varints of a packed array are read as they were written.
LEMMA ReadVarintsAt ==
  ASSUME NEW buf \in Str, NEW q \in Pos, NEW v \in Seq(Digits64), At(buf, q, JoinSeq(Packed(v)))
  PROVE  ReadVarints(buf, q, q + Len(JoinSeq(Packed(v)))) = Read(TRUE, v, q + Len(JoinSeq(Packed(v))))
<1> DEFINE n   == Len(v)
           s   == Packed(v)
           J   == JoinSeq(s)
           end == q + Len(J)
           N   == Len(buf) + SlopBytes
<1>1. s \in Seq(Str) /\ Len(s) = n /\ n \in Nat /\ \A i \in 1 .. n : v[i] \in Digits64 /\ s[i] = WriteVarint(v[i])
  BY PackedIs
<1>2. At(buf, q, JoinSeq(s)) /\ Len(buf) \in Nat /\ q \in Nat
  BY LenProperties DEF Str, Pos
<1> HIDE DEF s
<1>3. PICK g : JoinRun(g, s) /\ \A i \in 0 .. Len(s) : g[i] \in Str
  BY <1>1, JoinSteps
<1>4. /\ \A i \in 1 .. n : At(buf, q + Len(g[i - 1]), s[i]) /\ Len(g[i]) = Len(g[i - 1]) + Len(s[i])
      /\ \A i \in 1 .. n : Len(g[i]) <= Len(J)
  <2>1. /\ \A i \in 1 .. Len(s) : At(buf, q + Len(g[i - 1]), s[i]) /\ Len(g[i]) = Len(g[i - 1]) + Len(s[i])
        /\ \A i \in 1 .. Len(s) : Len(g[i]) <= Len(JoinSeq(s))
    BY <1>1, <1>2, <1>3, JoinAt
  <2> HIDE DEF n
  <2> QED
    BY <1>1, <2>1
<1>5. g[0] = <<>> /\ g[n] = J /\ \A i \in 0 .. n : Len(g[i]) \in Nat
  BY <1>1, <1>3, LenProperties DEF JoinRun, Str
<1>6. PICK f : VarintSteps(f, buf, q, end) /\ \A k \in 0 .. N : f[k] \in Reads(Seq(Str))
  BY VarintsRun
<1>7. /\ f[0] = Read(TRUE, <<>>, q) /\ ReadVarints(buf, q, end) = f[N]
      /\ \A k \in 1 .. N : f[k] = NextVarint(f[k - 1], buf, end)
  BY <1>6 DEF VarintSteps
<1>8. Len(J) \in Nat /\ q + Len(J) <= Len(buf) + 1
  <2>1. n \in 0 .. n
    BY <1>1
  <2> QED
    BY <1>2, <1>5, <2>1 DEF At
<1>9. Prefix(v, 0) = <<>> /\ Prefix(v, n) = v /\ \A k \in 1 .. n : Prefix(v, k) = Append(Prefix(v, k - 1), v[k])
  BY PrefixSteps
<1>10. N \in Nat /\ end \in Nat /\ end = q + Len(J)
  BY <1>2, <1>8 DEF SlopBytes
<1> HIDE DEF J, end, N, n
<1> DEFINE Z == {k \in 0 .. n : f[k] = Read(TRUE, Prefix(v, k), q + Len(g[k])) /\ k <= Len(g[k])}
<1>11. \A k \in 0 .. n : k \in Z
  <2>1. 0 \in Z
    <3>1. 0 \in 0 .. n /\ Len(g[0]) = 0 /\ q + 0 = q /\ 0 <= 0
      BY <1>1, <1>2, <1>5
    <3> QED
      BY <1>5, <1>7, <1>9, <3>1
  <2>2. ASSUME NEW j \in 0 .. n - 1, j \in Z PROVE j + 1 \in Z
    <3> DEFINE k == j + 1
               a == Len(g[j])
               b == Len(g[k])
               d == v[k]
               r == f[j]
               e == q + a
               w == ReadVarint(buf, e, 10)
    <3>1. k \in 1 .. n /\ k - 1 = j /\ k \in 0 .. n /\ j \in 0 .. n /\ j \in Nat
      BY <1>1
    <3>2. r = Read(TRUE, Prefix(v, j), e) /\ j <= a
      BY <2>2
    <3>3. At(buf, e, s[k]) /\ b = a + Len(s[k]) /\ b <= Len(J)
      BY <1>4, <3>1
    <3>4. a \in Nat /\ b \in Nat /\ d \in Digits64 /\ s[k] = WriteVarint(d)
      BY <1>1, <1>5, <3>1
    <3>5. Prefix(v, k) = Append(Prefix(v, j), d)
      BY <1>9, <3>1
    <3> HIDE DEF k, a, b, d, r
    <3>6. VarintSize(d) \in 1 .. 10 /\ Len(s[k]) = VarintSize(d)
      BY <3>4, VarintBytes
    <3>7. e \in Pos /\ 10 \in Nat /\ VarintSize(d) <= 10
      BY <1>2, <3>4, <3>6 DEF Pos
    <3> HIDE DEF e
    <3>8. w = Read(TRUE, d, e + VarintSize(d))
      BY <3>3, <3>4, <3>7, ReadVarintAt
    <3>9. e + VarintSize(d) = q + b /\ ~(e >= end) /\ k <= b
      <4> DEFINE z == VarintSize(d)
                 l == Len(J)
      <4>1. /\ q \in Nat /\ l \in Nat /\ end = q + l /\ j \in Nat /\ k = j + 1 /\ j <= a /\ b = a + z /\ b <= l
            /\ a \in Nat /\ b \in Nat /\ z \in 1 .. 10 /\ e = q + a
        BY <1>2, <1>8, <1>10, <3>1, <3>2, <3>3, <3>4, <3>6 DEF e, k
      <4> HIDE DEF z, l
      <4>2. e + z = q + b /\ ~(e >= end) /\ k <= b
        BY <4>1
      <4> QED
        BY <4>2 DEF z
    <3> HIDE DEF w
    <3>10. w.ok = TRUE /\ w.val = d /\ w.pos = q + b
      BY <3>8, <3>9 DEF Read
    <3>11. r.ok = TRUE /\ r.val = Prefix(v, j) /\ r.pos = e
      BY <3>2 DEF Read
    <3>12. NextVarint(r, buf, end) = Read(TRUE, Append(r.val, w.val), w.pos)
      BY <3>9, <3>10, <3>11 DEF NextVarint, w
    <3>13. k \in 1 .. N
      BY <1>1, <1>2, <1>8, <1>10, <3>1, <3>3, <3>4, <3>9 DEF N, SlopBytes, Pos
    <3>14. f[k] = NextVarint(r, buf, end)
      BY <1>7, <3>1, <3>13 DEF r
    <3>15. f[k] = Read(TRUE, Prefix(v, k), q + b)
      BY <3>5, <3>10, <3>11, <3>12, <3>14
    <3> QED
      BY <3>1, <3>9, <3>15 DEF k, b
  <2> HIDE DEF Z
  <2>3. 0 \in Nat /\ \A j \in 0 .. n - 1 : j \in Z => j + 1 \in Z
    BY <2>2
  <2> QED
    BY <1>1, <2>1, <2>3, UpTo
<1> DEFINE last == Read(TRUE, v, end)
<1>12. f[n] = last /\ n <= Len(J)
  <2>1. n \in 0 .. n
    BY <1>1
  <2>2. f[n] = Read(TRUE, Prefix(v, n), q + Len(g[n])) /\ n <= Len(g[n])
    BY <1>11, <2>1
  <2> QED
    BY <1>5, <1>9, <1>10, <2>2
<1>13. n \in 0 .. N
  BY <1>1, <1>2, <1>8, <1>12 DEF N, SlopBytes, Pos
<1>14. NextVarint(last, buf, end) = last
  <2>1. last.ok = TRUE /\ last.pos = end /\ end >= end
    BY <1>10 DEF Read
  <2> HIDE DEF last
  <2> QED
    BY <2>1 DEF NextVarint
<1> HIDE DEF last, Z
<1> DEFINE Y == {k \in 0 .. N : f[k] = last}
<1>15. \A k \in n .. N : k \in Y
  <2>1. n \in Y
    BY <1>12, <1>13
  <2>2. ASSUME NEW k \in n .. N - 1, k \in Y PROVE k + 1 \in Y
    <3>1. k + 1 \in 1 .. N /\ (k + 1) - 1 = k /\ k + 1 \in 0 .. N
      BY <1>1, <1>10
    <3>2. f[k] = last
      BY <2>2
    <3>3. f[k + 1] = NextVarint(f[k], buf, end)
      BY <1>7, <3>1
    <3> QED
      BY <1>14, <3>1, <3>2, <3>3
  <2> HIDE DEF Y
  <2>3. \A k \in n .. N - 1 : k \in Y => k + 1 \in Y
    BY <2>2
  <2> QED
    BY <1>1, <1>10, <2>1, <2>3, UpTo
<1>16. f[N] = last
  <2>1. N \in n .. N
    BY <1>10, <1>13
  <2>2. N \in Y
    BY <1>15, <2>1
  <2> QED
    BY <2>2
<1> QED
  BY <1>7, <1>16 DEF last, end, J, s

\* A packed array is read as it was written.
LEMMA ReadPackedAt ==
  ASSUME NEW buf \in Str, NEW p \in Pos, NEW v \in Seq(Digits64), NEW J \in Str, J = JoinSeq(Packed(v)),
         Len(J) < SizeLimit, At(buf, p, WriteVarint(Digits(Len(J))) \o J)
  PROVE  ReadPacked(buf, p) = Read(TRUE, v, (p + SizeBytes(Len(J))) + Len(J))
<1> DEFINE n == Len(J)
           z == WriteVarint(Digits(n))
           r == ReadSize(buf, p)
           o == p + SizeBytes(n)
           end == o + n
<1>1. n \in Nat /\ n < SizeLimit /\ Len(buf) \in Nat
  BY LenProperties DEF Str
<1>2. z \in Str /\ Len(z) = SizeBytes(n) /\ SizeBytes(n) \in Nat
  BY <1>1, SizeDigits
<1>3. At(buf, p, z) /\ At(buf, p + Len(z), J)
  <2> HIDE DEF z
  <2> QED
    BY <1>2, AtConcat DEF z, n
<1>4. r = Read(TRUE, n, o)
  <2> HIDE DEF n
  <2> QED
    BY <1>1, <1>3, ReadSizeAt
<1>5. ReadPacked(buf, p) = PackedOf(buf, r)
  BY DEF ReadPacked
<1> HIDE DEF r, z
<1>6. r.ok = TRUE /\ r.val = n /\ r.pos = o
  BY <1>4 DEF Read
<1>7. At(buf, o, J) /\ o \in Pos /\ o \in Nat
  BY <1>2, <1>3 DEF Pos
<1>8. o + n <= Len(buf) + 1
  BY <1>7 DEF At
<1>9. (r.pos + r.val - 1 <= Readable(buf, r.pos)) = TRUE /\ r.pos + r.val = end
  <2>1. o + n - 1 <= Readable(buf, o)
    BY <1>1, <1>7, <1>8 DEF SlopBytes, Readable
  <2> QED
    BY <1>6, <2>1
<1> DEFINE w == ReadVarints(buf, o, end)
<1>10. w = Read(TRUE, v, end)
  <2>1. At(buf, o, JoinSeq(Packed(v)))
    BY <1>7
  <2>2. ReadVarints(buf, o, o + Len(JoinSeq(Packed(v)))) = Read(TRUE, v, o + Len(JoinSeq(Packed(v))))
    BY <1>7, <2>1, ReadVarintsAt
  <2> QED
    BY <2>2
<1> HIDE DEF end
<1>11. PackedOf(buf, r) = Read(w.ok /\ w.pos = end, w.val, w.pos)
  BY <1>6, <1>9 DEF PackedOf, w
<1> HIDE DEF w
<1>12. w.ok = TRUE /\ w.val = v /\ w.pos = end
  BY <1>10 DEF Read
<1> QED
  BY <1>5, <1>11, <1>12 DEF end, n

\* Concatenation is associative.
LEMMA StrAssoc ==
  ASSUME NEW S, NEW a \in Seq(S), NEW b \in Seq(S), NEW c \in Seq(S)
  PROVE  (a \o b) \o c = a \o (b \o c)
BY ConcatAssociative

\* The parts of a length-delimited field.
LEMMA WriteBytesAt ==
  ASSUME NEW buf \in Str, Len(buf) <= SizeLimit, NEW p \in Pos, NEW g \in Nat, g < 128, NEW s \in Str,
         At(buf, p, WriteBytes(<<g>>, s))
  PROVE  /\ At(buf, p, WriteVarint(<<g>>)) /\ At(buf, p + 1, WriteVarint(Digits(Len(s))) \o s)
         /\ Len(s) \in Nat /\ Len(s) < SizeLimit /\ Len(WriteBytes(<<g>>, s)) = 1 + SizeBytes(Len(s)) + Len(s)
<1> DEFINE n == Len(s)
           a == WriteVarint(<<g>>)
           b == WriteVarint(Digits(n))
           w == WriteBytes(<<g>>, s)
<1>1. n \in Nat /\ Len(buf) \in Nat /\ Len(buf) <= SizeLimit /\ p \in Nat /\ p >= 1
  BY LenProperties DEF Str, Pos
<1>2. a \in Str /\ Len(a) = 1
  BY ReadTagAt
<1>3. b \in Str /\ Len(b) = SizeBytes(n) /\ SizeBytes(n) \in Nat
  BY <1>1, DigitsType, WriteVarintSize DEF SizeBytes
<1>4. w = (a \o b) \o s
  BY DEF WriteBytes
<1> HIDE DEF a, b, n
<1>5. w = a \o (b \o s)
  <2>1. a \in Seq(Nat) /\ b \in Seq(Nat) /\ s \in Seq(Nat)
    BY <1>2, <1>3 DEF Str
  <2>2. (a \o b) \o s = a \o (b \o s)
    BY <2>1, StrAssoc, SMTT(60)
  <2> QED
    BY <1>4, <2>2
<1>6. b \o s \in Str /\ Len(b \o s) = Len(b) + n
  BY <1>3, StrConcat DEF n
<1> DEFINE t == b \o s
<1> HIDE DEF t, w
<1>7. At(buf, p, a \o t)
  BY <1>5 DEF t, w
<1>8. At(buf, p, a) /\ At(buf, p + Len(a), t) /\ Len(a \o t) = Len(a) + Len(t)
  <2>1. t \in Str
    BY <1>6 DEF t
  <2>2. a \in Str
    BY <1>2
  <2> QED
    BY <1>7, <2>1, <2>2, AtConcat
<1>9. At(buf, p + 1, t)
  BY <1>2, <1>8
<1>10. (p + 1) + Len(t) <= Len(buf) + 1 /\ Len(t) = Len(b) + n /\ Len(b) \in Nat
  BY <1>3, <1>6, <1>9 DEF At, t
<1>11. n < SizeLimit
  BY <1>1, <1>10 DEF SizeLimit
<1>12. Len(w) = 1 + SizeBytes(n) + n
  BY <1>1, <1>2, <1>3, <1>5, <1>8, <1>10 DEF t
<1> QED
  BY <1>1, <1>8, <1>9, <1>11, <1>12 DEF a, b, n, t, w
=============================================================================
