--------------------------- MODULE PbRoundTripProofs ---------------------------
(***************************************************************************)
(* What was written is read again: a body that arrives in one chunk is read *)
(* as the merge of its messages, for every type of message and all values,  *)
(* and one that is cut into chunks is read so too, or a chunk is refused:   *)
(* for bodies shorter than SizeLimit (2 MiB), and wherever the parser reads  *)
(* values in place (InPlace is any predicate).                              *)
(***************************************************************************)
EXTENDS PbChannelProofs

-----------------------------------------------------------------------------
(* The loop of a parse, on what was written.                                *)

\* f is the loop of a parse of a message of a type, from p0 to the limit.
Loop(f, kind, buf, p0, limit) ==
  /\ buf \in Str /\ Len(buf) <= SizeLimit /\ p0 \in Pos /\ limit \in Nat
  /\ \A k \in 1 .. Len(buf) : f[k] = Round(kind, f[k - 1], buf, limit)

\* The loop gets to position p with message m, in no more rounds than it has read bytes.
Reaches(f, buf, p0, m, p) ==
  /\ p \in Pos /\ \E k \in 0 .. Len(buf) : f[k] = ParseStart(m, p) /\ k + p0 <= p

\* What a successful reader leaves.
LEMMA ParsedRead ==
  ASSUME NEW v, NEW e, NEW m
  PROVE  Parsed(Read(TRUE, v, e), m) = ParseStart(m, e)
BY DEF Parsed, Read, ParseStart

\* The field with number g >> 3 makes x of the message m when the value is read.
TakesVarint(kind, buf, p, m, g, d, x) ==
  \A e : ReadVarint(buf, p + 1, 10) = Read(TRUE, d, e) =>
           InternalParse(kind, m, <<g>>, buf, p + 1) = ParseStart(x, e)
TakesString(kind, buf, p, m, g, s, x) ==
  \A e : ReadString(buf, p + 1) = Read(TRUE, s, e) =>
           InternalParse(kind, m, <<g>>, buf, p + 1) = ParseStart(x, e)

\* One round reads one field.
LEMMA OneRound ==
  ASSUME NEW f, NEW kind, NEW buf, NEW p0, NEW limit, Loop(f, kind, buf, p0, limit),
         NEW m, NEW p, Reaches(f, buf, p0, m, p), p < limit, p <= Len(buf),
         NEW g \in Nat, g # 0, g < 128, At(buf, p, WriteVarint(<<g>>)),
         NEW x, NEW q \in Nat, q > p, InternalParse(kind, m, <<g>>, buf, p + 1) = ParseStart(x, q)
  PROVE  Reaches(f, buf, p0, x, q)
<1>1. /\ buf \in Str /\ p0 \in Pos /\ limit \in Nat
      /\ \A k \in 1 .. Len(buf) : f[k] = Round(kind, f[k - 1], buf, limit)
  BY DEF Loop
<1>2. PICK k \in 0 .. Len(buf) : f[k] = ParseStart(m, p) /\ k + p0 <= p
  BY DEF Reaches
<1>3. p \in Pos /\ p \in Nat /\ p >= 1 /\ p0 \in Nat /\ p0 >= 1 /\ Len(buf) \in Nat
  BY <1>1, LenProperties DEF Reaches, Pos, Str
<1> DEFINE t == ReadTag(buf, p)
           r == ParseStart(m, p)
           w == InternalParse(kind, r.m, t.val, buf, t.pos)
<1>4. t = Read(TRUE, <<g>>, p + 1)
  BY <1>1, <1>3, ReadTagAt
<1>5. r.ok = TRUE /\ r.stop = FALSE /\ r.m = m /\ r.pos = p
  BY DEF ParseStart
<1>6. Round(kind, r, buf, limit) = NextField(r, t, w, buf, limit)
  BY <1>5 DEF Round
<1> HIDE DEF t, r
<1>7. t.ok = TRUE /\ t.val = <<g>> /\ t.pos = p + 1
  BY <1>4 DEF Read
<1>8. w = ParseStart(x, q)
  BY <1>5, <1>7
<1> HIDE DEF w
<1>9. ~(p >= limit) /\ ~(p > Len(buf))
  BY <1>1, <1>3
<1>10. NextField(r, t, w, buf, limit) = w
  BY <1>5, <1>7, <1>9 DEF NextField
<1>11. k + 1 \in 1 .. Len(buf) /\ (k + 1) - 1 = k /\ k + 1 \in 0 .. Len(buf) /\ (k + 1) + p0 <= q
  BY <1>2, <1>3
<1>12. f[k + 1] = ParseStart(x, q)
  BY <1>1, <1>2, <1>6, <1>8, <1>10, <1>11 DEF r
<1>13. q \in Pos
  BY <1>3 DEF Pos
<1> QED
  BY <1>11, <1>12, <1>13 DEF Reaches

\* A varint field that is left out when it is empty.
LEMMA VarintRound ==
  ASSUME NEW f, NEW kind, NEW buf, NEW p0, NEW limit, Loop(f, kind, buf, p0, limit),
         NEW m, NEW p, Reaches(f, buf, p0, m, p),
         NEW g \in Nat, g # 0, g < 128, NEW d \in Digits64, At(buf, p, VarintField(<<g>>, d)),
         p + Len(VarintField(<<g>>, d)) <= limit,
         NEW x, d = <<>> => x = m,
         TakesVarint(kind, buf, p, m, g, d, x)
  PROVE  Reaches(f, buf, p0, x, p + Len(VarintField(<<g>>, d)))
<1>1. buf \in Str /\ limit \in Nat /\ p \in Pos /\ p \in Nat /\ p >= 1 /\ Len(buf) \in Nat
  BY LenProperties DEF Loop, Reaches, Pos, Str
<1>2. CASE d = <<>>
  <2>1. VarintField(<<g>>, d) = <<>>
    BY <1>2 DEF VarintField
  <2>2. p + Len(<<>>) = p
    BY <1>1
  <2> QED
    BY <1>2, <2>1, <2>2
<1>3. CASE d # <<>>
  <2> DEFINE a == WriteVarint(<<g>>)
             b == WriteVarint(d)
             z == VarintSize(d)
             e == (p + 1) + z
  <2>1. VarintField(<<g>>, d) = a \o b
    BY <1>3 DEF VarintField
  <2>2. a \in Str /\ Len(a) = 1
    BY <1>1, ReadTagAt
  <2>3. b \in Str /\ Len(b) = z /\ z \in 1 .. 10
    BY VarintBytes
  <2> HIDE DEF a
  <2> HIDE DEF b
  <2>4. At(buf, p, a) /\ At(buf, p + Len(a), b) /\ Len(a \o b) = Len(a) + Len(b)
    <3>1. At(buf, p, a \o b)
      BY <2>1
    <3>2. a \in Str /\ b \in Str /\ buf \in Str /\ p \in Pos
      BY <1>1, <2>2, <2>3
    <3> QED
      BY <3>1, <3>2, AtConcat
  <2>5. At(buf, p + 1, b) /\ p + 1 \in Pos /\ 10 \in Nat /\ z <= 10
    BY <1>1, <2>2, <2>3, <2>4 DEF Pos
  <2>6. ReadVarint(buf, p + 1, 10) = Read(TRUE, d, e)
    BY <1>1, <2>5, ReadVarintAt DEF b
  <2>7. InternalParse(kind, m, <<g>>, buf, p + 1) = ParseStart(x, e)
    BY <2>6 DEF TakesVarint
  <2> HIDE DEF z
  <2>8. e = p + Len(VarintField(<<g>>, d)) /\ e > p /\ e \in Nat
    BY <1>1, <2>1, <2>2, <2>3, <2>4
  <2>9. p < limit
    BY <1>1, <2>8
  <2>10. p <= Len(buf)
    BY <1>1, <2>2, <2>4 DEF At
  <2> HIDE DEF e
  <2>11. Reaches(f, buf, p0, x, e)
    BY <2>4, <2>7, <2>8, <2>9, <2>10, OneRound DEF a
  <2> QED
    BY <2>8, <2>11
<1> QED
  BY <1>2, <1>3

\* A length-delimited field.
LEMMA DelimitedRound ==
  ASSUME NEW f, NEW kind, NEW buf, NEW p0, NEW limit, Loop(f, kind, buf, p0, limit),
         NEW m, NEW p, Reaches(f, buf, p0, m, p),
         NEW g \in Nat, g # 0, g < 128, NEW s \in Str, At(buf, p, WriteBytes(<<g>>, s)),
         p + Len(WriteBytes(<<g>>, s)) <= limit, NEW x,
         At(buf, p + 1, WriteVarint(Digits(Len(s))) \o s) /\ Len(s) < SizeLimit =>
            InternalParse(kind, m, <<g>>, buf, p + 1) = ParseStart(x, ((p + 1) + SizeBytes(Len(s))) + Len(s))
  PROVE  Reaches(f, buf, p0, x, p + Len(WriteBytes(<<g>>, s)))
<1>1. buf \in Str /\ Len(buf) <= SizeLimit /\ limit \in Nat /\ p \in Pos /\ p \in Nat /\ p >= 1 /\ Len(buf) \in Nat
  BY LenProperties DEF Loop, Reaches, Pos, Str
<1> DEFINE w == WriteBytes(<<g>>, s)
           n == Len(s)
           l == Len(w)
           z == SizeBytes(n)
           e == ((p + 1) + z) + n
<1>2. At(buf, p, w)
  OBVIOUS
<1>3. /\ At(buf, p, WriteVarint(<<g>>)) /\ At(buf, p + 1, WriteVarint(Digits(n)) \o s)
      /\ n \in Nat /\ n < SizeLimit /\ l = 1 + z + n
  BY <1>1, WriteBytesAt
<1>8. z \in Nat
  BY <1>3, SizeDigits
<1>4. InternalParse(kind, m, <<g>>, buf, p + 1) = ParseStart(x, e)
  BY <1>3
<1>5. p + l <= limit /\ p + l <= Len(buf) + 1
  BY <1>2 DEF At
<1> HIDE DEF n, l, z
<1>6. e = p + l /\ e \in Nat /\ e > p /\ p < limit /\ p <= Len(buf)
  BY <1>1, <1>3, <1>5, <1>8
<1> HIDE DEF e
<1>7. Reaches(f, buf, p0, x, e)
  BY <1>3, <1>4, <1>6, OneRound
<1> QED
  BY <1>6, <1>7 DEF l, w

\* A string or bytes field.
LEMMA WrittenRound ==
  ASSUME NEW f, NEW kind, NEW buf, NEW p0, NEW limit, Loop(f, kind, buf, p0, limit),
         NEW m, NEW p, Reaches(f, buf, p0, m, p),
         NEW g \in Nat, g # 0, g < 128, NEW s \in Str, At(buf, p, WriteBytes(<<g>>, s)),
         p + Len(WriteBytes(<<g>>, s)) <= limit, NEW x,
         TakesString(kind, buf, p, m, g, s, x)
  PROVE  Reaches(f, buf, p0, x, p + Len(WriteBytes(<<g>>, s)))
<1>1. ASSUME At(buf, p + 1, WriteVarint(Digits(Len(s))) \o s), Len(s) < SizeLimit
      PROVE  InternalParse(kind, m, <<g>>, buf, p + 1) = ParseStart(x, ((p + 1) + SizeBytes(Len(s))) + Len(s))
  <2>1. buf \in Str /\ p + 1 \in Pos
    BY DEF Loop, Reaches, Pos
  <2>2. ReadString(buf, p + 1) = Read(TRUE, s, ((p + 1) + SizeBytes(Len(s))) + Len(s))
    BY <1>1, <2>1, ReadStringAt
  <2> QED
    BY <2>2 DEF TakesString
<1> QED
  BY <1>1, DelimitedRound

\* A string or bytes field that is left out when it is empty.
LEMMA BytesRound ==
  ASSUME NEW f, NEW kind, NEW buf, NEW p0, NEW limit, Loop(f, kind, buf, p0, limit),
         NEW m, NEW p, Reaches(f, buf, p0, m, p),
         NEW g \in Nat, g # 0, g < 128, NEW s \in Str, At(buf, p, BytesField(<<g>>, s)),
         p + Len(BytesField(<<g>>, s)) <= limit, NEW x, s = <<>> => x = m,
         TakesString(kind, buf, p, m, g, s, x)
  PROVE  Reaches(f, buf, p0, x, p + Len(BytesField(<<g>>, s)))
<1>1. CASE s = <<>>
  <2>1. BytesField(<<g>>, s) = <<>>
    BY <1>1 DEF BytesField
  <2>2. p + Len(<<>>) = p
    BY DEF Reaches, Pos
  <2> QED
    BY <1>1, <2>1, <2>2
<1>2. CASE s # <<>>
  <2>1. BytesField(<<g>>, s) = WriteBytes(<<g>>, s)
    BY <1>2 DEF BytesField
  <2>2. At(buf, p, WriteBytes(<<g>>, s)) /\ p + Len(WriteBytes(<<g>>, s)) <= limit
    BY <2>1
  <2>3. Reaches(f, buf, p0, x, p + Len(WriteBytes(<<g>>, s)))
    BY <2>2, WrittenRound
  <2> QED
    BY <2>1, <2>3
<1> QED
  BY <1>1, <1>2

\* The elements of a repeated field, when each is read.
LEMMA RepeatRound ==
  ASSUME NEW f, NEW kind, NEW buf, NEW p0, NEW limit, Loop(f, kind, buf, p0, limit),
         NEW s \in Seq(Str), NEW acc, NEW p, Reaches(f, buf, p0, acc[0], p),
         At(buf, p, JoinSeq(s)), p + Len(JoinSeq(s)) <= limit,
         \A i \in 1 .. Len(s) : \A q \in Pos :
            Reaches(f, buf, p0, acc[i - 1], q) /\ At(buf, q, s[i]) /\ q + Len(s[i]) <= limit
              => Reaches(f, buf, p0, acc[i], q + Len(s[i]))
  PROVE  Reaches(f, buf, p0, acc[Len(s)], p + Len(JoinSeq(s)))
<1> DEFINE n == Len(s)
           J == JoinSeq(s)
<1>1. buf \in Str /\ limit \in Nat /\ p \in Pos /\ p \in Nat /\ p >= 1 /\ n \in Nat
  BY LenProperties DEF Loop, Reaches, Pos
<1>2. PICK g : JoinRun(g, s) /\ \A i \in 0 .. Len(s) : g[i] \in Str
  BY JoinSteps
<1>3. /\ \A i \in 1 .. n : At(buf, p + Len(g[i - 1]), s[i]) /\ Len(g[i]) = Len(g[i - 1]) + Len(s[i])
      /\ \A i \in 1 .. n : Len(g[i]) <= Len(J)
  BY <1>1, <1>2, JoinAt
<1>4. g[0] = <<>> /\ g[n] = J /\ \A i \in 0 .. n : Len(g[i]) \in Nat
  BY <1>2, LenProperties DEF JoinRun, Str
<1>5. \A i \in 1 .. n : Len(s[i]) \in Nat
  <2>1. \A i \in 1 .. n : s[i] \in Str
    BY ElementOfSeq
  <2> QED
    BY <2>1, LenProperties DEF Str
<1> DEFINE Z == {k \in 0 .. n : Reaches(f, buf, p0, acc[k], p + Len(g[k]))}
<1>6. \A k \in 0 .. n : k \in Z
  <2>1. 0 \in Z
    <3>1. 0 \in 0 .. n /\ Len(g[0]) = 0 /\ p + 0 = p
      BY <1>1, <1>4
    <3> QED
      BY <3>1
  <2>2. ASSUME NEW j \in 0 .. n - 1, j \in Z PROVE j + 1 \in Z
    <3> DEFINE k == j + 1
               a == Len(g[j])
               b == Len(g[k])
               c == Len(s[k])
               q == p + a
    <3>1. k \in 1 .. n /\ k - 1 = j /\ k \in 0 .. n /\ j \in 0 .. n
      BY <1>1
    <3>2. Reaches(f, buf, p0, acc[j], q)
      BY <2>2
    <3>3. At(buf, q, s[k]) /\ b = a + c /\ b <= Len(J)
      BY <1>3, <3>1
    <3>4. a \in Nat /\ b \in Nat /\ c \in Nat /\ Len(J) \in Nat
      <4>1. n \in 0 .. n
        BY <1>1
      <4> QED
        BY <1>4, <1>5, <3>1, <4>1
    <3>5. q \in Pos
      BY <1>1, <3>4 DEF Pos
    <3> DEFINE l == Len(J)
    <3>6. p + l <= limit
      OBVIOUS
    <3> HIDE DEF a, b, c, l
    <3>7. q + c <= limit /\ q + c = p + b
      BY <1>1, <3>3, <3>4, <3>6 DEF l
    <3>8. Reaches(f, buf, p0, acc[k], q + c)
      <4> HIDE DEF q, k
      <4>1. q + Len(s[k]) <= limit
        BY <3>7 DEF c
      <4>2. Reaches(f, buf, p0, acc[k - 1], q)
        BY <3>1, <3>2
      <4>3. Reaches(f, buf, p0, acc[k], q + Len(s[k]))
        BY <3>1, <3>3, <3>5, <4>1, <4>2
      <4> QED
        BY <4>3 DEF c
    <3> QED
      BY <3>1, <3>7, <3>8 DEF b
  <2> HIDE DEF Z
  <2>3. 0 \in Nat /\ \A j \in 0 .. n - 1 : j \in Z => j + 1 \in Z
    BY <2>2
  <2> HIDE DEF n
  <2> QED
    BY <1>1, <2>1, <2>3, UpTo
<1>7. n \in 0 .. n
  BY <1>1
<1>8. Reaches(f, buf, p0, acc[n], p + Len(g[n]))
  BY <1>6, <1>7
<1> QED
  BY <1>4, <1>8

\* Once it is at the limit, or past the input, the loop stays there.
LEMMA LoopEnds ==
  ASSUME NEW f, NEW kind, NEW buf, NEW p0, NEW limit, Loop(f, kind, buf, p0, limit),
         NEW r, NEW k \in 0 .. Len(buf), f[k] = r,
         ~r.ok \/ r.stop \/ r.pos >= limit \/ r.pos > Len(buf)
  PROVE  f[Len(buf)] = r
<1> DEFINE n == Len(buf)
           Z == {j \in 0 .. n : f[j] = r}
<1>1. n \in Nat /\ \A j \in 1 .. n : f[j] = Round(kind, f[j - 1], buf, limit)
  BY LenProperties DEF Loop, Str
<1>2. Round(kind, r, buf, limit) = r
  BY DEF Round, NextField
<1>3. \A j \in k .. n : j \in Z
  <2>1. k \in Z /\ k \in Nat
    BY <1>1
  <2>2. ASSUME NEW j \in k .. n - 1, j \in Z PROVE j + 1 \in Z
    <3>1. j + 1 \in 1 .. n /\ (j + 1) - 1 = j /\ j + 1 \in 0 .. n
      BY <1>1
    <3>2. f[j] = r
      BY <2>2
    <3>3. f[j + 1] = Round(kind, f[j], buf, limit)
      BY <1>1, <3>1
    <3> QED
      BY <1>2, <3>1, <3>2, <3>3
  <2> HIDE DEF Z
  <2>3. \A j \in k .. n - 1 : j \in Z => j + 1 \in Z
    BY <2>2
  <2> HIDE DEF n
  <2> QED
    BY <1>1, <2>1, <2>3, UpTo
<1>4. n \in k .. n
  BY <1>1
<1> QED
  BY <1>3, <1>4
-----------------------------------------------------------------------------
(* The pieces of a message.                                                 *)

\* The loop reads the bytes s, wherever they are, and makes x of the message m.
Piece(f, buf, p0, limit, m, s, x) ==
  \A p : /\ Reaches(f, buf, p0, m, p) /\ At(buf, p, s) /\ p + Len(s) <= limit
         => Reaches(f, buf, p0, x, p + Len(s))

\* Nothing,
LEMMA PieceEmpty ==
  ASSUME NEW f, NEW buf, NEW p0, NEW limit, NEW m
  PROVE  Piece(f, buf, p0, limit, m, <<>>, m)
<1> SUFFICES ASSUME NEW p, Reaches(f, buf, p0, m, p) PROVE Reaches(f, buf, p0, m, p + Len(<<>>))
  BY DEF Piece
<1>1. p + Len(<<>>) = p
  BY DEF Reaches, Pos
<1> QED
  BY <1>1

\* one piece after the other,
LEMMA PieceConcat ==
  ASSUME NEW f, NEW kind, NEW buf, NEW p0, NEW limit, Loop(f, kind, buf, p0, limit),
         NEW m, NEW s \in Str, NEW x, NEW t \in Str, NEW y,
         Piece(f, buf, p0, limit, m, s, x), Piece(f, buf, p0, limit, x, t, y)
  PROVE  Piece(f, buf, p0, limit, m, s \o t, y)
<1> SUFFICES ASSUME NEW p, Reaches(f, buf, p0, m, p), At(buf, p, s \o t), p + Len(s \o t) <= limit
             PROVE  Reaches(f, buf, p0, y, p + Len(s \o t))
  BY DEF Piece
<1> DEFINE a == Len(s)
           b == Len(t)
           q == p + a
<1>1. buf \in Str /\ p \in Pos /\ limit \in Nat
  BY DEF Loop, Reaches
<1>2. At(buf, p, s) /\ At(buf, q, t) /\ q \in Pos /\ a \in Nat /\ b \in Nat /\ Len(s \o t) = a + b
  BY <1>1, AtConcat
<1>3. p + (a + b) <= limit
  BY <1>2
<1> HIDE DEF a, b
<1>4. q + b = p + (a + b) /\ q + b <= limit /\ q <= limit
  BY <1>1, <1>2, <1>3 DEF Pos
<1> HIDE DEF q
<1>5. Reaches(f, buf, p0, x, q)
  BY <1>2, <1>4 DEF Piece, q, a
<1>6. Reaches(f, buf, p0, y, q + b)
  BY <1>2, <1>4, <1>5 DEF Piece, b
<1> QED
  BY <1>2, <1>4, <1>6

\* a varint field,
LEMMA VarintPiece ==
  ASSUME NEW f, NEW kind, NEW buf, NEW p0, NEW limit, Loop(f, kind, buf, p0, limit),
         NEW m, NEW g \in Nat, g # 0, g < 128, NEW d \in Digits64, NEW x,
         d = <<>> => x = m, d # <<>> => \A p \in Pos : TakesVarint(kind, buf, p, m, g, d, x)
  PROVE  Piece(f, buf, p0, limit, m, VarintField(<<g>>, d), x)
<1> SUFFICES ASSUME NEW p, Reaches(f, buf, p0, m, p), At(buf, p, VarintField(<<g>>, d)),
                    p + Len(VarintField(<<g>>, d)) <= limit
             PROVE  Reaches(f, buf, p0, x, p + Len(VarintField(<<g>>, d)))
  BY DEF Piece
<1>1. p \in Pos
  BY DEF Reaches
<1>2. CASE d = <<>>
  <2>1. VarintField(<<g>>, d) = <<>>
    BY <1>2 DEF VarintField
  <2>2. p + Len(<<>>) = p
    BY <1>1 DEF Pos
  <2> QED
    BY <1>2, <2>1, <2>2
<1>3. CASE d # <<>>
  <2>1. TakesVarint(kind, buf, p, m, g, d, x)
    BY <1>1, <1>3
  <2> QED
    BY <1>3, <2>1, VarintRound
<1> QED
  BY <1>2, <1>3

\* a string or bytes field,
LEMMA BytesPiece ==
  ASSUME NEW f, NEW kind, NEW buf, NEW p0, NEW limit, Loop(f, kind, buf, p0, limit),
         NEW m, NEW g \in Nat, g # 0, g < 128, NEW s \in Str, NEW x,
         s = <<>> => x = m, s # <<>> => \A p \in Pos : TakesString(kind, buf, p, m, g, s, x)
  PROVE  Piece(f, buf, p0, limit, m, BytesField(<<g>>, s), x)
<1> SUFFICES ASSUME NEW p, Reaches(f, buf, p0, m, p), At(buf, p, BytesField(<<g>>, s)),
                    p + Len(BytesField(<<g>>, s)) <= limit
             PROVE  Reaches(f, buf, p0, x, p + Len(BytesField(<<g>>, s)))
  BY DEF Piece
<1>1. p \in Pos
  BY DEF Reaches
<1>2. CASE s = <<>>
  <2>1. BytesField(<<g>>, s) = <<>>
    BY <1>2 DEF BytesField
  <2>2. p + Len(<<>>) = p
    BY <1>1 DEF Pos
  <2> QED
    BY <1>2, <2>1, <2>2
<1>3. CASE s # <<>>
  <2>1. TakesString(kind, buf, p, m, g, s, x)
    BY <1>1, <1>3
  <2> QED
    BY <1>3, <2>1, BytesRound
<1> QED
  BY <1>2, <1>3

\* the elements of a repeated field.
LEMMA RepeatPiece ==
  ASSUME NEW f, NEW kind, NEW buf, NEW p0, NEW limit, Loop(f, kind, buf, p0, limit),
         NEW s \in Seq(Str), NEW acc,
         \A i \in 1 .. Len(s) : Piece(f, buf, p0, limit, acc[i - 1], s[i], acc[i])
  PROVE  Piece(f, buf, p0, limit, acc[0], JoinSeq(s), acc[Len(s)])
<1> SUFFICES ASSUME NEW p, Reaches(f, buf, p0, acc[0], p), At(buf, p, JoinSeq(s)), p + Len(JoinSeq(s)) <= limit
             PROVE  Reaches(f, buf, p0, acc[Len(s)], p + Len(JoinSeq(s)))
  BY DEF Piece
<1>1. ASSUME NEW i \in 1 .. Len(s), NEW q \in Pos,
             Reaches(f, buf, p0, acc[i - 1], q), At(buf, q, s[i]), q + Len(s[i]) <= limit
      PROVE  Reaches(f, buf, p0, acc[i], q + Len(s[i]))
  BY <1>1 DEF Piece
<1> QED
  BY <1>1, RepeatRound
-----------------------------------------------------------------------------
(* The messages that are built with the accessors.                          *)

Utf8 == {s \in Str : IsUtf8(s)}
\* What a bool is written as.
Bools == {<<>>, <<1>>}

oneInfoPlain == [key : Digits64, data : Str, unk : {<<>>}]
PushReqPlain == [infos : Seq(oneInfoPlain), unk : {<<>>}]
PushRspPlain == [errCode : DigitsInt32, errDesc : Utf8, unk : {<<>>}]
PullReqPlain == [keys : Seq(Digits64), field : Seq(Digits32), unk : {<<>>}]
PullRspPlain == [errCode : DigitsInt32, errDesc : Utf8, data : Seq(Str), unk : {<<>>}]
DelCacheReqPlain  == [key : Digits64, unk : {<<>>}]
DelCacheRspPlain  == [succ : Bools, unk : {<<>>}]
HelloRequestPlain == [name : Utf8, unk : {<<>>}]
HelloReplyPlain   == [message : Utf8, unk : {<<>>}]
TestPbPlain == [sence : Utf8, tablename : Utf8, page : DigitsInt32, unk : {<<>>}]

\* Numbers in range and in their shortest form, strings in UTF-8, nothing unknown.
Plain(t) ==
  CASE t = "oneInfo"      -> oneInfoPlain
    [] t = "PushReq"      -> PushReqPlain
    [] t = "PushRsp"      -> PushRspPlain
    [] t = "PullReq"      -> PullReqPlain
    [] t = "PullRsp"      -> PullRspPlain
    [] t = "DelCacheReq"  -> DelCacheReqPlain
    [] t = "DelCacheRsp"  -> DelCacheRspPlain
    [] t = "HelloRequest" -> HelloRequestPlain
    [] t = "HelloReply"   -> HelloReplyPlain
    [] t = "TestPb"       -> TestPbPlain

\* The sets of values that fields may have.
LEMMA ValuesAre ==
  /\ \A d \in Digits64 : d \in Str
  /\ \A d \in DigitsInt32 : d \in Digits64 /\ Int32(d) = d
  /\ \A d \in Digits32 : d \in Digits64 /\ UInt32(d) = d
  /\ \A d \in {<<>>, <<1>>} : d \in Digits64 /\ Bool(d) = d
  /\ \A s \in Utf8 : s \in Str /\ IsUtf8(s)
<1>1. \A d \in Digits64 : d \in Str
  BY DEF Digits64
<1>2. ASSUME NEW d \in DigitsInt32 PROVE d \in Digits64 /\ Int32(d) = d
  <2>1. d \in Digits64
    BY DEF DigitsInt32
  <2> QED
    BY <2>1, Int32Digits
<1>3. ASSUME NEW d \in Digits32 PROVE d \in Digits64 /\ UInt32(d) = d
  <2>1. d \in Digits64
    BY DEF Digits32
  <2> QED
    BY <2>1, UInt32Digits
<1>4. <<>> \in Digits64 /\ <<1>> \in Digits64
  <2> DEFINE z == 0
             o == 1
  <2>1. z \in Nat /\ z < 128 /\ z = 0 /\ o \in Nat /\ o < 128 /\ o # 0
    OBVIOUS
  <2> HIDE DEF z, o
  <2>2. Digits(z) \in Digits64 /\ Digits(z) = (IF z = 0 THEN <<>> ELSE <<z>>)
    BY <2>1, SmallDigits
  <2>3. Digits(o) \in Digits64 /\ Digits(o) = (IF o = 0 THEN <<>> ELSE <<o>>)
    BY <2>1, SmallDigits
  <2> QED
    BY <2>1, <2>2, <2>3 DEF o
<1>5. \A d \in {<<>>, <<1>>} : Bool(d) = d
  BY DEF Bool
<1>6. \A s \in Utf8 : s \in Str /\ IsUtf8(s)
  BY DEF Utf8
<1> QED
  BY <1>1, <1>2, <1>3, <1>4, <1>5, <1>6

\* The field key of a oneInfo is read as it was written.
LEMMA oneInfo_keyPiece ==
  ASSUME NEW f, NEW buf, NEW p0, NEW limit, Loop(f, "oneInfo", buf, p0, limit),
         NEW m \in oneInfoMsgs, NEW d \in Digits64
  PROVE  /\ Piece(f, buf, p0, limit, m, VarintField(<<8>>, d), [m EXCEPT !.key = Newer(m.key, d)])
         /\ [m EXCEPT !.key = Newer(m.key, d)] \in oneInfoMsgs /\ VarintField(<<8>>, d) \in Str
<1> DEFINE x == [m EXCEPT !.key = Newer(m.key, d)]
           g == 8
<1>1. d \in Digits64 /\ d \in Str
  BY ValuesAre
<1>2. d = <<>> => x = m
  <2> SUFFICES ASSUME d = <<>> PROVE x = m
    OBVIOUS
  <2>1. Newer(m.key, d) = m.key
    BY DEF Newer
  <2> QED
    BY <2>1 DEF oneInfoMsgs
<1>3. ASSUME d # <<>>, NEW p \in Pos PROVE TakesVarint("oneInfo", buf, p, m, 8, d, x)
  <2> SUFFICES ASSUME NEW e, ReadVarint(buf, p + 1, 10) = Read(TRUE, d, e)
               PROVE  InternalParse("oneInfo", m, <<8>>, buf, p + 1) = ParseStart(x, e)
    BY DEF TakesVarint
  <2> DEFINE v == ReadVarint(buf, p + 1, 10)
  <2>1. v = Read(TRUE, d, e)
    OBVIOUS
  <2>2. InternalParse("oneInfo", m, <<8>>, buf, p + 1) = Parsed(v, [m EXCEPT !.key = v.val])
    BY DEF InternalParse, oneInfo_InternalParse
  <2> HIDE DEF v
  <2>3. v.val = d
    BY <2>1 DEF Read
  <2>4. [m EXCEPT !.key = v.val] = x
    BY <1>1, <1>3, <2>3 DEF Newer
  <2> HIDE DEF x
  <2> QED
    BY <2>1, <2>2, <2>3, <2>4, ParsedRead
<1>4. x \in oneInfoMsgs
  BY <1>1, NewerType DEF oneInfoMsgs, Newer
<1>5. g \in Nat /\ g # 0 /\ g < 128 /\ \A p \in Pos : d # <<>> => TakesVarint("oneInfo", buf, p, m, g, d, x)
  BY <1>3
<1> HIDE DEF x, g
<1>6. Piece(f, buf, p0, limit, m, VarintField(<<g>>, d), x)
  BY <1>1, <1>2, <1>5, VarintPiece
<1>7. VarintField(<<g>>, d) \in Str
  BY <1>1, <1>5, TagsAre, FieldSizes
<1> QED
  BY <1>4, <1>6, <1>7 DEF x, g

\* The field data of a oneInfo is read as it was written.
LEMMA oneInfo_dataPiece ==
  ASSUME NEW f, NEW buf, NEW p0, NEW limit, Loop(f, "oneInfo", buf, p0, limit),
         NEW m \in oneInfoMsgs, NEW d \in Str
  PROVE  /\ Piece(f, buf, p0, limit, m, BytesField(<<18>>, d), [m EXCEPT !.data = Newer(m.data, d)])
         /\ [m EXCEPT !.data = Newer(m.data, d)] \in oneInfoMsgs /\ BytesField(<<18>>, d) \in Str
<1> DEFINE x == [m EXCEPT !.data = Newer(m.data, d)]
           g == 18
<1>1. d \in Str /\ d \in Str
  BY ValuesAre
<1>2. d = <<>> => x = m
  <2> SUFFICES ASSUME d = <<>> PROVE x = m
    OBVIOUS
  <2>1. Newer(m.data, d) = m.data
    BY DEF Newer
  <2> QED
    BY <2>1 DEF oneInfoMsgs
<1>3. ASSUME d # <<>>, NEW p \in Pos PROVE TakesString("oneInfo", buf, p, m, 18, d, x)
  <2> SUFFICES ASSUME NEW e, ReadString(buf, p + 1) = Read(TRUE, d, e)
               PROVE  InternalParse("oneInfo", m, <<18>>, buf, p + 1) = ParseStart(x, e)
    BY DEF TakesString
  <2> DEFINE v == ReadString(buf, p + 1)
  <2>1. v = Read(TRUE, d, e)
    OBVIOUS
  <2>2. InternalParse("oneInfo", m, <<18>>, buf, p + 1) = Parsed(v, [m EXCEPT !.data = v.val])
    BY DEF InternalParse, oneInfo_InternalParse
  <2> HIDE DEF v
  <2>3. v.val = d
    BY <2>1 DEF Read
  <2>4. [m EXCEPT !.data = v.val] = x
    BY <1>1, <1>3, <2>3 DEF Newer
  <2> HIDE DEF x
  <2> QED
    BY <2>1, <2>2, <2>3, <2>4, ParsedRead
<1>4. x \in oneInfoMsgs
  BY <1>1, NewerType DEF oneInfoMsgs, Newer
<1>5. g \in Nat /\ g # 0 /\ g < 128 /\ \A p \in Pos : d # <<>> => TakesString("oneInfo", buf, p, m, g, d, x)
  BY <1>3
<1> HIDE DEF x, g
<1>6. Piece(f, buf, p0, limit, m, BytesField(<<g>>, d), x)
  BY <1>1, <1>2, <1>5, BytesPiece
<1>7. BytesField(<<g>>, d) \in Str
  BY <1>1, <1>5, TagsAre, FieldSizes
<1> QED
  BY <1>4, <1>6, <1>7 DEF x, g

\* A oneInfo is read as it was written, and merged into what was read before.
LEMMA oneInfoMerges ==
  ASSUME NEW f, NEW buf, NEW p0, NEW limit, Loop(f, "oneInfo", buf, p0, limit),
         NEW m \in oneInfoMsgs, NEW x \in oneInfoPlain
  PROVE  Piece(f, buf, p0, limit, m, oneInfo_InternalSerialize(x), oneInfo_MergeFrom(m, x))
<1> DEFINE s1 == VarintField(<<8>>, x.key)
           m1 == [m EXCEPT !.key = Newer(m.key, x.key)]
           s2 == BytesField(<<18>>, x.data)
           m2 == [m1 EXCEPT !.data = Newer(m1.data, x.data)]
<1>1. x.key \in Digits64 /\ x.data \in Str /\ x.unk = <<>>
  BY DEF oneInfoPlain
<1>2. oneInfo_InternalSerialize(x) = s1 \o s2 \o <<>>
  BY <1>1 DEF oneInfo_InternalSerialize
<1>3. m2 = oneInfo_MergeFrom(m, x)
  <2>1. m.unk \in Seq(Nat)
    BY DEF oneInfoMsgs, Str
  <2>2. m.unk \o <<>> = m.unk
    BY <2>1, ConcatEmptySeq
  <2>3. oneInfo_MergeFrom(m, x) = [key |-> Newer(m.key, x.key), data |-> Newer(m.data, x.data), unk |-> m.unk]
    BY <1>1, <2>2 DEF oneInfo_MergeFrom
  <2>4. m1 = [key |-> Newer(m.key, x.key), data |-> m.data, unk |-> m.unk]
    BY DEF oneInfoMsgs
  <2> HIDE DEF m1
  <2>5. m2 = [key |-> Newer(m.key, x.key), data |-> Newer(m.data, x.data), unk |-> m.unk]
    BY <2>4
  <2> QED
    BY <2>3, <2>5
<1>4. Piece(f, buf, p0, limit, m, s1, m1) /\ m1 \in oneInfoMsgs /\ s1 \in Str
  BY <1>1, oneInfo_keyPiece
<1> HIDE DEF s1, m1
<1>5. Piece(f, buf, p0, limit, m1, s2, m2) /\ m2 \in oneInfoMsgs /\ s2 \in Str
  BY <1>1, <1>4, oneInfo_dataPiece
<1> HIDE DEF s2, m2
<1>6. Piece(f, buf, p0, limit, m2, <<>>, m2) /\ <<>> \in Str
  BY PieceEmpty, EmptySeq DEF Str
<1>7. Piece(f, buf, p0, limit, m, s1 \o s2, m2) /\ s1 \o s2 \in Str
  BY <1>4, <1>5, PieceConcat, StrConcat
<1> DEFINE t2 == s1 \o s2
<1>8. Piece(f, buf, p0, limit, m, t2, m2) /\ t2 \in Str
  BY <1>7
<1> HIDE DEF t2
<1>9. Piece(f, buf, p0, limit, m, t2 \o <<>>, m2)
  BY <1>8, <1>6, PieceConcat
<1> QED
  BY <1>2, <1>3, <1>9 DEF t2

\* The field errCode of a PushRsp is read as it was written.
LEMMA PushRsp_errCodePiece ==
  ASSUME NEW f, NEW buf, NEW p0, NEW limit, Loop(f, "PushRsp", buf, p0, limit),
         NEW m \in PushRspMsgs, NEW d \in DigitsInt32
  PROVE  /\ Piece(f, buf, p0, limit, m, VarintField(<<8>>, d), [m EXCEPT !.errCode = Newer(m.errCode, d)])
         /\ [m EXCEPT !.errCode = Newer(m.errCode, d)] \in PushRspMsgs /\ VarintField(<<8>>, d) \in Str
<1> DEFINE x == [m EXCEPT !.errCode = Newer(m.errCode, d)]
           g == 8
<1>1. d \in Digits64 /\ d \in Str /\ Int32(d) = d
  BY ValuesAre
<1>2. d = <<>> => x = m
  <2> SUFFICES ASSUME d = <<>> PROVE x = m
    OBVIOUS
  <2>1. Newer(m.errCode, d) = m.errCode
    BY DEF Newer
  <2> QED
    BY <2>1 DEF PushRspMsgs
<1>3. ASSUME d # <<>>, NEW p \in Pos PROVE TakesVarint("PushRsp", buf, p, m, 8, d, x)
  <2> SUFFICES ASSUME NEW e, ReadVarint(buf, p + 1, 10) = Read(TRUE, d, e)
               PROVE  InternalParse("PushRsp", m, <<8>>, buf, p + 1) = ParseStart(x, e)
    BY DEF TakesVarint
  <2> DEFINE v == ReadVarint(buf, p + 1, 10)
  <2>1. v = Read(TRUE, d, e)
    OBVIOUS
  <2>2. InternalParse("PushRsp", m, <<8>>, buf, p + 1) = Parsed(v, [m EXCEPT !.errCode = Int32(v.val)])
    BY DEF InternalParse, PushRsp_InternalParse, PushRsp_set_errcode
  <2> HIDE DEF v
  <2>3. v.val = d
    BY <2>1 DEF Read
  <2>4. [m EXCEPT !.errCode = Int32(v.val)] = x
    BY <1>1, <1>3, <2>3 DEF Newer
  <2> HIDE DEF x
  <2> QED
    BY <2>1, <2>2, <2>3, <2>4, ParsedRead
<1>4. x \in PushRspMsgs
  BY <1>1, NewerType DEF PushRspMsgs, Newer
<1>5. g \in Nat /\ g # 0 /\ g < 128 /\ \A p \in Pos : d # <<>> => TakesVarint("PushRsp", buf, p, m, g, d, x)
  BY <1>3
<1> HIDE DEF x, g
<1>6. Piece(f, buf, p0, limit, m, VarintField(<<g>>, d), x)
  BY <1>1, <1>2, <1>5, VarintPiece
<1>7. VarintField(<<g>>, d) \in Str
  BY <1>1, <1>5, TagsAre, FieldSizes
<1> QED
  BY <1>4, <1>6, <1>7 DEF x, g

\* The field errDesc of a PushRsp is read as it was written.
LEMMA PushRsp_errDescPiece ==
  ASSUME NEW f, NEW buf, NEW p0, NEW limit, Loop(f, "PushRsp", buf, p0, limit),
         NEW m \in PushRspMsgs, NEW d \in Utf8
  PROVE  /\ Piece(f, buf, p0, limit, m, BytesField(<<18>>, d), [m EXCEPT !.errDesc = Newer(m.errDesc, d)])
         /\ [m EXCEPT !.errDesc = Newer(m.errDesc, d)] \in PushRspMsgs /\ BytesField(<<18>>, d) \in Str
<1> DEFINE x == [m EXCEPT !.errDesc = Newer(m.errDesc, d)]
           g == 18
<1>1. d \in Str /\ d \in Str /\ IsUtf8(d)
  BY ValuesAre
<1>2. d = <<>> => x = m
  <2> SUFFICES ASSUME d = <<>> PROVE x = m
    OBVIOUS
  <2>1. Newer(m.errDesc, d) = m.errDesc
    BY DEF Newer
  <2> QED
    BY <2>1 DEF PushRspMsgs
<1>3. ASSUME d # <<>>, NEW p \in Pos PROVE TakesString("PushRsp", buf, p, m, 18, d, x)
  <2> SUFFICES ASSUME NEW e, ReadString(buf, p + 1) = Read(TRUE, d, e)
               PROVE  InternalParse("PushRsp", m, <<18>>, buf, p + 1) = ParseStart(x, e)
    BY DEF TakesString
  <2> DEFINE v == ReadString(buf, p + 1)
             u == [v EXCEPT !.ok = @ /\ IsUtf8(v.val)]
  <2>1. v = Read(TRUE, d, e)
    OBVIOUS
  <2>2. InternalParse("PushRsp", m, <<18>>, buf, p + 1) = Parsed(u, [m EXCEPT !.errDesc = v.val])
    BY DEF InternalParse, PushRsp_InternalParse, PushRsp_set_errdesc
  <2> HIDE DEF v
  <2>3. v.val = d /\ u = Read(TRUE, d, e)
    BY <1>1, <2>1 DEF Read
  <2> HIDE DEF u
  <2>4. [m EXCEPT !.errDesc = v.val] = x
    BY <1>1, <1>3, <2>3 DEF Newer
  <2> HIDE DEF x
  <2> QED
    BY <2>1, <2>2, <2>3, <2>4, ParsedRead
<1>4. x \in PushRspMsgs
  BY <1>1, NewerType DEF PushRspMsgs, Newer
<1>5. g \in Nat /\ g # 0 /\ g < 128 /\ \A p \in Pos : d # <<>> => TakesString("PushRsp", buf, p, m, g, d, x)
  BY <1>3
<1> HIDE DEF x, g
<1>6. Piece(f, buf, p0, limit, m, BytesField(<<g>>, d), x)
  BY <1>1, <1>2, <1>5, BytesPiece
<1>7. BytesField(<<g>>, d) \in Str
  BY <1>1, <1>5, TagsAre, FieldSizes
<1> QED
  BY <1>4, <1>6, <1>7 DEF x, g

\* A PushRsp is read as it was written, and merged into what was read before.
LEMMA PushRspMerges ==
  ASSUME NEW f, NEW buf, NEW p0, NEW limit, Loop(f, "PushRsp", buf, p0, limit),
         NEW m \in PushRspMsgs, NEW x \in PushRspPlain
  PROVE  Piece(f, buf, p0, limit, m, PushRsp_InternalSerialize(x), PushRsp_MergeFrom(m, x))
<1> DEFINE s1 == VarintField(<<8>>, x.errCode)
           m1 == [m EXCEPT !.errCode = Newer(m.errCode, x.errCode)]
           s2 == BytesField(<<18>>, x.errDesc)
           m2 == [m1 EXCEPT !.errDesc = Newer(m1.errDesc, x.errDesc)]
<1>1. x.errCode \in DigitsInt32 /\ x.errDesc \in Utf8 /\ x.unk = <<>>
  BY DEF PushRspPlain
<1>2. PushRsp_InternalSerialize(x) = s1 \o s2 \o <<>>
  BY <1>1 DEF PushRsp_InternalSerialize
<1>3. m2 = PushRsp_MergeFrom(m, x)
  <2>1. m.unk \in Seq(Nat)
    BY DEF PushRspMsgs, Str
  <2>2. m.unk \o <<>> = m.unk
    BY <2>1, ConcatEmptySeq
  <2>3. PushRsp_MergeFrom(m, x) = [errCode |-> Newer(m.errCode, x.errCode), errDesc |-> Newer(m.errDesc, x.errDesc), unk |-> m.unk]
    BY <1>1, <2>2 DEF PushRsp_MergeFrom
  <2>4. m1 = [errCode |-> Newer(m.errCode, x.errCode), errDesc |-> m.errDesc, unk |-> m.unk]
    BY DEF PushRspMsgs
  <2> HIDE DEF m1
  <2>5. m2 = [errCode |-> Newer(m.errCode, x.errCode), errDesc |-> Newer(m.errDesc, x.errDesc), unk |-> m.unk]
    BY <2>4
  <2> QED
    BY <2>3, <2>5
<1>4. Piece(f, buf, p0, limit, m, s1, m1) /\ m1 \in PushRspMsgs /\ s1 \in Str
  BY <1>1, PushRsp_errCodePiece
<1> HIDE DEF s1, m1
<1>5. Piece(f, buf, p0, limit, m1, s2, m2) /\ m2 \in PushRspMsgs /\ s2 \in Str
  BY <1>1, <1>4, PushRsp_errDescPiece
<1> HIDE DEF s2, m2
<1>6. Piece(f, buf, p0, limit, m2, <<>>, m2) /\ <<>> \in Str
  BY PieceEmpty, EmptySeq DEF Str
<1>7. Piece(f, buf, p0, limit, m, s1 \o s2, m2) /\ s1 \o s2 \in Str
  BY <1>4, <1>5, PieceConcat, StrConcat
<1> DEFINE t2 == s1 \o s2
<1>8. Piece(f, buf, p0, limit, m, t2, m2) /\ t2 \in Str
  BY <1>7
<1> HIDE DEF t2
<1>9. Piece(f, buf, p0, limit, m, t2 \o <<>>, m2)
  BY <1>8, <1>6, PieceConcat
<1> QED
  BY <1>2, <1>3, <1>9 DEF t2

\* The field key of a DelCacheReq is read as it was written.
LEMMA DelCacheReq_keyPiece ==
  ASSUME NEW f, NEW buf, NEW p0, NEW limit, Loop(f, "DelCacheReq", buf, p0, limit),
         NEW m \in DelCacheReqMsgs, NEW d \in Digits64
  PROVE  /\ Piece(f, buf, p0, limit, m, VarintField(<<8>>, d), [m EXCEPT !.key = Newer(m.key, d)])
         /\ [m EXCEPT !.key = Newer(m.key, d)] \in DelCacheReqMsgs /\ VarintField(<<8>>, d) \in Str
<1> DEFINE x == [m EXCEPT !.key = Newer(m.key, d)]
           g == 8
<1>1. d \in Digits64 /\ d \in Str
  BY ValuesAre
<1>2. d = <<>> => x = m
  <2> SUFFICES ASSUME d = <<>> PROVE x = m
    OBVIOUS
  <2>1. Newer(m.key, d) = m.key
    BY DEF Newer
  <2> QED
    BY <2>1 DEF DelCacheReqMsgs
<1>3. ASSUME d # <<>>, NEW p \in Pos PROVE TakesVarint("DelCacheReq", buf, p, m, 8, d, x)
  <2> SUFFICES ASSUME NEW e, ReadVarint(buf, p + 1, 10) = Read(TRUE, d, e)
               PROVE  InternalParse("DelCacheReq", m, <<8>>, buf, p + 1) = ParseStart(x, e)
    BY DEF TakesVarint
  <2> DEFINE v == ReadVarint(buf, p + 1, 10)
  <2>1. v = Read(TRUE, d, e)
    OBVIOUS
  <2>2. InternalParse("DelCacheReq", m, <<8>>, buf, p + 1) = Parsed(v, [m EXCEPT !.key = v.val])
    BY DEF InternalParse, DelCacheReq_InternalParse
  <2> HIDE DEF v
  <2>3. v.val = d
    BY <2>1 DEF Read
  <2>4. [m EXCEPT !.key = v.val] = x
    BY <1>1, <1>3, <2>3 DEF Newer
  <2> HIDE DEF x
  <2> QED
    BY <2>1, <2>2, <2>3, <2>4, ParsedRead
<1>4. x \in DelCacheReqMsgs
  BY <1>1, NewerType DEF DelCacheReqMsgs, Newer
<1>5. g \in Nat /\ g # 0 /\ g < 128 /\ \A p \in Pos : d # <<>> => TakesVarint("DelCacheReq", buf, p, m, g, d, x)
  BY <1>3
<1> HIDE DEF x, g
<1>6. Piece(f, buf, p0, limit, m, VarintField(<<g>>, d), x)
  BY <1>1, <1>2, <1>5, VarintPiece
<1>7. VarintField(<<g>>, d) \in Str
  BY <1>1, <1>5, TagsAre, FieldSizes
<1> QED
  BY <1>4, <1>6, <1>7 DEF x, g

\* A DelCacheReq is read as it was written, and merged into what was read before.
LEMMA DelCacheReqMerges ==
  ASSUME NEW f, NEW buf, NEW p0, NEW limit, Loop(f, "DelCacheReq", buf, p0, limit),
         NEW m \in DelCacheReqMsgs, NEW x \in DelCacheReqPlain
  PROVE  Piece(f, buf, p0, limit, m, DelCacheReq_InternalSerialize(x), DelCacheReq_MergeFrom(m, x))
<1> DEFINE s1 == VarintField(<<8>>, x.key)
           m1 == [m EXCEPT !.key = Newer(m.key, x.key)]
<1>1. x.key \in Digits64 /\ x.unk = <<>>
  BY DEF DelCacheReqPlain
<1>2. DelCacheReq_InternalSerialize(x) = s1 \o <<>>
  BY <1>1 DEF DelCacheReq_InternalSerialize
<1>3. m1 = DelCacheReq_MergeFrom(m, x)
  <2>1. m.unk \in Seq(Nat)
    BY DEF DelCacheReqMsgs, Str
  <2>2. m.unk \o <<>> = m.unk
    BY <2>1, ConcatEmptySeq
  <2>3. DelCacheReq_MergeFrom(m, x) = [key |-> Newer(m.key, x.key), unk |-> m.unk]
    BY <1>1, <2>2 DEF DelCacheReq_MergeFrom
  <2>4. m1 = [key |-> Newer(m.key, x.key), unk |-> m.unk]
    BY DEF DelCacheReqMsgs
  <2> QED
    BY <2>3, <2>4
<1>4. Piece(f, buf, p0, limit, m, s1, m1) /\ m1 \in DelCacheReqMsgs /\ s1 \in Str
  BY <1>1, DelCacheReq_keyPiece
<1> HIDE DEF s1, m1
<1>5. Piece(f, buf, p0, limit, m1, <<>>, m1) /\ <<>> \in Str
  BY PieceEmpty, EmptySeq DEF Str
<1>6. Piece(f, buf, p0, limit, m, s1 \o <<>>, m1)
  BY <1>4, <1>5, PieceConcat
<1> QED
  BY <1>2, <1>3, <1>6

\* The field succ of a DelCacheRsp is read as it was written.
LEMMA DelCacheRsp_succPiece ==
  ASSUME NEW f, NEW buf, NEW p0, NEW limit, Loop(f, "DelCacheRsp", buf, p0, limit),
         NEW m \in DelCacheRspMsgs, NEW d \in Bools
  PROVE  /\ Piece(f, buf, p0, limit, m, VarintField(<<8>>, d), [m EXCEPT !.succ = Newer(m.succ, d)])
         /\ [m EXCEPT !.succ = Newer(m.succ, d)] \in DelCacheRspMsgs /\ VarintField(<<8>>, d) \in Str
<1> DEFINE x == [m EXCEPT !.succ = Newer(m.succ, d)]
           g == 8
<1>1. d \in Digits64 /\ d \in Str /\ Bool(d) = d
  BY ValuesAre DEF Bools
<1>2. d = <<>> => x = m
  <2> SUFFICES ASSUME d = <<>> PROVE x = m
    OBVIOUS
  <2>1. Newer(m.succ, d) = m.succ
    BY DEF Newer
  <2> QED
    BY <2>1 DEF DelCacheRspMsgs
<1>3. ASSUME d # <<>>, NEW p \in Pos PROVE TakesVarint("DelCacheRsp", buf, p, m, 8, d, x)
  <2> SUFFICES ASSUME NEW e, ReadVarint(buf, p + 1, 10) = Read(TRUE, d, e)
               PROVE  InternalParse("DelCacheRsp", m, <<8>>, buf, p + 1) = ParseStart(x, e)
    BY DEF TakesVarint
  <2> DEFINE v == ReadVarint(buf, p + 1, 10)
  <2>1. v = Read(TRUE, d, e)
    OBVIOUS
  <2>2. InternalParse("DelCacheRsp", m, <<8>>, buf, p + 1) = Parsed(v, [m EXCEPT !.succ = Bool(v.val)])
    BY DEF InternalParse, DelCacheRsp_InternalParse, DelCacheRsp_set_succ
  <2> HIDE DEF v
  <2>3. v.val = d
    BY <2>1 DEF Read
  <2>4. [m EXCEPT !.succ = Bool(v.val)] = x
    BY <1>1, <1>3, <2>3 DEF Newer
  <2> HIDE DEF x
  <2> QED
    BY <2>1, <2>2, <2>3, <2>4, ParsedRead
<1>4. x \in DelCacheRspMsgs
  BY <1>1, NewerType DEF DelCacheRspMsgs, Newer, Bools
<1>5. g \in Nat /\ g # 0 /\ g < 128 /\ \A p \in Pos : d # <<>> => TakesVarint("DelCacheRsp", buf, p, m, g, d, x)
  BY <1>3
<1> HIDE DEF x, g
<1>6. Piece(f, buf, p0, limit, m, VarintField(<<g>>, d), x)
  BY <1>1, <1>2, <1>5, VarintPiece
<1>7. VarintField(<<g>>, d) \in Str
  BY <1>1, <1>5, TagsAre, FieldSizes
<1> QED
  BY <1>4, <1>6, <1>7 DEF x, g

\* A DelCacheRsp is read as it was written, and merged into what was read before.
LEMMA DelCacheRspMerges ==
  ASSUME NEW f, NEW buf, NEW p0, NEW limit, Loop(f, "DelCacheRsp", buf, p0, limit),
         NEW m \in DelCacheRspMsgs, NEW x \in DelCacheRspPlain
  PROVE  Piece(f, buf, p0, limit, m, DelCacheRsp_InternalSerialize(x), DelCacheRsp_MergeFrom(m, x))
<1> DEFINE s1 == VarintField(<<8>>, x.succ)
           m1 == [m EXCEPT !.succ = Newer(m.succ, x.succ)]
<1>1. x.succ \in {<<>>, <<1>>} /\ x.unk = <<>>
  BY DEF DelCacheRspPlain, Bools
<1>2. DelCacheRsp_InternalSerialize(x) = s1 \o <<>>
  BY <1>1 DEF DelCacheRsp_InternalSerialize
<1>3. m1 = DelCacheRsp_MergeFrom(m, x)
  <2>1. m.unk \in Seq(Nat)
    BY DEF DelCacheRspMsgs, Str
  <2>2. m.unk \o <<>> = m.unk
    BY <2>1, ConcatEmptySeq
  <2>3. DelCacheRsp_MergeFrom(m, x) = [succ |-> Newer(m.succ, x.succ), unk |-> m.unk]
    BY <1>1, <2>2 DEF DelCacheRsp_MergeFrom
  <2>4. m1 = [succ |-> Newer(m.succ, x.succ), unk |-> m.unk]
    BY DEF DelCacheRspMsgs
  <2> QED
    BY <2>3, <2>4
<1>4. Piece(f, buf, p0, limit, m, s1, m1) /\ m1 \in DelCacheRspMsgs /\ s1 \in Str
  BY <1>1, DelCacheRsp_succPiece DEF Bools
<1> HIDE DEF s1, m1
<1>5. Piece(f, buf, p0, limit, m1, <<>>, m1) /\ <<>> \in Str
  BY PieceEmpty, EmptySeq DEF Str
<1>6. Piece(f, buf, p0, limit, m, s1 \o <<>>, m1)
  BY <1>4, <1>5, PieceConcat
<1> QED
  BY <1>2, <1>3, <1>6

\* The field name of a HelloRequest is read as it was written.
LEMMA HelloRequest_namePiece ==
  ASSUME NEW f, NEW buf, NEW p0, NEW limit, Loop(f, "HelloRequest", buf, p0, limit),
         NEW m \in HelloRequestMsgs, NEW d \in Utf8
  PROVE  /\ Piece(f, buf, p0, limit, m, BytesField(<<10>>, d), [m EXCEPT !.name = Newer(m.name, d)])
         /\ [m EXCEPT !.name = Newer(m.name, d)] \in HelloRequestMsgs /\ BytesField(<<10>>, d) \in Str
<1> DEFINE x == [m EXCEPT !.name = Newer(m.name, d)]
           g == 10
<1>1. d \in Str /\ d \in Str /\ IsUtf8(d)
  BY ValuesAre
<1>2. d = <<>> => x = m
  <2> SUFFICES ASSUME d = <<>> PROVE x = m
    OBVIOUS
  <2>1. Newer(m.name, d) = m.name
    BY DEF Newer
  <2> QED
    BY <2>1 DEF HelloRequestMsgs
<1>3. ASSUME d # <<>>, NEW p \in Pos PROVE TakesString("HelloRequest", buf, p, m, 10, d, x)
  <2> SUFFICES ASSUME NEW e, ReadString(buf, p + 1) = Read(TRUE, d, e)
               PROVE  InternalParse("HelloRequest", m, <<10>>, buf, p + 1) = ParseStart(x, e)
    BY DEF TakesString
  <2> DEFINE v == ReadString(buf, p + 1)
             u == [v EXCEPT !.ok = @ /\ IsUtf8(v.val)]
  <2>1. v = Read(TRUE, d, e)
    OBVIOUS
  <2>2. InternalParse("HelloRequest", m, <<10>>, buf, p + 1) = Parsed(u, [m EXCEPT !.name = v.val])
    BY DEF InternalParse, HelloRequest_InternalParse, HelloRequest_set_name
  <2> HIDE DEF v
  <2>3. v.val = d /\ u = Read(TRUE, d, e)
    BY <1>1, <2>1 DEF Read
  <2> HIDE DEF u
  <2>4. [m EXCEPT !.name = v.val] = x
    BY <1>1, <1>3, <2>3 DEF Newer
  <2> HIDE DEF x
  <2> QED
    BY <2>1, <2>2, <2>3, <2>4, ParsedRead
<1>4. x \in HelloRequestMsgs
  BY <1>1, NewerType DEF HelloRequestMsgs, Newer
<1>5. g \in Nat /\ g # 0 /\ g < 128 /\ \A p \in Pos : d # <<>> => TakesString("HelloRequest", buf, p, m, g, d, x)
  BY <1>3
<1> HIDE DEF x, g
<1>6. Piece(f, buf, p0, limit, m, BytesField(<<g>>, d), x)
  BY <1>1, <1>2, <1>5, BytesPiece
<1>7. BytesField(<<g>>, d) \in Str
  BY <1>1, <1>5, TagsAre, FieldSizes
<1> QED
  BY <1>4, <1>6, <1>7 DEF x, g

\* A HelloRequest is read as it was written, and merged into what was read before.
LEMMA HelloRequestMerges ==
  ASSUME NEW f, NEW buf, NEW p0, NEW limit, Loop(f, "HelloRequest", buf, p0, limit),
         NEW m \in HelloRequestMsgs, NEW x \in HelloRequestPlain
  PROVE  Piece(f, buf, p0, limit, m, HelloRequest_InternalSerialize(x), HelloRequest_MergeFrom(m, x))
<1> DEFINE s1 == BytesField(<<10>>, x.name)
           m1 == [m EXCEPT !.name = Newer(m.name, x.name)]
<1>1. x.name \in Utf8 /\ x.unk = <<>>
  BY DEF HelloRequestPlain
<1>2. HelloRequest_InternalSerialize(x) = s1 \o <<>>
  BY <1>1 DEF HelloRequest_InternalSerialize
<1>3. m1 = HelloRequest_MergeFrom(m, x)
  <2>1. m.unk \in Seq(Nat)
    BY DEF HelloRequestMsgs, Str
  <2>2. m.unk \o <<>> = m.unk
    BY <2>1, ConcatEmptySeq
  <2>3. HelloRequest_MergeFrom(m, x) = [name |-> Newer(m.name, x.name), unk |-> m.unk]
    BY <1>1, <2>2 DEF HelloRequest_MergeFrom
  <2>4. m1 = [name |-> Newer(m.name, x.name), unk |-> m.unk]
    BY DEF HelloRequestMsgs
  <2> QED
    BY <2>3, <2>4
<1>4. Piece(f, buf, p0, limit, m, s1, m1) /\ m1 \in HelloRequestMsgs /\ s1 \in Str
  BY <1>1, HelloRequest_namePiece
<1> HIDE DEF s1, m1
<1>5. Piece(f, buf, p0, limit, m1, <<>>, m1) /\ <<>> \in Str
  BY PieceEmpty, EmptySeq DEF Str
<1>6. Piece(f, buf, p0, limit, m, s1 \o <<>>, m1)
  BY <1>4, <1>5, PieceConcat
<1> QED
  BY <1>2, <1>3, <1>6

\* The field message of a HelloReply is read as it was written.
LEMMA HelloReply_messagePiece ==
  ASSUME NEW f, NEW buf, NEW p0, NEW limit, Loop(f, "HelloReply", buf, p0, limit),
         NEW m \in HelloReplyMsgs, NEW d \in Utf8
  PROVE  /\ Piece(f, buf, p0, limit, m, BytesField(<<10>>, d), [m EXCEPT !.message = Newer(m.message, d)])
         /\ [m EXCEPT !.message = Newer(m.message, d)] \in HelloReplyMsgs /\ BytesField(<<10>>, d) \in Str
<1> DEFINE x == [m EXCEPT !.message = Newer(m.message, d)]
           g == 10
<1>1. d \in Str /\ d \in Str /\ IsUtf8(d)
  BY ValuesAre
<1>2. d = <<>> => x = m
  <2> SUFFICES ASSUME d = <<>> PROVE x = m
    OBVIOUS
  <2>1. Newer(m.message, d) = m.message
    BY DEF Newer
  <2> QED
    BY <2>1 DEF HelloReplyMsgs
<1>3. ASSUME d # <<>>, NEW p \in Pos PROVE TakesString("HelloReply", buf, p, m, 10, d, x)
  <2> SUFFICES ASSUME NEW e, ReadString(buf, p + 1) = Read(TRUE, d, e)
               PROVE  InternalParse("HelloReply", m, <<10>>, buf, p + 1) = ParseStart(x, e)
    BY DEF TakesString
  <2> DEFINE v == ReadString(buf, p + 1)
             u == [v EXCEPT !.ok = @ /\ IsUtf8(v.val)]
  <2>1. v = Read(TRUE, d, e)
    OBVIOUS
  <2>2. InternalParse("HelloReply", m, <<10>>, buf, p + 1) = Parsed(u, [m EXCEPT !.message = v.val])
    BY DEF InternalParse, HelloReply_InternalParse, HelloReply_set_message
  <2> HIDE DEF v
  <2>3. v.val = d /\ u = Read(TRUE, d, e)
    BY <1>1, <2>1 DEF Read
  <2> HIDE DEF u
  <2>4. [m EXCEPT !.message = v.val] = x
    BY <1>1, <1>3, <2>3 DEF Newer
  <2> HIDE DEF x
  <2> QED
    BY <2>1, <2>2, <2>3, <2>4, ParsedRead
<1>4. x \in HelloReplyMsgs
  BY <1>1, NewerType DEF HelloReplyMsgs, Newer
<1>5. g \in Nat /\ g # 0 /\ g < 128 /\ \A p \in Pos : d # <<>> => TakesString("HelloReply", buf, p, m, g, d, x)
  BY <1>3
<1> HIDE DEF x, g
<1>6. Piece(f, buf, p0, limit, m, BytesField(<<g>>, d), x)
  BY <1>1, <1>2, <1>5, BytesPiece
<1>7. BytesField(<<g>>, d) \in Str
  BY <1>1, <1>5, TagsAre, FieldSizes
<1> QED
  BY <1>4, <1>6, <1>7 DEF x, g

\* A HelloReply is read as it was written, and merged into what was read before.
LEMMA HelloReplyMerges ==
  ASSUME NEW f, NEW buf, NEW p0, NEW limit, Loop(f, "HelloReply", buf, p0, limit),
         NEW m \in HelloReplyMsgs, NEW x \in HelloReplyPlain
  PROVE  Piece(f, buf, p0, limit, m, HelloReply_InternalSerialize(x), HelloReply_MergeFrom(m, x))
<1> DEFINE s1 == BytesField(<<10>>, x.message)
           m1 == [m EXCEPT !.message = Newer(m.message, x.message)]
<1>1. x.message \in Utf8 /\ x.unk = <<>>
  BY DEF HelloReplyPlain
<1>2. HelloReply_InternalSerialize(x) = s1 \o <<>>
  BY <1>1 DEF HelloReply_InternalSerialize
<1>3. m1 = HelloReply_MergeFrom(m, x)
  <2>1. m.unk \in Seq(Nat)
    BY DEF HelloReplyMsgs, Str
  <2>2. m.unk \o <<>> = m.unk
    BY <2>1, ConcatEmptySeq
  <2>3. HelloReply_MergeFrom(m, x) = [message |-> Newer(m.message, x.message), unk |-> m.unk]
    BY <1>1, <2>2 DEF HelloReply_MergeFrom
  <2>4. m1 = [message |-> Newer(m.message, x.message), unk |-> m.unk]
    BY DEF HelloReplyMsgs
  <2> QED
    BY <2>3, <2>4
<1>4. Piece(f, buf, p0, limit, m, s1, m1) /\ m1 \in HelloReplyMsgs /\ s1 \in Str
  BY <1>1, HelloReply_messagePiece
<1> HIDE DEF s1, m1
<1>5. Piece(f, buf, p0, limit, m1, <<>>, m1) /\ <<>> \in Str
  BY PieceEmpty, EmptySeq DEF Str
<1>6. Piece(f, buf, p0, limit, m, s1 \o <<>>, m1)
  BY <1>4, <1>5, PieceConcat
<1> QED
  BY <1>2, <1>3, <1>6

\* The field errCode of a PullRsp is read as it was written.
LEMMA PullRsp_errCodePiece ==
  ASSUME NEW f, NEW buf, NEW p0, NEW limit, Loop(f, "PullRsp", buf, p0, limit),
         NEW m \in PullRspMsgs, NEW d \in DigitsInt32
  PROVE  /\ Piece(f, buf, p0, limit, m, VarintField(<<8>>, d), [m EXCEPT !.errCode = Newer(m.errCode, d)])
         /\ [m EXCEPT !.errCode = Newer(m.errCode, d)] \in PullRspMsgs /\ VarintField(<<8>>, d) \in Str
<1> DEFINE x == [m EXCEPT !.errCode = Newer(m.errCode, d)]
           g == 8
<1>1. d \in Digits64 /\ d \in Str /\ Int32(d) = d
  BY ValuesAre
<1>2. d = <<>> => x = m
  <2> SUFFICES ASSUME d = <<>> PROVE x = m
    OBVIOUS
  <2>1. Newer(m.errCode, d) = m.errCode
    BY DEF Newer
  <2> QED
    BY <2>1 DEF PullRspMsgs
<1>3. ASSUME d # <<>>, NEW p \in Pos PROVE TakesVarint("PullRsp", buf, p, m, 8, d, x)
  <2> SUFFICES ASSUME NEW e, ReadVarint(buf, p + 1, 10) = Read(TRUE, d, e)
               PROVE  InternalParse("PullRsp", m, <<8>>, buf, p + 1) = ParseStart(x, e)
    BY DEF TakesVarint
  <2> DEFINE v == ReadVarint(buf, p + 1, 10)
  <2>1. v = Read(TRUE, d, e)
    OBVIOUS
  <2>2. InternalParse("PullRsp", m, <<8>>, buf, p + 1) = Parsed(v, [m EXCEPT !.errCode = Int32(v.val)])
    BY DEF InternalParse, PullRsp_InternalParse, PullRsp_set_errcode
  <2> HIDE DEF v
  <2>3. v.val = d
    BY <2>1 DEF Read
  <2>4. [m EXCEPT !.errCode = Int32(v.val)] = x
    BY <1>1, <1>3, <2>3 DEF Newer
  <2> HIDE DEF x
  <2> QED
    BY <2>1, <2>2, <2>3, <2>4, ParsedRead
<1>4. x \in PullRspMsgs
  BY <1>1, NewerType DEF PullRspMsgs, Newer
<1>5. g \in Nat /\ g # 0 /\ g < 128 /\ \A p \in Pos : d # <<>> => TakesVarint("PullRsp", buf, p, m, g, d, x)
  BY <1>3
<1> HIDE DEF x, g
<1>6. Piece(f, buf, p0, limit, m, VarintField(<<g>>, d), x)
  BY <1>1, <1>2, <1>5, VarintPiece
<1>7. VarintField(<<g>>, d) \in Str
  BY <1>1, <1>5, TagsAre, FieldSizes
<1> QED
  BY <1>4, <1>6, <1>7 DEF x, g

\* The field errDesc of a PullRsp is read as it was written.
LEMMA PullRsp_errDescPiece ==
  ASSUME NEW f, NEW buf, NEW p0, NEW limit, Loop(f, "PullRsp", buf, p0, limit),
         NEW m \in PullRspMsgs, NEW d \in Utf8
  PROVE  /\ Piece(f, buf, p0, limit, m, BytesField(<<18>>, d), [m EXCEPT !.errDesc = Newer(m.errDesc, d)])
         /\ [m EXCEPT !.errDesc = Newer(m.errDesc, d)] \in PullRspMsgs /\ BytesField(<<18>>, d) \in Str
<1> DEFINE x == [m EXCEPT !.errDesc = Newer(m.errDesc, d)]
           g == 18
<1>1. d \in Str /\ d \in Str /\ IsUtf8(d)
  BY ValuesAre
<1>2. d = <<>> => x = m
  <2> SUFFICES ASSUME d = <<>> PROVE x = m
    OBVIOUS
  <2>1. Newer(m.errDesc, d) = m.errDesc
    BY DEF Newer
  <2> QED
    BY <2>1 DEF PullRspMsgs
<1>3. ASSUME d # <<>>, NEW p \in Pos PROVE TakesString("PullRsp", buf, p, m, 18, d, x)
  <2> SUFFICES ASSUME NEW e, ReadString(buf, p + 1) = Read(TRUE, d, e)
               PROVE  InternalParse("PullRsp", m, <<18>>, buf, p + 1) = ParseStart(x, e)
    BY DEF TakesString
  <2> DEFINE v == ReadString(buf, p + 1)
             u == [v EXCEPT !.ok = @ /\ IsUtf8(v.val)]
  <2>1. v = Read(TRUE, d, e)
    OBVIOUS
  <2>2. InternalParse("PullRsp", m, <<18>>, buf, p + 1) = Parsed(u, [m EXCEPT !.errDesc = v.val])
    BY DEF InternalParse, PullRsp_InternalParse, PullRsp_set_errdesc
  <2> HIDE DEF v
  <2>3. v.val = d /\ u = Read(TRUE, d, e)
    BY <1>1, <2>1 DEF Read
  <2> HIDE DEF u
  <2>4. [m EXCEPT !.errDesc = v.val] = x
    BY <1>1, <1>3, <2>3 DEF Newer
  <2> HIDE DEF x
  <2> QED
    BY <2>1, <2>2, <2>3, <2>4, ParsedRead
<1>4. x \in PullRspMsgs
  BY <1>1, NewerType DEF PullRspMsgs, Newer
<1>5. g \in Nat /\ g # 0 /\ g < 128 /\ \A p \in Pos : d # <<>> => TakesString("PullRsp", buf, p, m, g, d, x)
  BY <1>3
<1> HIDE DEF x, g
<1>6. Piece(f, buf, p0, limit, m, BytesField(<<g>>, d), x)
  BY <1>1, <1>2, <1>5, BytesPiece
<1>7. BytesField(<<g>>, d) \in Str
  BY <1>1, <1>5, TagsAre, FieldSizes
<1> QED
  BY <1>4, <1>6, <1>7 DEF x, g

\* A string or bytes element, an empty one too.
LEMMA WrittenPiece ==
  ASSUME NEW f, NEW kind, NEW buf, NEW p0, NEW limit, Loop(f, kind, buf, p0, limit),
         NEW m, NEW g \in Nat, g # 0, g < 128, NEW s \in Str, NEW x,
         \A p \in Pos : TakesString(kind, buf, p, m, g, s, x)
  PROVE  Piece(f, buf, p0, limit, m, WriteBytes(<<g>>, s), x)
<1> SUFFICES ASSUME NEW p, Reaches(f, buf, p0, m, p), At(buf, p, WriteBytes(<<g>>, s)),
                    p + Len(WriteBytes(<<g>>, s)) <= limit
             PROVE  Reaches(f, buf, p0, x, p + Len(WriteBytes(<<g>>, s)))
  BY DEF Piece
<1>1. TakesString(kind, buf, p, m, g, s, x)
  BY DEF Reaches
<1> QED
  BY <1>1, WrittenRound

\* Appending to the end of two sequences.
SameAppended(a, b, x) == Append(a \o b, x) = a \o Append(b, x)

\* It is the same as appending to the second.
LEMMA AppendLater ==
  ASSUME NEW S, NEW a \in Seq(S), NEW b \in Seq(S), NEW x \in S
  PROVE  SameAppended(a, b, x)
<1>1. a \o b \in Seq(S) /\ <<x>> \in Seq(S)
  BY ConcatProperties
<1> DEFINE e == <<x>>
           c == a \o b
<1>2. Append(c, x) = c \o e /\ Append(b, x) = b \o e
  BY <1>1, AppendIsConcat
<1>3. e \in Seq(S)
  BY <1>1
<1> HIDE DEF e
<1>4. (a \o b) \o e = a \o (b \o e)
  BY <1>3, StrAssoc
<1> QED
  BY <1>2, <1>4 DEF SameAppended

\* The elements of data are read as they were written, the empty ones too.
LEMMA PullRsp_dataPiece ==
  ASSUME NEW f, NEW buf, NEW p0, NEW limit, Loop(f, "PullRsp", buf, p0, limit),
         NEW m \in PullRspMsgs, NEW v \in Seq(Str)
  PROVE  /\ Piece(f, buf, p0, limit, m, JoinSeq([i \in DOMAIN v |-> WriteBytes(<<26>>, v[i])]),
                  [m EXCEPT !.data = @ \o v])
         /\ JoinSeq([i \in DOMAIN v |-> WriteBytes(<<26>>, v[i])]) \in Str
<1> DEFINE n == Len(v)
           g == 26
           s == [i \in 1 .. n |-> WriteBytes(<<g>>, v[i])]
           A(i) == [m EXCEPT !.data = m.data \o Prefix(v, i)]
           acc == [i \in 0 .. n |-> A(i)]
<1>1. n \in Nat /\ DOMAIN v = 1 .. n /\ \A i \in 1 .. n : v[i] \in Str
  BY LenProperties, ElementOfSeq
<1>2. [i \in DOMAIN v |-> WriteBytes(<<26>>, v[i])] = s
  BY <1>1
<1>3. g \in Nat /\ g # 0 /\ g < 128 /\ <<g>> \in Str
  BY TagsAre
<1>4. /\ Prefix(v, 0) = <<>> /\ Prefix(v, n) = v /\ (\A k \in 0 .. n : Prefix(v, k) \in Seq(Str))
      /\ \A k \in 1 .. n : Prefix(v, k) = Append(Prefix(v, k - 1), v[k])
  BY PrefixSteps
<1>5. m.data \in Seq(Str)
  BY DEF PullRspMsgs
<1>6. \A w \in Str, x \in PullRspMsgs, p \in Pos :
         TakesString("PullRsp", buf, p, x, 26, w, [x EXCEPT !.data = Append(x.data, w)])
  <2> SUFFICES ASSUME NEW w \in Str, NEW x \in PullRspMsgs, NEW p \in Pos, NEW e,
                      ReadString(buf, p + 1) = Read(TRUE, w, e)
               PROVE  InternalParse("PullRsp", x, <<26>>, buf, p + 1) = ParseStart([x EXCEPT !.data = Append(x.data, w)], e)
    BY DEF TakesString
  <2> DEFINE r == ReadString(buf, p + 1)
  <2>1. r = Read(TRUE, w, e)
    OBVIOUS
  <2>2. InternalParse("PullRsp", x, <<26>>, buf, p + 1) = Parsed(r, [x EXCEPT !.data = Append(x.data, r.val)])
    BY DEF InternalParse, PullRsp_InternalParse, PullRsp_add_data
  <2> HIDE DEF r
  <2>3. r.val = w
    BY <2>1 DEF Read
  <2> QED
    BY <2>1, <2>2, <2>3, ParsedRead
<1> HIDE DEF n, g
<1>7. \A i \in 1 .. n : WriteBytes(<<g>>, v[i]) \in Str
  BY <1>1, <1>3, WriteBytesSize
<1>8. s \in Seq(Str) /\ Len(s) = n /\ \A i \in 1 .. n : s[i] = WriteBytes(<<g>>, v[i])
  BY <1>1, <1>7
<1> HIDE DEF s
<1>9. ASSUME NEW i \in 1 .. n PROVE Piece(f, buf, p0, limit, acc[i - 1], s[i], acc[i])
  <2> DEFINE x == A(i - 1)
             y == A(i)
             w == v[i]
             b == Prefix(v, i - 1)
  <2>1. i - 1 \in 0 .. n /\ i \in 0 .. n
    BY <1>1
  <2>2. acc[i - 1] = x /\ acc[i] = y
    BY <2>1
  <2>3. w \in Str /\ b \in Seq(Str) /\ Prefix(v, i) = Append(b, w)
    BY <1>1, <1>4, <2>1
  <2> HIDE DEF b, w
  <2>4. m.data \o b \in Seq(Str)
    BY <1>5, <2>3, ConcatProperties
  <2>5. x = [m EXCEPT !.data = m.data \o b] /\ y = [m EXCEPT !.data = m.data \o Append(b, w)]
    BY <2>3 DEF b
  <2> HIDE DEF x, y, A
  <2>6. x \in PullRspMsgs /\ x.data = m.data \o b
    BY <2>4, <2>5 DEF PullRspMsgs
  <2>7. Append(m.data \o b, w) = m.data \o Append(b, w)
    <3> DEFINE a == m.data
               S == Str
    <3>1. a \in Seq(S) /\ b \in Seq(S) /\ w \in S
      BY <1>5, <2>3
    <3> HIDE DEF a, S
    <3>2. SameAppended(a, b, w)
      BY <3>1, AppendLater
    <3> QED
      BY <3>2 DEF a, SameAppended
  <2>8. [x EXCEPT !.data = Append(x.data, w)] = y
    BY <2>5, <2>6, <2>7 DEF PullRspMsgs
  <2>9. \A p \in Pos : TakesString("PullRsp", buf, p, x, g, w, y)
    BY <1>6, <2>3, <2>6, <2>8 DEF g
  <2>10. Piece(f, buf, p0, limit, x, WriteBytes(<<g>>, w), y)
    BY <1>3, <2>3, <2>9, WrittenPiece
  <2> HIDE DEF acc
  <2> QED
    BY <1>8, <2>2, <2>10 DEF w
<1>10. acc[0] = m /\ acc[n] = [m EXCEPT !.data = @ \o v]
  <2>1. 0 \in 0 .. n /\ n \in 0 .. n
    BY <1>1
  <2>2. acc[0] = A(0) /\ acc[n] = A(n)
    BY <2>1
  <2>3. m.data \o <<>> = m.data
    BY <1>5, ConcatEmptySeq
  <2>4. A(0) = m
    BY <1>4, <2>3 DEF PullRspMsgs
  <2>5. A(n) = [m EXCEPT !.data = @ \o v]
    BY <1>4
  <2> QED
    BY <2>2, <2>4, <2>5
<1> HIDE DEF acc
<1>11. Piece(f, buf, p0, limit, acc[0], JoinSeq(s), acc[Len(s)])
  BY <1>8, <1>9, RepeatPiece
<1>12. JoinSeq(s) \in Str
  <2>1. PICK h : JoinRun(h, s) /\ \A i \in 0 .. Len(s) : h[i] \in Str
    BY <1>8, JoinSteps
  <2>2. Len(s) \in 0 .. Len(s)
    BY <1>1, <1>8
  <2> QED
    BY <2>1, <2>2 DEF JoinRun
<1> QED
  BY <1>2, <1>8, <1>10, <1>11, <1>12

\* A PullRsp is read as it was written, and merged into what was read before.
LEMMA PullRspMerges ==
  ASSUME NEW f, NEW buf, NEW p0, NEW limit, Loop(f, "PullRsp", buf, p0, limit),
         NEW m \in PullRspMsgs, NEW x \in PullRspPlain
  PROVE  Piece(f, buf, p0, limit, m, PullRsp_InternalSerialize(x), PullRsp_MergeFrom(m, x))
<1> DEFINE s1 == VarintField(<<8>>, x.errCode)
           m1 == [m EXCEPT !.errCode = Newer(m.errCode, x.errCode)]
           s2 == BytesField(<<18>>, x.errDesc)
           m2 == [m1 EXCEPT !.errDesc = Newer(m1.errDesc, x.errDesc)]
           s3 == JoinSeq([i \in DOMAIN x.data |-> WriteBytes(<<26>>, x.data[i])])
           m3 == [m2 EXCEPT !.data = @ \o x.data]
<1>1. x.errCode \in DigitsInt32 /\ x.errDesc \in Utf8 /\ x.data \in Seq(Str) /\ x.unk = <<>>
  BY DEF PullRspPlain
<1>2. PullRsp_InternalSerialize(x) = s1 \o s2 \o s3 \o <<>>
  BY <1>1 DEF PullRsp_InternalSerialize
<1>3. m3 = PullRsp_MergeFrom(m, x)
  <2>1. m.unk \in Seq(Nat)
    BY DEF PullRspMsgs, Str
  <2>2. m.unk \o <<>> = m.unk
    BY <2>1, ConcatEmptySeq
  <2>3. PullRsp_MergeFrom(m, x) = [errCode |-> Newer(m.errCode, x.errCode), errDesc |-> Newer(m.errDesc, x.errDesc),
                                   data |-> m.data \o x.data, unk |-> m.unk]
    BY <1>1, <2>2 DEF PullRsp_MergeFrom
  <2>4. m1 = [errCode |-> Newer(m.errCode, x.errCode), errDesc |-> m.errDesc, data |-> m.data, unk |-> m.unk]
    BY DEF PullRspMsgs
  <2> HIDE DEF m1
  <2>5. m2 = [errCode |-> Newer(m.errCode, x.errCode), errDesc |-> Newer(m.errDesc, x.errDesc), data |-> m.data,
              unk |-> m.unk]
    BY <2>4
  <2> HIDE DEF m2
  <2>6. m3 = [errCode |-> Newer(m.errCode, x.errCode), errDesc |-> Newer(m.errDesc, x.errDesc),
              data |-> m.data \o x.data, unk |-> m.unk]
    <3> DEFINE y == m.data \o x.data
    <3>1. m2.data = m.data
      BY <2>5
    <3>2. m3 = [m2 EXCEPT !.data = y]
      BY <3>1
    <3> HIDE DEF y, m3
    <3>3. m3 = [errCode |-> Newer(m.errCode, x.errCode), errDesc |-> Newer(m.errDesc, x.errDesc),
                data |-> y, unk |-> m.unk]
      BY <2>5, <3>2
    <3> QED
      BY <3>3 DEF y
  <2> QED
    BY <2>3, <2>6
<1>4. Piece(f, buf, p0, limit, m, s1, m1) /\ m1 \in PullRspMsgs /\ s1 \in Str
  BY <1>1, PullRsp_errCodePiece
<1> HIDE DEF s1, m1
<1>5. Piece(f, buf, p0, limit, m1, s2, m2) /\ m2 \in PullRspMsgs /\ s2 \in Str
  BY <1>1, <1>4, PullRsp_errDescPiece
<1> HIDE DEF s2, m2
<1>6. Piece(f, buf, p0, limit, m2, s3, m3) /\ s3 \in Str
  <2> DEFINE v == x.data
  <2>1. v \in Seq(Str)
    BY <1>1
  <2> HIDE DEF v
  <2>2. /\ Piece(f, buf, p0, limit, m2, JoinSeq([i \in DOMAIN v |-> WriteBytes(<<26>>, v[i])]), [m2 EXCEPT !.data = @ \o v])
        /\ JoinSeq([i \in DOMAIN v |-> WriteBytes(<<26>>, v[i])]) \in Str
    BY <1>5, <2>1, PullRsp_dataPiece
  <2> QED
    BY <2>2 DEF v
<1> HIDE DEF s3, m3
<1>7. Piece(f, buf, p0, limit, m3, <<>>, m3) /\ <<>> \in Str
  BY PieceEmpty, EmptySeq DEF Str
<1>8. Piece(f, buf, p0, limit, m, s1 \o s2, m2) /\ s1 \o s2 \in Str
  BY <1>4, <1>5, PieceConcat, StrConcat
<1> DEFINE t2 == s1 \o s2
<1>9. Piece(f, buf, p0, limit, m, t2, m2) /\ t2 \in Str
  BY <1>8
<1> HIDE DEF t2
<1>10. Piece(f, buf, p0, limit, m, t2 \o s3, m3) /\ t2 \o s3 \in Str
  BY <1>6, <1>9, PieceConcat, StrConcat
<1> DEFINE t3 == t2 \o s3
<1>11. Piece(f, buf, p0, limit, m, t3, m3) /\ t3 \in Str
  BY <1>10
<1> HIDE DEF t3
<1>12. Piece(f, buf, p0, limit, m, t3 \o <<>>, m3)
  BY <1>7, <1>11, PieceConcat
<1> QED
  BY <1>2, <1>3, <1>12 DEF t2, t3

\* The case of the packed array with tag g and elements v.
TakesPacked(kind, buf, p, m, g, v, x) ==
  \A e : ReadPacked(buf, p + 1) = Read(TRUE, v, e) =>
           InternalParse(kind, m, <<g>>, buf, p + 1) = ParseStart(x, e)

\* The bytes of a packed array, and that only an empty one has none.
LEMMA PackedBytes ==
  ASSUME NEW g \in Nat, NEW v \in Seq(Digits64)
  PROVE  /\ JoinSeq(Packed(v)) \in Str /\ PackedSize(v) = Len(JoinSeq(Packed(v))) /\ PackedSize(v) \in Nat
         /\ WritePacked(<<g>>, v) = WriteBytes(<<g>>, JoinSeq(Packed(v)))
         /\ ~(PackedSize(v) > 0) => v = <<>>
<1> DEFINE s == Packed(v)
           z == [i \in DOMAIN v |-> VarintSize(v[i])]
           J == JoinSeq(s)
           n == Len(v)
<1>1. s \in Seq(Str) /\ Len(s) = n /\ n \in Nat /\ \A i \in 1 .. n : v[i] \in Digits64 /\ s[i] = WriteVarint(v[i])
  BY PackedIs
<1>2. \A i \in 1 .. n : VarintSize(v[i]) \in Nat /\ VarintSize(v[i]) >= 1 /\ Len(s[i]) = VarintSize(v[i]) /\ s[i] \in Str
  BY <1>1, Digits64Are, WriteVarintSize
<1>3. DOMAIN v = 1 .. n
  BY LenProperties
<1>4. z \in Seq(Nat) /\ Len(z) = Len(s) /\ \A i \in 1 .. Len(s) : z[i] = Len(s[i])
  BY <1>1, <1>2, <1>3
<1>5. PackedSize(v) = SumSeq(z)
  BY DEF PackedSize
<1>6. WritePacked(<<g>>, v) = WriteBytes(<<g>>, J)
  BY DEF WritePacked, Packed
<1> HIDE DEF s, z
<1>7. J \in Str /\ SumSeq(z) \in Nat /\ Len(J) = SumSeq(z)
  BY <1>1, <1>4, JoinSize
<1>8. ASSUME n >= 1 PROVE Len(J) > 0
  <2>1. PICK h : JoinRun(h, s) /\ \A i \in 0 .. Len(s) : h[i] \in Str
    BY <1>1, JoinSteps
  <2> DEFINE a == h[n - 1]
             b == s[n]
  <2>2. n \in 1 .. Len(s) /\ n - 1 \in 0 .. Len(s) /\ n \in 1 .. n
    BY <1>1, <1>8
  <2>3. J = a \o b
    BY <1>1, <2>1, <2>2 DEF JoinRun
  <2>4. a \in Str /\ b \in Str
    BY <1>2, <2>1, <2>2
  <2>5. Len(b) \in Nat /\ Len(b) >= 1
    BY <1>2, <2>2
  <2> HIDE DEF a, b, J
  <2>6. Len(a \o b) = Len(a) + Len(b) /\ Len(a) \in Nat
    BY <2>4, StrConcat
  <2> QED
    BY <2>3, <2>5, <2>6
<1>9. ~(n >= 1) => v = <<>>
  BY <1>1, EmptySeq, LenProperties
<1> HIDE DEF J, n
<1> QED
  BY <1>5, <1>6, <1>7, <1>8, <1>9 DEF J, s

\* A packed array is read as it was written, and one without elements not at all.
LEMMA PackedPiece ==
  ASSUME NEW f, NEW kind, NEW buf, NEW p0, NEW limit, Loop(f, kind, buf, p0, limit),
         NEW m, NEW g \in Nat, g # 0, g < 128, NEW v \in Seq(Digits64), NEW x,
         v = <<>> => x = m, \A p \in Pos : TakesPacked(kind, buf, p, m, g, v, x)
  PROVE  Piece(f, buf, p0, limit, m, IF PackedSize(v) > 0 THEN WritePacked(<<g>>, v) ELSE <<>>, x)
<1> DEFINE J == JoinSeq(Packed(v))
<1>1. /\ J \in Str /\ WritePacked(<<g>>, v) = WriteBytes(<<g>>, J) /\ (~(PackedSize(v) > 0) => v = <<>>)
  BY PackedBytes
<1>2. CASE ~(PackedSize(v) > 0)
  BY <1>1, <1>2, PieceEmpty
<1>3. CASE PackedSize(v) > 0
  <2> SUFFICES ASSUME NEW p, Reaches(f, buf, p0, m, p), At(buf, p, WriteBytes(<<g>>, J)),
                      p + Len(WriteBytes(<<g>>, J)) <= limit
               PROVE  Reaches(f, buf, p0, x, p + Len(WriteBytes(<<g>>, J)))
    BY <1>1, <1>3 DEF Piece
  <2>1. p \in Pos /\ p + 1 \in Pos /\ buf \in Str
    BY DEF Reaches, Loop, Pos
  <2>2. ASSUME At(buf, p + 1, WriteVarint(Digits(Len(J))) \o J) /\ Len(J) < SizeLimit
        PROVE  InternalParse(kind, m, <<g>>, buf, p + 1) = ParseStart(x, ((p + 1) + SizeBytes(Len(J))) + Len(J))
    <3>1. ReadPacked(buf, p + 1) = Read(TRUE, v, ((p + 1) + SizeBytes(Len(J))) + Len(J))
      <4> DEFINE q == p + 1
      <4>1. q \in Pos /\ At(buf, q, WriteVarint(Digits(Len(J))) \o J) /\ Len(J) < SizeLimit /\ J = JoinSeq(Packed(v))
        BY <2>1, <2>2
      <4> HIDE DEF q, J
      <4>2. ReadPacked(buf, q) = Read(TRUE, v, (q + SizeBytes(Len(J))) + Len(J))
        BY <1>1, <2>1, <4>1, ReadPackedAt
      <4> QED
        BY <4>2 DEF q
    <3>2. TakesPacked(kind, buf, p, m, g, v, x)
      BY <2>1
    <3> QED
      BY <3>1, <3>2 DEF TakesPacked
  <2> HIDE DEF J
  <2> QED
    BY <1>1, <2>2, DelimitedRound
<1> QED
  BY <1>2, <1>3

\* A packed array, left out when it takes no bytes.
PackedField(g, v) == IF PackedSize(v) > 0 THEN WritePacked(<<g>>, v) ELSE <<>>

\* It is written in bytes.
LEMMA PackedFieldBytes ==
  ASSUME NEW g \in Nat, NEW v \in Seq(Digits64)
  PROVE  PackedField(g, v) \in Str
<1> DEFINE J == JoinSeq(Packed(v))
<1>1. J \in Str /\ WritePacked(<<g>>, v) = WriteBytes(<<g>>, J)
  BY PackedBytes
<1>2. <<g>> \in Str
  BY TagsAre
<1> HIDE DEF J
<1>3. WriteBytes(<<g>>, J) \in Str
  BY <1>1, <1>2, WriteBytesSize
<1>4. <<>> \in Str
  BY EmptySeq DEF Str
<1> QED
  BY <1>1, <1>3, <1>4 DEF PackedField

\* keys is read as it was written.
LEMMA PullReq_keysPiece ==
  ASSUME NEW f, NEW buf, NEW p0, NEW limit, Loop(f, "PullReq", buf, p0, limit),
         NEW m \in PullReqMsgs, NEW v \in Seq(Digits64)
  PROVE  /\ Piece(f, buf, p0, limit, m, PackedField(10, v), [m EXCEPT !.keys = m.keys \o v])
         /\ [m EXCEPT !.keys = m.keys \o v] \in PullReqMsgs
<1> DEFINE x == [m EXCEPT !.keys = m.keys \o v]
           g == 10
<1>1. m.keys \in Seq(Str) /\ v \in Seq(Str)
  <2>1. \A d \in Digits64 : d \in Str
    BY ValuesAre
  <2>2. m.keys \in Seq(Str)
    BY DEF PullReqMsgs
  <2> QED
    BY <2>1, <2>2
<1>2. m.keys \o v \in Seq(Str) /\ m.keys \o <<>> = m.keys
  BY <1>1, ConcatProperties, ConcatEmptySeq
<1>3. v = <<>> => x = m
  BY <1>2 DEF PullReqMsgs
<1>4. x \in PullReqMsgs
  BY <1>2 DEF PullReqMsgs
<1>5. ASSUME NEW p \in Pos PROVE TakesPacked("PullReq", buf, p, m, 10, v, x)
  <2> SUFFICES ASSUME NEW e, ReadPacked(buf, p + 1) = Read(TRUE, v, e)
               PROVE  InternalParse("PullReq", m, <<10>>, buf, p + 1) = ParseStart(x, e)
    BY DEF TakesPacked
  <2> DEFINE r == ReadPacked(buf, p + 1)
  <2>1. r = Read(TRUE, v, e)
    OBVIOUS
  <2>2. InternalParse("PullReq", m, <<10>>, buf, p + 1) = Parsed(r, [m EXCEPT !.keys = m.keys \o r.val])
    BY DEF InternalParse, PullReq_InternalParse
  <2> HIDE DEF r
  <2>3. r.val = v
    BY <2>1 DEF Read
  <2>4. [m EXCEPT !.keys = m.keys \o r.val] = x
    BY <2>3
  <2> HIDE DEF x
  <2> QED
    BY <2>1, <2>2, <2>4, ParsedRead
<1> HIDE DEF x
<1>6. g \in Nat /\ g # 0 /\ g < 128 /\ \A p \in Pos : TakesPacked("PullReq", buf, p, m, g, v, x)
  BY <1>5
<1> HIDE DEF g
<1>7. Piece(f, buf, p0, limit, m, IF PackedSize(v) > 0 THEN WritePacked(<<g>>, v) ELSE <<>>, x)
  BY <1>3, <1>6, PackedPiece
<1> QED
  BY <1>4, <1>7 DEF x, g, PackedField

\* field is read as it was written: a uint32 stays what it is.
LEMMA PullReq_fieldPiece ==
  ASSUME NEW f, NEW buf, NEW p0, NEW limit, Loop(f, "PullReq", buf, p0, limit),
         NEW m \in PullReqMsgs, NEW v \in Seq(Digits32)
  PROVE  /\ Piece(f, buf, p0, limit, m, PackedField(18, v), [m EXCEPT !.field = m.field \o v])
         /\ [m EXCEPT !.field = m.field \o v] \in PullReqMsgs
<1> DEFINE x == [m EXCEPT !.field = m.field \o v]
           g == 18
<1>1. m.field \in Seq(Str) /\ v \in Seq(Str) /\ v \in Seq(Digits64)
  <2>1. \A d \in Digits32 : d \in Str /\ d \in Digits64
    BY ValuesAre
  <2>2. m.field \in Seq(Str)
    BY DEF PullReqMsgs
  <2> QED
    BY <2>1, <2>2
<1>2. m.field \o v \in Seq(Str) /\ m.field \o <<>> = m.field
  BY <1>1, ConcatProperties, ConcatEmptySeq
<1>3. v = <<>> => x = m
  BY <1>2 DEF PullReqMsgs
<1>4. x \in PullReqMsgs
  BY <1>2 DEF PullReqMsgs
<1>5. [i \in DOMAIN v |-> UInt32(v[i])] = v
  <2>1. DOMAIN v = 1 .. Len(v) /\ \A i \in 1 .. Len(v) : v[i] \in Digits32
    BY LenProperties, ElementOfSeq
  <2>2. \A i \in DOMAIN v : UInt32(v[i]) = v[i]
    BY <2>1, ValuesAre
  <2>3. v = [i \in DOMAIN v |-> v[i]]
    BY <2>1
  <2> QED
    BY <2>2, <2>3
<1>6. ASSUME NEW p \in Pos PROVE TakesPacked("PullReq", buf, p, m, 18, v, x)
  <2> SUFFICES ASSUME NEW e, ReadPacked(buf, p + 1) = Read(TRUE, v, e)
               PROVE  InternalParse("PullReq", m, <<18>>, buf, p + 1) = ParseStart(x, e)
    BY DEF TakesPacked
  <2> DEFINE r == ReadPacked(buf, p + 1)
             u == [i \in DOMAIN r.val |-> UInt32(r.val[i])]
  <2>1. r = Read(TRUE, v, e)
    OBVIOUS
  <2>2. InternalParse("PullReq", m, <<18>>, buf, p + 1) = Parsed(r, [m EXCEPT !.field = m.field \o u])
    BY DEF InternalParse, PullReq_InternalParse
  <2> HIDE DEF r
  <2>3. r.val = v
    BY <2>1 DEF Read
  <2>4. u = v
    BY <1>5, <2>3
  <2> HIDE DEF u
  <2>5. [m EXCEPT !.field = m.field \o u] = x
    BY <2>4
  <2> HIDE DEF x
  <2> QED
    BY <2>1, <2>2, <2>5, ParsedRead
<1> HIDE DEF x
<1>7. g \in Nat /\ g # 0 /\ g < 128 /\ \A p \in Pos : TakesPacked("PullReq", buf, p, m, g, v, x)
  BY <1>6
<1> HIDE DEF g
<1>8. Piece(f, buf, p0, limit, m, IF PackedSize(v) > 0 THEN WritePacked(<<g>>, v) ELSE <<>>, x)
  BY <1>1, <1>3, <1>7, PackedPiece
<1> QED
  BY <1>4, <1>8 DEF x, g, PackedField

\* A PullReq is read as it was written, and merged into what was read before.
LEMMA PullReqMerges ==
  ASSUME NEW f, NEW buf, NEW p0, NEW limit, Loop(f, "PullReq", buf, p0, limit),
         NEW m \in PullReqMsgs, NEW x \in PullReqPlain
  PROVE  Piece(f, buf, p0, limit, m, PullReq_InternalSerialize(x), PullReq_MergeFrom(m, x))
<1> DEFINE a == x.keys
           b == x.field
           s1 == PackedField(10, a)
           m1 == [m EXCEPT !.keys = m.keys \o a]
           s2 == PackedField(18, b)
           m2 == [m1 EXCEPT !.field = m1.field \o b]
<1>1. a \in Seq(Digits64) /\ b \in Seq(Digits32) /\ x.unk = <<>>
  BY DEF PullReqPlain
<1>2. PullReq_InternalSerialize(x) = s1 \o s2 \o <<>>
  BY <1>1 DEF PullReq_InternalSerialize, PackedField
<1>3. m2 = PullReq_MergeFrom(m, x)
  <2> DEFINE k == m.keys \o a
             l == m.field \o b
  <2>1. m.unk \in Seq(Nat)
    BY DEF PullReqMsgs, Str
  <2>2. m.unk \o <<>> = m.unk
    BY <2>1, ConcatEmptySeq
  <2>3. PullReq_MergeFrom(m, x) = [keys |-> k, field |-> l, unk |-> m.unk]
    BY <1>1, <2>2 DEF PullReq_MergeFrom
  <2>4. m1 = [m EXCEPT !.keys = k]
    OBVIOUS
  <2> HIDE DEF k, m1
  <2>5. m1 = [keys |-> k, field |-> m.field, unk |-> m.unk]
    BY <2>4 DEF PullReqMsgs
  <2>6. m1.field = m.field
    BY <2>5
  <2>7. m2 = [m1 EXCEPT !.field = l]
    BY <2>6
  <2> HIDE DEF l, m2
  <2>8. m2 = [keys |-> k, field |-> l, unk |-> m.unk]
    BY <2>5, <2>7
  <2> QED
    BY <2>3, <2>8
<1>4. s1 \in Str /\ s2 \in Str
  <2>1. \A d \in Digits32 : d \in Digits64
    BY ValuesAre
  <2>2. b \in Seq(Digits64)
    BY <1>1, <2>1
  <2> HIDE DEF a, b
  <2>3. PackedField(10, a) \in Str
    BY <1>1, PackedFieldBytes
  <2>4. PackedField(18, b) \in Str
    BY <2>2, PackedFieldBytes
  <2> QED
    BY <2>3, <2>4
<1> HIDE DEF a, b
<1>5. Piece(f, buf, p0, limit, m, s1, m1) /\ m1 \in PullReqMsgs
  BY <1>1, PullReq_keysPiece
<1> HIDE DEF s1, m1
<1>6. Piece(f, buf, p0, limit, m1, s2, m2)
  BY <1>1, <1>5, PullReq_fieldPiece
<1> HIDE DEF s2, m2
<1>7. Piece(f, buf, p0, limit, m2, <<>>, m2) /\ <<>> \in Str
  BY PieceEmpty, EmptySeq DEF Str
<1>8. Piece(f, buf, p0, limit, m, s1 \o s2, m2) /\ s1 \o s2 \in Str
  BY <1>4, <1>5, <1>6, PieceConcat, StrConcat
<1> DEFINE t2 == s1 \o s2
<1>9. Piece(f, buf, p0, limit, m, t2, m2) /\ t2 \in Str
  BY <1>8
<1> HIDE DEF t2
<1>10. Piece(f, buf, p0, limit, m, t2 \o <<>>, m2)
  BY <1>7, <1>9, PieceConcat
<1> QED
  BY <1>2, <1>3, <1>10 DEF t2

\* A message that accessors have built is a message.
LEMMA oneInfoPlainAre ==
  ASSUME NEW o \in oneInfoPlain
  PROVE  o \in oneInfoMsgs /\ oneInfo_InternalSerialize(o) \in Str /\ oneInfo_MergeFrom(oneInfo_New, o) = o
<1>1. o.key \in Str /\ o.data \in Str /\ o.unk = <<>> /\ <<>> \in Str
  <2>1. o.key \in Digits64 /\ o.data \in Str /\ o.unk = <<>>
    BY DEF oneInfoPlain
  <2>2. <<>> \in Str
    BY EmptySeq DEF Str
  <2> QED
    BY <2>1, <2>2, ValuesAre
<1>2. o = [key |-> o.key, data |-> o.data, unk |-> o.unk]
  BY DEF oneInfoPlain
<1>3. o \in oneInfoMsgs
  BY <1>1, <1>2 DEF oneInfoMsgs
<1>4. oneInfo_InternalSerialize(o) \in Str
  BY <1>3, oneInfoExact DEF Exact
<1>5. oneInfo_MergeFrom(oneInfo_New, o) = o
  <2>1. Newer(<<>>, o.key) = o.key /\ Newer(<<>>, o.data) = o.data
    BY DEF Newer
  <2>2. <<>> \o <<>> = <<>>
    OBVIOUS
  <2> QED
    BY <1>1, <1>2, <2>1, <2>2 DEF oneInfo_MergeFrom, oneInfo_New
<1> QED
  BY <1>3, <1>4, <1>5

\* An info is read from its place in a larger buffer, up to the limit the size before it set.
LEMMA NestedAt ==
  ASSUME NEW buf \in Str, Len(buf) <= SizeLimit, NEW q \in Pos, NEW o \in oneInfoPlain,
         NEW s \in Str, s = oneInfo_InternalSerialize(o), At(buf, q, s)
  PROVE  oneInfo_ParseMessage(buf, q, q + Len(s)) = ParseStart(o, q + Len(s))
<1> DEFINE limit == q + Len(s)
           r == ParseStart(o, limit)
<1>1. Len(s) \in Nat /\ limit \in Nat /\ limit <= Len(buf) + 1 /\ q \in Nat
  BY LenProperties DEF At, Pos, Str
<1>2. PICK f : oneInfoSteps(f, buf, q, limit)
  BY oneInfoRun
<1> HIDE DEF limit
<1>3. Loop(f, "oneInfo", buf, q, limit)
  <2>1. \A k \in 1 .. Len(buf) : f[k] = oneInfo_Round(f[k - 1], buf, limit)
    BY <1>2 DEF oneInfoSteps
  <2>2. \A x : oneInfo_Round(x, buf, limit) = Round("oneInfo", x, buf, limit)
    BY DEF oneInfo_Round, Round, InternalParse
  <2> QED
    BY <1>1, <2>1, <2>2 DEF Loop
<1>4. Reaches(f, buf, q, oneInfo_New, q)
  <2>1. f[0] = ParseStart(oneInfo_New, q)
    BY <1>2 DEF oneInfoSteps
  <2>2. 0 \in 0 .. Len(buf) /\ 0 + q <= q
    BY <1>1, LenProperties DEF Str
  <2> QED
    BY <2>1, <2>2 DEF Reaches
<1>5. Piece(f, buf, q, limit, oneInfo_New, s, o)
  <2>1. Piece(f, buf, q, limit, oneInfo_New, oneInfo_InternalSerialize(o), oneInfo_MergeFrom(oneInfo_New, o))
    BY <1>3, oneInfoMerges, oneInfoNewType
  <2> QED
    BY <2>1, oneInfoPlainAre
<1>6. Reaches(f, buf, q, o, q + Len(s))
  <2>1. q + Len(s) <= limit
    BY <1>1 DEF limit
  <2> QED
    BY <1>4, <1>5, <2>1 DEF Piece
<1>7. PICK k \in 0 .. Len(buf) : f[k] = r
  BY <1>6 DEF Reaches, limit
<1>8. r.ok = TRUE /\ r.stop = FALSE /\ r.pos = limit
  BY DEF ParseStart
<1> HIDE DEF r
<1>9. r.pos >= limit
  BY <1>1, <1>8
<1>10. f[Len(buf)] = r
  BY <1>3, <1>7, <1>9, LoopEnds
<1>11. ParseEnd(r, buf, limit) = r
  <2>1. (r.pos = limit /\ r.pos <= Len(buf) + 1) = TRUE
    BY <1>1, <1>8
  <2>2. ParseEnd(r, buf, limit) = [r EXCEPT !.ok = TRUE]
    BY <1>8, <2>1 DEF ParseEnd
  <2>3. [r EXCEPT !.ok = TRUE] = r
    <3>1. r \in [ok : BOOLEAN, stop : BOOLEAN, m : {o}, pos : Nat]
      BY <1>1 DEF r, ParseStart
    <3> QED
      BY <1>8, <3>1
  <2> QED
    BY <2>2, <2>3
<1> QED
  BY <1>2, <1>10, <1>11 DEF oneInfoSteps, limit, r

\* An info is appended to infos as it was written.
LEMMA InfoPiece ==
  ASSUME NEW f, NEW buf, NEW p0, NEW limit, Loop(f, "PushReq", buf, p0, limit),
         NEW m, NEW o \in oneInfoPlain
  PROVE  Piece(f, buf, p0, limit, m, WriteBytes(<<10>>, oneInfo_InternalSerialize(o)),
               [m EXCEPT !.infos = Append(m.infos, o)])
<1> DEFINE s == oneInfo_InternalSerialize(o)
           x == [m EXCEPT !.infos = Append(m.infos, o)]
           g == 10
<1>1. s \in Str /\ s = oneInfo_InternalSerialize(o) /\ Len(s) \in Nat
  BY oneInfoPlainAre, LenProperties DEF Str
<1>2. \A i \in oneInfoMsgs : PushReq_add_infos(m, i) = [m EXCEPT !.infos = Append(m.infos, i)]
  BY DEF PushReq_add_infos
<1>3. PushReq_add_infos(m, o) = x
  BY DEF PushReq_add_infos
<1> HIDE DEF x, s
<1> SUFFICES ASSUME NEW p, Reaches(f, buf, p0, m, p), At(buf, p, WriteBytes(<<g>>, s)),
                    p + Len(WriteBytes(<<g>>, s)) <= limit
             PROVE  Reaches(f, buf, p0, x, p + Len(WriteBytes(<<g>>, s)))
  BY DEF Piece, s, x
<1>4. p \in Pos /\ p \in Nat /\ p + 1 \in Pos /\ buf \in Str /\ Len(buf) <= SizeLimit
  BY DEF Reaches, Loop, Pos
<1>5. ASSUME At(buf, p + 1, WriteVarint(Digits(Len(s))) \o s) /\ Len(s) < SizeLimit
      PROVE  InternalParse("PushReq", m, <<10>>, buf, p + 1) = ParseStart(x, ((p + 1) + SizeBytes(Len(s))) + Len(s))
  <2> DEFINE q == p + 1
             h == WriteVarint(Digits(Len(s)))
             z == SizeBytes(Len(s))
  <2>1. q \in Pos /\ At(buf, q, h \o s)
    BY <1>4, <1>5
  <2>2. h \in Str /\ Len(h) = z /\ z \in Nat
    BY <1>1, <1>5, SizeDigits
  <2> HIDE DEF q, h, z
  <2>3. At(buf, q, h) /\ At(buf, q + Len(h), s)
    <3>1. h \in Str
      BY <2>2
    <3> QED
      BY <1>1, <1>4, <2>1, <3>1, AtConcat
  <2>4. At(buf, q + z, s)
    BY <2>2, <2>3
  <2>5. ReadSize(buf, q) = Read(TRUE, Len(s), q + z)
    BY <1>1, <1>4, <1>5, <2>1, <2>3, ReadSizeAt DEF h, z
  <2> DEFINE q1 == q + z
             l == q1 + Len(s)
  <2>6. q1 \in Pos /\ At(buf, q1, s)
    BY <2>1, <2>2, <2>4 DEF Pos
  <2> HIDE DEF q1
  <2>7. oneInfo_ParseMessage(buf, q1, q1 + Len(s)) = ParseStart(o, q1 + Len(s))
    BY <1>1, <1>4, <2>6, NestedAt
  <2> DEFINE n == ReadSize(buf, q)
             r == oneInfo_ParseMessage(buf, n.pos, n.pos + n.val)
  <2>8. n.ok = TRUE /\ n.val = Len(s) /\ n.pos = q1
    BY <2>5 DEF Read, q1
  <2>9. InternalParse("PushReq", m, <<10>>, buf, q) = PushReq_InternalParse(m, <<10>>, buf, q)
    BY DEF InternalParse
  <2>10. n.ok => PushReq_InternalParse(m, <<10>>, buf, q) = Parsed([r EXCEPT !.ok = @ /\ ~r.stop], PushReq_add_infos(m, r.m))
    BY DEF PushReq_InternalParse
  <2> HIDE DEF n
  <2>11. r = ParseStart(o, l)
    BY <2>7, <2>8
  <2> HIDE DEF r, l
  <2>12. r.m = o /\ r.stop = FALSE /\ r.ok = TRUE /\ r.pos = l
    BY <2>11 DEF ParseStart
  <2>13. [r EXCEPT !.ok = @ /\ ~r.stop].ok = TRUE /\ [r EXCEPT !.ok = @ /\ ~r.stop].pos = l
    BY <2>11, <2>12 DEF ParseStart
  <2>14. Parsed([r EXCEPT !.ok = @ /\ ~r.stop], PushReq_add_infos(m, r.m)) = ParseStart(x, l)
    BY <1>3, <2>12, <2>13 DEF Parsed, ParseStart
  <2> QED
    BY <2>8, <2>9, <2>10, <2>14 DEF l, q1, q, z
<1>6. g \in Nat /\ g # 0 /\ g < 128
  OBVIOUS
<1>7. /\ At(buf, p, WriteBytes(<<g>>, s)) /\ p + Len(WriteBytes(<<g>>, s)) <= limit
      /\ At(buf, p + 1, WriteVarint(Digits(Len(s))) \o s) /\ Len(s) < SizeLimit =>
           InternalParse("PushReq", m, <<g>>, buf, p + 1) = ParseStart(x, ((p + 1) + SizeBytes(Len(s))) + Len(s))
  BY <1>5
<1> HIDE DEF g
<1>8. Reaches(f, buf, p0, x, p + Len(WriteBytes(<<g>>, s)))
  BY <1>1, <1>6, <1>7, DelimitedRound
<1> QED
  BY <1>8 DEF g

\* An element of infos is written as a length-delimited value.
LEMMA InfoBytes ==
  ASSUME NEW o \in oneInfoPlain
  PROVE  /\ <<10>> \o WriteVarint(Digits(oneInfo_ByteSizeLong(o))) \o oneInfo_InternalSerialize(o)
              = WriteBytes(<<10>>, oneInfo_InternalSerialize(o))
         /\ WriteBytes(<<10>>, oneInfo_InternalSerialize(o)) \in Str
<1> DEFINE s == oneInfo_InternalSerialize(o)
<1>1. o \in oneInfoMsgs /\ s \in Str
  BY oneInfoPlainAre
<1>2. oneInfo_ByteSizeLong(o) = Len(s)
  BY <1>1, oneInfoExact DEF Exact
<1>3. WriteVarint(<<10>>) = <<10>>
  BY DEF WriteVarint
<1>4. <<10>> \in Str
  BY TagsAre
<1> HIDE DEF s
<1>5. WriteBytes(<<10>>, s) \in Str
  BY <1>1, <1>4, WriteBytesSize
<1> QED
  BY <1>2, <1>3, <1>5 DEF s, WriteBytes

\* The bytes of an element of infos.
InfoField(o) == WriteBytes(<<10>>, oneInfo_InternalSerialize(o))

\* The elements of infos are read as they were written.
LEMMA PushReq_infosPiece ==
  ASSUME NEW f, NEW buf, NEW p0, NEW limit, Loop(f, "PushReq", buf, p0, limit),
         NEW m \in PushReqMsgs, NEW v \in Seq(oneInfoPlain), NEW s \in Seq(Str), Len(s) = Len(v),
         \A i \in 1 .. Len(v) : s[i] = InfoField(v[i])
  PROVE  Piece(f, buf, p0, limit, m, JoinSeq(s), [m EXCEPT !.infos = m.infos \o v]) /\ JoinSeq(s) \in Str
<1> DEFINE n == Len(v)
           A(i) == [m EXCEPT !.infos = m.infos \o Prefix(v, i)]
           acc == [i \in 0 .. n |-> A(i)]
<1>1. n \in Nat /\ \A i \in 1 .. n : v[i] \in oneInfoPlain
  BY LenProperties, ElementOfSeq
<1>2. v \in Seq(oneInfoMsgs) /\ m.infos \in Seq(oneInfoMsgs)
  BY oneInfoPlainAre DEF PushReqMsgs
<1>3. /\ Prefix(v, 0) = <<>> /\ Prefix(v, n) = v /\ (\A k \in 0 .. n : Prefix(v, k) \in Seq(oneInfoMsgs))
      /\ \A k \in 1 .. n : Prefix(v, k) = Append(Prefix(v, k - 1), v[k])
  BY <1>2, PrefixSteps
<1> HIDE DEF n
<1>4. ASSUME NEW i \in 1 .. n PROVE Piece(f, buf, p0, limit, acc[i - 1], s[i], acc[i])
  <2> DEFINE x == A(i - 1)
             y == A(i)
             w == v[i]
             b == Prefix(v, i - 1)
             a == m.infos
  <2>1. i - 1 \in 0 .. n /\ i \in 0 .. n
    BY <1>1
  <2>2. acc[i - 1] = x /\ acc[i] = y
    BY <2>1
  <2>3. w \in oneInfoPlain /\ w \in oneInfoMsgs /\ b \in Seq(oneInfoMsgs) /\ Prefix(v, i) = Append(b, w)
    BY <1>1, <1>3, <2>1, oneInfoPlainAre
  <2>4. a \in Seq(oneInfoMsgs)
    BY <1>2
  <2> HIDE DEF b, w
  <2>5. SameAppended(a, b, w)
    <3> HIDE DEF a
    <3>1. a \in Seq(oneInfoMsgs) /\ b \in Seq(oneInfoMsgs) /\ w \in oneInfoMsgs
      BY <2>3, <2>4
    <3> QED
      BY <3>1, AppendLater
  <2>6. x = [m EXCEPT !.infos = a \o b] /\ y = [m EXCEPT !.infos = a \o Append(b, w)]
    BY <2>3 DEF b
  <2> HIDE DEF x, y, A
  <2>7. x.infos = a \o b
    BY <2>6 DEF PushReqMsgs
  <2>8. [x EXCEPT !.infos = Append(x.infos, w)] = y
    <3> DEFINE c == a \o b
               d == Append(c, w)
    <3>1. y = [m EXCEPT !.infos = d] /\ x = [m EXCEPT !.infos = c] /\ x.infos = c
      BY <2>5, <2>6, <2>7 DEF SameAppended
    <3>2. Append(x.infos, w) = d
      BY <3>1
    <3> HIDE DEF c, d
    <3> QED
      BY <3>1, <3>2 DEF PushReqMsgs
  <2>9. Piece(f, buf, p0, limit, x, WriteBytes(<<10>>, oneInfo_InternalSerialize(w)), y)
    BY <2>3, <2>8, InfoPiece
  <2>10. s[i] = WriteBytes(<<10>>, oneInfo_InternalSerialize(w))
    BY DEF w, n, InfoField
  <2> HIDE DEF acc
  <2> QED
    BY <2>2, <2>9, <2>10
<1>5. acc[0] = m /\ acc[n] = [m EXCEPT !.infos = m.infos \o v]
  <2>1. 0 \in 0 .. n /\ n \in 0 .. n
    BY <1>1
  <2>2. acc[0] = A(0) /\ acc[n] = A(n)
    BY <2>1
  <2>3. m.infos \o <<>> = m.infos
    BY <1>2, ConcatEmptySeq
  <2>4. A(0) = m
    BY <1>3, <2>3 DEF PushReqMsgs
  <2>5. A(n) = [m EXCEPT !.infos = m.infos \o v]
    BY <1>3
  <2> QED
    BY <2>2, <2>4, <2>5
<1> HIDE DEF acc
<1>6. Piece(f, buf, p0, limit, acc[0], JoinSeq(s), acc[Len(s)])
  <2>1. \A i \in 1 .. Len(s) : Piece(f, buf, p0, limit, acc[i - 1], s[i], acc[i])
    BY <1>4 DEF n
  <2> QED
    BY <2>1, RepeatPiece
<1>7. JoinSeq(s) \in Str
  <2>1. PICK h : JoinRun(h, s) /\ \A i \in 0 .. Len(s) : h[i] \in Str
    BY JoinSteps
  <2>2. Len(s) \in 0 .. Len(s)
    BY <1>1 DEF n
  <2> QED
    BY <2>1, <2>2 DEF JoinRun
<1> QED
  BY <1>5, <1>6, <1>7 DEF n

\* A PushReq is read as it was written, and merged into what was read before.
LEMMA PushReqMerges ==
  ASSUME NEW f, NEW buf, NEW p0, NEW limit, Loop(f, "PushReq", buf, p0, limit),
         NEW m \in PushReqMsgs, NEW x \in PushReqPlain
  PROVE  Piece(f, buf, p0, limit, m, PushReq_InternalSerialize(x), PushReq_MergeFrom(m, x))
<1> DEFINE v == x.infos
           s == [i \in DOMAIN v |-> <<10>> \o WriteVarint(Digits(oneInfo_ByteSizeLong(v[i])))
                                           \o oneInfo_InternalSerialize(v[i])]
           J == JoinSeq(s)
           m1 == [m EXCEPT !.infos = m.infos \o v]
<1>1. v \in Seq(oneInfoPlain) /\ x.unk = <<>>
  BY DEF PushReqPlain
<1>2. PushReq_InternalSerialize(x) = J \o <<>>
  BY <1>1 DEF PushReq_InternalSerialize
<1>3. m1 = PushReq_MergeFrom(m, x)
  <2> DEFINE c == m.infos \o v
  <2>1. m.unk \in Seq(Nat)
    BY DEF PushReqMsgs, Str
  <2>2. m.unk \o <<>> = m.unk
    BY <2>1, ConcatEmptySeq
  <2>3. PushReq_MergeFrom(m, x) = [infos |-> c, unk |-> m.unk] /\ m1 = [m EXCEPT !.infos = c]
    BY <1>1, <2>2 DEF PushReq_MergeFrom
  <2> HIDE DEF c, m1
  <2> QED
    BY <2>3 DEF PushReqMsgs
<1> HIDE DEF v
<1>4. DOMAIN v = 1 .. Len(v) /\ Len(v) \in Nat /\ \A i \in 1 .. Len(v) : v[i] \in oneInfoPlain
  BY <1>1, LenProperties, ElementOfSeq
<1>5. \A i \in 1 .. Len(v) : s[i] = WriteBytes(<<10>>, oneInfo_InternalSerialize(v[i])) /\ s[i] \in Str
  <2> SUFFICES ASSUME NEW i \in 1 .. Len(v)
               PROVE  s[i] = WriteBytes(<<10>>, oneInfo_InternalSerialize(v[i])) /\ s[i] \in Str
    OBVIOUS
  <2> DEFINE o == v[i]
  <2>1. o \in oneInfoPlain
    BY <1>4
  <2>2. s[i] = <<10>> \o WriteVarint(Digits(oneInfo_ByteSizeLong(o))) \o oneInfo_InternalSerialize(o)
    BY <1>4
  <2> HIDE DEF o, s
  <2>3. s[i] = WriteBytes(<<10>>, oneInfo_InternalSerialize(o)) /\ s[i] \in Str
    BY <2>1, <2>2, InfoBytes
  <2> QED
    BY <2>3 DEF o
<1>6. DOMAIN s = 1 .. Len(v)
  BY <1>4
<1>7. s = [i \in 1 .. Len(v) |-> s[i]]
  BY <1>6
<1> HIDE DEF s
<1>8. s \in Seq(Str) /\ Len(s) = Len(v)
  BY <1>4, <1>5, <1>7
<1>9. Piece(f, buf, p0, limit, m, J, m1) /\ J \in Str
  BY <1>1, <1>5, <1>8, PushReq_infosPiece DEF InfoField
<1> HIDE DEF J, m1
<1>10. Piece(f, buf, p0, limit, m1, <<>>, m1) /\ <<>> \in Str
  BY PieceEmpty, EmptySeq DEF Str
<1>11. Piece(f, buf, p0, limit, m, J \o <<>>, m1)
  BY <1>9, <1>10, PieceConcat
<1> QED
  BY <1>2, <1>3, <1>11

-----------------------------------------------------------------------------
(* The older class: TestPb reads through a CodedInputStream.                *)

\* A value that ends inside the input is what a CodedInputStream reads.
LEMMA CodedSame ==
  ASSUME NEW buf \in Str, NEW d \in Str, NEW e \in Pos, e <= Len(buf) + 1
  PROVE  Coded(buf, Read(TRUE, d, e)) = Read(TRUE, d, e)
<1> DEFINE r == Read(TRUE, d, e)
<1>1. r \in [ok : BOOLEAN, val : Str, pos : Pos] /\ r.ok = TRUE /\ r.pos = e
  BY DEF Read
<1> HIDE DEF r
<1>2. (r.ok /\ r.pos <= Len(buf) + 1) = TRUE
  BY <1>1
<1>3. Coded(buf, r) = [r EXCEPT !.ok = TRUE]
  BY <1>1, <1>2 DEF Coded
<1>4. [r EXCEPT !.ok = TRUE] = r
  BY <1>1
<1> QED
  BY <1>3, <1>4 DEF r

\* A varint,
LEMMA CodedVarintAt ==
  ASSUME NEW buf \in Str, NEW p \in Pos, NEW d \in Digits64, At(buf, p, WriteVarint(d))
  PROVE  Coded(buf, ReadVarint(buf, p, 10)) = Read(TRUE, d, p + VarintSize(d))
<1> DEFINE z == VarintSize(d)
           e == p + z
<1>1. z \in 1 .. 10 /\ Len(WriteVarint(d)) = z /\ d \in Str
  BY VarintBytes, Digits64Are
<1>2. p + z <= Len(buf) + 1
  BY <1>1 DEF At
<1>3. ReadVarint(buf, p, 10) = Read(TRUE, d, e)
  <2>1. z <= 10 /\ 10 \in Nat
    BY <1>1
  <2> QED
    BY <2>1, ReadVarintAt
<1> HIDE DEF z
<1>4. e \in Pos /\ e <= Len(buf) + 1
  BY <1>1, <1>2 DEF Pos
<1> HIDE DEF e
<1>5. Coded(buf, Read(TRUE, d, e)) = Read(TRUE, d, e)
  BY <1>1, <1>4, CodedSame
<1> QED
  BY <1>3, <1>5 DEF e, z

\* a part of the buffer that is a sequence that was written there,
LEMMA SubSeqAt ==
  ASSUME NEW buf \in Str, NEW q \in Pos, NEW s \in Str, At(buf, q, s), NEW l \in Int, l = (q - 1) + Len(s)
  PROVE  SubSeq(buf, q, l) = s
<1> DEFINE n == Len(s)
           c == SubSeq(buf, q, l)
<1>1. n \in Nat /\ q \in Nat /\ q >= 1 /\ Len(buf) \in Nat /\ l <= Len(buf) /\ l = (q - 1) + n
  BY LenProperties DEF At, Pos, Str
<1>2. \A i \in 1 .. n : buf[(q - 1) + i] = s[i]
  BY DEF At
<1> HIDE DEF n
<1>3. \A i \in q .. l : buf[i] \in Nat
  <2>1. \A i \in 1 .. Len(buf) : buf[i] \in Nat
    BY ElementOfSeq DEF Str
  <2> QED
    BY <1>1, <2>1
<1>4. c \in Seq(Nat) /\ Len(c) = (IF q <= l THEN (l - q) + 1 ELSE 0) /\ \A i \in 1 .. (l - q) + 1 : c[i] = buf[(q + i) - 1]
  BY <1>1, <1>3, SubSeqProperties, SMTT(60)
<1> HIDE DEF c
<1>5. Len(c) = n /\ \A i \in 1 .. n : c[i] = s[i]
  <2>1. (l - q) + 1 = n /\ (IF q <= l THEN (l - q) + 1 ELSE 0) = n /\ \A i \in 1 .. n : (q + i) - 1 = (q - 1) + i
    BY <1>1
  <2> QED
    BY <1>2, <1>4, <2>1
<1>6. c = s
  BY <1>4, <1>5, SeqEqual DEF n, Str
<1> QED
  BY <1>6 DEF c

\* and a string.
LEMMA ReadTextAt ==
  ASSUME NEW buf \in Str, NEW p \in Pos, NEW s \in Utf8, Len(s) < SizeLimit, NEW old,
         At(buf, p, WriteVarint(Digits(Len(s))) \o s)
  PROVE  ReadText(old, buf, p) = Read(TRUE, s, (p + SizeBytes(Len(s))) + Len(s))
<1> DEFINE l == Len(s)
           d == Digits(l)
           z == WriteVarint(d)
           k == SizeBytes(l)
           q == p + k
           e == q + l
           n == Coded(buf, ReadVarint(buf, p, 10))
           last == IF e <= Len(buf) THEN e - 1 ELSE Len(buf)
<1>1. s \in Str /\ IsUtf8(s) /\ l \in Nat /\ l < SizeLimit /\ Len(buf) \in Nat
  BY LenProperties DEF Utf8, Str
<1> HIDE DEF l
<1>2. d \in Digits64 /\ VarintSize(d) = k /\ Len(z) = k /\ k \in Nat /\ z \in Str /\ Number(d) = l /\ Len(d) <= 3
  BY <1>1, SizeDigits DEF SizeBytes
<1>3. At(buf, p, z \o s)
  BY DEF l
<1> HIDE DEF d, k
<1>4. At(buf, p, z) /\ At(buf, p + Len(z), s)
  <2> DEFINE y == z
  <2>1. y \in Str /\ At(buf, p, y \o s)
    BY <1>2, <1>3
  <2> HIDE DEF y
  <2>2. At(buf, p, y) /\ At(buf, p + Len(y), s)
    BY <1>1, <2>1, AtConcat
  <2> QED
    BY <2>2 DEF y
<1>5. n = Read(TRUE, d, p + VarintSize(d))
  BY <1>2, <1>4, CodedVarintAt
<1>6. At(buf, q, s) /\ q \in Pos /\ q \in Nat
  BY <1>2, <1>4 DEF Pos
<1>7. n.ok = TRUE /\ n.val = d /\ n.pos = q
  <2> HIDE DEF n
  <2> QED
    BY <1>2, <1>5 DEF Read
<1>8. e <= Len(buf) + 1 /\ e \in Nat
  BY <1>1, <1>6 DEF At, l
<1>9. UInt32(d) = d
  <2>1. Len(d) \in Nat
    BY <1>2, Digits64Are
  <2>2. d \in Digits32
    BY <1>2, <2>1 DEF Digits32
  <2> QED
    BY <2>2, ValuesAre
<1>10. ~(Len(d) = 5 /\ d[5] >= 8)
  <2>1. Len(d) \in Nat
    BY <1>2, Digits64Are
  <2> QED
    BY <1>2, <2>1
<1>11. last = e - 1 /\ last = (q - 1) + l /\ last \in Int
  BY <1>1, <1>6, <1>8
<1>12. CodedString(old, buf, p) = Read(e <= Len(buf) + 1, SubSeq(buf, q, last), e)
  <2> DEFINE size == UInt32(n.val)
             end == n.pos + Number(size)
             neg == Len(size) = 5 /\ size[5] >= 8
             c == SubSeq(buf, n.pos, IF end <= Len(buf) THEN end - 1 ELSE Len(buf))
  <2>1. CodedString(old, buf, p) = IF ~n.ok \/ neg THEN Read(FALSE, old, p) ELSE Read(end <= Len(buf) + 1, c, end)
    BY DEF CodedString
  <2> HIDE DEF n
  <2>2. size = d
    BY <1>7, <1>9
  <2>3. end = e
    BY <1>2, <1>7, <2>2
  <2>4. ~neg
    BY <1>10, <2>2
  <2> HIDE DEF neg, size
  <2>5. CodedString(old, buf, p) = Read(end <= Len(buf) + 1, c, end)
    BY <1>7, <2>1, <2>4
  <2> HIDE DEF end
  <2>6. c = SubSeq(buf, q, last)
    BY <1>7, <2>3
  <2> HIDE DEF c
  <2> QED
    BY <2>3, <2>5, <2>6
<1> HIDE DEF last
<1>13. SubSeq(buf, q, last) = s
  <2> DEFINE y == q
  <2>1. y \in Pos /\ At(buf, y, s) /\ last = (y - 1) + Len(s)
    BY <1>6, <1>11 DEF l
  <2> HIDE DEF y
  <2>2. SubSeq(buf, y, last) = s
    BY <1>1, <1>11, <2>1, SubSeqAt
  <2> QED
    BY <2>2 DEF y
<1>14. (e <= Len(buf) + 1) = TRUE
  BY <1>8
<1> HIDE DEF e
<1>15. CodedString(old, buf, p) = Read(TRUE, s, e)
  BY <1>12, <1>13, <1>14
<1> DEFINE c == CodedString(old, buf, p)
<1>16. ReadText(old, buf, p) = [c EXCEPT !.ok = @ /\ IsUtf8(c.val)]
  BY DEF ReadText
<1>17. c = Read(TRUE, s, e)
  BY <1>15
<1> HIDE DEF c
<1>18. c.val = s /\ c.ok = TRUE /\ c \in [ok : BOOLEAN, val : Str, pos : Nat]
  BY <1>1, <1>8, <1>17 DEF Read
<1>19. (c.ok /\ IsUtf8(c.val)) = TRUE
  BY <1>1, <1>18
<1>20. [c EXCEPT !.ok = @ /\ IsUtf8(c.val)] = [c EXCEPT !.ok = TRUE]
  BY <1>18, <1>19
<1>21. [c EXCEPT !.ok = TRUE] = c
  BY <1>18
<1> QED
  BY <1>16, <1>17, <1>20, <1>21 DEF e, q, k, l

\* The state of the parse between two fields.
TestPbGoing(m, p) == [ok |-> TRUE, done |-> FALSE, atEnd |-> FALSE, m |-> m, pos |-> p]

\* What the round does with each field it knows, with tag d before position q.
TestPbTaken(buf, p, m, d, q, v, e) ==
  /\ d = <<10>> /\ ReadText(m.sence, buf, q) = Read(TRUE, v, e)
       => TestPb_Round(TestPbGoing(m, p), buf) = TestPbGoing([m EXCEPT !.sence = v], e)
  /\ d = <<16>> /\ Coded(buf, ReadVarint(buf, q, 10)) = Read(TRUE, v, e)
       => TestPb_Round(TestPbGoing(m, p), buf) = TestPbGoing([m EXCEPT !.page = Int32(v)], e)
  /\ d = TableNameTag /\ ReadText(m.tablename, buf, q) = Read(TRUE, v, e)
       => TestPb_Round(TestPbGoing(m, p), buf) = TestPbGoing([m EXCEPT !.tablename = v], e)

\* After the tag of a field the round takes the value of that field.
LEMMA TestPbTakes ==
  ASSUME NEW buf \in Str, NEW p \in Pos, NEW m, NEW d \in Digits32, d # <<>>, At(buf, p, WriteVarint(d)),
         NEW q, q = p + Len(d), NEW v, NEW e
  PROVE  TestPbTaken(buf, p, m, d, q, v, e)
<1> DEFINE r == TestPbGoing(m, p)
           t == Coded(buf, ReadVarint(buf, r.pos, 10))
           tag == IF t.ok THEN UInt32(t.val) ELSE <<>>
           Go(x, next)  == [ok |-> x.ok, done |-> ~x.ok, atEnd |-> FALSE, m |-> next, pos |-> x.pos]
           s == ReadText(r.m.sence, buf, t.pos)
           w == Coded(buf, ReadVarint(buf, t.pos, 10))
           n == ReadText(r.m.tablename, buf, t.pos)
           u == IF WireType(tag) = 4 THEN Read(FALSE, <<>>, t.pos)
                ELSE Coded(buf, ReadUnknown(tag, buf, t.pos))
           gs == Go(s, [r.m EXCEPT !.sence = s.val])
           gw == Go(w, IF w.ok THEN [r.m EXCEPT !.page = Int32(w.val)] ELSE r.m)
           gn == Go(n, [r.m EXCEPT !.tablename = n.val])
           gu == Go(u, IF u.ok THEN [r.m EXCEPT !.unk = @ \o u.val] ELSE r.m)
           z == [r EXCEPT !.done = TRUE, !.atEnd = r.pos > Len(buf)]
<1>1. TestPb_Round(r, buf) =
        CASE r.done -> r
          [] ~r.done /\ tag = <<>> -> z
          [] ~r.done /\ tag = <<10>> -> gs
          [] ~r.done /\ tag = <<16>> -> gw
          [] ~r.done /\ tag = TableNameTag -> gn
          [] OTHER -> gu
  BY DEF TestPb_Round, TestPb_set_sence, TestPb_set_page, TestPb_set_tablename
<1>2. r.done = FALSE /\ r.pos = p /\ r.m = m
  BY DEF TestPbGoing
<1>3. d \in Digits64 /\ UInt32(d) = d /\ VarintSize(d) = Len(d)
  BY ValuesAre DEF VarintSize
<1>4. t = Read(TRUE, d, q)
  BY <1>2, <1>3, CodedVarintAt
<1> HIDE DEF r, t
<1>5. t.ok = TRUE /\ t.val = d /\ t.pos = q
  BY <1>4 DEF Read
<1>6. tag = d
  BY <1>3, <1>5
<1> HIDE DEF tag, z, gu
<1>7. ASSUME NEW a, a = Read(TRUE, v, e), NEW x
      PROVE  Go(a, x) = TestPbGoing(x, e) /\ a.val = v /\ a.ok = TRUE
  <2>1. a.ok = TRUE /\ a.val = v /\ a.pos = e
    BY <1>7 DEF Read
  <2>2. (~a.ok) = FALSE
    BY <2>1
  <2> QED
    BY <2>1, <2>2 DEF TestPbGoing
<1>8. s = ReadText(m.sence, buf, q) /\ w = Coded(buf, ReadVarint(buf, q, 10)) /\ n = ReadText(m.tablename, buf, q)
  BY <1>2, <1>5
<1> HIDE DEF Go, s, w, n
<1> DEFINE senceTag == <<10>>
           pageTag == <<16>>
<1>9. ASSUME d = senceTag, s = Read(TRUE, v, e) PROVE TestPb_Round(r, buf) = TestPbGoing([m EXCEPT !.sence = v], e)
  <2>1. gs = TestPbGoing([m EXCEPT !.sence = v], e)
    BY <1>2, <1>7, <1>9
  <2> HIDE DEF gs, gw, gn
  <2>2. TestPb_Round(r, buf) = gs
    <3>1. tag # <<>> /\ tag # <<16>> /\ tag # TableNameTag /\ tag = <<10>>
      BY <1>6, <1>9 DEF TableNameTag
    <3> QED
      BY <1>1, <1>2, <3>1
  <2> QED
    BY <2>1, <2>2
<1>10. ASSUME d = pageTag, w = Read(TRUE, v, e) PROVE TestPb_Round(r, buf) = TestPbGoing([m EXCEPT !.page = Int32(v)], e)
  <2>1. gw = TestPbGoing([m EXCEPT !.page = Int32(v)], e)
    BY <1>2, <1>7, <1>10
  <2> HIDE DEF gs, gw, gn
  <2>2. TestPb_Round(r, buf) = gw
    <3>1. tag # <<>> /\ tag # <<10>> /\ tag # TableNameTag /\ tag = <<16>>
      BY <1>6, <1>10 DEF TableNameTag
    <3> QED
      BY <1>1, <1>2, <3>1
  <2> QED
    BY <2>1, <2>2
<1>11. ASSUME d = TableNameTag, n = Read(TRUE, v, e)
       PROVE  TestPb_Round(r, buf) = TestPbGoing([m EXCEPT !.tablename = v], e)
  <2>1. gn = TestPbGoing([m EXCEPT !.tablename = v], e)
    BY <1>2, <1>7, <1>11
  <2> HIDE DEF gs, gw, gn
  <2>2. TestPb_Round(r, buf) = gn
    <3>1. tag # <<>> /\ tag # <<10>> /\ tag # <<16>> /\ tag = TableNameTag
      BY <1>6, <1>11 DEF TableNameTag
    <3> QED
      BY <1>1, <1>2, <3>1
  <2> QED
    BY <2>1, <2>2
<1> QED
  BY <1>8, <1>9, <1>10, <1>11 DEF r, TestPbTaken

\* A string field is a tag and a string.
TextThere(buf, p, d, s, old) ==
  /\ At(buf, p, WriteVarint(d)) /\ Len(WriteBytes(d, s)) \in Nat /\ Len(WriteBytes(d, s)) >= 1
  /\ ReadText(old, buf, p + Len(d)) = Read(TRUE, s, p + Len(WriteBytes(d, s)))

\* A string field that was written is there to be read.
LEMMA TextAt ==
  ASSUME NEW buf \in Str, Len(buf) <= SizeLimit, NEW p \in Pos, NEW d \in Digits64, d # <<>>,
         NEW s \in Str, s \in Utf8, At(buf, p, WriteBytes(d, s)), NEW old
  PROVE  TextThere(buf, p, d, s, old)
<1> DEFINE n == Len(s)
           a == WriteVarint(d)
           b == WriteVarint(Digits(n))
           w == WriteBytes(d, s)
           k == Len(d)
<1>1. s \in Str /\ n \in Nat /\ Len(buf) \in Nat /\ Len(buf) <= SizeLimit /\ p \in Nat /\ p >= 1
  BY LenProperties DEF Utf8, Str, Pos
<1>2. a \in Str /\ Len(a) = k /\ k \in Nat /\ k >= 1
  BY VarintBytes
<1>3. b \in Str /\ Len(b) = VarintSize(Digits(n)) /\ VarintSize(Digits(n)) \in Nat
  BY <1>1, DigitsType, WriteVarintSize
<1>4. w = (a \o b) \o s
  BY DEF WriteBytes
<1> HIDE DEF a, b, n, k
<1>5. w = a \o (b \o s)
  <2>1. a \in Seq(Nat) /\ b \in Seq(Nat) /\ s \in Seq(Nat)
    BY <1>1, <1>2, <1>3 DEF Str
  <2>2. (a \o b) \o s = a \o (b \o s)
    BY <2>1, StrAssoc
  <2> QED
    BY <1>4, <2>2
<1>6. b \o s \in Str /\ Len(b \o s) = Len(b) + n
  BY <1>1, <1>3, StrConcat DEF n
<1> DEFINE t == b \o s
<1> HIDE DEF t, w
<1>7. At(buf, p, a \o t)
  BY <1>5 DEF t, w
<1>8. At(buf, p, a) /\ At(buf, p + Len(a), t) /\ Len(a \o t) = Len(a) + Len(t)
  <2>1. t \in Str
    BY <1>6 DEF t
  <2>2. a \in Str
    BY <1>2
  <2> QED
    BY <1>7, <2>1, <2>2, AtConcat
<1> DEFINE q == p + k
<1>9. At(buf, q, t) /\ q \in Pos /\ q \in Nat
  BY <1>1, <1>2, <1>8 DEF Pos
<1> HIDE DEF q
<1>10. q + Len(t) <= Len(buf) + 1 /\ Len(t) = Len(b) + n /\ Len(b) \in Nat /\ q >= 1
  BY <1>3, <1>6, <1>9 DEF At, t, Pos
<1> DEFINE z == SizeBytes(n)
<1>17. Len(b) = z /\ z \in Nat /\ z >= 1
  BY <1>1, <1>3, DigitsType, WriteVarintSize DEF SizeBytes
<1> HIDE DEF z
<1>11. n < SizeLimit
  BY <1>1, <1>9, <1>10, <1>17 DEF SizeLimit
<1>13. Len(w) = k + (z + n)
  BY <1>2, <1>5, <1>8, <1>10, <1>17 DEF t
<1>14. ReadText(old, buf, q) = Read(TRUE, s, (q + SizeBytes(Len(s))) + Len(s))
  <2>1. Len(s) < SizeLimit /\ At(buf, q, WriteVarint(Digits(Len(s))) \o s)
    BY <1>9, <1>11 DEF n, t, b
  <2> QED
    BY <1>9, <2>1, ReadTextAt
<1>15. (q + z) + n = p + Len(w)
  BY <1>1, <1>2, <1>13, <1>17 DEF q
<1>16. Len(w) \in Nat /\ Len(w) >= 1
  BY <1>1, <1>2, <1>13, <1>17
<1> QED
  BY <1>8, <1>14, <1>15, <1>16 DEF a, n, q, w, k, z, TextThere

\* f is the loop of a parse of a TestPb,
TestPbLoop(f, buf) ==
  /\ buf \in Str /\ Len(buf) <= SizeLimit
  /\ \A k \in 1 .. Len(buf) + 1 : f[k] = TestPb_Round(f[k - 1], buf)

\* it has read m up to position p,
TestPbReaches(f, buf, m, p) ==
  /\ p \in Pos /\ \E k \in 0 .. Len(buf) : f[k] = TestPbGoing(m, p) /\ k + 1 <= p

\* and reads the bytes s, wherever they are, and makes x of the message m.
TestPbPiece(f, buf, m, s, x) ==
  \A p : TestPbReaches(f, buf, m, p) /\ At(buf, p, s) => TestPbReaches(f, buf, x, p + Len(s))

\* One round is one field.
LEMMA TestPbOneRound ==
  ASSUME NEW f, NEW buf, TestPbLoop(f, buf), NEW m, NEW s, NEW x, Len(s) \in Nat, Len(s) >= 1,
         \A p \in Pos : At(buf, p, s) => TestPb_Round(TestPbGoing(m, p), buf) = TestPbGoing(x, p + Len(s))
  PROVE  TestPbPiece(f, buf, m, s, x)
<1> SUFFICES ASSUME NEW p, TestPbReaches(f, buf, m, p), At(buf, p, s)
             PROVE  TestPbReaches(f, buf, x, p + Len(s))
  BY DEF TestPbPiece
<1> DEFINE l == Len(s)
           n == Len(buf)
           q == p + l
<1>1. n \in Nat /\ p \in Pos /\ p \in Nat /\ p >= 1 /\ l \in Nat /\ l >= 1 /\ p + l <= n + 1
  BY LenProperties DEF TestPbLoop, TestPbReaches, Pos, Str, At
<1>2. PICK k \in 0 .. n : f[k] = TestPbGoing(m, p) /\ k + 1 <= p
  BY DEF TestPbReaches
<1>3. \A j \in 1 .. n + 1 : f[j] = TestPb_Round(f[j - 1], buf)
  BY DEF TestPbLoop
<1>4. TestPb_Round(TestPbGoing(m, p), buf) = TestPbGoing(x, q)
  BY <1>1
<1> HIDE DEF l, n
<1>5. k + 1 \in 1 .. n + 1 /\ (k + 1) - 1 = k /\ k + 1 \in 0 .. n /\ (k + 1) + 1 <= q /\ q \in Pos
  BY <1>1, <1>2 DEF Pos
<1> HIDE DEF q
<1>6. f[k + 1] = TestPbGoing(x, q)
  BY <1>2, <1>3, <1>4, <1>5
<1>7. TestPbReaches(f, buf, x, q)
  BY <1>5, <1>6 DEF TestPbReaches, n
<1> QED
  BY <1>7 DEF q, l

\* A field that is left out changes nothing,
LEMMA TestPbPieceEmpty ==
  ASSUME NEW f, NEW buf, NEW m
  PROVE  TestPbPiece(f, buf, m, <<>>, m)
<1> SUFFICES ASSUME NEW p, TestPbReaches(f, buf, m, p) PROVE TestPbReaches(f, buf, m, p + Len(<<>>))
  BY DEF TestPbPiece
<1>1. p + Len(<<>>) = p
  BY DEF TestPbReaches, Pos
<1> QED
  BY <1>1

\* and one field follows the other.
LEMMA TestPbPieceConcat ==
  ASSUME NEW f, NEW buf, TestPbLoop(f, buf), NEW m, NEW s \in Str, NEW x, NEW t \in Str, NEW y,
         TestPbPiece(f, buf, m, s, x), TestPbPiece(f, buf, x, t, y)
  PROVE  TestPbPiece(f, buf, m, s \o t, y)
<1> SUFFICES ASSUME NEW p, TestPbReaches(f, buf, m, p), At(buf, p, s \o t)
             PROVE  TestPbReaches(f, buf, y, p + Len(s \o t))
  BY DEF TestPbPiece
<1> DEFINE a == Len(s)
           b == Len(t)
           q == p + a
<1>1. buf \in Str /\ p \in Pos
  BY DEF TestPbLoop, TestPbReaches
<1>2. At(buf, p, s) /\ At(buf, q, t) /\ q \in Pos /\ a \in Nat /\ b \in Nat /\ Len(s \o t) = a + b
  BY <1>1, AtConcat
<1> HIDE DEF a, b
<1>3. q + b = p + (a + b)
  BY <1>1, <1>2 DEF Pos
<1> HIDE DEF q
<1>4. TestPbReaches(f, buf, x, q)
  BY <1>2 DEF TestPbPiece, q, a
<1>5. TestPbReaches(f, buf, y, q + b)
  BY <1>2, <1>4 DEF TestPbPiece, b
<1> QED
  BY <1>2, <1>3, <1>5

\* The tags of a TestPb.
LEMMA TestPbTags ==
  /\ <<10>> \in Digits32 /\ <<16>> \in Digits32 /\ TableNameTag \in Digits32
  /\ <<10>> # <<>> /\ <<16>> # <<>> /\ TableNameTag # <<>>
<1>1. <<10>> \in Str /\ <<16>> \in Str /\ TableNameTag \in Str
  BY TagsAre
<1> QED
  BY <1>1 DEF Digits32, Digits64, Shortest, TableNameTag

\* sence is read as it was written.
LEMMA TestPb_sencePiece ==
  ASSUME NEW f, NEW buf, TestPbLoop(f, buf), NEW m \in TestPbMsgs, NEW d \in Str, d \in Utf8
  PROVE  /\ TestPbPiece(f, buf, m, BytesField(<<10>>, d), [m EXCEPT !.sence = Newer(m.sence, d)])
         /\ [m EXCEPT !.sence = Newer(m.sence, d)] \in TestPbMsgs /\ BytesField(<<10>>, d) \in Str
<1> DEFINE x == [m EXCEPT !.sence = Newer(m.sence, d)]
           g == <<10>>
           w == WriteBytes(g, d)
<1>1. m.sence \in Str
  BY DEF TestPbMsgs
<1>2. x \in TestPbMsgs
  BY <1>1, NewerType DEF TestPbMsgs, Newer
<1>3. g \in Digits32 /\ g \in Digits64 /\ g # <<>> /\ g \in Str
  BY TestPbTags, ValuesAre
<1>4. CASE d = <<>>
  <2>1. x = m
    <3>1. Newer(m.sence, d) = m.sence
      BY <1>4 DEF Newer
    <3> QED
      BY <3>1 DEF TestPbMsgs
  <2>2. BytesField(g, d) = <<>> /\ <<>> \in Str
    BY <1>4, EmptySeq DEF BytesField, Str
  <2> HIDE DEF x, g
  <2> QED
    BY <1>2, <2>1, <2>2, TestPbPieceEmpty DEF x, g
<1>5. CASE d # <<>>
  <2>1. BytesField(g, d) = w
    BY <1>5 DEF BytesField
  <2>2. [m EXCEPT !.sence = d] = x
    BY <1>5 DEF Newer
  <2> HIDE DEF x
  <2>3. w \in Str /\ buf \in Str /\ Len(buf) <= SizeLimit
    <3> HIDE DEF g
    <3> QED
      BY <1>3, WriteBytesSize DEF TestPbLoop
  <2>4. Len(w) \in Nat /\ Len(w) >= 1
    <3>1. VarintSize(g) \in Nat /\ VarintSize(g) >= 1 /\ LengthSize(Len(d)) \in Nat /\ Len(w) = VarintSize(g) + LengthSize(Len(d))
      <4> HIDE DEF g
      <4> QED
        BY <1>3, WriteBytesSize, WriteVarintSize
    <3> QED
      BY <3>1
  <2>5. ASSUME NEW p \in Pos, At(buf, p, w)
        PROVE  TestPb_Round(TestPbGoing(m, p), buf) = TestPbGoing(x, p + Len(w))
    <3> DEFINE q == p + Len(g)
               e == p + Len(w)
               o == m.sence
    <3>1. At(buf, p, WriteVarint(g)) /\ ReadText(o, buf, q) = Read(TRUE, d, e)
      <4> HIDE DEF g, o
      <4>1. TextThere(buf, p, g, d, o)
        BY <1>3, <2>3, <2>5, TextAt
      <4> QED
        BY <4>1 DEF TextThere
    <3>2. q = p + Len(g) /\ g = <<10>>
      OBVIOUS
    <3> HIDE DEF q, e, w, g
    <3>3. TestPb_Round(TestPbGoing(m, p), buf) = TestPbGoing([m EXCEPT !.sence = d], e)
      <4>1. g \in Digits32 /\ g # <<>>
        BY <1>3
      <4>2. q = p + Len(g)
        BY <3>2
      <4>3. TestPbTaken(buf, p, m, g, q, d, e)
        BY <2>3, <3>1, <4>1, <4>2, TestPbTakes
      <4> QED
        BY <3>1, <3>2, <4>3 DEF TestPbTaken
    <3> QED
      BY <2>2, <3>3 DEF e
  <2> HIDE DEF w
  <2>6. TestPbPiece(f, buf, m, w, x)
    BY <2>4, <2>5, TestPbOneRound
  <2> QED
    BY <1>2, <2>1, <2>3, <2>6 DEF x
<1> QED
  BY <1>4, <1>5

\* tablename is read as it was written.
LEMMA TestPb_tablenamePiece ==
  ASSUME NEW f, NEW buf, TestPbLoop(f, buf), NEW m \in TestPbMsgs, NEW d \in Str, d \in Utf8
  PROVE  /\ TestPbPiece(f, buf, m, BytesField(TableNameTag, d), [m EXCEPT !.tablename = Newer(m.tablename, d)])
         /\ [m EXCEPT !.tablename = Newer(m.tablename, d)] \in TestPbMsgs /\ BytesField(TableNameTag, d) \in Str
<1> DEFINE x == [m EXCEPT !.tablename = Newer(m.tablename, d)]
           g == TableNameTag
           w == WriteBytes(g, d)
<1>1. m.tablename \in Str
  BY DEF TestPbMsgs
<1>2. x \in TestPbMsgs
  BY <1>1, NewerType DEF TestPbMsgs, Newer
<1>3. g \in Digits32 /\ g \in Digits64 /\ g # <<>> /\ g \in Str
  BY TestPbTags, ValuesAre
<1>4. CASE d = <<>>
  <2>1. x = m
    <3>1. Newer(m.tablename, d) = m.tablename
      BY <1>4 DEF Newer
    <3> QED
      BY <3>1 DEF TestPbMsgs
  <2>2. BytesField(g, d) = <<>> /\ <<>> \in Str
    BY <1>4, EmptySeq DEF BytesField, Str
  <2> HIDE DEF x, g
  <2> QED
    BY <1>2, <2>1, <2>2, TestPbPieceEmpty DEF x, g
<1>5. CASE d # <<>>
  <2>1. BytesField(g, d) = w
    BY <1>5 DEF BytesField
  <2>2. [m EXCEPT !.tablename = d] = x
    BY <1>5 DEF Newer
  <2> HIDE DEF x
  <2>3. w \in Str /\ buf \in Str /\ Len(buf) <= SizeLimit
    <3> HIDE DEF g
    <3> QED
      BY <1>3, WriteBytesSize DEF TestPbLoop
  <2>4. Len(w) \in Nat /\ Len(w) >= 1
    <3>1. VarintSize(g) \in Nat /\ VarintSize(g) >= 1 /\ LengthSize(Len(d)) \in Nat /\ Len(w) = VarintSize(g) + LengthSize(Len(d))
      <4> HIDE DEF g
      <4> QED
        BY <1>3, WriteBytesSize, WriteVarintSize
    <3> QED
      BY <3>1
  <2>5. ASSUME NEW p \in Pos, At(buf, p, w)
        PROVE  TestPb_Round(TestPbGoing(m, p), buf) = TestPbGoing(x, p + Len(w))
    <3> DEFINE q == p + Len(g)
               e == p + Len(w)
               o == m.tablename
    <3>1. At(buf, p, WriteVarint(g)) /\ ReadText(o, buf, q) = Read(TRUE, d, e)
      <4> HIDE DEF g, o
      <4>1. TextThere(buf, p, g, d, o)
        BY <1>3, <2>3, <2>5, TextAt
      <4> QED
        BY <4>1 DEF TextThere
    <3>2. q = p + Len(g) /\ g = TableNameTag
      OBVIOUS
    <3> HIDE DEF q, e, w, g
    <3>3. TestPb_Round(TestPbGoing(m, p), buf) = TestPbGoing([m EXCEPT !.tablename = d], e)
      <4>1. g \in Digits32 /\ g # <<>>
        BY <1>3
      <4>2. q = p + Len(g)
        BY <3>2
      <4>3. TestPbTaken(buf, p, m, g, q, d, e)
        BY <2>3, <3>1, <4>1, <4>2, TestPbTakes
      <4> QED
        BY <3>1, <3>2, <4>3 DEF TestPbTaken
    <3> QED
      BY <2>2, <3>3 DEF e
  <2> HIDE DEF w
  <2>6. TestPbPiece(f, buf, m, w, x)
    BY <2>4, <2>5, TestPbOneRound
  <2> QED
    BY <1>2, <2>1, <2>3, <2>6 DEF x
<1> QED
  BY <1>4, <1>5

\* page is read as it was written: an int32 stays what it is.
LEMMA TestPb_pagePiece ==
  ASSUME NEW f, NEW buf, TestPbLoop(f, buf), NEW m \in TestPbMsgs, NEW d \in DigitsInt32
  PROVE  /\ TestPbPiece(f, buf, m, VarintField(<<16>>, d), [m EXCEPT !.page = Newer(m.page, d)])
         /\ [m EXCEPT !.page = Newer(m.page, d)] \in TestPbMsgs /\ VarintField(<<16>>, d) \in Str
<1> DEFINE x == [m EXCEPT !.page = Newer(m.page, d)]
           g == <<16>>
           a == WriteVarint(g)
           b == WriteVarint(d)
           w == a \o b
<1>1. m.page \in Str /\ d \in Digits64 /\ d \in Str /\ Int32(d) = d
  BY ValuesAre DEF TestPbMsgs
<1>2. x \in TestPbMsgs
  BY <1>1, NewerType DEF TestPbMsgs, Newer
<1>3. g \in Digits32 /\ g \in Digits64 /\ g # <<>> /\ g \in Str
  BY TestPbTags, ValuesAre
<1>4. CASE d = <<>>
  <2>1. x = m
    <3>1. Newer(m.page, d) = m.page
      BY <1>4 DEF Newer
    <3> QED
      BY <3>1 DEF TestPbMsgs
  <2>2. VarintField(g, d) = <<>> /\ <<>> \in Str
    BY <1>4, EmptySeq DEF VarintField, Str
  <2> HIDE DEF x, g
  <2> QED
    BY <1>2, <2>1, <2>2, TestPbPieceEmpty DEF x, g
<1>5. CASE d # <<>>
  <2>1. VarintField(g, d) = w
    BY <1>5 DEF VarintField
  <2>2. [m EXCEPT !.page = d] = x
    BY <1>5 DEF Newer
  <2> HIDE DEF x
  <2>3. a \in Str /\ Len(a) = Len(g) /\ Len(g) \in Nat /\ Len(g) >= 1 /\ buf \in Str
    <3>1. buf \in Str
      BY DEF TestPbLoop
    <3> HIDE DEF g
    <3> QED
      BY <1>3, <3>1, VarintBytes, Digits64Are
  <2>4. b \in Str /\ Len(b) = VarintSize(d) /\ VarintSize(d) \in Nat
    BY <1>1, VarintBytes
  <2> HIDE DEF a, b
  <2>5. w \in Str /\ Len(w) = Len(a) + Len(b)
    BY <2>3, <2>4, StrConcat
  <2>6. Len(w) \in Nat /\ Len(w) >= 1
    BY <2>3, <2>4, <2>5
  <2>7. ASSUME NEW p \in Pos, At(buf, p, w)
        PROVE  TestPb_Round(TestPbGoing(m, p), buf) = TestPbGoing(x, p + Len(w))
    <3> DEFINE q == p + Len(g)
               e == p + Len(w)
    <3>1. At(buf, p, a \o b) /\ p \in Nat
      BY <2>7 DEF Pos
    <3>2. At(buf, p, a) /\ At(buf, p + Len(a), b) /\ p + Len(a) \in Pos
      <4>1. a \in Str /\ b \in Str
        BY <2>3, <2>4
      <4> QED
        BY <2>3, <3>1, <4>1, AtConcat
    <3>3. At(buf, q, b) /\ q \in Pos /\ q \in Nat
      BY <2>3, <3>2 DEF Pos
    <3> HIDE DEF g
    <3>4. q + VarintSize(d) = e
      BY <2>3, <2>4, <2>5, <3>1
    <3>5. q = p + Len(g) /\ g = <<16>>
      BY DEF g
    <3> HIDE DEF q, e, w
    <3>6. Coded(buf, ReadVarint(buf, q, 10)) = Read(TRUE, d, e)
      BY <1>1, <2>3, <3>3, <3>4, CodedVarintAt DEF b
    <3>7. TestPb_Round(TestPbGoing(m, p), buf) = TestPbGoing([m EXCEPT !.page = Int32(d)], e)
      <4>1. g \in Digits32 /\ g # <<>> /\ At(buf, p, WriteVarint(g))
        BY <1>3, <3>2 DEF a
      <4>2. q = p + Len(g)
        BY <3>5
      <4>3. TestPbTaken(buf, p, m, g, q, d, e)
        BY <2>3, <4>1, <4>2, TestPbTakes
      <4> QED
        BY <3>5, <3>6, <4>3 DEF TestPbTaken
    <3> QED
      BY <1>1, <2>2, <3>7 DEF e
  <2> HIDE DEF w
  <2>8. TestPbPiece(f, buf, m, w, x)
    BY <2>6, <2>7, TestPbOneRound
  <2> QED
    BY <1>2, <2>1, <2>5, <2>8 DEF x
<1> QED
  BY <1>4, <1>5

\* A TestPb is read as it was written, and merged into what was read before.
LEMMA TestPbMerges ==
  ASSUME NEW f, NEW buf, TestPbLoop(f, buf), NEW m \in TestPbMsgs, NEW x \in TestPbPlain
  PROVE  TestPbPiece(f, buf, m, TestPb_SerializeWithCachedSizes(x), TestPb_MergeFrom(m, x))
<1> DEFINE s1 == BytesField(<<10>>, x.sence)
           m1 == [m EXCEPT !.sence = Newer(m.sence, x.sence)]
           s2 == VarintField(<<16>>, x.page)
           m2 == [m1 EXCEPT !.page = Newer(m1.page, x.page)]
           s3 == BytesField(TableNameTag, x.tablename)
           m3 == [m2 EXCEPT !.tablename = Newer(m2.tablename, x.tablename)]
<1>1. /\ x.sence \in Utf8 /\ x.tablename \in Utf8 /\ x.page \in DigitsInt32 /\ x.unk = <<>>
      /\ x.sence \in Str /\ x.tablename \in Str
  BY DEF TestPbPlain, Utf8
<1>2. TestPb_SerializeWithCachedSizes(x) = s1 \o s2 \o s3 \o <<>>
  BY <1>1 DEF TestPb_SerializeWithCachedSizes
<1>3. m3 = TestPb_MergeFrom(m, x)
  <2>1. m.unk \in Seq(Nat)
    BY DEF TestPbMsgs, Str
  <2>2. m.unk \o <<>> = m.unk
    BY <2>1, ConcatEmptySeq
  <2>3. TestPb_MergeFrom(m, x) = [sence |-> Newer(m.sence, x.sence), tablename |-> Newer(m.tablename, x.tablename),
                                  page |-> Newer(m.page, x.page), unk |-> m.unk]
    BY <1>1, <2>2 DEF TestPb_MergeFrom
  <2>4. m1 = [sence |-> Newer(m.sence, x.sence), tablename |-> m.tablename, page |-> m.page, unk |-> m.unk]
    BY DEF TestPbMsgs
  <2> HIDE DEF m1
  <2>5. m2 = [sence |-> Newer(m.sence, x.sence), tablename |-> m.tablename, page |-> Newer(m.page, x.page), unk |-> m.unk]
    BY <2>4
  <2> HIDE DEF m2
  <2>6. m3 = [sence |-> Newer(m.sence, x.sence), tablename |-> Newer(m.tablename, x.tablename),
              page |-> Newer(m.page, x.page), unk |-> m.unk]
    BY <2>5
  <2> QED
    BY <2>3, <2>6
<1>4. TestPbPiece(f, buf, m, s1, m1) /\ m1 \in TestPbMsgs /\ s1 \in Str
  BY <1>1, TestPb_sencePiece
<1> HIDE DEF s1, m1
<1>5. TestPbPiece(f, buf, m1, s2, m2) /\ m2 \in TestPbMsgs /\ s2 \in Str
  BY <1>1, <1>4, TestPb_pagePiece
<1> HIDE DEF s2, m2
<1>6. TestPbPiece(f, buf, m2, s3, m3) /\ s3 \in Str
  BY <1>1, <1>5, TestPb_tablenamePiece
<1> HIDE DEF s3, m3
<1>7. TestPbPiece(f, buf, m3, <<>>, m3) /\ <<>> \in Str
  BY TestPbPieceEmpty, EmptySeq DEF Str
<1>8. TestPbPiece(f, buf, m, s1 \o s2, m2) /\ s1 \o s2 \in Str
  BY <1>4, <1>5, TestPbPieceConcat, StrConcat
<1> DEFINE t2 == s1 \o s2
<1>9. TestPbPiece(f, buf, m, t2, m2) /\ t2 \in Str
  BY <1>8
<1> HIDE DEF t2
<1>10. TestPbPiece(f, buf, m, t2 \o s3, m3) /\ t2 \o s3 \in Str
  BY <1>6, <1>9, TestPbPieceConcat, StrConcat
<1> DEFINE t3 == t2 \o s3
<1>11. TestPbPiece(f, buf, m, t3, m3) /\ t3 \in Str
  BY <1>10
<1> HIDE DEF t3
<1>12. TestPbPiece(f, buf, m, t3 \o <<>>, m3)
  BY <1>7, <1>11, TestPbPieceConcat
<1> QED
  BY <1>2, <1>3, <1>12 DEF t2, t3

-----------------------------------------------------------------------------
(* The ends of a parse.                                                     *)

\* A CodedInputStream reads nothing past the end,
LEMMA CodedPastEnd ==
  ASSUME NEW buf \in Str, NEW p \in Pos, p > Len(buf)
  PROVE  ~Coded(buf, ReadVarint(buf, p, 10)).ok
<1> DEFINE ends == {i \in 1 .. 10 : ByteAt(buf, p + i - 1) < 128}
           n    == Min(ends)
           d    == [i \in 1 .. n |-> ByteAt(buf, p + i - 1) % 128]
           v    == ReadVarint(buf, p, 10)
<1>1. v = IF ends = {} THEN Read(FALSE, <<>>, p) ELSE Read(TRUE, UInt64(d), p + n)
  BY DEF ReadVarint
<1>2. ends \in SUBSET Nat /\ \A k \in ends : k \in Nat /\ k >= 1
  OBVIOUS
<1>3. v \in Reads(Str)
  BY ReadVarintType
<1> HIDE DEF ends, v
<1>4. Coded(buf, v).ok = (v.ok /\ v.pos <= Len(buf) + 1)
  BY <1>3 DEF Coded, Reads
<1>5. CASE ends = {}
  <2>1. v.ok = FALSE
    BY <1>1, <1>5 DEF Read
  <2> QED
    BY <1>4, <2>1 DEF v
<1>6. CASE ends # {}
  <2>1. \E x \in ends : \A y \in ends : x <= y
    BY <1>2, <1>6, LeastNat
  <2>2. n \in ends
    BY <2>1 DEF Min
  <2> HIDE DEF n
  <2>3. v.pos = p + n
    BY <1>1, <1>6 DEF Read
  <2>4. ~(v.pos <= Len(buf) + 1)
    <3>1. n \in Nat /\ n >= 1 /\ p \in Nat /\ Len(buf) \in Nat
      BY <1>2, <2>2, LenProperties DEF Pos, Str
    <3> QED
      BY <2>3, <3>1
  <2> QED
    BY <1>4, <2>4 DEF v
<1> QED
  BY <1>5, <1>6

\* The loop has ended at position p, at the end of the input or before it.
TestPbOver(m, p, end) == [ok |-> TRUE, done |-> TRUE, atEnd |-> end, m |-> m, pos |-> p]

\* At a zero byte.
NulAt(buf, p) == At(buf, p, <<0>>)

\* Past the end, and at a zero byte, no tag can be read, so the round ends the loop.
LEMMA TestPbStops ==
  ASSUME NEW buf \in Str, NEW p \in Pos, NEW m, p > Len(buf) \/ NulAt(buf, p)
  PROVE  TestPb_Round(TestPbGoing(m, p), buf) = TestPbOver(m, p, p > Len(buf))
<1> DEFINE r == TestPbGoing(m, p)
           t == Coded(buf, ReadVarint(buf, r.pos, 10))
           tag == IF t.ok THEN UInt32(t.val) ELSE <<>>
           z == [r EXCEPT !.done = TRUE, !.atEnd = r.pos > Len(buf)]
<1>1. r.done = FALSE /\ r.pos = p /\ r.m = m
  BY DEF TestPbGoing
<1>2. ~r.done /\ tag = <<>> => TestPb_Round(r, buf) = z
  <2> DEFINE Go(x, next)  == [ok |-> x.ok, done |-> ~x.ok, atEnd |-> FALSE, m |-> next, pos |-> x.pos]
             s == ReadText(r.m.sence, buf, t.pos)
             w == Coded(buf, ReadVarint(buf, t.pos, 10))
             n == ReadText(r.m.tablename, buf, t.pos)
             u == IF WireType(tag) = 4 THEN Read(FALSE, <<>>, t.pos)
                  ELSE Coded(buf, ReadUnknown(tag, buf, t.pos))
             gs == Go(s, TestPb_set_sence(r.m, s.val))
             gw == Go(w, IF w.ok THEN TestPb_set_page(r.m, w.val) ELSE r.m)
             gn == Go(n, TestPb_set_tablename(r.m, n.val))
             gu == Go(u, IF u.ok THEN [r.m EXCEPT !.unk = @ \o u.val] ELSE r.m)
  <2>1. TestPb_Round(r, buf) =
          CASE r.done -> r
            [] ~r.done /\ tag = <<>> -> z
            [] ~r.done /\ tag = <<10>> -> gs
            [] ~r.done /\ tag = <<16>> -> gw
            [] ~r.done /\ tag = TableNameTag -> gn
            [] OTHER -> gu
    BY DEF TestPb_Round
  <2> HIDE DEF gs, gw, gn, gu, z, r, tag
  <2>2. tag = <<>> => tag # <<10>> /\ tag # <<16>> /\ tag # TableNameTag
    BY DEF TableNameTag
  <2> QED
    BY <2>1, <2>2
<1>3. tag = <<>>
  <2>1. CASE p > Len(buf)
    <3>1. ~t.ok
      BY <1>1, <2>1, CodedPastEnd
    <3> QED
      BY <3>1
  <2>2. CASE NulAt(buf, p)
    <3> DEFINE d == <<>>
    <3>1. d \in Digits64 /\ UInt32(d) = d
      <4>1. <<>> \in Str
        BY EmptySeq DEF Str
      <4>2. <<>> \in Digits32
        BY <4>1 DEF Digits32, Digits64, Shortest
      <4> QED
        BY <4>2, ValuesAre
    <3>2. WriteVarint(d) = <<0>> /\ d = <<>>
      BY DEF WriteVarint
    <3> HIDE DEF d
    <3>3. Coded(buf, ReadVarint(buf, p, 10)) = Read(TRUE, d, p + VarintSize(d))
      BY <2>2, <3>1, <3>2, CodedVarintAt DEF NulAt
    <3>4. t.ok = TRUE /\ t.val = d
      BY <1>1, <3>3 DEF Read
    <3> QED
      BY <3>1, <3>2, <3>4
  <2> QED
    BY <2>1, <2>2
<1>4. z = TestPbOver(m, p, p > Len(buf))
  <2> DEFINE y == p > Len(buf)
  <2>1. z = [r EXCEPT !.done = TRUE, !.atEnd = y]
    BY <1>1
  <2>2. y \in BOOLEAN
    OBVIOUS
  <2> HIDE DEF y, z
  <2>3. r \in [ok : BOOLEAN, done : BOOLEAN, atEnd : BOOLEAN, m : {m}, pos : Pos] /\ r.ok = TRUE
    BY DEF TestPbGoing
  <2> HIDE DEF r
  <2>4. z \in [ok : BOOLEAN, done : BOOLEAN, atEnd : BOOLEAN, m : {m}, pos : Pos]
    BY <2>1, <2>2, <2>3
  <2>5. z.ok = TRUE /\ z.done = TRUE /\ z.atEnd = y /\ z.m = m /\ z.pos = p
    BY <1>1, <2>1, <2>3
  <2>6. z = [ok |-> z.ok, done |-> z.done, atEnd |-> z.atEnd, m |-> z.m, pos |-> z.pos]
    BY <2>4
  <2> QED
    BY <2>5, <2>6 DEF y, TestPbOver
<1> QED
  BY <1>1, <1>2, <1>3, <1>4

\* A loop that has ended stays where it is.
LEMMA TestPbLoopEnds ==
  ASSUME NEW f, NEW buf, TestPbLoop(f, buf), NEW r, NEW k \in 0 .. Len(buf) + 1, f[k] = r, r.done
  PROVE  f[Len(buf) + 1] = r
<1> DEFINE n == Len(buf) + 1
           Z == {j \in 0 .. n : f[j] = r}
<1>1. n \in Nat /\ \A j \in 1 .. n : f[j] = TestPb_Round(f[j - 1], buf)
  BY LenProperties DEF TestPbLoop, Str
<1>2. TestPb_Round(r, buf) = r
  BY DEF TestPb_Round
<1>3. \A j \in k .. n : j \in Z
  <2>1. k \in Z /\ k \in Nat
    BY <1>1
  <2>2. ASSUME NEW j \in k .. n - 1, j \in Z PROVE j + 1 \in Z
    <3>1. j + 1 \in 1 .. n /\ (j + 1) - 1 = j /\ j + 1 \in 0 .. n
      BY <1>1
    <3>2. f[j] = r
      BY <2>2
    <3>3. f[j + 1] = TestPb_Round(f[j], buf)
      BY <1>1, <3>1
    <3> QED
      BY <1>2, <3>1, <3>2, <3>3
  <2> HIDE DEF Z
  <2>3. \A j \in k .. n - 1 : j \in Z => j + 1 \in Z
    BY <2>2
  <2> HIDE DEF n
  <2> QED
    BY <1>1, <2>1, <2>3, UpTo
<1>4. n \in k .. n
  BY <1>1
<1> QED
  BY <1>3, <1>4

\* The verdict on a TestPb that was read to its end or to a zero byte at the end.
LEMMA TestPbEnd ==
  ASSUME NEW f, NEW buf, TestPbLoop(f, buf), NEW m, NEW p, TestPbReaches(f, buf, m, p),
         p > Len(buf) \/ NulAt(buf, p)
  PROVE  f[Len(buf) + 1] = TestPbOver(m, p, p > Len(buf))
<1> DEFINE n == Len(buf)
           r == TestPbOver(m, p, p > Len(buf))
<1>1. n \in Nat /\ p \in Pos /\ buf \in Str
  BY LenProperties DEF TestPbLoop, TestPbReaches, Str
<1>2. PICK k \in 0 .. n : f[k] = TestPbGoing(m, p)
  BY DEF TestPbReaches
<1>3. \A j \in 1 .. n + 1 : f[j] = TestPb_Round(f[j - 1], buf)
  BY DEF TestPbLoop
<1>4. k + 1 \in 1 .. n + 1 /\ (k + 1) - 1 = k /\ k + 1 \in 0 .. Len(buf) + 1
  BY <1>1
<1>5. TestPb_Round(TestPbGoing(m, p), buf) = r
  BY <1>1, TestPbStops
<1>6. r.done
  BY DEF TestPbOver
<1> HIDE DEF r
<1>7. f[k + 1] = r
  BY <1>2, <1>3, <1>4, <1>5
<1>8. f[Len(buf) + 1] = r
  BY <1>4, <1>6, <1>7, TestPbLoopEnds
<1> QED
  BY <1>8 DEF r

-----------------------------------------------------------------------------
(* What the accessors build.                                                *)

\* The messages of each type that accessors build.
LEMMA PlainAre ==
  /\ Plain("oneInfo") = oneInfoPlain
  /\ Plain("PushReq") = PushReqPlain
  /\ Plain("PushRsp") = PushRspPlain
  /\ Plain("PullReq") = PullReqPlain
  /\ Plain("PullRsp") = PullRspPlain
  /\ Plain("DelCacheReq") = DelCacheReqPlain
  /\ Plain("DelCacheRsp") = DelCacheRspPlain
  /\ Plain("HelloRequest") = HelloRequestPlain
  /\ Plain("HelloReply") = HelloReplyPlain
  /\ Plain("TestPb") = TestPbPlain
  BY DEF Plain

\* The values of the fields of such messages.
LEMMA PlainValues ==
  /\ \A d \in Digits64 : d \in Str
  /\ \A d \in Digits32 : d \in Str
  /\ \A d \in DigitsInt32 : d \in Str
  /\ \A d \in Utf8 : d \in Str
  /\ \A v \in Seq(Digits64) : v \in Seq(Str)
  /\ \A v \in Seq(Digits32) : v \in Seq(Str)
  /\ \A v \in Seq(oneInfoPlain) : v \in Seq(oneInfoMsgs)
  /\ <<>> \in Str /\ <<>> \in Digits64 /\ <<>> \in Digits32 /\ <<>> \in DigitsInt32 /\ <<>> \in Utf8
<1>1. /\ (\A d \in Digits64 : d \in Str) /\ (\A d \in Digits32 : d \in Str)
      /\ (\A d \in DigitsInt32 : d \in Str) /\ (\A d \in Utf8 : d \in Str)
  BY ValuesAre
<1>2. (\A v \in Seq(Digits64) : v \in Seq(Str)) /\ (\A v \in Seq(Digits32) : v \in Seq(Str))
  BY <1>1
<1>3. \A v \in Seq(oneInfoPlain) : v \in Seq(oneInfoMsgs)
  BY oneInfoPlainAre
<1>4. <<>> \in Str
  BY EmptySeq DEF Str
<1>5. <<>> \in Digits64
  BY <1>4 DEF Digits64, Shortest
<1>6. <<>> \in Digits32 /\ <<>> \in DigitsInt32
  BY <1>5 DEF Digits32, DigitsInt32
<1>7. <<>> \in Utf8
  BY <1>4 DEF Utf8, IsUtf8
<1> QED
  BY <1>1, <1>2, <1>3, <1>4, <1>5, <1>6, <1>7

\* A new message is one that accessors could have built.
LEMMA NewIsPlain ==
  ASSUME NEW t \in MessageTypes
  PROVE  New(t) \in Plain(t)
<1>1. \A S : <<>> \in Seq(S)
  BY EmptySeq
<1>2. CASE t = "oneInfo"
  <2>1. oneInfo_New \in oneInfoPlain
    BY <1>1, PlainValues DEF oneInfo_New, oneInfoPlain
  <2>2. New("oneInfo") = oneInfo_New
    BY DEF New
  <2> QED
    BY <1>2, <2>1, <2>2, PlainAre
<1>3. CASE t = "PushReq"
  <2>1. PushReq_New \in PushReqPlain
    BY <1>1, PlainValues DEF PushReq_New, PushReqPlain
  <2>2. New("PushReq") = PushReq_New
    BY DEF New
  <2> QED
    BY <1>3, <2>1, <2>2, PlainAre
<1>4. CASE t = "PushRsp"
  <2>1. PushRsp_New \in PushRspPlain
    BY <1>1, PlainValues DEF PushRsp_New, PushRspPlain
  <2>2. New("PushRsp") = PushRsp_New
    BY DEF New
  <2> QED
    BY <1>4, <2>1, <2>2, PlainAre
<1>5. CASE t = "PullReq"
  <2>1. PullReq_New \in PullReqPlain
    BY <1>1, PlainValues DEF PullReq_New, PullReqPlain
  <2>2. New("PullReq") = PullReq_New
    BY DEF New
  <2> QED
    BY <1>5, <2>1, <2>2, PlainAre
<1>6. CASE t = "PullRsp"
  <2>1. PullRsp_New \in PullRspPlain
    BY <1>1, PlainValues DEF PullRsp_New, PullRspPlain
  <2>2. New("PullRsp") = PullRsp_New
    BY DEF New
  <2> QED
    BY <1>6, <2>1, <2>2, PlainAre
<1>7. CASE t = "DelCacheReq"
  <2>1. DelCacheReq_New \in DelCacheReqPlain
    BY <1>1, PlainValues DEF DelCacheReq_New, DelCacheReqPlain
  <2>2. New("DelCacheReq") = DelCacheReq_New
    BY DEF New
  <2> QED
    BY <1>7, <2>1, <2>2, PlainAre
<1>8. CASE t = "DelCacheRsp"
  <2>1. DelCacheRsp_New \in DelCacheRspPlain
    BY <1>1, PlainValues DEF DelCacheRsp_New, DelCacheRspPlain, Bools
  <2>2. New("DelCacheRsp") = DelCacheRsp_New
    BY DEF New
  <2> QED
    BY <1>8, <2>1, <2>2, PlainAre
<1>9. CASE t = "HelloRequest"
  <2>1. HelloRequest_New \in HelloRequestPlain
    BY <1>1, PlainValues DEF HelloRequest_New, HelloRequestPlain
  <2>2. New("HelloRequest") = HelloRequest_New
    BY DEF New
  <2> QED
    BY <1>9, <2>1, <2>2, PlainAre
<1>10. CASE t = "HelloReply"
  <2>1. HelloReply_New \in HelloReplyPlain
    BY <1>1, PlainValues DEF HelloReply_New, HelloReplyPlain
  <2>2. New("HelloReply") = HelloReply_New
    BY DEF New
  <2> QED
    BY <1>10, <2>1, <2>2, PlainAre
<1>11. CASE t = "TestPb"
  <2>1. TestPb_New \in TestPbPlain
    BY <1>1, PlainValues DEF TestPb_New, TestPbPlain
  <2>2. New("TestPb") = TestPb_New
    BY DEF New
  <2> QED
    BY <1>11, <2>1, <2>2, PlainAre
<1> QED
  BY <1>2, <1>3, <1>4, <1>5, <1>6, <1>7, <1>8, <1>9, <1>10, <1>11 DEF MessageTypes

\* They are messages of their type, and a copy is the same.
LEMMA PlainSame ==
  ASSUME NEW t \in MessageTypes, NEW x \in Plain(t), NEW m \in Msgs(t)
  PROVE  x \in Msgs(t) /\ CopyFrom(t, m, x) = x
<1>1. \A d : Newer(<<>>, d) = d
  BY DEF Newer
<1>2. \A S : \A v \in Seq(S) : <<>> \o v = v
  BY ConcatEmptySeq
<1>3. \A S : <<>> \in Seq(S)
  BY EmptySeq
<1>4. CASE t = "oneInfo"
  <2>1. x \in oneInfoPlain /\ m \in oneInfoMsgs
    BY <1>4, PlainAre, MsgsAre
  <2>2. x.key \in Digits64 /\ x.data \in Str /\ x.unk = <<>>
    BY <2>1 DEF oneInfoPlain
  <2>3. x.key \in Str /\ x.data \in Str /\ <<>> \in Str
    BY <2>2, PlainValues
  <2>4. x = [key |-> x.key, data |-> x.data, unk |-> <<>>]
    BY <2>1 DEF oneInfoPlain
  <2>5. x \in oneInfoMsgs
    BY <2>3, <2>4 DEF oneInfoMsgs
  <2>8. <<>> \o <<>> = <<>>
    BY <1>2, <1>3, <2>3 DEF Str
  <2> DEFINE c == oneInfo_Clear(m)
  <2>9. c.key = <<>> /\ c.data = <<>> /\ c.unk = <<>>
    BY <2>1 DEF c, oneInfo_Clear, oneInfoMsgs
  <2> HIDE DEF c
  <2>10. oneInfo_MergeFrom(c, x) = [key |-> x.key, data |-> x.data, unk |-> <<>>]
    BY <1>1, <2>2, <2>8, <2>9 DEF oneInfo_MergeFrom
  <2>11. oneInfo_CopyFrom(m, x) = x
    BY <2>4, <2>10 DEF oneInfo_CopyFrom, c
  <2>12. CopyFrom("oneInfo", m, x) = oneInfo_CopyFrom(m, x)
    BY DEF CopyFrom
  <2> QED
    BY <1>4, <2>5, <2>11, <2>12, PlainAre, MsgsAre
<1>5. CASE t = "PushReq"
  <2>1. x \in PushReqPlain /\ m \in PushReqMsgs
    BY <1>5, PlainAre, MsgsAre
  <2>2. x.infos \in Seq(oneInfoPlain) /\ x.unk = <<>>
    BY <2>1 DEF PushReqPlain
  <2>3. x.infos \in Seq(oneInfoMsgs) /\ <<>> \in Str
    BY <2>2, PlainValues
  <2>4. x = [infos |-> x.infos, unk |-> <<>>]
    BY <2>1 DEF PushReqPlain
  <2>5. x \in PushReqMsgs
    BY <2>3, <2>4 DEF PushReqMsgs
  <2>8. <<>> \o x.infos = x.infos /\ <<>> \o <<>> = <<>>
    BY <1>2, <1>3, <2>3 DEF Str
  <2> DEFINE c == PushReq_Clear(m)
  <2>9. c.infos = <<>> /\ c.unk = <<>>
    BY <2>1 DEF c, PushReq_Clear, PushReqMsgs
  <2> HIDE DEF c
  <2>10. PushReq_MergeFrom(c, x) = [infos |-> x.infos, unk |-> <<>>]
    BY <1>1, <2>2, <2>8, <2>9 DEF PushReq_MergeFrom
  <2>11. PushReq_CopyFrom(m, x) = x
    BY <2>4, <2>10 DEF PushReq_CopyFrom, c
  <2>12. CopyFrom("PushReq", m, x) = PushReq_CopyFrom(m, x)
    BY DEF CopyFrom
  <2> QED
    BY <1>5, <2>5, <2>11, <2>12, PlainAre, MsgsAre
<1>6. CASE t = "PushRsp"
  <2>1. x \in PushRspPlain /\ m \in PushRspMsgs
    BY <1>6, PlainAre, MsgsAre
  <2>2. x.errCode \in DigitsInt32 /\ x.errDesc \in Utf8 /\ x.unk = <<>>
    BY <2>1 DEF PushRspPlain
  <2>3. x.errCode \in Str /\ x.errDesc \in Str /\ <<>> \in Str
    BY <2>2, PlainValues
  <2>4. x = [errCode |-> x.errCode, errDesc |-> x.errDesc, unk |-> <<>>]
    BY <2>1 DEF PushRspPlain
  <2>5. x \in PushRspMsgs
    BY <2>3, <2>4 DEF PushRspMsgs
  <2>8. <<>> \o <<>> = <<>>
    BY <1>2, <1>3, <2>3 DEF Str
  <2> DEFINE c == PushRsp_Clear(m)
  <2>9. c.errCode = <<>> /\ c.errDesc = <<>> /\ c.unk = <<>>
    BY <2>1 DEF c, PushRsp_Clear, PushRspMsgs
  <2> HIDE DEF c
  <2>10. PushRsp_MergeFrom(c, x) = [errCode |-> x.errCode, errDesc |-> x.errDesc, unk |-> <<>>]
    BY <1>1, <2>2, <2>8, <2>9 DEF PushRsp_MergeFrom
  <2>11. PushRsp_CopyFrom(m, x) = x
    BY <2>4, <2>10 DEF PushRsp_CopyFrom, c
  <2>12. CopyFrom("PushRsp", m, x) = PushRsp_CopyFrom(m, x)
    BY DEF CopyFrom
  <2> QED
    BY <1>6, <2>5, <2>11, <2>12, PlainAre, MsgsAre
<1>7. CASE t = "PullReq"
  <2>1. x \in PullReqPlain /\ m \in PullReqMsgs
    BY <1>7, PlainAre, MsgsAre
  <2>2. x.keys \in Seq(Digits64) /\ x.field \in Seq(Digits32) /\ x.unk = <<>>
    BY <2>1 DEF PullReqPlain
  <2>3. x.keys \in Seq(Str) /\ x.field \in Seq(Str) /\ <<>> \in Str
    BY <2>2, PlainValues
  <2>4. x = [keys |-> x.keys, field |-> x.field, unk |-> <<>>]
    BY <2>1 DEF PullReqPlain
  <2>5. x \in PullReqMsgs
    BY <2>3, <2>4 DEF PullReqMsgs
  <2>8. <<>> \o x.keys = x.keys /\ <<>> \o x.field = x.field /\ <<>> \o <<>> = <<>>
    BY <1>2, <1>3, <2>3 DEF Str
  <2> DEFINE c == PullReq_Clear(m)
  <2>9. c.keys = <<>> /\ c.field = <<>> /\ c.unk = <<>>
    BY <2>1 DEF c, PullReq_Clear, PullReqMsgs
  <2> HIDE DEF c
  <2>10. PullReq_MergeFrom(c, x) = [keys |-> x.keys, field |-> x.field, unk |-> <<>>]
    BY <1>1, <2>2, <2>8, <2>9 DEF PullReq_MergeFrom
  <2>11. PullReq_CopyFrom(m, x) = x
    BY <2>4, <2>10 DEF PullReq_CopyFrom, c
  <2>12. CopyFrom("PullReq", m, x) = PullReq_CopyFrom(m, x)
    BY DEF CopyFrom
  <2> QED
    BY <1>7, <2>5, <2>11, <2>12, PlainAre, MsgsAre
<1>8. CASE t = "PullRsp"
  <2>1. x \in PullRspPlain /\ m \in PullRspMsgs
    BY <1>8, PlainAre, MsgsAre
  <2>2. x.errCode \in DigitsInt32 /\ x.errDesc \in Utf8 /\ x.data \in Seq(Str) /\ x.unk = <<>>
    BY <2>1 DEF PullRspPlain
  <2>3. x.errCode \in Str /\ x.errDesc \in Str /\ x.data \in Seq(Str) /\ <<>> \in Str
    BY <2>2, PlainValues
  <2>4. x = [errCode |-> x.errCode, errDesc |-> x.errDesc, data |-> x.data, unk |-> <<>>]
    BY <2>1 DEF PullRspPlain
  <2>5. x \in PullRspMsgs
    BY <2>3, <2>4 DEF PullRspMsgs
  <2>8. <<>> \o x.data = x.data /\ <<>> \o <<>> = <<>>
    BY <1>2, <1>3, <2>3 DEF Str
  <2> DEFINE c == PullRsp_Clear(m)
  <2>9. c.errCode = <<>> /\ c.errDesc = <<>> /\ c.data = <<>> /\ c.unk = <<>>
    BY <2>1 DEF c, PullRsp_Clear, PullRspMsgs
  <2> HIDE DEF c
  <2>10. PullRsp_MergeFrom(c, x) = [errCode |-> x.errCode, errDesc |-> x.errDesc, data |-> x.data, unk |-> <<>>]
    BY <1>1, <2>2, <2>8, <2>9 DEF PullRsp_MergeFrom
  <2>11. PullRsp_CopyFrom(m, x) = x
    BY <2>4, <2>10 DEF PullRsp_CopyFrom, c
  <2>12. CopyFrom("PullRsp", m, x) = PullRsp_CopyFrom(m, x)
    BY DEF CopyFrom
  <2> QED
    BY <1>8, <2>5, <2>11, <2>12, PlainAre, MsgsAre
<1>9. CASE t = "DelCacheReq"
  <2>1. x \in DelCacheReqPlain /\ m \in DelCacheReqMsgs
    BY <1>9, PlainAre, MsgsAre
  <2>2. x.key \in Digits64 /\ x.unk = <<>>
    BY <2>1 DEF DelCacheReqPlain
  <2>3. x.key \in Str /\ <<>> \in Str
    BY <2>2, PlainValues
  <2>4. x = [key |-> x.key, unk |-> <<>>]
    BY <2>1 DEF DelCacheReqPlain
  <2>5. x \in DelCacheReqMsgs
    BY <2>3, <2>4 DEF DelCacheReqMsgs
  <2>8. <<>> \o <<>> = <<>>
    BY <1>2, <1>3, <2>3 DEF Str
  <2> DEFINE c == DelCacheReq_Clear(m)
  <2>9. c.key = <<>> /\ c.unk = <<>>
    BY <2>1 DEF c, DelCacheReq_Clear, DelCacheReqMsgs
  <2> HIDE DEF c
  <2>10. DelCacheReq_MergeFrom(c, x) = [key |-> x.key, unk |-> <<>>]
    BY <1>1, <2>2, <2>8, <2>9 DEF DelCacheReq_MergeFrom
  <2>11. DelCacheReq_CopyFrom(m, x) = x
    BY <2>4, <2>10 DEF DelCacheReq_CopyFrom, c
  <2>12. CopyFrom("DelCacheReq", m, x) = DelCacheReq_CopyFrom(m, x)
    BY DEF CopyFrom
  <2> QED
    BY <1>9, <2>5, <2>11, <2>12, PlainAre, MsgsAre
<1>10. CASE t = "DelCacheRsp"
  <2>1. x \in DelCacheRspPlain /\ m \in DelCacheRspMsgs
    BY <1>10, PlainAre, MsgsAre
  <2>2. x.succ \in {<<>>, <<1>>} /\ x.unk = <<>>
    BY <2>1 DEF DelCacheRspPlain, Bools
  <2>3. x.succ \in {<<>>, <<1>>} /\ <<>> \in Str
    BY <2>2, PlainValues
  <2>4. x = [succ |-> x.succ, unk |-> <<>>]
    BY <2>1 DEF DelCacheRspPlain, Bools
  <2>5. x \in DelCacheRspMsgs
    BY <2>3, <2>4 DEF DelCacheRspMsgs
  <2>8. <<>> \o <<>> = <<>>
    BY <1>2, <1>3, <2>3 DEF Str
  <2> DEFINE c == DelCacheRsp_Clear(m)
  <2>9. c.succ = <<>> /\ c.unk = <<>>
    BY <2>1 DEF c, DelCacheRsp_Clear, DelCacheRspMsgs
  <2> HIDE DEF c
  <2>10. DelCacheRsp_MergeFrom(c, x) = [succ |-> x.succ, unk |-> <<>>]
    BY <1>1, <2>2, <2>8, <2>9 DEF DelCacheRsp_MergeFrom
  <2>11. DelCacheRsp_CopyFrom(m, x) = x
    BY <2>4, <2>10 DEF DelCacheRsp_CopyFrom, c
  <2>12. CopyFrom("DelCacheRsp", m, x) = DelCacheRsp_CopyFrom(m, x)
    BY DEF CopyFrom
  <2> QED
    BY <1>10, <2>5, <2>11, <2>12, PlainAre, MsgsAre
<1>11. CASE t = "HelloRequest"
  <2>1. x \in HelloRequestPlain /\ m \in HelloRequestMsgs
    BY <1>11, PlainAre, MsgsAre
  <2>2. x.name \in Utf8 /\ x.unk = <<>>
    BY <2>1 DEF HelloRequestPlain
  <2>3. x.name \in Str /\ <<>> \in Str
    BY <2>2, PlainValues
  <2>4. x = [name |-> x.name, unk |-> <<>>]
    BY <2>1 DEF HelloRequestPlain
  <2>5. x \in HelloRequestMsgs
    BY <2>3, <2>4 DEF HelloRequestMsgs
  <2>8. <<>> \o <<>> = <<>>
    BY <1>2, <1>3, <2>3 DEF Str
  <2> DEFINE c == HelloRequest_Clear(m)
  <2>9. c.name = <<>> /\ c.unk = <<>>
    BY <2>1 DEF c, HelloRequest_Clear, HelloRequestMsgs
  <2> HIDE DEF c
  <2>10. HelloRequest_MergeFrom(c, x) = [name |-> x.name, unk |-> <<>>]
    BY <1>1, <2>2, <2>8, <2>9 DEF HelloRequest_MergeFrom
  <2>11. HelloRequest_CopyFrom(m, x) = x
    BY <2>4, <2>10 DEF HelloRequest_CopyFrom, c
  <2>12. CopyFrom("HelloRequest", m, x) = HelloRequest_CopyFrom(m, x)
    BY DEF CopyFrom
  <2> QED
    BY <1>11, <2>5, <2>11, <2>12, PlainAre, MsgsAre
<1>12. CASE t = "HelloReply"
  <2>1. x \in HelloReplyPlain /\ m \in HelloReplyMsgs
    BY <1>12, PlainAre, MsgsAre
  <2>2. x.message \in Utf8 /\ x.unk = <<>>
    BY <2>1 DEF HelloReplyPlain
  <2>3. x.message \in Str /\ <<>> \in Str
    BY <2>2, PlainValues
  <2>4. x = [message |-> x.message, unk |-> <<>>]
    BY <2>1 DEF HelloReplyPlain
  <2>5. x \in HelloReplyMsgs
    BY <2>3, <2>4 DEF HelloReplyMsgs
  <2>8. <<>> \o <<>> = <<>>
    BY <1>2, <1>3, <2>3 DEF Str
  <2> DEFINE c == HelloReply_Clear(m)
  <2>9. c.message = <<>> /\ c.unk = <<>>
    BY <2>1 DEF c, HelloReply_Clear, HelloReplyMsgs
  <2> HIDE DEF c
  <2>10. HelloReply_MergeFrom(c, x) = [message |-> x.message, unk |-> <<>>]
    BY <1>1, <2>2, <2>8, <2>9 DEF HelloReply_MergeFrom
  <2>11. HelloReply_CopyFrom(m, x) = x
    BY <2>4, <2>10 DEF HelloReply_CopyFrom, c
  <2>12. CopyFrom("HelloReply", m, x) = HelloReply_CopyFrom(m, x)
    BY DEF CopyFrom
  <2> QED
    BY <1>12, <2>5, <2>11, <2>12, PlainAre, MsgsAre
<1>13. CASE t = "TestPb"
  <2>1. x \in TestPbPlain /\ m \in TestPbMsgs
    BY <1>13, PlainAre, MsgsAre
  <2>2. x.sence \in Utf8 /\ x.tablename \in Utf8 /\ x.page \in DigitsInt32 /\ x.unk = <<>>
    BY <2>1 DEF TestPbPlain
  <2>3. x.sence \in Str /\ x.tablename \in Str /\ x.page \in Str /\ <<>> \in Str
    BY <2>2, PlainValues
  <2>4. x = [sence |-> x.sence, tablename |-> x.tablename, page |-> x.page, unk |-> <<>>]
    BY <2>1 DEF TestPbPlain
  <2>5. x \in TestPbMsgs
    BY <2>3, <2>4 DEF TestPbMsgs
  <2>8. <<>> \o <<>> = <<>>
    BY <1>2, <1>3, <2>3 DEF Str
  <2> DEFINE c == TestPb_Clear(m)
  <2>9. c.sence = <<>> /\ c.tablename = <<>> /\ c.page = <<>> /\ c.unk = <<>>
    BY <2>1 DEF c, TestPb_Clear, TestPbMsgs
  <2> HIDE DEF c
  <2>10. TestPb_MergeFrom(c, x) = [sence |-> x.sence, tablename |-> x.tablename, page |-> x.page, unk |-> <<>>]
    BY <1>1, <2>2, <2>8, <2>9 DEF TestPb_MergeFrom
  <2>11. TestPb_CopyFrom(m, x) = x
    BY <2>4, <2>10 DEF TestPb_CopyFrom, c
  <2>12. CopyFrom("TestPb", m, x) = TestPb_CopyFrom(m, x)
    BY DEF CopyFrom
  <2> QED
    BY <1>13, <2>5, <2>11, <2>12, PlainAre, MsgsAre
<1> QED
  BY <1>4, <1>5, <1>6, <1>7, <1>8, <1>9, <1>10, <1>11, <1>12, <1>13 DEF MessageTypes

\* Every message but a TestPb is read as it was written, and merged into what was read before.
LEMMA WrittenIsMerged ==
  ASSUME NEW t \in MessageTypes \ {"TestPb"}, NEW f, NEW buf, NEW p0, NEW limit, Loop(f, t, buf, p0, limit),
         NEW m \in Msgs(t), NEW x \in Plain(t)
  PROVE  Piece(f, buf, p0, limit, m, SerializeToString(t, x), MergeFrom(t, m, x))
<1>1. SerializeToString(t, x) = InternalSerialize(t, x)
  BY DEF SerializeToString
<1>2. CASE t = "oneInfo"
  <2>1. x \in oneInfoPlain /\ m \in oneInfoMsgs /\ Loop(f, "oneInfo", buf, p0, limit)
    BY <1>2, PlainAre, MsgsAre
  <2>2. Piece(f, buf, p0, limit, m, oneInfo_InternalSerialize(x), oneInfo_MergeFrom(m, x))
    BY <2>1, oneInfoMerges
  <2>3. InternalSerialize("oneInfo", x) = oneInfo_InternalSerialize(x) /\ MergeFrom("oneInfo", m, x) = oneInfo_MergeFrom(m, x)
    BY DEF InternalSerialize, MergeFrom
  <2> QED
    BY <1>1, <1>2, <2>2, <2>3
<1>3. CASE t = "PushReq"
  <2>1. x \in PushReqPlain /\ m \in PushReqMsgs /\ Loop(f, "PushReq", buf, p0, limit)
    BY <1>3, PlainAre, MsgsAre
  <2>2. Piece(f, buf, p0, limit, m, PushReq_InternalSerialize(x), PushReq_MergeFrom(m, x))
    BY <2>1, PushReqMerges
  <2>3. InternalSerialize("PushReq", x) = PushReq_InternalSerialize(x) /\ MergeFrom("PushReq", m, x) = PushReq_MergeFrom(m, x)
    BY DEF InternalSerialize, MergeFrom
  <2> QED
    BY <1>1, <1>3, <2>2, <2>3
<1>4. CASE t = "PushRsp"
  <2>1. x \in PushRspPlain /\ m \in PushRspMsgs /\ Loop(f, "PushRsp", buf, p0, limit)
    BY <1>4, PlainAre, MsgsAre
  <2>2. Piece(f, buf, p0, limit, m, PushRsp_InternalSerialize(x), PushRsp_MergeFrom(m, x))
    BY <2>1, PushRspMerges
  <2>3. InternalSerialize("PushRsp", x) = PushRsp_InternalSerialize(x) /\ MergeFrom("PushRsp", m, x) = PushRsp_MergeFrom(m, x)
    BY DEF InternalSerialize, MergeFrom
  <2> QED
    BY <1>1, <1>4, <2>2, <2>3
<1>5. CASE t = "PullReq"
  <2>1. x \in PullReqPlain /\ m \in PullReqMsgs /\ Loop(f, "PullReq", buf, p0, limit)
    BY <1>5, PlainAre, MsgsAre
  <2>2. Piece(f, buf, p0, limit, m, PullReq_InternalSerialize(x), PullReq_MergeFrom(m, x))
    BY <2>1, PullReqMerges
  <2>3. InternalSerialize("PullReq", x) = PullReq_InternalSerialize(x) /\ MergeFrom("PullReq", m, x) = PullReq_MergeFrom(m, x)
    BY DEF InternalSerialize, MergeFrom
  <2> QED
    BY <1>1, <1>5, <2>2, <2>3
<1>6. CASE t = "PullRsp"
  <2>1. x \in PullRspPlain /\ m \in PullRspMsgs /\ Loop(f, "PullRsp", buf, p0, limit)
    BY <1>6, PlainAre, MsgsAre
  <2>2. Piece(f, buf, p0, limit, m, PullRsp_InternalSerialize(x), PullRsp_MergeFrom(m, x))
    BY <2>1, PullRspMerges
  <2>3. InternalSerialize("PullRsp", x) = PullRsp_InternalSerialize(x) /\ MergeFrom("PullRsp", m, x) = PullRsp_MergeFrom(m, x)
    BY DEF InternalSerialize, MergeFrom
  <2> QED
    BY <1>1, <1>6, <2>2, <2>3
<1>7. CASE t = "DelCacheReq"
  <2>1. x \in DelCacheReqPlain /\ m \in DelCacheReqMsgs /\ Loop(f, "DelCacheReq", buf, p0, limit)
    BY <1>7, PlainAre, MsgsAre
  <2>2. Piece(f, buf, p0, limit, m, DelCacheReq_InternalSerialize(x), DelCacheReq_MergeFrom(m, x))
    BY <2>1, DelCacheReqMerges
  <2>3. InternalSerialize("DelCacheReq", x) = DelCacheReq_InternalSerialize(x) /\ MergeFrom("DelCacheReq", m, x) = DelCacheReq_MergeFrom(m, x)
    BY DEF InternalSerialize, MergeFrom
  <2> QED
    BY <1>1, <1>7, <2>2, <2>3
<1>8. CASE t = "DelCacheRsp"
  <2>1. x \in DelCacheRspPlain /\ m \in DelCacheRspMsgs /\ Loop(f, "DelCacheRsp", buf, p0, limit)
    BY <1>8, PlainAre, MsgsAre
  <2>2. Piece(f, buf, p0, limit, m, DelCacheRsp_InternalSerialize(x), DelCacheRsp_MergeFrom(m, x))
    BY <2>1, DelCacheRspMerges
  <2>3. InternalSerialize("DelCacheRsp", x) = DelCacheRsp_InternalSerialize(x) /\ MergeFrom("DelCacheRsp", m, x) = DelCacheRsp_MergeFrom(m, x)
    BY DEF InternalSerialize, MergeFrom
  <2> QED
    BY <1>1, <1>8, <2>2, <2>3
<1>9. CASE t = "HelloRequest"
  <2>1. x \in HelloRequestPlain /\ m \in HelloRequestMsgs /\ Loop(f, "HelloRequest", buf, p0, limit)
    BY <1>9, PlainAre, MsgsAre
  <2>2. Piece(f, buf, p0, limit, m, HelloRequest_InternalSerialize(x), HelloRequest_MergeFrom(m, x))
    BY <2>1, HelloRequestMerges
  <2>3. InternalSerialize("HelloRequest", x) = HelloRequest_InternalSerialize(x) /\ MergeFrom("HelloRequest", m, x) = HelloRequest_MergeFrom(m, x)
    BY DEF InternalSerialize, MergeFrom
  <2> QED
    BY <1>1, <1>9, <2>2, <2>3
<1>10. CASE t = "HelloReply"
  <2>1. x \in HelloReplyPlain /\ m \in HelloReplyMsgs /\ Loop(f, "HelloReply", buf, p0, limit)
    BY <1>10, PlainAre, MsgsAre
  <2>2. Piece(f, buf, p0, limit, m, HelloReply_InternalSerialize(x), HelloReply_MergeFrom(m, x))
    BY <2>1, HelloReplyMerges
  <2>3. InternalSerialize("HelloReply", x) = HelloReply_InternalSerialize(x) /\ MergeFrom("HelloReply", m, x) = HelloReply_MergeFrom(m, x)
    BY DEF InternalSerialize, MergeFrom
  <2> QED
    BY <1>1, <1>10, <2>2, <2>3
<1> QED
  BY <1>2, <1>3, <1>4, <1>5, <1>6, <1>7, <1>8, <1>9, <1>10 DEF MessageTypes

\* The values that accessors are given are in range, once they have been cast.
LEMMA InputsPlain ==
  ASSUME type \in Types
  PROVE  /\ type \in MessageTypes
         /\ \A v \in Ints[type] : /\ v \in Digits64 /\ UInt32(v) \in Digits32 /\ Int32(v) \in DigitsInt32
                                  /\ Bool(v) \in {<<>>, <<1>>}
         /\ (\A s \in Texts[type] : s \in Str) /\ (\A s \in StringValues : s \in Utf8)
<1>1. type \in MessageTypes /\ (\A s \in Texts[type] : s \in Str)
  BY InputsTyped
<1>2. \A s \in StringValues : s \in Utf8
  BY <1>1 DEF StringValues, Utf8
<1>3. ASSUME NEW v \in Ints[type]
      PROVE  /\ v \in Digits64 /\ UInt32(v) \in Digits32 /\ Int32(v) \in DigitsInt32
             /\ Bool(v) \in {<<>>, <<1>>}
  <2>1. v \in Seq(0 .. 127) /\ v = UInt64(v) /\ Len(v) <= 10
    BY ChannelAssumption
  <2>2. v \in Digits64
    BY <2>1, SameIsUInt64
  <2>3. UInt32(v) \in Digits32 /\ Int32(v) \in DigitsInt32
    BY <2>2, UInt32Digits, Int32Digits
  <2>4. Bool(v) \in {<<>>, <<1>>}
    BY DEF Bool
  <2> QED
    BY <2>2, <2>3, <2>4
<1> QED
  BY <1>1, <1>2, <1>3

\* An accessor leaves a message of that kind.
LEMMA EditsPlain ==
  ASSUME type \in Types, NEW m \in Plain(type), NEW e \in Edits(m)
  PROVE  e \in Plain(type)
<1>1. /\ type \in MessageTypes
      /\ \A v \in Ints[type] : /\ v \in Digits64 /\ UInt32(v) \in Digits32 /\ Int32(v) \in DigitsInt32
                               /\ Bool(v) \in {<<>>, <<1>>}
      /\ (\A s \in Texts[type] : s \in Str) /\ (\A s \in StringValues : s \in Utf8)
  BY InputsPlain
<1>3. \A o \in oneInfos : o \in oneInfoPlain
  <2> SUFFICES ASSUME NEW o \in oneInfos PROVE o \in oneInfoPlain
    OBVIOUS
  <2>1. PICK v \in Ints[type], s \in Texts[type] : o = oneInfo_set_data(oneInfo_set_key(oneInfo_New, v), s)
    BY DEF oneInfos
  <2>2. v \in Digits64 /\ s \in Str
    BY <1>1
  <2> QED
    BY <2>1, <2>2 DEF oneInfoPlain, oneInfo_set_data, oneInfo_set_key, oneInfo_New
<1>4. \A S : <<>> \in Seq(S)
  BY EmptySeq
<1>5. CASE type = "oneInfo"
  <2>1. m \in oneInfoPlain
    BY <1>5, PlainAre
  <2>2. ASSUME NEW v \in Ints[type]
       PROVE  oneInfo_set_key(m, v) \in oneInfoPlain
    BY <1>1, <2>1 DEF oneInfoPlain, oneInfo_set_key
  <2>3. ASSUME NEW s \in Texts[type]
       PROVE  oneInfo_set_data(m, s) \in oneInfoPlain
    BY <1>1, <2>1 DEF oneInfoPlain, oneInfo_set_data
  <2>4. \/ (\E v \in Ints[type] : e = oneInfo_set_key(m, v))
        \/ (\E s \in Texts[type] : e = oneInfo_set_data(m, s))
    BY <1>5 DEF Edits
  <2>5. e \in oneInfoPlain
    BY <2>2, <2>3, <2>4
  <2> QED
    BY <1>5, <2>5, PlainAre
<1>6. CASE type = "PushReq"
  <2>1. m \in PushReqPlain
    BY <1>6, PlainAre
  <2>2. ASSUME NEW o \in oneInfos
       PROVE  PushReq_add_infos(m, o) \in PushReqPlain
    <3>1. m.infos \in Seq(oneInfoPlain) /\ o \in oneInfoPlain
      BY <1>3, <2>1 DEF PushReqPlain
    <3>2. Append(m.infos, o) \in Seq(oneInfoPlain)
      BY <3>1, AppendProperties
    <3> QED
      BY <2>1, <3>2 DEF PushReqPlain, PushReq_add_infos
  <2>3. ASSUME NEW i \in DOMAIN m.infos, NEW o \in oneInfos
       PROVE  PushReq_mutable_infos(m, i, o) \in PushReqPlain
    <3> DEFINE q == m.infos
               x == o
    <3>1. q \in Seq(oneInfoPlain) /\ x \in oneInfoPlain
      BY <1>3, <2>1 DEF PushReqPlain
    <3>2. i \in 1 .. Len(q)
      BY <3>1, LenProperties
    <3>3. PushReq_mutable_infos(m, i, o) = [m EXCEPT !.infos = [q EXCEPT ![i] = x]]
      BY DEF PushReq_mutable_infos
    <3> HIDE DEF q, x
    <3>4. [q EXCEPT ![i] = x] \in Seq(oneInfoPlain)
      BY <3>1, <3>2, ExceptSeq
    <3>5. [m EXCEPT !.infos = [q EXCEPT ![i] = x]] \in PushReqPlain
      BY <2>1, <3>4 DEF PushReqPlain
    <3> QED
      BY <3>3, <3>5
  <2>4. PushReq_clear_infos(m) \in PushReqPlain
    BY <1>4, <2>1 DEF PushReqPlain, PushReq_clear_infos
  <2>5. \/ (\E o \in oneInfos : e = PushReq_add_infos(m, o))
        \/ (\E i \in DOMAIN m.infos, o \in oneInfos : e = PushReq_mutable_infos(m, i, o))
        \/ e = PushReq_clear_infos(m)
    BY <1>6 DEF Edits
  <2>6. e \in PushReqPlain
    BY <2>2, <2>3, <2>4, <2>5
  <2> QED
    BY <1>6, <2>6, PlainAre
<1>7. CASE type = "PushRsp"
  <2>1. m \in PushRspPlain
    BY <1>7, PlainAre
  <2>2. ASSUME NEW v \in Ints[type]
       PROVE  PushRsp_set_errcode(m, v) \in PushRspPlain
    BY <1>1, <2>1 DEF PushRspPlain, PushRsp_set_errcode
  <2>3. ASSUME NEW s \in StringValues
       PROVE  PushRsp_set_errdesc(m, s) \in PushRspPlain
    BY <1>1, <2>1 DEF PushRspPlain, PushRsp_set_errdesc
  <2>4. \/ (\E v \in Ints[type] : e = PushRsp_set_errcode(m, v))
        \/ (\E s \in StringValues : e = PushRsp_set_errdesc(m, s))
    BY <1>7 DEF Edits
  <2>5. e \in PushRspPlain
    BY <2>2, <2>3, <2>4
  <2> QED
    BY <1>7, <2>5, PlainAre
<1>8. CASE type = "PullReq"
  <2>1. m \in PullReqPlain
    BY <1>8, PlainAre
  <2>2. ASSUME NEW v \in Ints[type]
       PROVE  PullReq_add_keys(m, v) \in PullReqPlain
    <3>1. m.keys \in Seq(Digits64) /\ v \in Digits64
      BY <1>1, <2>1 DEF PullReqPlain
    <3>2. Append(m.keys, v) \in Seq(Digits64)
      BY <3>1, AppendProperties
    <3> QED
      BY <2>1, <3>2 DEF PullReqPlain, PullReq_add_keys
  <2>3. ASSUME NEW v \in Ints[type]
       PROVE  PullReq_add_field(m, v) \in PullReqPlain
    <3>1. m.field \in Seq(Digits32) /\ UInt32(v) \in Digits32
      BY <1>1, <2>1 DEF PullReqPlain
    <3>2. Append(m.field, UInt32(v)) \in Seq(Digits32)
      BY <3>1, AppendProperties
    <3> QED
      BY <2>1, <3>2 DEF PullReqPlain, PullReq_add_field
  <2>4. ASSUME NEW i \in DOMAIN m.keys, NEW v \in Ints[type]
       PROVE  PullReq_set_keys(m, i, v) \in PullReqPlain
    <3> DEFINE q == m.keys
               x == v
    <3>1. q \in Seq(Digits64) /\ x \in Digits64
      BY <1>1, <2>1 DEF PullReqPlain
    <3>2. i \in 1 .. Len(q)
      BY <3>1, LenProperties
    <3>3. PullReq_set_keys(m, i, v) = [m EXCEPT !.keys = [q EXCEPT ![i] = x]]
      BY DEF PullReq_set_keys
    <3> HIDE DEF q, x
    <3>4. [q EXCEPT ![i] = x] \in Seq(Digits64)
      BY <3>1, <3>2, ExceptSeq
    <3>5. [m EXCEPT !.keys = [q EXCEPT ![i] = x]] \in PullReqPlain
      BY <2>1, <3>4 DEF PullReqPlain
    <3> QED
      BY <3>3, <3>5
  <2>5. ASSUME NEW i \in DOMAIN m.field, NEW v \in Ints[type]
       PROVE  PullReq_set_field(m, i, v) \in PullReqPlain
    <3> DEFINE q == m.field
               x == UInt32(v)
    <3>1. q \in Seq(Digits32) /\ x \in Digits32
      BY <1>1, <2>1 DEF PullReqPlain
    <3>2. i \in 1 .. Len(q)
      BY <3>1, LenProperties
    <3>3. PullReq_set_field(m, i, v) = [m EXCEPT !.field = [q EXCEPT ![i] = x]]
      BY DEF PullReq_set_field
    <3> HIDE DEF q, x
    <3>4. [q EXCEPT ![i] = x] \in Seq(Digits32)
      BY <3>1, <3>2, ExceptSeq
    <3>5. [m EXCEPT !.field = [q EXCEPT ![i] = x]] \in PullReqPlain
      BY <2>1, <3>4 DEF PullReqPlain
    <3> QED
      BY <3>3, <3>5
  <2>6. PullReq_clear_keys(m) \in PullReqPlain
    BY <1>4, <2>1 DEF PullReqPlain, PullReq_clear_keys
  <2>7. PullReq_clear_field(m) \in PullReqPlain
    BY <1>4, <2>1 DEF PullReqPlain, PullReq_clear_field
  <2>8. \/ (\E v \in Ints[type] : e = PullReq_add_keys(m, v))
        \/ (\E v \in Ints[type] : e = PullReq_add_field(m, v))
        \/ (\E i \in DOMAIN m.keys, v \in Ints[type] : e = PullReq_set_keys(m, i, v))
        \/ (\E i \in DOMAIN m.field, v \in Ints[type] : e = PullReq_set_field(m, i, v))
        \/ e = PullReq_clear_keys(m)
        \/ e = PullReq_clear_field(m)
    BY <1>8 DEF Edits
  <2>9. e \in PullReqPlain
    BY <2>2, <2>3, <2>4, <2>5, <2>6, <2>7, <2>8
  <2> QED
    BY <1>8, <2>9, PlainAre
<1>9. CASE type = "PullRsp"
  <2>1. m \in PullRspPlain
    BY <1>9, PlainAre
  <2>2. ASSUME NEW v \in Ints[type]
       PROVE  PullRsp_set_errcode(m, v) \in PullRspPlain
    BY <1>1, <2>1 DEF PullRspPlain, PullRsp_set_errcode
  <2>3. ASSUME NEW s \in StringValues
       PROVE  PullRsp_set_errdesc(m, s) \in PullRspPlain
    BY <1>1, <2>1 DEF PullRspPlain, PullRsp_set_errdesc
  <2>4. ASSUME NEW s \in Texts[type]
       PROVE  PullRsp_add_data(m, s) \in PullRspPlain
    <3>1. m.data \in Seq(Str) /\ s \in Str
      BY <1>1, <2>1 DEF PullRspPlain
    <3>2. Append(m.data, s) \in Seq(Str)
      BY <3>1, AppendProperties
    <3> QED
      BY <2>1, <3>2 DEF PullRspPlain, PullRsp_add_data
  <2>5. ASSUME NEW i \in DOMAIN m.data, NEW s \in Texts[type]
       PROVE  PullRsp_set_data(m, i, s) \in PullRspPlain
    <3> DEFINE q == m.data
               x == s
    <3>1. q \in Seq(Str) /\ x \in Str
      BY <1>1, <2>1 DEF PullRspPlain
    <3>2. i \in 1 .. Len(q)
      BY <3>1, LenProperties
    <3>3. PullRsp_set_data(m, i, s) = [m EXCEPT !.data = [q EXCEPT ![i] = x]]
      BY DEF PullRsp_set_data
    <3> HIDE DEF q, x
    <3>4. [q EXCEPT ![i] = x] \in Seq(Str)
      BY <3>1, <3>2, ExceptSeq
    <3>5. [m EXCEPT !.data = [q EXCEPT ![i] = x]] \in PullRspPlain
      BY <2>1, <3>4 DEF PullRspPlain
    <3> QED
      BY <3>3, <3>5
  <2>6. PullRsp_clear_data(m) \in PullRspPlain
    BY <1>4, <2>1 DEF PullRspPlain, PullRsp_clear_data
  <2>7. \/ (\E v \in Ints[type] : e = PullRsp_set_errcode(m, v))
        \/ (\E s \in StringValues : e = PullRsp_set_errdesc(m, s))
        \/ (\E s \in Texts[type] : e = PullRsp_add_data(m, s))
        \/ (\E i \in DOMAIN m.data, s \in Texts[type] : e = PullRsp_set_data(m, i, s))
        \/ e = PullRsp_clear_data(m)
    BY <1>9 DEF Edits
  <2>8. e \in PullRspPlain
    BY <2>2, <2>3, <2>4, <2>5, <2>6, <2>7
  <2> QED
    BY <1>9, <2>8, PlainAre
<1>10. CASE type = "DelCacheReq"
  <2>1. m \in DelCacheReqPlain
    BY <1>10, PlainAre
  <2>2. ASSUME NEW v \in Ints[type]
       PROVE  DelCacheReq_set_key(m, v) \in DelCacheReqPlain
    BY <1>1, <2>1 DEF DelCacheReqPlain, DelCacheReq_set_key
  <2>3. (\E v \in Ints[type] : e = DelCacheReq_set_key(m, v))
    BY <1>10 DEF Edits
  <2>4. e \in DelCacheReqPlain
    BY <2>2, <2>3
  <2> QED
    BY <1>10, <2>4, PlainAre
<1>11. CASE type = "DelCacheRsp"
  <2>1. m \in DelCacheRspPlain
    BY <1>11, PlainAre
  <2>2. ASSUME NEW v \in Ints[type]
       PROVE  DelCacheRsp_set_succ(m, v) \in DelCacheRspPlain
    BY <1>1, <2>1 DEF DelCacheRspPlain, Bools, DelCacheRsp_set_succ
  <2>3. (\E v \in Ints[type] : e = DelCacheRsp_set_succ(m, v))
    BY <1>11 DEF Edits
  <2>4. e \in DelCacheRspPlain
    BY <2>2, <2>3
  <2> QED
    BY <1>11, <2>4, PlainAre
<1>12. CASE type = "HelloRequest"
  <2>1. m \in HelloRequestPlain
    BY <1>12, PlainAre
  <2>2. ASSUME NEW s \in StringValues
       PROVE  HelloRequest_set_name(m, s) \in HelloRequestPlain
    BY <1>1, <2>1 DEF HelloRequestPlain, HelloRequest_set_name
  <2>3. (\E s \in StringValues : e = HelloRequest_set_name(m, s))
    BY <1>12 DEF Edits
  <2>4. e \in HelloRequestPlain
    BY <2>2, <2>3
  <2> QED
    BY <1>12, <2>4, PlainAre
<1>13. CASE type = "HelloReply"
  <2>1. m \in HelloReplyPlain
    BY <1>13, PlainAre
  <2>2. ASSUME NEW s \in StringValues
       PROVE  HelloReply_set_message(m, s) \in HelloReplyPlain
    BY <1>1, <2>1 DEF HelloReplyPlain, HelloReply_set_message
  <2>3. (\E s \in StringValues : e = HelloReply_set_message(m, s))
    BY <1>13 DEF Edits
  <2>4. e \in HelloReplyPlain
    BY <2>2, <2>3
  <2> QED
    BY <1>13, <2>4, PlainAre
<1>14. CASE type = "TestPb"
  <2>1. m \in TestPbPlain
    BY <1>14, PlainAre
  <2>2. ASSUME NEW s \in StringValues
       PROVE  TestPb_set_sence(m, s) \in TestPbPlain
    BY <1>1, <2>1 DEF TestPbPlain, TestPb_set_sence
  <2>3. ASSUME NEW v \in Ints[type]
       PROVE  TestPb_set_page(m, v) \in TestPbPlain
    BY <1>1, <2>1 DEF TestPbPlain, TestPb_set_page
  <2>4. ASSUME NEW s \in StringValues
       PROVE  TestPb_set_tablename(m, s) \in TestPbPlain
    BY <1>1, <2>1 DEF TestPbPlain, TestPb_set_tablename
  <2>5. \/ (\E s \in StringValues : e = TestPb_set_sence(m, s))
        \/ (\E v \in Ints[type] : e = TestPb_set_page(m, v))
        \/ (\E s \in StringValues : e = TestPb_set_tablename(m, s))
    BY <1>14 DEF Edits
  <2>6. e \in TestPbPlain
    BY <2>2, <2>3, <2>4, <2>5
  <2> QED
    BY <1>14, <2>6, PlainAre
<1> QED
  BY <1>1, <1>5, <1>6, <1>7, <1>8, <1>9, <1>10, <1>11, <1>12, <1>13, <1>14 DEF MessageTypes

-----------------------------------------------------------------------------
(* The merge of all the messages of a body.                                 *)

\* f merges the messages one after the other.
MergeRun(f, t, s) ==
  /\ f[0] = New(t) /\ \A i \in 1 .. Len(s) : f[i] = MergeFrom(t, f[i - 1], s[i])
  /\ MergeAll(t, s) = f[Len(s)]

\* There is such a merge, and it is a message of the type all along.
LEMMA MergeSteps ==
  ASSUME NEW t \in MessageTypes, NEW s \in Seq(Msgs(t))
  PROVE  \E f : MergeRun(f, t, s) /\ \A i \in 0 .. Len(s) : f[i] \in Msgs(t)
<1> DEFINE n == Len(s)
           V == Msgs(t)
           b == New(t)
           F == [i \in 1 .. n |-> [v \in V |-> MergeFrom(t, v, s[i])]]
           all[i \in 0 .. Len(s)] == IF i = 0 THEN New(t) ELSE MergeFrom(t, all[i - 1], s[i])
<1>1. n \in Nat /\ \A i \in 1 .. n : s[i] \in V
  BY LenProperties, ElementOfSeq
<1>2. \A i \in 1 .. n : \A v \in V : MergeFrom(t, v, s[i]) \in V
  BY <1>1, MergeType
<1>3. \A i \in 1 .. n : \A v \in V : F[i][v] = MergeFrom(t, v, s[i]) /\ F[i][v] \in V
  BY <1>2
<1>4. MergeAll(t, s) = all[Len(s)]
  BY DEF MergeAll
<1>5. b \in V
  BY NewType
<1> HIDE DEF F, V, n, b
<1>6. PICK g \in [0 .. n -> V] : Follows(g, n, b, F)
  BY <1>1, <1>3, <1>5, Recursion
<1>7. \A i \in 0 .. n : g[i] = IF i = 0 THEN b ELSE MergeFrom(t, g[i - 1], s[i])
  <2> SUFFICES ASSUME NEW i \in 0 .. n PROVE g[i] = IF i = 0 THEN b ELSE MergeFrom(t, g[i - 1], s[i])
    OBVIOUS
  <2>1. CASE i = 0
    BY <1>6, <2>1 DEF Follows
  <2>2. CASE i # 0
    <3>1. i \in 1 .. n /\ i - 1 \in 0 .. n
      BY <1>1, <2>2
    <3>2. g[i] = F[i][g[i - 1]] /\ g[i - 1] \in V
      BY <1>6, <3>1 DEF Follows
    <3> QED
      BY <1>3, <2>2, <3>1, <3>2
  <2> QED
    BY <2>1, <2>2
<1>8. g = [i \in 0 .. n |-> g[i]]
  OBVIOUS
<1>9. g = [i \in 0 .. Len(s) |-> IF i = 0 THEN New(t) ELSE MergeFrom(t, g[i - 1], s[i])]
  BY <1>7, <1>8 DEF n, b
<1>10. all = [i \in 0 .. Len(s) |-> IF i = 0 THEN New(t) ELSE MergeFrom(t, all[i - 1], s[i])]
  BY <1>9
<1> HIDE DEF all
<1>11. \A i \in 0 .. n : all[i] = IF i = 0 THEN b ELSE MergeFrom(t, all[i - 1], s[i])
  BY <1>10 DEF n, b
<1>12. 0 \in 0 .. n /\ \A i \in 1 .. n : i \in 0 .. n /\ i # 0
  BY <1>1
<1>13. all[0] = b /\ \A i \in 1 .. n : all[i] = MergeFrom(t, all[i - 1], s[i])
  BY <1>11, <1>12
<1>14. \A i \in 0 .. n : all[i] \in V
  <2>1. \A i \in 1 .. n : all[i - 1] \in V => all[i] \in V
    BY <1>2, <1>13
  <2>2. all[0] \in V /\ n \in Nat
    BY <1>1, <1>5, <1>13
  <2> QED
    BY <2>1, <2>2, StaysIn
<1> QED
  BY <1>4, <1>13, <1>14 DEF n, V, b, MergeRun

\* Nothing merges to the new message, and one message more is merged into the rest.
LEMMA MergeOneMore ==
  ASSUME NEW t \in MessageTypes, NEW s \in Seq(Msgs(t)), NEW x \in Msgs(t)
  PROVE  /\ MergeAll(t, <<>>) = New(t) /\ MergeAll(t, s) \in Msgs(t)
         /\ MergeAll(t, Append(s, x)) = MergeFrom(t, MergeAll(t, s), x)
<1> DEFINE n == Len(s)
           u == Append(s, x)
<1>1. n \in Nat /\ n \in 0 .. n
  BY LenProperties
<1>2. u \in Seq(Msgs(t)) /\ Len(u) = n + 1 /\ u[n + 1] = x /\ \A i \in 1 .. n : u[i] = s[i]
  BY AppendProperties
<1>3. MergeAll(t, <<>>) = New(t)
  <2> DEFINE e == <<>>
  <2>1. e \in Seq(Msgs(t)) /\ Len(e) = 0
    BY EmptySeq
  <2> HIDE DEF e
  <2>2. PICK f : MergeRun(f, t, e)
    BY <2>1, MergeSteps
  <2>3. MergeAll(t, e) = New(t)
    BY <2>1, <2>2 DEF MergeRun
  <2> QED
    BY <2>3 DEF e
<1>4. PICK f : MergeRun(f, t, s) /\ \A i \in 0 .. Len(s) : f[i] \in Msgs(t)
  BY MergeSteps
<1> HIDE DEF u
<1>5. PICK g : MergeRun(g, t, u)
  BY <1>2, MergeSteps
<1>6. f[0] = New(t) /\ (\A i \in 1 .. n : f[i] = MergeFrom(t, f[i - 1], s[i])) /\ MergeAll(t, s) = f[n]
  BY <1>4 DEF MergeRun
<1>7. g[0] = New(t) /\ (\A i \in 1 .. n + 1 : g[i] = MergeFrom(t, g[i - 1], u[i])) /\ MergeAll(t, u) = g[n + 1]
  BY <1>2, <1>5 DEF MergeRun
<1>8. f[n] \in Msgs(t)
  BY <1>1, <1>4
<1> HIDE DEF n
<1> DEFINE Z == {i \in 0 .. n : f[i] = g[i]}
<1>9. \A i \in 0 .. n : i \in Z
  <2>1. 0 \in Z /\ 0 \in Nat
    BY <1>1, <1>6, <1>7
  <2>2. ASSUME NEW i \in 0 .. n - 1, i \in Z PROVE i + 1 \in Z
    <3>1. i + 1 \in 1 .. n /\ i + 1 \in 1 .. n + 1 /\ i + 1 \in 0 .. n /\ (i + 1) - 1 = i
      BY <1>1
    <3>2. f[i] = g[i]
      BY <2>2
    <3>3. f[i + 1] = MergeFrom(t, f[i], s[i + 1]) /\ g[i + 1] = MergeFrom(t, g[i], u[i + 1])
      BY <1>6, <1>7, <3>1
    <3> QED
      BY <1>2, <3>1, <3>2, <3>3
  <2> HIDE DEF Z
  <2> QED
    BY <1>1, <2>1, <2>2, UpTo
<1>10. f[n] = g[n]
  BY <1>1, <1>9
<1>11. n + 1 \in 1 .. n + 1 /\ (n + 1) - 1 = n
  BY <1>1
<1>12. MergeAll(t, u) = MergeFrom(t, MergeAll(t, s), x)
  BY <1>2, <1>6, <1>7, <1>10, <1>11
<1> QED
  BY <1>3, <1>6, <1>8, <1>12 DEF u

-----------------------------------------------------------------------------
(* The bytes of a body.                                                     *)

\* A parse that starts with the bytes w has read m when it is through with them.
TestPbReadsAs(w, m) ==
  \A f, buf : /\ TestPbLoop(f, buf) /\ f[0] = TestPbStart /\ At(buf, 1, w)
              => TestPbReaches(f, buf, m, 1 + Len(w))
OtherReadsAs(t, w, m) ==
  \A f, buf : /\ Loop(f, t, buf, 1, Len(buf) + 1) /\ f[0] = ParseStart(New(t), 1) /\ At(buf, 1, w)
              => Reaches(f, buf, 1, m, 1 + Len(w))
ReadsAs(t, w, m) == IF t = "TestPb" THEN TestPbReadsAs(w, m) ELSE OtherReadsAs(t, w, m)

\* No bytes are read as a new message.
LEMMA ReadsNothing ==
  ASSUME NEW t \in MessageTypes
  PROVE  ReadsAs(t, <<>>, New(t))
<1> DEFINE e == <<>>
<1>1. 1 + Len(e) = 1 /\ 1 \in Pos /\ 0 + 1 <= 1
  BY DEF Pos
<1> HIDE DEF e
<1>2. CASE t = "TestPb"
  <2> SUFFICES ASSUME NEW f, NEW buf, TestPbLoop(f, buf), f[0] = TestPbStart
               PROVE  TestPbReaches(f, buf, TestPb_New, 1 + Len(e))
    <3>1. New(t) = TestPb_New
      BY <1>2 DEF New
    <3> QED
      BY <1>2, <3>1 DEF ReadsAs, TestPbReadsAs, e
  <2>1. Len(buf) \in Nat
    BY LenProperties DEF TestPbLoop, Str
  <2>2. f[0] = TestPbGoing(TestPb_New, 1)
    BY DEF TestPbStart, TestPbGoing
  <2>3. 0 \in 0 .. Len(buf)
    BY <2>1
  <2>4. TestPbReaches(f, buf, TestPb_New, 1)
    BY <1>1, <2>2, <2>3 DEF TestPbReaches
  <2> QED
    BY <1>1, <2>4
<1>3. CASE t # "TestPb"
  <2> DEFINE b == New(t)
  <2> HIDE DEF b
  <2> SUFFICES ASSUME NEW f, NEW buf, Loop(f, t, buf, 1, Len(buf) + 1), f[0] = ParseStart(b, 1)
               PROVE  Reaches(f, buf, 1, b, 1 + Len(e))
    BY <1>3 DEF ReadsAs, OtherReadsAs, e, b
  <2>1. Len(buf) \in Nat
    BY LenProperties DEF Loop, Str
  <2>2. 0 \in 0 .. Len(buf)
    BY <2>1
  <2>3. Reaches(f, buf, 1, b, 1)
    BY <1>1, <2>2 DEF Reaches
  <2> QED
    BY <1>1, <2>3
<1> QED
  BY <1>2, <1>3

\* The bytes of one message more are merged into what was read before them.
LEMMA ReadsMore ==
  ASSUME NEW t \in MessageTypes, NEW w \in Str, NEW m \in Msgs(t), NEW x \in Plain(t), ReadsAs(t, w, m)
  PROVE  ReadsAs(t, w \o SerializeToString(t, x), MergeFrom(t, m, x))
<1> DEFINE s == SerializeToString(t, x)
           y == MergeFrom(t, m, x)
           a == Len(w)
           b == Len(s)
           c == Len(w \o s)
<1>1. s \in Str
  <2>1. x \in Msgs(t)
    BY PlainSame
  <2> QED
    BY <2>1, SizesAreExact DEF Exact
<1>2. CASE t = "TestPb"
  <2>1. m \in TestPbMsgs /\ x \in TestPbPlain
    BY <1>2, MsgsAre, PlainAre
  <2>2. s = TestPb_SerializeWithCachedSizes(x) /\ y = TestPb_MergeFrom(m, x)
    BY <1>2 DEF SerializeToString, InternalSerialize, MergeFrom
  <2>3. \A f, buf : TestPbLoop(f, buf) => TestPbPiece(f, buf, m, s, y)
    BY <2>1, <2>2, TestPbMerges
  <2> HIDE DEF s, y
  <2> SUFFICES ASSUME NEW f, NEW buf, TestPbLoop(f, buf), f[0] = TestPbStart, At(buf, 1, w \o s)
               PROVE  TestPbReaches(f, buf, y, 1 + c)
    BY <1>2 DEF ReadsAs, TestPbReadsAs, s, y
  <2>4. buf \in Str /\ 1 \in Pos
    BY DEF TestPbLoop, Pos
  <2>5. At(buf, 1, w) /\ At(buf, 1 + a, s) /\ a \in Nat /\ b \in Nat /\ c = a + b
    BY <1>1, <2>4, AtConcat
  <2>6. TestPbReaches(f, buf, m, 1 + a)
    BY <1>2, <2>5 DEF ReadsAs, TestPbReadsAs
  <2>7. TestPbReaches(f, buf, y, (1 + a) + b)
    BY <2>3, <2>5, <2>6 DEF TestPbPiece
  <2> HIDE DEF a, b, c
  <2>8. (1 + a) + b = 1 + c
    BY <2>5
  <2> QED
    BY <2>7, <2>8
<1>3. CASE t # "TestPb"
  <2>1. t \in MessageTypes \ {"TestPb"}
    BY <1>3
  <2>2. \A f, buf, p0, limit : Loop(f, t, buf, p0, limit) => Piece(f, buf, p0, limit, m, s, y)
    BY <2>1, WrittenIsMerged
  <2> HIDE DEF s, y
  <2> SUFFICES ASSUME NEW f, NEW buf, Loop(f, t, buf, 1, Len(buf) + 1), f[0] = ParseStart(New(t), 1),
                      At(buf, 1, w \o s)
               PROVE  Reaches(f, buf, 1, y, 1 + c)
    BY <1>3 DEF ReadsAs, OtherReadsAs, s, y
  <2>3. buf \in Str /\ 1 \in Pos
    BY DEF Loop, Pos
  <2>4. At(buf, 1, w) /\ At(buf, 1 + a, s) /\ a \in Nat /\ b \in Nat /\ c = a + b
    BY <1>1, <2>3, AtConcat
  <2>5. Reaches(f, buf, 1, m, 1 + a)
    BY <1>3, <2>4 DEF ReadsAs, OtherReadsAs
  <2>6. Piece(f, buf, 1, Len(buf) + 1, m, s, y)
    BY <2>2
  <2>7. (1 + a) + b <= Len(buf) + 1
    BY <2>4 DEF At
  <2>8. Reaches(f, buf, 1, y, (1 + a) + b)
    BY <2>4, <2>5, <2>6, <2>7 DEF Piece
  <2> HIDE DEF a, b, c
  <2>9. (1 + a) + b = 1 + c
    BY <2>4
  <2> QED
    BY <2>8, <2>9
<1> QED
  BY <1>2, <1>3

\* A zero tag ends the message, in every _InternalParse.
Stopped(m, p) == [ok |-> TRUE, stop |-> TRUE, m |-> m, pos |-> p]

\* Whatever the type of the message.
LEMMA ZeroTagStops ==
  ASSUME NEW t \in MessageTypes \ {"TestPb"}, NEW m, NEW buf, NEW p
  PROVE  InternalParse(t, m, <<>>, buf, p) = Stopped(m, p)
<1> DEFINE e == <<>>
<1>1. e # <<8>> /\ e # <<10>> /\ e # <<16>> /\ e # <<18>> /\ e # <<26>>
  OBVIOUS
<1>2. Unusual(m, e, buf, p) = Stopped(m, p)
  BY DEF Unusual, Stopped
<1> HIDE DEF e
<1>3. CASE t = "oneInfo"
  <2>1. oneInfo_InternalParse(m, e, buf, p) = Unusual(m, e, buf, p)
    BY <1>1 DEF oneInfo_InternalParse
  <2>2. InternalParse("oneInfo", m, e, buf, p) = oneInfo_InternalParse(m, e, buf, p)
    BY DEF InternalParse
  <2> QED
    BY <1>2, <1>3, <2>1, <2>2 DEF e
<1>4. CASE t = "PushReq"
  <2>1. PushReq_InternalParse(m, e, buf, p) = Unusual(m, e, buf, p)
    BY <1>1 DEF PushReq_InternalParse
  <2>2. InternalParse("PushReq", m, e, buf, p) = PushReq_InternalParse(m, e, buf, p)
    BY DEF InternalParse
  <2> QED
    BY <1>2, <1>4, <2>1, <2>2 DEF e
<1>5. CASE t = "PushRsp"
  <2>1. PushRsp_InternalParse(m, e, buf, p) = Unusual(m, e, buf, p)
    BY <1>1 DEF PushRsp_InternalParse
  <2>2. InternalParse("PushRsp", m, e, buf, p) = PushRsp_InternalParse(m, e, buf, p)
    BY DEF InternalParse
  <2> QED
    BY <1>2, <1>5, <2>1, <2>2 DEF e
<1>6. CASE t = "PullReq"
  <2>1. PullReq_InternalParse(m, e, buf, p) = Unusual(m, e, buf, p)
    BY <1>1 DEF PullReq_InternalParse
  <2>2. InternalParse("PullReq", m, e, buf, p) = PullReq_InternalParse(m, e, buf, p)
    BY DEF InternalParse
  <2> QED
    BY <1>2, <1>6, <2>1, <2>2 DEF e
<1>7. CASE t = "PullRsp"
  <2>1. PullRsp_InternalParse(m, e, buf, p) = Unusual(m, e, buf, p)
    BY <1>1 DEF PullRsp_InternalParse
  <2>2. InternalParse("PullRsp", m, e, buf, p) = PullRsp_InternalParse(m, e, buf, p)
    BY DEF InternalParse
  <2> QED
    BY <1>2, <1>7, <2>1, <2>2 DEF e
<1>8. CASE t = "DelCacheReq"
  <2>1. DelCacheReq_InternalParse(m, e, buf, p) = Unusual(m, e, buf, p)
    BY <1>1 DEF DelCacheReq_InternalParse
  <2>2. InternalParse("DelCacheReq", m, e, buf, p) = DelCacheReq_InternalParse(m, e, buf, p)
    BY DEF InternalParse
  <2> QED
    BY <1>2, <1>8, <2>1, <2>2 DEF e
<1>9. CASE t = "DelCacheRsp"
  <2>1. DelCacheRsp_InternalParse(m, e, buf, p) = Unusual(m, e, buf, p)
    BY <1>1 DEF DelCacheRsp_InternalParse
  <2>2. InternalParse("DelCacheRsp", m, e, buf, p) = DelCacheRsp_InternalParse(m, e, buf, p)
    BY DEF InternalParse
  <2> QED
    BY <1>2, <1>9, <2>1, <2>2 DEF e
<1>10. CASE t = "HelloRequest"
  <2>1. HelloRequest_InternalParse(m, e, buf, p) = Unusual(m, e, buf, p)
    BY <1>1 DEF HelloRequest_InternalParse
  <2>2. InternalParse("HelloRequest", m, e, buf, p) = HelloRequest_InternalParse(m, e, buf, p)
    BY DEF InternalParse
  <2> QED
    BY <1>2, <1>10, <2>1, <2>2 DEF e
<1>11. CASE t = "HelloReply"
  <2>1. HelloReply_InternalParse(m, e, buf, p) = Unusual(m, e, buf, p)
    BY <1>1 DEF HelloReply_InternalParse
  <2>2. InternalParse("HelloReply", m, e, buf, p) = HelloReply_InternalParse(m, e, buf, p)
    BY DEF InternalParse
  <2> QED
    BY <1>2, <1>11, <2>1, <2>2 DEF e
<1> QED
  BY <1>3, <1>4, <1>5, <1>6, <1>7, <1>8, <1>9, <1>10, <1>11 DEF MessageTypes

\* All bytes of a body are at its beginning.
LEMMA AtStart ==
  ASSUME NEW w \in Str
  PROVE  At(w, 1, w)
<1> DEFINE n == Len(w)
<1>1. n \in Nat
  BY LenProperties DEF Str
<1> HIDE DEF n
<1>2. 1 + n <= n + 1 /\ \A i \in 1 .. n : (1 - 1) + i = i
  BY <1>1
<1> QED
  BY <1>2 DEF At, n

\* A body that is not too long is read as a whole, and accepted.
LEMMA ReadsWhole ==
  ASSUME NEW t \in MessageTypes, NEW w \in Str, Len(w) <= SizeLimit, NEW m, ReadsAs(t, w, m)
  PROVE  ParseFromString(t, w) = [m |-> m, ok |-> TRUE]
<1> DEFINE n == Len(w)
           q == 1 + n
<1>1. n \in Nat /\ q = n + 1 /\ q > n /\ q >= n + 1 /\ q <= n + 1 /\ 1 \in Pos /\ n + 1 \in Nat
  BY LenProperties DEF Str, Pos
<1>2. At(w, 1, w)
  BY AtStart
<1>3. CASE t = "TestPb"
  <2>1. PICK f : TestPbSteps(f, w)
    BY TestPbRun
  <2>2. TestPbLoop(f, w) /\ f[0] = TestPbStart
    BY <2>1 DEF TestPbSteps, TestPbLoop
  <2>3. TestPbReaches(f, w, m, q)
    BY <1>2, <1>3, <2>2 DEF ReadsAs, TestPbReadsAs
  <2> DEFINE r == TestPbOver(m, q, q > n)
  <2>4. f[n + 1] = r
    BY <1>1, <2>2, <2>3, TestPbEnd
  <2>5. r.m = m /\ r.ok = TRUE /\ r.atEnd = TRUE
    BY <1>1 DEF TestPbOver
  <2>6. TestPb_MergePartialFromCodedStream(TestPb_New, w) = r
    BY <2>1, <2>4 DEF TestPbSteps
  <2> HIDE DEF r
  <2>7. TestPb_ParseFromString(w) = [m |-> r.m, ok |-> r.ok /\ r.atEnd]
    BY <2>6 DEF TestPb_ParseFromString
  <2>8. ParseFromString(t, w) = TestPb_ParseFromString(w)
    BY <1>3 DEF ParseFromString
  <2> QED
    BY <2>5, <2>7, <2>8
<1>4. CASE t # "TestPb"
  <2>1. t \in MessageTypes \ {"TestPb"}
    BY <1>4
  <2>2. PICK f : ParseSteps(f, t, w)
    BY <2>1, ParseRun
  <2>3. Loop(f, t, w, 1, Len(w) + 1) /\ f[0] = ParseStart(New(t), 1)
    BY <1>1, <2>2 DEF ParseSteps, Loop
  <2>4. Reaches(f, w, 1, m, q)
    BY <1>2, <1>4, <2>3 DEF ReadsAs, OtherReadsAs
  <2>5. PICK k \in 0 .. n : f[k] = ParseStart(m, q)
    BY <2>4 DEF Reaches
  <2> DEFINE r == ParseStart(m, q)
             z == ParseEnd(r, w, n + 1)
  <2>6. r.ok = TRUE /\ r.stop = FALSE /\ r.pos = q /\ r.m = m
    BY DEF ParseStart
  <2>7. z = [r EXCEPT !.ok = (r.pos = n + 1 /\ r.pos <= n + 1)]
    BY <2>6 DEF ParseEnd
  <2>8. z.ok = (r.pos = n + 1 /\ r.pos <= n + 1) /\ z.stop = FALSE /\ z.m = m
    BY <2>6, <2>7 DEF ParseStart
  <2>9. z.ok = TRUE
    BY <1>1, <2>6, <2>8
  <2> HIDE DEF r
  <2>10. f[n] = r
    <3>1. f[k] = r /\ r.pos >= Len(w) + 1
      BY <1>1, <2>5, <2>6 DEF r
    <3> QED
      BY <2>3, <3>1, LoopEnds
  <2>11. ParseFromString(t, w) = Verdict(z)
    BY <2>2, <2>10 DEF ParseSteps
  <2> HIDE DEF z
  <2> QED
    BY <2>8, <2>9, <2>11 DEF Verdict
<1> QED
  BY <1>3, <1>4

\* With a zero byte after it, it is read all the same, and refused.
LEMMA ReadsNul ==
  ASSUME NEW t \in MessageTypes, NEW w \in Str, Len(w) < SizeLimit, NEW m, ReadsAs(t, w, m)
  PROVE  ParseFromString(t, Append(w, 0)) = [m |-> m, ok |-> FALSE]
<1> DEFINE n == Len(w)
           o == <<0>>
           buf == w \o o
           q == 1 + n
<1>1. n \in Nat /\ q = n + 1 /\ 1 \in Pos /\ n + 1 \in Nat /\ n + 1 <= SizeLimit
  BY LenProperties DEF Str, Pos, SizeLimit
<1>2. o \in Str /\ Len(o) = 1
  BY DEF Str
<1>3. Append(w, 0) = buf
  BY AppendIsConcat DEF Str
<1>4. buf \in Str
  BY <1>2, StrConcat
<1>5. At(buf, 1, buf)
  BY <1>4, AtStart
<1>6. At(buf, 1, w) /\ At(buf, q, o) /\ q \in Pos /\ Len(buf) = n + 1
  BY <1>1, <1>2, <1>4, <1>5, AtConcat
<1> HIDE DEF buf
<1>7. CASE t = "TestPb"
  <2>1. PICK f : TestPbSteps(f, buf)
    BY <1>4, TestPbRun
  <2>2. TestPbLoop(f, buf) /\ f[0] = TestPbStart
    BY <1>1, <1>4, <1>6, <2>1 DEF TestPbSteps, TestPbLoop
  <2>3. TestPbReaches(f, buf, m, q)
    BY <1>6, <1>7, <2>2 DEF ReadsAs, TestPbReadsAs
  <2> DEFINE r == TestPbOver(m, q, q > Len(buf))
  <2>4. f[Len(buf) + 1] = r
    BY <1>6, <2>2, <2>3, TestPbEnd DEF NulAt
  <2>5. r.m = m /\ r.ok = TRUE /\ r.atEnd = FALSE
    <3> DEFINE x == TestPbOver(m, q, FALSE)
    <3>1. (q > Len(buf)) = FALSE
      BY <1>1, <1>6
    <3>2. r = x
      BY <3>1
    <3>3. x.m = m /\ x.ok = TRUE /\ x.atEnd = FALSE
      BY DEF TestPbOver
    <3> HIDE DEF x, r
    <3> QED
      BY <3>2, <3>3
  <2>6. TestPb_MergePartialFromCodedStream(TestPb_New, buf) = r
    BY <2>1, <2>4 DEF TestPbSteps
  <2> HIDE DEF r
  <2>7. TestPb_ParseFromString(buf) = [m |-> r.m, ok |-> r.ok /\ r.atEnd]
    BY <2>6 DEF TestPb_ParseFromString
  <2>8. ParseFromString(t, buf) = TestPb_ParseFromString(buf)
    BY <1>7 DEF ParseFromString
  <2> QED
    BY <1>3, <2>5, <2>7, <2>8
<1>8. CASE t # "TestPb"
  <2> DEFINE limit == Len(buf) + 1
  <2>1. t \in MessageTypes \ {"TestPb"}
    BY <1>8
  <2>2. PICK f : ParseSteps(f, t, buf)
    BY <1>4, <2>1, ParseRun
  <2>3. Loop(f, t, buf, 1, limit) /\ f[0] = ParseStart(New(t), 1)
    BY <1>1, <1>4, <1>6, <2>2 DEF ParseSteps, Loop
  <2>4. Reaches(f, buf, 1, m, q)
    BY <1>6, <1>8, <2>3 DEF ReadsAs, OtherReadsAs
  <2>5. PICK k \in 0 .. Len(buf) : f[k] = ParseStart(m, q) /\ k + 1 <= q
    BY <2>4 DEF Reaches
  <2> DEFINE r == ParseStart(m, q)
             g == ReadTag(buf, q)
             z == Stopped(m, q + 1)
  <2>6. r.ok = TRUE /\ r.stop = FALSE /\ r.pos = q /\ r.m = m
    BY DEF ParseStart
  <2>7. g = Read(TRUE, <<>>, q + 1)
    <3> DEFINE h == 1
    <3>1. h \in Nat /\ h < 128
      OBVIOUS
    <3> HIDE DEF h
    <3> QED
      BY <1>4, <1>6, <3>1, ReadTagAt
  <2>8. g.ok = TRUE /\ g.val = <<>> /\ g.pos = q + 1
    BY <2>7 DEF Read
  <2>9. InternalParse(t, r.m, g.val, buf, g.pos) = z
    BY <2>1, <2>6, <2>8, ZeroTagStops
  <2>10. Round(t, r, buf, limit) = NextField(r, g, z, buf, limit)
    BY <2>6, <2>9 DEF Round
  <2>11. ~(q >= limit) /\ ~(q > Len(buf))
    BY <1>1, <1>6
  <2> HIDE DEF g, r
  <2>12. z.ok = TRUE /\ z.stop = TRUE /\ z.m = m
    BY DEF Stopped
  <2> HIDE DEF z
  <2>13. NextField(r, g, z, buf, limit) = z
    BY <2>6, <2>8, <2>11 DEF NextField
  <2>14. k + 1 \in 1 .. Len(buf) /\ k + 1 \in 0 .. Len(buf) /\ (k + 1) - 1 = k
    BY <1>1, <1>6, <2>5
  <2>15. f[k + 1] = z
    <3>1. f[k + 1] = Round(t, f[(k + 1) - 1], buf, limit)
      BY <2>3, <2>14 DEF Loop
    <3> QED
      BY <2>5, <2>10, <2>13, <2>14, <3>1 DEF r
  <2>16. f[Len(buf)] = z
    BY <2>3, <2>12, <2>14, <2>15, LoopEnds
  <2>17. ParseEnd(z, buf, limit) = z
    BY <2>12 DEF ParseEnd
  <2>18. ParseFromString(t, buf) = Verdict(z)
    BY <2>2, <2>16, <2>17 DEF ParseSteps
  <2> QED
    BY <1>3, <2>12, <2>18 DEF Verdict
<1> QED
  BY <1>7, <1>8

-----------------------------------------------------------------------------
(* The body as a whole.                                                     *)

\* Before the first chunk, the bytes on the wire are read as the merge of the messages
\* sent, but for a zero byte at the end.
NulBody(t, b, m) == \E w \in Str : b = Append(w, 0) /\ Len(w) < SizeLimit /\ ReadsAs(t, w, m)
PlainBody(t, b, m) == Len(b) < SizeLimit /\ ReadsAs(t, b, m)
Unread == IF body = "nul" THEN NulBody(type, wire, Meant) ELSE PlainBody(type, wire, Meant)

\* Every message sent was built with accessors, nothing is received before the body is
\* closed, and what is received in one chunk is what was on the wire.
BodyKept ==
  /\ MessagesTyped /\ msg \in Plain(type) /\ sent \in Seq(Plain(type))
  /\ body \in {"open", "closed", "nul"} /\ (body = "open" => got = <<>>)
  /\ (got = <<>> => Unread)
  /\ WholeBodyIsRead

\* A new body.
LEMMA InitKept == Init => BodyKept
<1> SUFFICES ASSUME Init PROVE BodyKept
  OBVIOUS
<1>1. type \in Types /\ msg = New(type) /\ sent = <<>> /\ wire = <<>> /\ got = <<>> /\ body = "open"
  BY DEF Init
<1>2. MessagesTyped
  BY InitTyped
<1>3. type \in MessageTypes
  BY <1>1, InputsTyped
<1>4. New(type) \in Msgs(type)
  BY <1>3, NewType
<1>5. New(type) \in Plain(type)
  BY <1>3, NewIsPlain
<1>6. sent \in Seq(Plain(type))
  <2>1. \A S : <<>> \in Seq(S)
    BY EmptySeq
  <2> QED
    BY <1>1, <2>1
<1>7. Meant = New(type)
  <2>1. sent \in Seq(Msgs(type))
    BY <1>2 DEF MessagesTyped
  <2> QED
    BY <1>1, <1>3, <1>4, <2>1, MergeOneMore DEF Meant
<1>8. PlainBody(type, wire, Meant)
  <2>1. ReadsAs(type, <<>>, New(type))
    BY <1>3, ReadsNothing
  <2>2. Len(<<>>) < SizeLimit
    BY DEF SizeLimit
  <2> QED
    BY <1>1, <1>7, <2>1, <2>2 DEF PlainBody
<1>9. Unread
  BY <1>1, <1>8 DEF Unread
<1>10. WholeBodyIsRead
  BY <1>1 DEF WholeBodyIsRead, Delivered
<1> QED
  BY <1>1, <1>2, <1>5, <1>6, <1>9, <1>10 DEF BodyKept

\* A step that receives nothing does not tell what was read.
LEMMA NothingRead ==
  ASSUME got' = <<>>
  PROVE  WholeBodyIsRead'
<1>1. Len(got') # 1
  BY EmptySeq
<1> QED
  BY <1>1 DEF WholeBodyIsRead

\* One message more.
LEMMA SendKept ==
  ASSUME BodyKept, Send
  PROVE  BodyKept'
<1> DEFINE s == SerializeToString(type, msg)
<1>1. /\ MessagesTyped /\ msg \in Plain(type) /\ sent \in Seq(Plain(type)) /\ (body = "open" => got = <<>>)
      /\ (got = <<>> => Unread)
  BY DEF BodyKept
<1>2. type \in Types /\ msg \in Msgs(type) /\ sent \in Seq(Msgs(type)) /\ wire \in Str
  BY <1>1 DEF MessagesTyped
<1>3. type \in MessageTypes
  BY <1>2, InputsTyped
<1>4. /\ body = "open" /\ Len(wire) + ByteSizeLong(type, msg) < MaxBody[type] /\ sent' = Append(sent, msg)
      /\ wire' = wire \o s /\ type' = type /\ msg' = msg /\ body' = body /\ got' = got
  BY DEF Send
<1>5. MessagesTyped'
  BY <1>1, StepTyped DEF Next
<1>6. sent' \in Seq(Plain(type))
  BY <1>1, <1>4, AppendProperties
<1>7. Len(wire) < SizeLimit /\ ReadsAs(type, wire, Meant)
  BY <1>1, <1>4 DEF Unread, PlainBody
<1>8. Meant \in Msgs(type) /\ Meant' = MergeFrom(type, Meant, msg)
  <2>1. MergeAll(type, sent) \in Msgs(type) /\ MergeAll(type, Append(sent, msg)) = MergeFrom(type, MergeAll(type, sent), msg)
    BY <1>2, <1>3, MergeOneMore
  <2> QED
    BY <1>4, <2>1 DEF Meant
<1>9. ReadsAs(type, wire \o s, MergeFrom(type, Meant, msg))
  <2> DEFINE m == Meant
  <2>1. m \in Msgs(type) /\ ReadsAs(type, wire, m)
    BY <1>7, <1>8
  <2> HIDE DEF m
  <2>2. ReadsAs(type, wire \o s, MergeFrom(type, m, msg))
    BY <1>1, <1>2, <1>3, <2>1, ReadsMore
  <2> QED
    BY <2>2 DEF m
<1>10. Len(wire \o s) < SizeLimit
  <2>1. Exact(ByteSizeLong(type, msg), s)
    BY <1>2, <1>3, SizesAreExact
  <2> HIDE DEF s
  <2>2. s \in Seq(Nat) /\ wire \in Seq(Nat) /\ ByteSizeLong(type, msg) = Len(s)
    BY <1>2, <2>1 DEF Exact, Str
  <2> DEFINE l == Len(wire \o s)
             b == MaxBody[type]
  <2>3. l = Len(wire) + Len(s) /\ l \in Nat
    BY <2>2, ConcatProperties, LenProperties
  <2>4. b \in 1 .. SizeLimit
    BY <1>2, ChannelAssumption
  <2>5. l < b /\ l \in Nat
    BY <1>4, <2>2, <2>3
  <2> DEFINE i == SizeLimit
  <2>7. i \in Nat
    BY DEF SizeLimit
  <2>8. b \in 1 .. i
    BY <2>4
  <2> HIDE DEF l, b, i
  <2>9. l < i
    BY <2>5, <2>7, <2>8
  <2>6. l < SizeLimit
    BY <2>9 DEF i
  <2> QED
    BY <2>6 DEF l
<1> HIDE DEF s
<1>11. PlainBody(type, wire \o s, MergeFrom(type, Meant, msg))
  BY <1>9, <1>10 DEF PlainBody
<1>12. PlainBody(type', wire', Meant')
  BY <1>4, <1>8, <1>11
<1>13. Unread'
  BY <1>4, <1>12 DEF Unread
<1>14. got' = <<>>
  BY <1>1, <1>4
<1>15. WholeBodyIsRead'
  BY <1>14, NothingRead
<1> QED
  BY <1>1, <1>4, <1>5, <1>6, <1>13, <1>14, <1>15 DEF BodyKept

\* The end of the body.
LEMMA CloseKept ==
  ASSUME BodyKept, NEW how \in {"closed", "nul"}, Close(how)
  PROVE  BodyKept'
<1>1. /\ MessagesTyped /\ sent \in Seq(Plain(type)) /\ (body = "open" => got = <<>>)
      /\ (got = <<>> => Unread)
  BY DEF BodyKept
<1>2. type \in Types /\ wire \in Str
  BY <1>1 DEF MessagesTyped
<1>3. type \in MessageTypes
  BY <1>2, InputsTyped
<1>4. /\ body = "open" /\ wire' = (IF how = "nul" THEN Append(wire, 0) ELSE wire)
      /\ type' = type /\ msg' = New(type) /\ body' = how /\ got' = got /\ sent' = sent
  BY DEF Close
<1>5. MessagesTyped'
  BY <1>1, StepTyped DEF Next
<1>6. msg' \in Plain(type)
  BY <1>3, <1>4, NewIsPlain
<1>7. Len(wire) < SizeLimit /\ ReadsAs(type, wire, Meant)
  BY <1>1, <1>4 DEF Unread, PlainBody
<1>8. Meant' = Meant
  BY <1>4 DEF Meant
<1>9. Unread'
  <2> DEFINE m == Meant
             u == Append(wire, 0)
  <2> HIDE DEF m, u
  <2>1. PlainBody(type, wire, m)
    BY <1>7 DEF PlainBody, m
  <2>2. NulBody(type, u, m)
    BY <1>2, <1>7 DEF NulBody, m, u
  <2>3. type' = type /\ Meant' = m /\ body' = how /\ wire' = (IF how = "nul" THEN u ELSE wire)
    BY <1>4, <1>8 DEF m, u
  <2> QED
    BY <2>1, <2>2, <2>3 DEF Unread
<1>10. got' = <<>>
  BY <1>1, <1>4
<1>11. WholeBodyIsRead'
  BY <1>10, NothingRead
<1> QED
  BY <1>1, <1>4, <1>5, <1>6, <1>9, <1>10, <1>11 DEF BodyKept

\* What a body is read as when it arrives in one chunk.
LEMMA ReadInOne ==
  ASSUME type \in MessageTypes, wire \in Str, body \in {"closed", "nul"}, Unread
  PROVE  ParseFromString(type, wire) = [m |-> Meant, ok |-> body = "closed"]
<1> DEFINE m == Meant
<1> HIDE DEF m
<1>1. CASE body = "nul"
  <2>1. NulBody(type, wire, m)
    BY <1>1 DEF Unread, m
  <2>2. PICK w \in Str : wire = Append(w, 0) /\ Len(w) < SizeLimit /\ ReadsAs(type, w, m)
    BY <2>1 DEF NulBody
  <2>3. ParseFromString(type, Append(w, 0)) = [m |-> m, ok |-> FALSE]
    BY <2>2, ReadsNul
  <2>4. (body = "closed") = FALSE
    BY <1>1
  <2> QED
    BY <2>2, <2>3, <2>4 DEF m
<1>2. CASE body = "closed"
  <2>1. PlainBody(type, wire, m)
    BY <1>2 DEF Unread, m
  <2>2. Len(wire) \in Nat
    BY LenProperties DEF Str
  <2>3. Len(wire) <= SizeLimit /\ ReadsAs(type, wire, m)
    BY <2>1, <2>2 DEF PlainBody, SizeLimit
  <2>4. ParseFromString(type, wire) = [m |-> m, ok |-> TRUE]
    BY <2>3, ReadsWhole
  <2>5. (body = "closed") = TRUE
    BY <1>2
  <2> QED
    BY <2>4, <2>5 DEF m
<1> QED
  BY <1>1, <1>2

\* A chunk.
LEMMA DeliverKept ==
  ASSUME BodyKept, NEW n \in 1 .. Len(wire), Deliver(n)
  PROVE  BodyKept'
<1> DEFINE chunk == SubSeq(wire, 1, n)
           rest == SubSeq(wire, n + 1, Len(wire))
           p == ParseFromString(type, chunk)
<1>1. /\ MessagesTyped /\ msg \in Plain(type) /\ sent \in Seq(Plain(type))
      /\ body \in {"open", "closed", "nul"} /\ (got = <<>> => Unread)
  BY DEF BodyKept
<1>2. type \in Types /\ wire \in Str /\ got \in Seq(Gots(Msgs(type)))
  BY <1>1 DEF MessagesTyped
<1>3. type \in MessageTypes
  BY <1>2, InputsTyped
<1>4. /\ body # "open" /\ n <= Len(wire) /\ got' = Append(got, p) /\ wire' = rest
      /\ type' = type /\ msg' = msg /\ sent' = sent /\ body' = body
  <2>1. n <= Len(wire)
    BY <1>2, LenProperties DEF Str
  <2> QED
    BY <2>1 DEF Deliver
<1>5. MessagesTyped'
  BY <1>1, StepTyped DEF Next
<1>6. got \in Seq(Gots(Msgs(type))) /\ p \in Gots(Msgs(type))
  <2>1. n \in Nat /\ 1 \in Nat /\ 1 >= 1
    BY <1>2, LenProperties DEF Str
  <2>2. chunk \in Str
    BY <1>2, <1>4, <2>1, WirePart
  <2> QED
    BY <1>2, <1>3, <2>2, ParseType
<1>7. Len(got) \in Nat /\ Len(got') = Len(got) + 1 /\ got'[Len(got) + 1] = p
  <2> HIDE DEF p
  <2> QED
    BY <1>4, <1>6, LenProperties, AppendProperties
<1>8. got' # <<>>
  <2>1. Len(got') # 0
    BY <1>7
  <2> QED
    BY <2>1, EmptySeq
<1>9. WholeBodyIsRead'
  <2> SUFFICES ASSUME Delivered', Len(got') = 1
               PROVE  got'[1].m = Meant' /\ (got'[1].ok <=> body' = "closed")
    BY DEF WholeBodyIsRead
  <2>1. Len(got) = 0 /\ got'[1] = p
    BY <1>7
  <2>2. got = <<>>
    BY <1>2, <2>1, EmptySeq
  <2>3. Len(wire) \in Nat /\ n \in Nat /\ wire' = <<>>
    BY <1>2, LenProperties DEF Str, Delivered
  <2>4. n = Len(wire)
    <3> SUFFICES ASSUME n # Len(wire) PROVE FALSE
      OBVIOUS
    <3>1. n + 1 <= Len(wire) /\ n + 1 \in Nat /\ n + 1 >= 1
      BY <1>4, <2>3
    <3>2. Len(rest) = Len(wire) - (n + 1) + 1
      <4>1. \A k \in (n + 1) .. Len(wire) : wire[k] \in Nat
        BY <1>2, <2>3, <3>1, ElementOfSeq DEF Str
      <4>2. n + 1 \in Int /\ Len(wire) \in Int
        BY <2>3
      <4>3. n + 1 <= Len(wire) + 1
        BY <2>3, <3>1
      <4> QED
        BY <4>1, <4>2, <4>3, SubSeqProperties
    <3>3. Len(rest) # 0
      <4> HIDE DEF rest
      <4> QED
        BY <2>3, <3>1, <3>2
    <3>4. Len(<<>>) = 0
      BY EmptySeq
    <3> QED
      BY <1>4, <2>3, <3>3, <3>4
  <2>5. chunk = wire
    BY <1>2, <2>4, SubSeqFull DEF Str
  <2>6. body \in {"closed", "nul"} /\ Unread
    BY <1>1, <1>4, <2>2
  <2>7. p = [m |-> Meant, ok |-> body = "closed"]
    BY <1>2, <1>3, <2>5, <2>6, ReadInOne
  <2>8. Meant' = Meant
    BY <1>4 DEF Meant
  <2> HIDE DEF p
  <2>9. p.m = Meant /\ (p.ok <=> body = "closed")
    BY <2>7
  <2> QED
    BY <1>4, <2>1, <2>8, <2>9
<1> QED
  BY <1>1, <1>4, <1>5, <1>8, <1>9 DEF BodyKept

\* Every step.
LEMMA StepKept == BodyKept /\ [Next]_vars => BodyKept'
<1> SUFFICES ASSUME BodyKept, [Next]_vars PROVE BodyKept'
  OBVIOUS
<1>1. /\ MessagesTyped /\ msg \in Plain(type) /\ sent \in Seq(Plain(type))
      /\ body \in {"open", "closed", "nul"} /\ (body = "open" => got = <<>>)
      /\ (got = <<>> => Unread) /\ WholeBodyIsRead
  BY DEF BodyKept
<1>2. type \in Types /\ msg \in Msgs(type)
  BY <1>1 DEF MessagesTyped
<1>3. type \in MessageTypes
  BY <1>2, InputsTyped
<1>4. MessagesTyped'
  BY <1>1, StepTyped
<1>5. ASSUME body = "open", msg' \in Plain(type), UNCHANGED <<type, sent, wire, body, got>>
      PROVE  BodyKept'
  <2>1. type' = type /\ sent' = sent /\ wire' = wire /\ body' = body /\ got' = got /\ got' = <<>>
    BY <1>1, <1>5
  <2>2. Meant' = Meant
    BY <2>1 DEF Meant
  <2>3. Unread'
    BY <1>1, <2>1, <2>2 DEF Unread
  <2>4. WholeBodyIsRead'
    BY <2>1, NothingRead
  <2> QED
    BY <1>1, <1>4, <1>5, <2>1, <2>3, <2>4 DEF BodyKept
<1>6. CASE Edit
  <2>1. body = "open" /\ msg' \in Edits(msg) /\ UNCHANGED <<type, sent, wire, body, got>>
    BY <1>6 DEF Edit
  <2>2. msg' \in Plain(type)
    BY <1>1, <1>2, <2>1, EditsPlain
  <2> QED
    BY <1>5, <2>1, <2>2
<1>7. CASE Copy
  <2>1. body = "open" /\ sent # <<>> /\ msg' = CopyFrom(type, msg, Last(sent))
        /\ UNCHANGED <<type, sent, wire, body, got>>
    BY <1>7 DEF Copy
  <2>2. Len(sent) \in Nat /\ Len(sent) # 0 /\ \A i \in 1 .. Len(sent) : sent[i] \in Plain(type)
    BY <1>1, <2>1, LenProperties, ElementOfSeq, EmptySeq
  <2>3. Len(sent) \in 1 .. Len(sent)
    BY <2>2
  <2>4. Last(sent) \in Plain(type)
    BY <2>2, <2>3 DEF Last
  <2>5. msg' \in Plain(type)
    BY <1>2, <1>3, <2>1, <2>4, PlainSame
  <2> QED
    BY <1>5, <2>1, <2>5
<1>8. CASE Clear
  <2>1. body = "open" /\ msg' = CopyFrom(type, msg, New(type)) /\ UNCHANGED <<type, sent, wire, body, got>>
    BY <1>8 DEF Clear
  <2>2. New(type) \in Plain(type)
    BY <1>3, NewIsPlain
  <2>3. msg' \in Plain(type)
    BY <1>2, <1>3, <2>1, <2>2, PlainSame
  <2> QED
    BY <1>5, <2>1, <2>3
<1>9. CASE Send
  BY <1>9, SendKept
<1>10. ASSUME NEW how \in {"closed", "nul"}, Close(how) PROVE BodyKept'
  BY <1>10, CloseKept
<1>11. ASSUME NEW n \in 1 .. Len(wire), Deliver(n) PROVE BodyKept'
  BY <1>11, DeliverKept
<1>12. CASE UNCHANGED vars
  <2>1. UNCHANGED <<type, msg, sent, wire, body, got>>
    BY <1>12 DEF vars
  <2>2. Meant' = Meant /\ Delivered' = Delivered
    BY <2>1 DEF Meant, Delivered
  <2>3. Unread' = Unread /\ WholeBodyIsRead' = WholeBodyIsRead
    BY <2>1, <2>2 DEF Unread, WholeBodyIsRead
  <2> QED
    BY <1>1, <1>4, <2>1, <2>3 DEF BodyKept
<1> QED
  BY <1>6, <1>7, <1>8, <1>9, <1>10, <1>11, <1>12 DEF Next

\* A body that arrives in one chunk is read as the merge of its messages, and accepted
\* unless a zero byte follows it: for every type, value and number of messages, bodies
\* shorter than SizeLimit, and whether or not a value is read in place.
THEOREM WholeBodiesAreRead == Spec => []WholeBodyIsRead
<1>1. Init => BodyKept
  BY InitKept
<1>2. BodyKept /\ [Next]_vars => BodyKept'
  BY StepKept
<1>3. BodyKept => WholeBodyIsRead
  BY DEF BodyKept
<1> QED
  BY <1>1, <1>2, <1>3, PTL DEF Spec

-----------------------------------------------------------------------------
(* Where a chunk ends in the middle of a field.                             *)

\* The bytes s begin at position p, and the buffer ends before they do.
Cut(buf, p, s) ==
  /\ p <= Len(buf) + 1 /\ Len(buf) + 1 < p + Len(s)
  /\ \A i \in 1 .. (Len(buf) + 1) - p : buf[(p - 1) + i] = s[i]

\* Of two pieces, the first or the second is cut.
LEMMA CutConcat ==
  ASSUME NEW buf \in Str, NEW p \in Pos, NEW s \in Str, NEW t \in Str, Cut(buf, p, s \o t)
  PROVE  Cut(buf, p, s) \/ (At(buf, p, s) /\ Cut(buf, p + Len(s), t) /\ p + Len(s) \in Pos)
<1> DEFINE u == s \o t
           a == Len(s)
           b == Len(t)
           n == Len(buf)
<1>1. a \in Nat /\ b \in Nat /\ n \in Nat /\ p \in Nat /\ p >= 1
  BY LenProperties DEF Str, Pos
<1>2. Len(u) = a + b /\ \A i \in 1 .. a + b : u[i] = IF i <= a THEN s[i] ELSE t[i - a]
  <2> DEFINE S == Nat
  <2>1. s \in Seq(S) /\ t \in Seq(S)
    BY DEF Str
  <2> HIDE DEF S
  <2> QED
    BY <2>1, ConcatProperties
<1>3. p <= n + 1 /\ n + 1 < p + Len(u) /\ \A i \in 1 .. (n + 1) - p : buf[(p - 1) + i] = u[i]
  BY DEF Cut
<1> HIDE DEF u, a, b, n
<1>4. CASE n + 1 < p + a
  <2>1. ASSUME NEW i \in 1 .. (n + 1) - p PROVE buf[(p - 1) + i] = s[i]
    <3>1. i \in 1 .. a + b /\ i <= a
      BY <1>1, <1>4
    <3> QED
      BY <1>2, <1>3, <3>1
  <2> QED
    BY <1>3, <1>4, <2>1 DEF Cut, a, n
<1>5. CASE ~(n + 1 < p + a)
  <2>1. p + a <= n + 1 /\ n + 1 < (p + a) + b /\ p + a \in Pos
    BY <1>1, <1>2, <1>3, <1>5 DEF Pos
  <2>2. ASSUME NEW i \in 1 .. a PROVE buf[(p - 1) + i] = s[i]
    <3>1. i \in 1 .. a + b /\ i <= a /\ i \in 1 .. (n + 1) - p
      BY <1>1, <1>5
    <3> QED
      BY <1>2, <1>3, <3>1
  <2>3. ASSUME NEW i \in 1 .. (n + 1) - (p + a) PROVE buf[((p + a) - 1) + i] = t[i]
    <3> DEFINE k == a + i
    <3>1. k \in 1 .. a + b /\ ~(k <= a) /\ k - a = i /\ (p - 1) + k = ((p + a) - 1) + i /\ k \in 1 .. (n + 1) - p
      BY <1>1, <2>1
    <3> HIDE DEF k
    <3>2. buf[(p - 1) + k] = u[k] /\ u[k] = t[k - a]
      BY <1>2, <1>3, <3>1
    <3> QED
      BY <3>1, <3>2
  <2>4. At(buf, p, s)
    BY <2>1, <2>2 DEF At, a, n
  <2>5. Cut(buf, p + a, t)
    BY <2>1, <2>3 DEF Cut, b, n
  <2> QED
    BY <2>1, <2>4, <2>5 DEF a
<1> QED
  BY <1>4, <1>5

\* What was read goes past the end of the buffer, or was not read at all.
Overrun(buf, r) == ~r.ok \/ r.pos > Len(buf) + 1

\* The bytes of a varint before its last ask for more, so a varint that is cut overruns.
LEMMA CutVarint ==
  ASSUME NEW buf \in Str, NEW p \in Pos, NEW d \in Digits64, NEW w \in Nat, Cut(buf, p, WriteVarint(d))
  PROVE  Overrun(buf, ReadVarint(buf, p, w))
<1> DEFINE ends == {n \in 1 .. w : ByteAt(buf, p + n - 1) < 128}
           n    == Min(ends)
           v    == ReadVarint(buf, p, w)
           r    == [i \in 1 .. n |-> ByteAt(buf, p + i - 1) % 128]
           s    == WriteVarint(d)
           z    == VarintSize(d)
           l    == Len(buf)
<1>1. v = IF ends = {} THEN Read(FALSE, <<>>, p) ELSE Read(TRUE, UInt64(r), p + n)
  BY DEF ReadVarint
<1>2. s \in Str /\ Len(s) = z /\ z \in 1 .. 10 /\ (\A i \in 1 .. z - 1 : s[i] >= 128)
  BY VarintBytes
<1>3. p <= l + 1 /\ l + 1 < p + Len(s) /\ \A i \in 1 .. (l + 1) - p : buf[(p - 1) + i] = s[i]
  BY DEF Cut
<1>4. l \in Nat /\ p \in Nat /\ p >= 1
  BY LenProperties DEF Str, Pos
<1> HIDE DEF s, z
<1>5. \A k \in ends : p + k > l + 1 /\ k \in Nat
  <2> SUFFICES ASSUME NEW k \in ends, ~(p + k > l + 1) PROVE FALSE
    <3>1. \A k \in ends : k \in Nat
      OBVIOUS
    <3> HIDE DEF ends
    <3> QED
      BY <3>1
  <2>1. k \in 1 .. w /\ ByteAt(buf, p + k - 1) < 128
    OBVIOUS
  <2> HIDE DEF ends, l
  <2>2. k \in 1 .. (l + 1) - p /\ k \in 1 .. z - 1 /\ p + k - 1 = (p - 1) + k /\ p + k - 1 <= l
    BY <1>2, <1>3, <1>4, <2>1
  <2>3. ByteAt(buf, p + k - 1) = s[k] /\ s[k] >= 128
    BY <1>2, <1>3, <2>2 DEF ByteAt, l
  <2>4. s[k] \in Nat
    <3>1. k \in 1 .. Len(s)
      BY <1>2, <2>2
    <3> QED
      BY <1>2, <3>1, ElementOfSeq DEF Str
  <2> QED
    BY <2>1, <2>3, <2>4
<1>6. ends \in SUBSET Nat
  OBVIOUS
<1> HIDE DEF ends, v
<1>7. CASE ends = {}
  <2>1. v.ok = FALSE
    BY <1>1, <1>7 DEF Read
  <2> QED
    BY <2>1 DEF Overrun, v
<1>8. CASE ends # {}
  <2>1. \E x \in ends : \A y \in ends : x <= y
    BY <1>6, <1>8, LeastNat
  <2>2. n \in ends
    BY <2>1 DEF Min
  <2>3. v.pos = p + n
    BY <1>1, <1>8 DEF Read
  <2>4. v.pos > l + 1
    BY <1>5, <2>2, <2>3
  <2> QED
    BY <2>4 DEF Overrun, v
<1> QED
  BY <1>7, <1>8

\* The size before a value that is cut, or that is cut itself, points past the end.
LEMMA CutSize ==
  ASSUME NEW buf \in Str, NEW p \in Pos, NEW s \in Str, Len(s) < SizeLimit,
         Cut(buf, p, WriteVarint(Digits(Len(s))) \o s)
  PROVE  /\ ReadSize(buf, p) \in Reads(Nat)
         /\ ReadSize(buf, p).ok => ReadSize(buf, p).pos + ReadSize(buf, p).val > Len(buf) + 1
<1> DEFINE l == Len(s)
           d == Digits(l)
           v == ReadVarint(buf, p, 5)
           n == ReadSize(buf, p)
           k == SizeBytes(l)
<1>1. l \in Nat /\ l < SizeLimit /\ Len(buf) \in Nat /\ p \in Nat
  BY LenProperties DEF Str, Pos
<1>2. d \in Digits64 /\ WriteVarint(d) \in Str /\ Len(WriteVarint(d)) = k /\ k \in Nat
  <2> HIDE DEF l
  <2> QED
    BY <1>1, SizeDigits
<1>3. n \in Reads(Nat)
  BY ReadTagType
<1>4. v \in Reads(Str)
  BY ReadVarintType
<1>5. n = Read(v.ok /\ (Len(v.val) = 5 => v.val[5] < 8), Number(v.val), v.pos)
  BY DEF ReadSize, SizeOf
<1> HIDE DEF v, n, d, k
<1>6. n.val \in Nat /\ n.pos \in Nat
  BY <1>3, ReadsHave DEF Pos
<1>7. CASE Cut(buf, p, WriteVarint(d))
  <2>1. 5 \in Nat
    OBVIOUS
  <2>2. Overrun(buf, v)
    BY <1>2, <1>7, <2>1, CutVarint DEF v
  <2>3. n.pos = v.pos /\ (n.ok => v.ok)
    BY <1>5 DEF Read
  <2>4. n.ok => n.pos > Len(buf) + 1
    BY <2>2, <2>3 DEF Overrun
  <2>5. n.ok => n.pos + n.val > Len(buf) + 1
    BY <1>1, <1>6, <2>4
  <2> QED
    BY <1>3, <2>5 DEF n
<1>8. CASE At(buf, p, WriteVarint(d)) /\ Cut(buf, p + Len(WriteVarint(d)), s)
  <2>1. n = Read(TRUE, l, p + k)
    <3> HIDE DEF l
    <3> QED
      BY <1>1, <1>8, ReadSizeAt DEF n, d, k
  <2>2. n.pos = p + k /\ n.val = l
    BY <2>1 DEF Read
  <2>3. Len(buf) + 1 < (p + k) + l
    BY <1>2, <1>8 DEF Cut
  <2>4. n.pos + n.val > Len(buf) + 1
    <3> HIDE DEF l
    <3> QED
      BY <1>1, <2>2, <2>3
  <2> QED
    BY <1>3, <2>4 DEF n
<1>9. Cut(buf, p, WriteVarint(d) \o s)
  BY DEF d
<1> QED
  BY <1>2, <1>7, <1>8, <1>9, CutConcat

\* So a string, a packed array and an info that are cut overrun or fail.
LEMMA CutDelimited ==
  ASSUME NEW buf \in Str, NEW p \in Pos, NEW s \in Str, Len(s) < SizeLimit,
         Cut(buf, p, WriteVarint(Digits(Len(s))) \o s)
  PROVE  /\ Overrun(buf, ReadString(buf, p)) /\ Overrun(buf, ReadPacked(buf, p))
         /\ \A r : /\ ReadSize(buf, p).ok
                   /\ r = oneInfo_ParseMessage(buf, ReadSize(buf, p).pos, ReadSize(buf, p).pos + ReadSize(buf, p).val)
                   => ~(r.ok /\ ~r.stop)
<1> DEFINE n == ReadSize(buf, p)
           l == Len(buf)
<1>1. n \in Reads(Nat) /\ (n.ok => n.pos + n.val > l + 1)
  BY CutSize
<1>2. l \in Nat
  BY LenProperties DEF Str
<1> HIDE DEF n, l
<1>3. n.val \in Nat /\ n.pos \in Pos /\ n.pos \in Nat /\ n.ok \in BOOLEAN
  BY <1>1, ReadsHave DEF Pos
<1> DEFINE e == n.pos + n.val
<1>4. Overrun(buf, StringOf(buf, n))
  <2> DEFINE s1 == [i \in 1 .. n.val |-> ByteAt(buf, n.pos + i - 1)]
             q == StringOf(buf, n)
             fit == n.pos + n.val - 1 <= Readable(buf, n.pos)
             s2 == IF n.ok /\ InPlace(buf, n.pos) THEN SubSeq(buf, n.pos, Len(buf)) ELSE <<>>
  <2>1. q = IF n.ok /\ fit THEN Read(TRUE, s1, e) ELSE Read(FALSE, s2, n.pos)
    BY DEF StringOf
  <2> HIDE DEF s1, s2, q, e, fit
  <2>2. CASE n.ok /\ fit
    <3>1. q.pos = e
      BY <2>1, <2>2 DEF Read
    <3> QED
      BY <1>1, <2>2, <3>1 DEF Overrun, l, e, q
  <2>3. CASE ~(n.ok /\ fit)
    <3>1. q.ok = FALSE
      BY <2>1, <2>3 DEF Read
    <3> QED
      BY <3>1 DEF Overrun, q
  <2> QED
    BY <2>2, <2>3
<1>5. Overrun(buf, PackedOf(buf, n))
  <2> DEFINE fits == n.pos + n.val - 1 <= Readable(buf, n.pos)
             end  == IF fits THEN n.pos + n.val
                     ELSE IF InPlace(buf, n.pos) THEN Len(buf) - SlopBytes + 1 ELSE Len(buf) + 1
             r    == ReadVarints(buf, n.pos, end)
             good == fits /\ r.ok /\ r.pos = end
             q    == PackedOf(buf, n)
  <2>1. q = IF n.ok THEN Read(good, r.val, r.pos) ELSE Read(FALSE, <<>>, n.pos)
    BY DEF PackedOf
  <2>2. good => r.pos = e
    BY DEF e
  <2> HIDE DEF good, r, q, e
  <2>3. CASE n.ok
    <3>1. q.ok = good /\ q.pos = r.pos
      BY <2>1, <2>3 DEF Read
    <3>2. q.ok => q.pos > l + 1
      BY <1>1, <2>2, <2>3, <3>1 DEF e
    <3> QED
      BY <3>2 DEF Overrun, l, q
  <2>4. CASE ~n.ok
    <3>1. q.ok = FALSE
      BY <2>1, <2>4 DEF Read
    <3> QED
      BY <3>1 DEF Overrun, q
  <2> QED
    BY <2>3, <2>4
<1>6. ASSUME n.ok, NEW r, r = oneInfo_ParseMessage(buf, n.pos, e) PROVE ~(r.ok /\ ~r.stop)
  <2> HIDE DEF e
  <2>1. PICK f : oneInfoSteps(f, buf, n.pos, e) /\ \A k \in 0 .. Len(buf) : f[k] \in States(oneInfoMsgs)
    BY <1>3, oneInfoRun
  <2> DEFINE z == f[Len(buf)]
             c == (z.pos = e /\ z.pos <= Len(buf) + 1)
  <2>2. Len(buf) \in 0 .. Len(buf)
    BY <1>2 DEF l
  <2>3. z \in States(oneInfoMsgs)
    BY <2>1, <2>2
  <2>4. r = ParseEnd(z, buf, e)
    BY <1>6, <2>1 DEF oneInfoSteps
  <2> HIDE DEF z
  <2>5. e > l + 1 /\ e \in Nat
    BY <1>1, <1>3, <1>6 DEF e
  <2>6. c = FALSE
    BY <1>2, <2>5 DEF l
  <2>7. ParseEnd(z, buf, e) = IF z.ok /\ ~z.stop THEN [z EXCEPT !.ok = c] ELSE z
    BY DEF ParseEnd
  <2> HIDE DEF c
  <2>8. CASE z.ok /\ ~z.stop
    <3>1. r = [z EXCEPT !.ok = FALSE]
      BY <2>4, <2>6, <2>7, <2>8
    <3>2. r.ok = FALSE
      BY <2>3, <3>1 DEF States
    <3> QED
      BY <3>2
  <2>9. CASE ~(z.ok /\ ~z.stop)
    BY <2>4, <2>7, <2>9
  <2> QED
    BY <2>8, <2>9
<1>7. ReadString(buf, p) = StringOf(buf, n) /\ ReadPacked(buf, p) = PackedOf(buf, n)
  BY DEF ReadString, ReadPacked, n
<1> QED
  BY <1>4, <1>5, <1>6, <1>7 DEF n, e

-----------------------------------------------------------------------------
(* A field that is cut fails the parse.                                     *)

\* The parse has gone past the end of the buffer or failed, and of a push at most one
\* info was added to those read before.
Spoilt(t, m, buf, z) ==
  /\ z.stop = FALSE /\ Overrun(buf, z)
  /\ t = "PushReq" => \E o : z.m.infos = Append(m.infos, o)

\* The field of tag g, when what follows the tag is cut.
FieldOverruns(t, g, rest) ==
  Len(rest) <= SizeLimit =>
    \A buf \in Str, q \in Pos, m \in Msgs(t) :
      Cut(buf, q, rest) => Spoilt(t, m, buf, InternalParse(t, m, <<g>>, buf, q))

\* The bytes s, when they are cut after their first byte or later.
OtherRefuses(t, s) ==
  Len(s) <= SizeLimit =>
    \A f, buf, p : \A m \in Msgs(t) :
      /\ Loop(f, t, buf, 1, Len(buf) + 1) /\ Reaches(f, buf, 1, m, p) /\ p <= Len(buf) /\ Cut(buf, p, s)
      => Spoilt(t, m, buf, f[Len(buf)])

\* A field spoils the parse when what follows its tag does.
LEMMA CutRound ==
  ASSUME NEW t \in MessageTypes \ {"TestPb"}, NEW g \in Nat, g # 0, g < 128, NEW rest \in Str,
         FieldOverruns(t, g, rest)
  PROVE  OtherRefuses(t, WriteVarint(<<g>>) \o rest)
<1> DEFINE tag == WriteVarint(<<g>>)
           s == tag \o rest
<1> SUFFICES ASSUME Len(s) <= SizeLimit, NEW f, NEW buf, NEW p, NEW m \in Msgs(t),
                    Loop(f, t, buf, 1, Len(buf) + 1), Reaches(f, buf, 1, m, p), p <= Len(buf), Cut(buf, p, s)
             PROVE  Spoilt(t, m, buf, f[Len(buf)])
  BY DEF OtherRefuses
<1> DEFINE limit == Len(buf) + 1
<1>1. buf \in Str /\ \A k \in 1 .. Len(buf) : f[k] = Round(t, f[k - 1], buf, limit)
  BY DEF Loop
<1>2. p \in Pos /\ Len(buf) \in Nat /\ p \in Nat /\ p >= 1
  BY <1>1, LenProperties DEF Reaches, Pos, Str
<1>3. PICK k \in 0 .. Len(buf) : f[k] = ParseStart(m, p) /\ k + 1 <= p
  BY DEF Reaches
<1>4. tag \in Str /\ Len(tag) = 1
  BY <1>1, <1>2, ReadTagAt
<1>5. Len(rest) <= SizeLimit
  <2>1. Len(s) = 1 + Len(rest) /\ Len(rest) \in Nat
    BY <1>4, StrConcat
  <2> HIDE DEF s
  <2> QED
    BY <2>1 DEF SizeLimit
<1> HIDE DEF tag
<1>6. At(buf, p, tag) /\ Cut(buf, p + 1, rest) /\ p + 1 \in Pos
  <2>1. Cut(buf, p, tag) \/ (At(buf, p, tag) /\ Cut(buf, p + Len(tag), rest) /\ p + Len(tag) \in Pos)
    BY <1>1, <1>2, <1>4, CutConcat
  <2>2. ~Cut(buf, p, tag)
    BY <1>2, <1>4 DEF Cut
  <2> QED
    BY <1>4, <2>1, <2>2
<1> DEFINE z == InternalParse(t, m, <<g>>, buf, p + 1)
<1>7. Spoilt(t, m, buf, z)
  BY <1>1, <1>5, <1>6 DEF FieldOverruns
<1> DEFINE y == ReadTag(buf, p)
           r == ParseStart(m, p)
           w == InternalParse(t, r.m, y.val, buf, y.pos)
<1>8. y = Read(TRUE, <<g>>, p + 1)
  BY <1>1, <1>2, <1>6, ReadTagAt DEF tag
<1>9. r.ok = TRUE /\ r.stop = FALSE /\ r.m = m /\ r.pos = p
  BY DEF ParseStart
<1>10. Round(t, r, buf, limit) = NextField(r, y, w, buf, limit)
  BY <1>9 DEF Round
<1> HIDE DEF y, r
<1>11. y.ok = TRUE /\ y.val = <<g>> /\ y.pos = p + 1
  BY <1>8 DEF Read
<1>12. w = z
  BY <1>9, <1>11
<1> HIDE DEF w, z
<1>13. ~(p >= limit) /\ ~(p > Len(buf))
  BY <1>2
<1>14. NextField(r, y, w, buf, limit) = w
  BY <1>9, <1>11, <1>13 DEF NextField
<1>15. k + 1 \in 1 .. Len(buf) /\ (k + 1) - 1 = k /\ k + 1 \in 0 .. Len(buf)
  BY <1>2, <1>3
<1>16. f[k + 1] = z
  BY <1>1, <1>3, <1>10, <1>12, <1>14, <1>15 DEF r
<1>17. ~z.ok \/ z.stop \/ z.pos >= limit \/ z.pos > Len(buf)
  <2>1. ~z.ok \/ z.pos > limit
    BY <1>7 DEF Spoilt, Overrun
  <2>2. <<g>> \in Str
    BY TagsAre
  <2>3. z \in States(Msgs(t))
    BY <1>1, <1>6, <2>2, FieldType DEF z
  <2>4. z.pos \in Nat
    BY <2>3 DEF States, Pos
  <2> QED
    BY <1>2, <2>1, <2>4
<1>18. f[Len(buf)] = z
  BY <1>15, <1>16, <1>17, LoopEnds
<1> QED
  BY <1>7, <1>18

\* A field that was not read fails the parse, whatever the message is.
LEMMA FieldSpoilt ==
  ASSUME NEW t, t # "PushReq", NEW m, NEW buf, NEW v, NEW x, Overrun(buf, v)
  PROVE  Spoilt(t, m, buf, Parsed(v, x))
<1> DEFINE z == Parsed(v, x)
<1>1. z.ok = v.ok /\ z.stop = FALSE /\ z.pos = v.pos
  BY DEF Parsed
<1> HIDE DEF z
<1>2. Overrun(buf, z)
  BY <1>1 DEF Overrun
<1>3. Spoilt(t, m, buf, z)
  BY <1>1, <1>2 DEF Spoilt
<1> QED
  BY <1>3 DEF z

\* Nor does it help that a string must be UTF-8.
LEMMA TextOverruns ==
  ASSUME NEW buf, NEW v \in Reads(Str), Overrun(buf, v), NEW b \in BOOLEAN
  PROVE  Overrun(buf, [v EXCEPT !.ok = @ /\ b])
<1> DEFINE w == [v EXCEPT !.ok = v.ok /\ b]
<1>1. w.pos = v.pos /\ w.ok = (v.ok /\ b)
  BY DEF Reads
<1> HIDE DEF w
<1>2. Overrun(buf, w)
  BY <1>1 DEF Overrun
<1> QED
  BY <1>2 DEF w

\* The fields with a varint.
LEMMA VarintRefused ==
  ASSUME NEW t \in MessageTypes \ {"TestPb"}, t # "PushReq", NEW g \in Nat, g # 0, g < 128, NEW d \in Digits64,
         \A m \in Msgs(t), buf \in Str, q \in Pos :
            \E x : InternalParse(t, m, <<g>>, buf, q) = Parsed(ReadVarint(buf, q, 10), x)
  PROVE  OtherRefuses(t, WriteVarint(<<g>>) \o WriteVarint(d))
<1> DEFINE rest == WriteVarint(d)
<1>1. rest \in Str
  BY VarintBytes
<1>2. FieldOverruns(t, g, rest)
  <2> SUFFICES ASSUME NEW buf \in Str, NEW q \in Pos, NEW m \in Msgs(t), Cut(buf, q, rest)
               PROVE  Spoilt(t, m, buf, InternalParse(t, m, <<g>>, buf, q))
    BY DEF FieldOverruns
  <2>1. PICK x : InternalParse(t, m, <<g>>, buf, q) = Parsed(ReadVarint(buf, q, 10), x)
    OBVIOUS
  <2>2. 10 \in Nat
    OBVIOUS
  <2>3. Overrun(buf, ReadVarint(buf, q, 10))
    BY <2>2, CutVarint
  <2> DEFINE v == ReadVarint(buf, q, 10)
  <2> HIDE DEF v
  <2>4. Spoilt(t, m, buf, Parsed(v, x))
    BY <2>3, FieldSpoilt DEF v
  <2> QED
    BY <2>1, <2>4 DEF v
<1> HIDE DEF rest
<1>3. OtherRefuses(t, WriteVarint(<<g>>) \o rest)
  BY <1>1, <1>2, CutRound
<1> QED
  BY <1>3 DEF rest

\* What follows the tag of a value with a size.
LEMMA SizedRest ==
  ASSUME NEW g \in Nat, g # 0, g < 128, NEW s \in Str
  PROVE  /\ WriteBytes(<<g>>, s) = WriteVarint(<<g>>) \o (WriteVarint(Digits(Len(s))) \o s)
         /\ WriteVarint(Digits(Len(s))) \o s \in Str
         /\ Len(WriteVarint(Digits(Len(s))) \o s) <= SizeLimit => Len(s) < SizeLimit
<1> DEFINE a == WriteVarint(<<g>>)
           b == WriteVarint(Digits(Len(s)))
<1>1. a \in Str
  <2>1. <<>> \in Str /\ 1 \in Pos
    BY EmptySeq DEF Str, Pos
  <2> QED
    BY <2>1, ReadTagAt
<1>2. b \in Str /\ Len(b) >= 1
  <2> DEFINE d == Digits(Len(s))
  <2>1. Len(s) \in Nat
    BY LenProperties DEF Str
  <2>2. d \in Str
    BY <2>1, DigitsType
  <2> HIDE DEF d
  <2>3. WriteVarint(d) \in Str /\ Len(WriteVarint(d)) >= 1
    BY <2>2, WriteVarintSize
  <2> QED
    BY <2>3 DEF d
<1>3. WriteBytes(<<g>>, s) = (a \o b) \o s
  BY DEF WriteBytes
<1> HIDE DEF a, b
<1>4. (a \o b) \o s = a \o (b \o s)
  <2> DEFINE S == Nat
  <2>1. a \in Seq(S) /\ b \in Seq(S) /\ s \in Seq(S)
    BY <1>1, <1>2 DEF Str
  <2> HIDE DEF S
  <2> QED
    BY <2>1, StrAssoc
<1>5. b \o s \in Str /\ Len(b \o s) = Len(b) + Len(s) /\ Len(b) \in Nat /\ Len(s) \in Nat
  BY <1>2, StrConcat
<1>6. Len(b \o s) <= SizeLimit => Len(s) < SizeLimit
  <2> DEFINE i == Len(b)
             j == Len(s)
  <2>1. i \in Nat /\ j \in Nat /\ i >= 1 /\ Len(b \o s) = i + j
    BY <1>2, <1>5
  <2> HIDE DEF i, j
  <2>2. i + j <= SizeLimit => j < SizeLimit
    BY <2>1 DEF SizeLimit
  <2> QED
    BY <2>1, <2>2 DEF j
<1> QED
  BY <1>3, <1>4, <1>5, <1>6 DEF a, b

\* The fields with a string or a packed array.
LEMMA SizedRefused ==
  ASSUME NEW t \in MessageTypes \ {"TestPb"}, t # "PushReq", NEW g \in Nat, g # 0, g < 128, NEW s \in Str,
         \A m \in Msgs(t), buf \in Str, q \in Pos :
            Overrun(buf, ReadString(buf, q)) /\ Overrun(buf, ReadPacked(buf, q)) =>
              \E v, x : InternalParse(t, m, <<g>>, buf, q) = Parsed(v, x) /\ Overrun(buf, v)
  PROVE  OtherRefuses(t, WriteBytes(<<g>>, s))
<1> DEFINE rest == WriteVarint(Digits(Len(s))) \o s
<1>1. WriteBytes(<<g>>, s) = WriteVarint(<<g>>) \o rest /\ rest \in Str /\ (Len(rest) <= SizeLimit => Len(s) < SizeLimit)
  BY SizedRest
<1>2. FieldOverruns(t, g, rest)
  <2> SUFFICES ASSUME Len(rest) <= SizeLimit, NEW buf \in Str, NEW q \in Pos, NEW m \in Msgs(t), Cut(buf, q, rest)
               PROVE  Spoilt(t, m, buf, InternalParse(t, m, <<g>>, buf, q))
    BY DEF FieldOverruns
  <2>1. Len(s) < SizeLimit
    BY <1>1
  <2>2. Overrun(buf, ReadString(buf, q)) /\ Overrun(buf, ReadPacked(buf, q))
    BY <2>1, CutDelimited
  <2>3. \E v, x : InternalParse(t, m, <<g>>, buf, q) = Parsed(v, x) /\ Overrun(buf, v)
    BY <2>2
  <2>4. PICK v, x : InternalParse(t, m, <<g>>, buf, q) = Parsed(v, x) /\ Overrun(buf, v)
    BY <2>3
  <2>5. Spoilt(t, m, buf, Parsed(v, x))
    BY <2>4, FieldSpoilt
  <2> QED
    BY <2>4, <2>5
<1> HIDE DEF rest
<1>3. OtherRefuses(t, WriteVarint(<<g>>) \o rest)
  BY <1>1, <1>2, CutRound
<1> QED
  BY <1>1, <1>3

\* An info of a push: it is in the message before it is parsed, and fails.
LEMMA InfoRefused ==
  ASSUME NEW s \in Str
  PROVE  OtherRefuses("PushReq", WriteBytes(<<10>>, s))
<1> DEFINE g == 10
           rest == WriteVarint(Digits(Len(s))) \o s
<1>1. g \in Nat /\ g # 0 /\ g < 128
  OBVIOUS
<1>2. WriteBytes(<<g>>, s) = WriteVarint(<<g>>) \o rest /\ rest \in Str /\ (Len(rest) <= SizeLimit => Len(s) < SizeLimit)
  <2> HIDE DEF g
  <2> QED
    BY <1>1, SizedRest
<1>3. FieldOverruns("PushReq", g, rest)
  <2> SUFFICES ASSUME Len(rest) <= SizeLimit, NEW buf \in Str, NEW q \in Pos, NEW m \in Msgs("PushReq"), Cut(buf, q, rest)
               PROVE  Spoilt("PushReq", m, buf, InternalParse("PushReq", m, <<10>>, buf, q))
    BY DEF FieldOverruns
  <2> DEFINE n == ReadSize(buf, q)
             r == oneInfo_ParseMessage(buf, n.pos, n.pos + n.val)
             z == InternalParse("PushReq", m, <<10>>, buf, q)
             b == r.ok /\ ~r.stop
             v == [r EXCEPT !.ok = b]
             x == PushReq_add_infos(m, oneInfo_New)
             y == PushReq_add_infos(m, r.m)
  <2>1. Len(s) < SizeLimit
    BY <1>2
  <2>2. n.ok => ~b
    BY <2>1, CutDelimited
  <2>3. n \in Reads(Nat)
    BY ReadTagType
  <2>4. z = IF ~n.ok THEN Parsed(n, x) ELSE Parsed(v, y)
    <3>1. z = PushReq_InternalParse(m, <<10>>, buf, q)
      BY DEF InternalParse
    <3> QED
      BY <2>3, <3>1 DEF PushReq_InternalParse, Reads
  <2>5. m \in PushReqMsgs
    BY MsgsAre
  <2>6. x.infos = Append(m.infos, oneInfo_New) /\ y.infos = Append(m.infos, r.m)
    BY <2>5 DEF PushReq_add_infos, PushReqMsgs
  <2>7. r \in States(oneInfoMsgs)
    <3> HIDE DEF n
    <3>1. n.pos \in Pos
      BY <2>3, ReadsHave
    <3> QED
      BY <3>1, oneInfoParsed
  <2>8. v.ok = b
    <3> HIDE DEF b, r
    <3> QED
      BY <2>7 DEF States
  <2> HIDE DEF n, r, b, v, x, y, z
  <2>9. CASE ~n.ok
    <3>1. z.stop = FALSE /\ z.ok = n.ok /\ z.m = x
      BY <2>4, <2>9 DEF Parsed
    <3> QED
      BY <2>6, <2>9, <3>1 DEF Spoilt, Overrun, z
  <2>10. CASE n.ok
    <3>1. z.stop = FALSE /\ z.ok = v.ok /\ z.m = y
      BY <2>4, <2>10 DEF Parsed
    <3>2. ~z.ok
      BY <2>2, <2>8, <2>10, <3>1
    <3> QED
      BY <2>6, <3>1, <3>2 DEF Spoilt, Overrun, z
  <2> QED
    BY <2>9, <2>10
<1>4. "PushReq" \in MessageTypes \ {"TestPb"}
  BY DEF MessageTypes
<1> HIDE DEF rest, g
<1>5. OtherRefuses("PushReq", WriteVarint(<<g>>) \o rest)
  <2> DEFINE t == "PushReq"
  <2>1. t \in MessageTypes \ {"TestPb"} /\ FieldOverruns(t, g, rest)
    BY <1>3, <1>4
  <2> HIDE DEF t
  <2>2. OtherRefuses(t, WriteVarint(<<g>>) \o rest)
    BY <1>1, <1>2, <2>1, CutRound
  <2> QED
    BY <2>2 DEF t
<1>6. OtherRefuses("PushReq", WriteBytes(<<g>>, s))
  BY <1>2, <1>5
<1> QED
  BY <1>6 DEF g

\* Nothing cannot be cut.
LEMMA NothingRefused ==
  ASSUME NEW t
  PROVE  OtherRefuses(t, <<>>)
<1> SUFFICES ASSUME NEW f, NEW buf, NEW p, Loop(f, t, buf, 1, Len(buf) + 1), NEW m, Reaches(f, buf, 1, m, p),
                    p <= Len(buf), Cut(buf, p, <<>>)
             PROVE  FALSE
  BY DEF OtherRefuses
<1>1. p \in Nat /\ Len(buf) \in Nat /\ Len(<<>>) = 0
  BY LenProperties DEF Reaches, Pos, Loop, Str
<1> QED
  BY <1>1 DEF Cut

\* A varint field that may be left out.
LEMMA VarintFieldRefused ==
  ASSUME NEW t \in MessageTypes \ {"TestPb"}, t # "PushReq", NEW g \in Nat, g # 0, g < 128, NEW d \in Digits64,
         \A m \in Msgs(t), buf \in Str, q \in Pos :
            \E x : InternalParse(t, m, <<g>>, buf, q) = Parsed(ReadVarint(buf, q, 10), x)
  PROVE  OtherRefuses(t, VarintField(<<g>>, d))
<1>1. CASE d = <<>>
  BY <1>1, NothingRefused DEF VarintField
<1>2. CASE d # <<>>
  <2>1. VarintField(<<g>>, d) = WriteVarint(<<g>>) \o WriteVarint(d)
    BY <1>2 DEF VarintField
  <2>2. OtherRefuses(t, WriteVarint(<<g>>) \o WriteVarint(d))
    BY VarintRefused
  <2> QED
    BY <2>1, <2>2
<1> QED
  BY <1>1, <1>2

\* A string, or an array, that may be left out.
LEMMA SizedFieldRefused ==
  ASSUME NEW t \in MessageTypes \ {"TestPb"}, t # "PushReq", NEW g \in Nat, g # 0, g < 128,
         \A m \in Msgs(t), buf \in Str, q \in Pos :
            Overrun(buf, ReadString(buf, q)) /\ Overrun(buf, ReadPacked(buf, q)) =>
              \E v, x : InternalParse(t, m, <<g>>, buf, q) = Parsed(v, x) /\ Overrun(buf, v)
  PROVE  /\ \A s \in Str : OtherRefuses(t, BytesField(<<g>>, s)) /\ OtherRefuses(t, WriteBytes(<<g>>, s))
         /\ \A v \in Seq(Digits64) : OtherRefuses(t, PackedField(g, v))
<1>1. ASSUME NEW s \in Str PROVE OtherRefuses(t, WriteBytes(<<g>>, s))
  BY SizedRefused
<1>2. OtherRefuses(t, <<>>)
  BY NothingRefused
<1>3. ASSUME NEW s \in Str PROVE OtherRefuses(t, BytesField(<<g>>, s))
  BY <1>1, <1>2 DEF BytesField
<1>4. ASSUME NEW v \in Seq(Digits64) PROVE OtherRefuses(t, PackedField(g, v))
  <2>1. JoinSeq(Packed(v)) \in Str
    BY PackedBytes
  <2>2. WritePacked(<<g>>, v) = WriteBytes(<<g>>, JoinSeq(Packed(v)))
    BY DEF WritePacked, Packed
  <2>3. OtherRefuses(t, WritePacked(<<g>>, v))
    BY <1>1, <2>1, <2>2
  <2> QED
    BY <1>2, <2>3 DEF PackedField
<1> QED
  BY <1>1, <1>3, <1>4

\* The fields of a oneInfo.
LEMMA oneInfoRefuses ==
  /\ \A d \in Digits64 : OtherRefuses("oneInfo", VarintField(<<8>>, d))
  /\ \A s \in Str : OtherRefuses("oneInfo", BytesField(<<18>>, s))
<1>1. \A d \in Digits64 : OtherRefuses("oneInfo", VarintField(<<8>>, d))
  <2> DEFINE t == "oneInfo"
             g == 8
  <2>1. t \in MessageTypes \ {"TestPb"} /\ t # "PushReq" /\ g \in Nat /\ g # 0 /\ g < 128
    BY DEF MessageTypes
  <2>2. \A m \in Msgs(t), buf \in Str, q \in Pos :
          \E x : InternalParse(t, m, <<g>>, buf, q) = Parsed(ReadVarint(buf, q, 10), x)
    <3> SUFFICES ASSUME NEW m, NEW buf, NEW q
                 PROVE  \E x : InternalParse("oneInfo", m, <<8>>, buf, q) = Parsed(ReadVarint(buf, q, 10), x)
      OBVIOUS
    <3> DEFINE v == ReadVarint(buf, q, 10)
    <3>1. InternalParse("oneInfo", m, <<8>>, buf, q) = oneInfo_InternalParse(m, <<8>>, buf, q)
      BY DEF InternalParse
    <3>2. oneInfo_InternalParse(m, <<8>>, buf, q) = Parsed(v, [m EXCEPT !.key = v.val])
      BY DEF oneInfo_InternalParse
    <3> QED
      BY <3>1, <3>2
  <2> HIDE DEF t, g
  <2>3. \A d \in Digits64 : OtherRefuses(t, VarintField(<<g>>, d))
    BY <2>1, <2>2, VarintFieldRefused
  <2> QED
    BY <2>3 DEF t, g
<1>2. \A s \in Str : OtherRefuses("oneInfo", BytesField(<<18>>, s))
  <2> DEFINE t == "oneInfo"
             g == 18
  <2>1. t \in MessageTypes \ {"TestPb"} /\ t # "PushReq" /\ g \in Nat /\ g # 0 /\ g < 128
    BY DEF MessageTypes
  <2>2. \A m \in Msgs(t), buf \in Str, q \in Pos :
          Overrun(buf, ReadString(buf, q)) /\ Overrun(buf, ReadPacked(buf, q)) =>
            \E v, x : InternalParse(t, m, <<g>>, buf, q) = Parsed(v, x) /\ Overrun(buf, v)
    <3> SUFFICES ASSUME NEW m, NEW buf \in Str, NEW q \in Pos, Overrun(buf, ReadString(buf, q))
                 PROVE  \E v, x : InternalParse("oneInfo", m, <<18>>, buf, q) = Parsed(v, x) /\ Overrun(buf, v)
      OBVIOUS
    <3> DEFINE s == ReadString(buf, q)
    <3>1. InternalParse("oneInfo", m, <<18>>, buf, q) = oneInfo_InternalParse(m, <<18>>, buf, q)
      BY DEF InternalParse
    <3>2. oneInfo_InternalParse(m, <<18>>, buf, q) = Parsed(s, [m EXCEPT !.data = s.val])
      BY DEF oneInfo_InternalParse
    <3>3. Overrun(buf, s)
      OBVIOUS
    <3> HIDE DEF s
    <3> QED
      BY <3>1, <3>2, <3>3
  <2> HIDE DEF t, g
  <2>3. \A s \in Str : OtherRefuses(t, BytesField(<<g>>, s))
    BY <2>1, <2>2, SizedFieldRefused
  <2> QED
    BY <2>3 DEF t, g
<1> QED
  BY <1>1, <1>2

\* The fields of a PushRsp.
LEMMA PushRspRefuses ==
  /\ \A d \in Digits64 : OtherRefuses("PushRsp", VarintField(<<8>>, d))
  /\ \A s \in Str : OtherRefuses("PushRsp", BytesField(<<18>>, s))
<1>1. \A d \in Digits64 : OtherRefuses("PushRsp", VarintField(<<8>>, d))
  <2> DEFINE t == "PushRsp"
             g == 8
  <2>1. t \in MessageTypes \ {"TestPb"} /\ t # "PushReq" /\ g \in Nat /\ g # 0 /\ g < 128
    BY DEF MessageTypes
  <2>2. \A m \in Msgs(t), buf \in Str, q \in Pos :
          \E x : InternalParse(t, m, <<g>>, buf, q) = Parsed(ReadVarint(buf, q, 10), x)
    <3> SUFFICES ASSUME NEW m, NEW buf, NEW q
                 PROVE  \E x : InternalParse("PushRsp", m, <<8>>, buf, q) = Parsed(ReadVarint(buf, q, 10), x)
      OBVIOUS
    <3> DEFINE v == ReadVarint(buf, q, 10)
    <3>1. InternalParse("PushRsp", m, <<8>>, buf, q) = PushRsp_InternalParse(m, <<8>>, buf, q)
      BY DEF InternalParse
    <3>2. PushRsp_InternalParse(m, <<8>>, buf, q) = Parsed(v, PushRsp_set_errcode(m, v.val))
      BY DEF PushRsp_InternalParse
    <3> QED
      BY <3>1, <3>2
  <2> HIDE DEF t, g
  <2>3. \A d \in Digits64 : OtherRefuses(t, VarintField(<<g>>, d))
    BY <2>1, <2>2, VarintFieldRefused
  <2> QED
    BY <2>3 DEF t, g
<1>2. \A s \in Str : OtherRefuses("PushRsp", BytesField(<<18>>, s))
  <2> DEFINE t == "PushRsp"
             g == 18
  <2>1. t \in MessageTypes \ {"TestPb"} /\ t # "PushReq" /\ g \in Nat /\ g # 0 /\ g < 128
    BY DEF MessageTypes
  <2>2. \A m \in Msgs(t), buf \in Str, q \in Pos :
          Overrun(buf, ReadString(buf, q)) /\ Overrun(buf, ReadPacked(buf, q)) =>
            \E v, x : InternalParse(t, m, <<g>>, buf, q) = Parsed(v, x) /\ Overrun(buf, v)
    <3> SUFFICES ASSUME NEW m, NEW buf \in Str, NEW q \in Pos, Overrun(buf, ReadString(buf, q))
                 PROVE  \E v, x : InternalParse("PushRsp", m, <<18>>, buf, q) = Parsed(v, x) /\ Overrun(buf, v)
      OBVIOUS
    <3> DEFINE s == ReadString(buf, q)
    <3> DEFINE u == [s EXCEPT !.ok = @ /\ IsUtf8(s.val)]
    <3>1. InternalParse("PushRsp", m, <<18>>, buf, q) = PushRsp_InternalParse(m, <<18>>, buf, q)
      BY DEF InternalParse
    <3>2. PushRsp_InternalParse(m, <<18>>, buf, q) = Parsed(u, PushRsp_set_errdesc(m, s.val))
      BY DEF PushRsp_InternalParse
    <3>3. Overrun(buf, u)
      <4> DEFINE b == IsUtf8(s.val)
      <4>1. b \in BOOLEAN
        BY DEF IsUtf8
      <4>2. s \in Reads(Str)
        BY ReadStringType
      <4> HIDE DEF b, s
      <4>3. Overrun(buf, [s EXCEPT !.ok = @ /\ b])
        BY <4>1, <4>2, TextOverruns DEF s
      <4> QED
        BY <4>3 DEF b
    <3> HIDE DEF u
    <3> QED
      BY <3>1, <3>2, <3>3
  <2> HIDE DEF t, g
  <2>3. \A s \in Str : OtherRefuses(t, BytesField(<<g>>, s))
    BY <2>1, <2>2, SizedFieldRefused
  <2> QED
    BY <2>3 DEF t, g
<1> QED
  BY <1>1, <1>2

\* The fields of a PullReq.
LEMMA PullReqRefuses ==
  /\ \A v \in Seq(Digits64) : OtherRefuses("PullReq", PackedField(10, v))
  /\ \A v \in Seq(Digits64) : OtherRefuses("PullReq", PackedField(18, v))
<1>1. \A v \in Seq(Digits64) : OtherRefuses("PullReq", PackedField(10, v))
  <2> DEFINE t == "PullReq"
             g == 10
  <2>1. t \in MessageTypes \ {"TestPb"} /\ t # "PushReq" /\ g \in Nat /\ g # 0 /\ g < 128
    BY DEF MessageTypes
  <2>2. \A m \in Msgs(t), buf \in Str, q \in Pos :
          Overrun(buf, ReadString(buf, q)) /\ Overrun(buf, ReadPacked(buf, q)) =>
            \E v, x : InternalParse(t, m, <<g>>, buf, q) = Parsed(v, x) /\ Overrun(buf, v)
    <3> SUFFICES ASSUME NEW m, NEW buf \in Str, NEW q \in Pos, Overrun(buf, ReadPacked(buf, q))
                 PROVE  \E v, x : InternalParse("PullReq", m, <<10>>, buf, q) = Parsed(v, x) /\ Overrun(buf, v)
      OBVIOUS
    <3> DEFINE s == ReadPacked(buf, q)
    <3>1. InternalParse("PullReq", m, <<10>>, buf, q) = PullReq_InternalParse(m, <<10>>, buf, q)
      BY DEF InternalParse
    <3>2. PullReq_InternalParse(m, <<10>>, buf, q) = Parsed(s, [m EXCEPT !.keys = @ \o s.val])
      BY DEF PullReq_InternalParse
    <3>3. Overrun(buf, s)
      OBVIOUS
    <3> HIDE DEF s
    <3> QED
      BY <3>1, <3>2, <3>3
  <2> HIDE DEF t, g
  <2>3. \A v \in Seq(Digits64) : OtherRefuses(t, PackedField(g, v))
    BY <2>1, <2>2, SizedFieldRefused
  <2> QED
    BY <2>3 DEF t, g
<1>2. \A v \in Seq(Digits64) : OtherRefuses("PullReq", PackedField(18, v))
  <2> DEFINE t == "PullReq"
             g == 18
  <2>1. t \in MessageTypes \ {"TestPb"} /\ t # "PushReq" /\ g \in Nat /\ g # 0 /\ g < 128
    BY DEF MessageTypes
  <2>2. \A m \in Msgs(t), buf \in Str, q \in Pos :
          Overrun(buf, ReadString(buf, q)) /\ Overrun(buf, ReadPacked(buf, q)) =>
            \E v, x : InternalParse(t, m, <<g>>, buf, q) = Parsed(v, x) /\ Overrun(buf, v)
    <3> SUFFICES ASSUME NEW m, NEW buf \in Str, NEW q \in Pos, Overrun(buf, ReadPacked(buf, q))
                 PROVE  \E v, x : InternalParse("PullReq", m, <<18>>, buf, q) = Parsed(v, x) /\ Overrun(buf, v)
      OBVIOUS
    <3> DEFINE s == ReadPacked(buf, q)
    <3>1. InternalParse("PullReq", m, <<18>>, buf, q) = PullReq_InternalParse(m, <<18>>, buf, q)
      BY DEF InternalParse
    <3>2. PullReq_InternalParse(m, <<18>>, buf, q) = Parsed(s, [m EXCEPT !.field = @ \o [i \in DOMAIN s.val |-> UInt32(s.val[i])]])
      BY DEF PullReq_InternalParse
    <3>3. Overrun(buf, s)
      OBVIOUS
    <3> HIDE DEF s
    <3> QED
      BY <3>1, <3>2, <3>3
  <2> HIDE DEF t, g
  <2>3. \A v \in Seq(Digits64) : OtherRefuses(t, PackedField(g, v))
    BY <2>1, <2>2, SizedFieldRefused
  <2> QED
    BY <2>3 DEF t, g
<1> QED
  BY <1>1, <1>2

\* The fields of a PullRsp.
LEMMA PullRspRefuses ==
  /\ \A d \in Digits64 : OtherRefuses("PullRsp", VarintField(<<8>>, d))
  /\ \A s \in Str : OtherRefuses("PullRsp", BytesField(<<18>>, s))
  /\ \A s \in Str : OtherRefuses("PullRsp", WriteBytes(<<26>>, s))
<1>1. \A d \in Digits64 : OtherRefuses("PullRsp", VarintField(<<8>>, d))
  <2> DEFINE t == "PullRsp"
             g == 8
  <2>1. t \in MessageTypes \ {"TestPb"} /\ t # "PushReq" /\ g \in Nat /\ g # 0 /\ g < 128
    BY DEF MessageTypes
  <2>2. \A m \in Msgs(t), buf \in Str, q \in Pos :
          \E x : InternalParse(t, m, <<g>>, buf, q) = Parsed(ReadVarint(buf, q, 10), x)
    <3> SUFFICES ASSUME NEW m, NEW buf, NEW q
                 PROVE  \E x : InternalParse("PullRsp", m, <<8>>, buf, q) = Parsed(ReadVarint(buf, q, 10), x)
      OBVIOUS
    <3> DEFINE v == ReadVarint(buf, q, 10)
    <3>1. InternalParse("PullRsp", m, <<8>>, buf, q) = PullRsp_InternalParse(m, <<8>>, buf, q)
      BY DEF InternalParse
    <3>2. PullRsp_InternalParse(m, <<8>>, buf, q) = Parsed(v, PullRsp_set_errcode(m, v.val))
      BY DEF PullRsp_InternalParse
    <3> QED
      BY <3>1, <3>2
  <2> HIDE DEF t, g
  <2>3. \A d \in Digits64 : OtherRefuses(t, VarintField(<<g>>, d))
    BY <2>1, <2>2, VarintFieldRefused
  <2> QED
    BY <2>3 DEF t, g
<1>2. \A s \in Str : OtherRefuses("PullRsp", BytesField(<<18>>, s))
  <2> DEFINE t == "PullRsp"
             g == 18
  <2>1. t \in MessageTypes \ {"TestPb"} /\ t # "PushReq" /\ g \in Nat /\ g # 0 /\ g < 128
    BY DEF MessageTypes
  <2>2. \A m \in Msgs(t), buf \in Str, q \in Pos :
          Overrun(buf, ReadString(buf, q)) /\ Overrun(buf, ReadPacked(buf, q)) =>
            \E v, x : InternalParse(t, m, <<g>>, buf, q) = Parsed(v, x) /\ Overrun(buf, v)
    <3> SUFFICES ASSUME NEW m, NEW buf \in Str, NEW q \in Pos, Overrun(buf, ReadString(buf, q))
                 PROVE  \E v, x : InternalParse("PullRsp", m, <<18>>, buf, q) = Parsed(v, x) /\ Overrun(buf, v)
      OBVIOUS
    <3> DEFINE s == ReadString(buf, q)
    <3> DEFINE u == [s EXCEPT !.ok = @ /\ IsUtf8(s.val)]
    <3>1. InternalParse("PullRsp", m, <<18>>, buf, q) = PullRsp_InternalParse(m, <<18>>, buf, q)
      BY DEF InternalParse
    <3>2. PullRsp_InternalParse(m, <<18>>, buf, q) = Parsed(u, PullRsp_set_errdesc(m, s.val))
      BY DEF PullRsp_InternalParse
    <3>3. Overrun(buf, u)
      <4> DEFINE b == IsUtf8(s.val)
      <4>1. b \in BOOLEAN
        BY DEF IsUtf8
      <4>2. s \in Reads(Str)
        BY ReadStringType
      <4> HIDE DEF b, s
      <4>3. Overrun(buf, [s EXCEPT !.ok = @ /\ b])
        BY <4>1, <4>2, TextOverruns DEF s
      <4> QED
        BY <4>3 DEF b
    <3> HIDE DEF u
    <3> QED
      BY <3>1, <3>2, <3>3
  <2> HIDE DEF t, g
  <2>3. \A s \in Str : OtherRefuses(t, BytesField(<<g>>, s))
    BY <2>1, <2>2, SizedFieldRefused
  <2> QED
    BY <2>3 DEF t, g
<1>3. \A s \in Str : OtherRefuses("PullRsp", WriteBytes(<<26>>, s))
  <2> DEFINE t == "PullRsp"
             g == 26
  <2>1. t \in MessageTypes \ {"TestPb"} /\ t # "PushReq" /\ g \in Nat /\ g # 0 /\ g < 128
    BY DEF MessageTypes
  <2>2. \A m \in Msgs(t), buf \in Str, q \in Pos :
          Overrun(buf, ReadString(buf, q)) /\ Overrun(buf, ReadPacked(buf, q)) =>
            \E v, x : InternalParse(t, m, <<g>>, buf, q) = Parsed(v, x) /\ Overrun(buf, v)
    <3> SUFFICES ASSUME NEW m, NEW buf \in Str, NEW q \in Pos, Overrun(buf, ReadString(buf, q))
                 PROVE  \E v, x : InternalParse("PullRsp", m, <<26>>, buf, q) = Parsed(v, x) /\ Overrun(buf, v)
      OBVIOUS
    <3> DEFINE s == ReadString(buf, q)
    <3>1. InternalParse("PullRsp", m, <<26>>, buf, q) = PullRsp_InternalParse(m, <<26>>, buf, q)
      BY DEF InternalParse
    <3>2. PullRsp_InternalParse(m, <<26>>, buf, q) = Parsed(s, PullRsp_add_data(m, s.val))
      BY DEF PullRsp_InternalParse
    <3>3. Overrun(buf, s)
      OBVIOUS
    <3> HIDE DEF s
    <3> QED
      BY <3>1, <3>2, <3>3
  <2> HIDE DEF t, g
  <2>3. \A s \in Str : OtherRefuses(t, WriteBytes(<<g>>, s))
    BY <2>1, <2>2, SizedFieldRefused
  <2> QED
    BY <2>3 DEF t, g
<1> QED
  BY <1>1, <1>2, <1>3

\* The field of a DelCacheReq.
LEMMA DelCacheReqRefuses ==
  /\ \A d \in Digits64 : OtherRefuses("DelCacheReq", VarintField(<<8>>, d))
<1>1. \A d \in Digits64 : OtherRefuses("DelCacheReq", VarintField(<<8>>, d))
  <2> DEFINE t == "DelCacheReq"
             g == 8
  <2>1. t \in MessageTypes \ {"TestPb"} /\ t # "PushReq" /\ g \in Nat /\ g # 0 /\ g < 128
    BY DEF MessageTypes
  <2>2. \A m \in Msgs(t), buf \in Str, q \in Pos :
          \E x : InternalParse(t, m, <<g>>, buf, q) = Parsed(ReadVarint(buf, q, 10), x)
    <3> SUFFICES ASSUME NEW m, NEW buf, NEW q
                 PROVE  \E x : InternalParse("DelCacheReq", m, <<8>>, buf, q) = Parsed(ReadVarint(buf, q, 10), x)
      OBVIOUS
    <3> DEFINE v == ReadVarint(buf, q, 10)
    <3>1. InternalParse("DelCacheReq", m, <<8>>, buf, q) = DelCacheReq_InternalParse(m, <<8>>, buf, q)
      BY DEF InternalParse
    <3>2. DelCacheReq_InternalParse(m, <<8>>, buf, q) = Parsed(v, [m EXCEPT !.key = v.val])
      BY DEF DelCacheReq_InternalParse
    <3> QED
      BY <3>1, <3>2
  <2> HIDE DEF t, g
  <2>3. \A d \in Digits64 : OtherRefuses(t, VarintField(<<g>>, d))
    BY <2>1, <2>2, VarintFieldRefused
  <2> QED
    BY <2>3 DEF t, g
<1> QED
  BY <1>1

\* The field of a DelCacheRsp.
LEMMA DelCacheRspRefuses ==
  /\ \A d \in Digits64 : OtherRefuses("DelCacheRsp", VarintField(<<8>>, d))
<1>1. \A d \in Digits64 : OtherRefuses("DelCacheRsp", VarintField(<<8>>, d))
  <2> DEFINE t == "DelCacheRsp"
             g == 8
  <2>1. t \in MessageTypes \ {"TestPb"} /\ t # "PushReq" /\ g \in Nat /\ g # 0 /\ g < 128
    BY DEF MessageTypes
  <2>2. \A m \in Msgs(t), buf \in Str, q \in Pos :
          \E x : InternalParse(t, m, <<g>>, buf, q) = Parsed(ReadVarint(buf, q, 10), x)
    <3> SUFFICES ASSUME NEW m, NEW buf, NEW q
                 PROVE  \E x : InternalParse("DelCacheRsp", m, <<8>>, buf, q) = Parsed(ReadVarint(buf, q, 10), x)
      OBVIOUS
    <3> DEFINE v == ReadVarint(buf, q, 10)
    <3>1. InternalParse("DelCacheRsp", m, <<8>>, buf, q) = DelCacheRsp_InternalParse(m, <<8>>, buf, q)
      BY DEF InternalParse
    <3>2. DelCacheRsp_InternalParse(m, <<8>>, buf, q) = Parsed(v, DelCacheRsp_set_succ(m, v.val))
      BY DEF DelCacheRsp_InternalParse
    <3> QED
      BY <3>1, <3>2
  <2> HIDE DEF t, g
  <2>3. \A d \in Digits64 : OtherRefuses(t, VarintField(<<g>>, d))
    BY <2>1, <2>2, VarintFieldRefused
  <2> QED
    BY <2>3 DEF t, g
<1> QED
  BY <1>1

\* The field of a HelloRequest.
LEMMA HelloRequestRefuses ==
  /\ \A s \in Str : OtherRefuses("HelloRequest", BytesField(<<10>>, s))
<1>1. \A s \in Str : OtherRefuses("HelloRequest", BytesField(<<10>>, s))
  <2> DEFINE t == "HelloRequest"
             g == 10
  <2>1. t \in MessageTypes \ {"TestPb"} /\ t # "PushReq" /\ g \in Nat /\ g # 0 /\ g < 128
    BY DEF MessageTypes
  <2>2. \A m \in Msgs(t), buf \in Str, q \in Pos :
          Overrun(buf, ReadString(buf, q)) /\ Overrun(buf, ReadPacked(buf, q)) =>
            \E v, x : InternalParse(t, m, <<g>>, buf, q) = Parsed(v, x) /\ Overrun(buf, v)
    <3> SUFFICES ASSUME NEW m, NEW buf \in Str, NEW q \in Pos, Overrun(buf, ReadString(buf, q))
                 PROVE  \E v, x : InternalParse("HelloRequest", m, <<10>>, buf, q) = Parsed(v, x) /\ Overrun(buf, v)
      OBVIOUS
    <3> DEFINE s == ReadString(buf, q)
    <3> DEFINE u == [s EXCEPT !.ok = @ /\ IsUtf8(s.val)]
    <3>1. InternalParse("HelloRequest", m, <<10>>, buf, q) = HelloRequest_InternalParse(m, <<10>>, buf, q)
      BY DEF InternalParse
    <3>2. HelloRequest_InternalParse(m, <<10>>, buf, q) = Parsed(u, HelloRequest_set_name(m, s.val))
      BY DEF HelloRequest_InternalParse
    <3>3. Overrun(buf, u)
      <4> DEFINE b == IsUtf8(s.val)
      <4>1. b \in BOOLEAN
        BY DEF IsUtf8
      <4>2. s \in Reads(Str)
        BY ReadStringType
      <4> HIDE DEF b, s
      <4>3. Overrun(buf, [s EXCEPT !.ok = @ /\ b])
        BY <4>1, <4>2, TextOverruns DEF s
      <4> QED
        BY <4>3 DEF b
    <3> HIDE DEF u
    <3> QED
      BY <3>1, <3>2, <3>3
  <2> HIDE DEF t, g
  <2>3. \A s \in Str : OtherRefuses(t, BytesField(<<g>>, s))
    BY <2>1, <2>2, SizedFieldRefused
  <2> QED
    BY <2>3 DEF t, g
<1> QED
  BY <1>1

\* The field of a HelloReply.
LEMMA HelloReplyRefuses ==
  /\ \A s \in Str : OtherRefuses("HelloReply", BytesField(<<10>>, s))
<1>1. \A s \in Str : OtherRefuses("HelloReply", BytesField(<<10>>, s))
  <2> DEFINE t == "HelloReply"
             g == 10
  <2>1. t \in MessageTypes \ {"TestPb"} /\ t # "PushReq" /\ g \in Nat /\ g # 0 /\ g < 128
    BY DEF MessageTypes
  <2>2. \A m \in Msgs(t), buf \in Str, q \in Pos :
          Overrun(buf, ReadString(buf, q)) /\ Overrun(buf, ReadPacked(buf, q)) =>
            \E v, x : InternalParse(t, m, <<g>>, buf, q) = Parsed(v, x) /\ Overrun(buf, v)
    <3> SUFFICES ASSUME NEW m, NEW buf \in Str, NEW q \in Pos, Overrun(buf, ReadString(buf, q))
                 PROVE  \E v, x : InternalParse("HelloReply", m, <<10>>, buf, q) = Parsed(v, x) /\ Overrun(buf, v)
      OBVIOUS
    <3> DEFINE s == ReadString(buf, q)
    <3> DEFINE u == [s EXCEPT !.ok = @ /\ IsUtf8(s.val)]
    <3>1. InternalParse("HelloReply", m, <<10>>, buf, q) = HelloReply_InternalParse(m, <<10>>, buf, q)
      BY DEF InternalParse
    <3>2. HelloReply_InternalParse(m, <<10>>, buf, q) = Parsed(u, HelloReply_set_message(m, s.val))
      BY DEF HelloReply_InternalParse
    <3>3. Overrun(buf, u)
      <4> DEFINE b == IsUtf8(s.val)
      <4>1. b \in BOOLEAN
        BY DEF IsUtf8
      <4>2. s \in Reads(Str)
        BY ReadStringType
      <4> HIDE DEF b, s
      <4>3. Overrun(buf, [s EXCEPT !.ok = @ /\ b])
        BY <4>1, <4>2, TextOverruns DEF s
      <4> QED
        BY <4>3 DEF b
    <3> HIDE DEF u
    <3> QED
      BY <3>1, <3>2, <3>3
  <2> HIDE DEF t, g
  <2>3. \A s \in Str : OtherRefuses(t, BytesField(<<g>>, s))
    BY <2>1, <2>2, SizedFieldRefused
  <2> QED
    BY <2>3 DEF t, g
<1> QED
  BY <1>1

-----------------------------------------------------------------------------
(* The same for a TestPb, which stops at the end of the input.              *)

\* What a CodedInputStream cannot read in full.
LEMMA CodedOverrun ==
  ASSUME NEW buf \in Str, NEW p \in Pos, NEW d \in Digits64, Cut(buf, p, WriteVarint(d))
  PROVE  Coded(buf, ReadVarint(buf, p, 10)).ok = FALSE
<1> DEFINE v == ReadVarint(buf, p, 10)
<1>1. v \in Reads(Str)
  BY ReadVarintType
<1>2. Overrun(buf, v)
  <2>1. 10 \in Nat
    OBVIOUS
  <2> QED
    BY <2>1, CutVarint
<1> HIDE DEF v
<1>3. Coded(buf, v).ok = (v.ok /\ v.pos <= Len(buf) + 1)
  BY <1>1 DEF Coded, Reads
<1>4. v.pos \in Nat /\ Len(buf) \in Nat
  BY <1>1, ReadsHave, LenProperties DEF Pos, Str
<1>5. ~(v.ok /\ v.pos <= Len(buf) + 1)
  BY <1>2, <1>4 DEF Overrun
<1> QED
  BY <1>3, <1>5 DEF v

\* A string that is cut.
LEMMA TextCut ==
  ASSUME NEW buf \in Str, NEW q \in Pos, NEW s \in Str, Len(s) < SizeLimit, NEW old,
         Cut(buf, q, WriteVarint(Digits(Len(s))) \o s)
  PROVE  ReadText(old, buf, q).ok = FALSE
<1> DEFINE l == Len(s)
           d == Digits(l)
           n == Coded(buf, ReadVarint(buf, q, 10))
           size == UInt32(n.val)
           negative == Len(size) = 5 /\ size[5] >= 8
           end == n.pos + Number(size)
           part == SubSeq(buf, n.pos, IF end <= Len(buf) THEN end - 1 ELSE Len(buf))
           c == CodedString(old, buf, q)
           k == SizeBytes(l)
<1>1. l \in Nat /\ l < SizeLimit /\ Len(buf) \in Nat /\ q \in Nat
  BY LenProperties DEF Str, Pos
<1>2. /\ d \in Digits64 /\ WriteVarint(d) \in Str /\ Len(WriteVarint(d)) = k /\ VarintSize(d) = k /\ k \in Nat
      /\ Number(d) = l /\ UInt32(d) = d
  <2> HIDE DEF l
  <2>1. /\ d \in Digits64 /\ WriteVarint(d) \in Str /\ Len(WriteVarint(d)) = k /\ VarintSize(d) = k /\ k \in Nat
        /\ Number(d) = l /\ Len(d) <= 3
    BY <1>1, SizeDigits DEF SizeBytes
  <2>2. d \in Digits32
    <3> HIDE DEF d
    <3>1. Len(d) \in Nat
      BY <2>1, LenProperties DEF Digits64, Str
    <3> QED
      BY <2>1, <3>1 DEF Digits32
  <2> QED
    BY <2>1, <2>2, ValuesAre
<1>3. c = IF ~n.ok \/ negative THEN Read(FALSE, old, q) ELSE Read(end <= Len(buf) + 1, part, end)
  BY DEF CodedString
<1>4. Cut(buf, q, WriteVarint(d) \o s)
  BY DEF d
<1> DEFINE rt == ReadText(old, buf, q)
<1>10. rt = [c EXCEPT !.ok = c.ok /\ IsUtf8(c.val)]
  BY DEF ReadText
<1> HIDE DEF d, n, negative, c, part, end, rt, k
<1>11. ASSUME NEW x, NEW e, c = Read(FALSE, x, e) PROVE rt.ok = FALSE
  <2> DEFINE b == c.ok /\ IsUtf8(c.val)
  <2>1. c.ok = FALSE
    BY <1>11 DEF Read
  <2>2. b = FALSE
    BY <2>1
  <2>3. rt = [c EXCEPT !.ok = b]
    BY <1>10
  <2> HIDE DEF b
  <2>4. rt = [Read(FALSE, x, e) EXCEPT !.ok = FALSE]
    BY <1>11, <2>2, <2>3
  <2> QED
    BY <2>4 DEF Read
<1>5. CASE Cut(buf, q, WriteVarint(d))
  <2>1. n.ok = FALSE
    BY <1>2, <1>5, CodedOverrun DEF n
  <2>2. c = Read(FALSE, old, q)
    BY <1>3, <2>1
  <2>3. rt.ok = FALSE
    BY <1>11, <2>2
  <2> QED
    BY <2>3 DEF rt
<1>6. CASE At(buf, q, WriteVarint(d)) /\ Cut(buf, q + Len(WriteVarint(d)), s)
  <2>1. n = Read(TRUE, d, q + k)
    BY <1>2, <1>6, CodedVarintAt DEF n
  <2>2. n.val = d /\ n.pos = q + k
    BY <2>1 DEF Read
  <2>3. end = (q + k) + l
    BY <1>2, <2>2 DEF end
  <2>4. Len(buf) + 1 < (q + k) + l
    BY <1>2, <1>6 DEF Cut
  <2>5. (end <= Len(buf) + 1) = FALSE
    <3> HIDE DEF l
    <3> QED
      BY <1>1, <2>3, <2>4
  <2>6. c = Read(FALSE, old, q) \/ c = Read(FALSE, part, end)
    BY <1>3, <2>5
  <2>7. rt.ok = FALSE
    BY <1>11, <2>6
  <2> QED
    BY <2>7 DEF rt
<1> QED
  BY <1>2, <1>4, <1>5, <1>6, CutConcat

\* The tags of its fields, and a value that cannot be read.
TestPbTag == {<<10>>, <<16>>, TableNameTag}
Unreadable(buf, m, d, q) ==
  /\ d = <<10>> => ReadText(m.sence, buf, q).ok = FALSE
  /\ d = <<16>> => Coded(buf, ReadVarint(buf, q, 10)).ok = FALSE
  /\ d = TableNameTag => ReadText(m.tablename, buf, q).ok = FALSE

\* The parse is over and refused.
TestPbSpoilt(z) == z.done /\ ~(z.ok /\ z.atEnd)

\* A round that meets a field that is cut.
LEMMA TestPbCutRound ==
  ASSUME NEW buf \in Str, NEW p \in Pos, p <= Len(buf), NEW m, NEW d \in TestPbTag, NEW rest \in Str,
         Cut(buf, p, WriteVarint(d) \o rest),
         \A q \in Pos : Cut(buf, q, rest) => Unreadable(buf, m, d, q)
  PROVE  TestPbSpoilt(TestPb_Round(TestPbGoing(m, p), buf))
<1> DEFINE r == TestPbGoing(m, p)
           t == Coded(buf, ReadVarint(buf, r.pos, 10))
           tag == IF t.ok THEN UInt32(t.val) ELSE <<>>
           Go(x, next)  == [ok |-> x.ok, done |-> ~x.ok, atEnd |-> FALSE, m |-> next, pos |-> x.pos]
           s == ReadText(r.m.sence, buf, t.pos)
           w == Coded(buf, ReadVarint(buf, t.pos, 10))
           n == ReadText(r.m.tablename, buf, t.pos)
           u == IF WireType(tag) = 4 THEN Read(FALSE, <<>>, t.pos)
                ELSE Coded(buf, ReadUnknown(tag, buf, t.pos))
           gs == Go(s, [r.m EXCEPT !.sence = s.val])
           gw == Go(w, IF w.ok THEN [r.m EXCEPT !.page = Int32(w.val)] ELSE r.m)
           gn == Go(n, [r.m EXCEPT !.tablename = n.val])
           gu == Go(u, IF u.ok THEN [r.m EXCEPT !.unk = @ \o u.val] ELSE r.m)
           past == r.pos > Len(buf)
           z == [r EXCEPT !.done = TRUE, !.atEnd = past]
           y == TestPb_Round(r, buf)
<1>1. y =
        CASE r.done -> r
          [] ~r.done /\ tag = <<>> -> z
          [] ~r.done /\ tag = <<10>> -> gs
          [] ~r.done /\ tag = <<16>> -> gw
          [] ~r.done /\ tag = TableNameTag -> gn
          [] OTHER -> gu
  BY DEF TestPb_Round, TestPb_set_sence, TestPb_set_page, TestPb_set_tablename
<1>2. r.done = FALSE /\ r.pos = p /\ r.m = m
  BY DEF TestPbGoing
<1>3. d \in Digits32 /\ d # <<>>
  BY TestPbTags DEF TestPbTag
<1>4. d \in Digits64 /\ UInt32(d) = d /\ WriteVarint(d) \in Str
  <2>1. d \in Digits64 /\ UInt32(d) = d
    BY <1>3, ValuesAre
  <2> QED
    BY <2>1, VarintBytes
<1>5. Cut(buf, p, WriteVarint(d)) \/ (At(buf, p, WriteVarint(d)) /\ Cut(buf, p + Len(WriteVarint(d)), rest) /\ p + Len(WriteVarint(d)) \in Pos)
  BY <1>4, CutConcat
<1>6. past = FALSE
  BY <1>2, LenProperties DEF Pos, Str
<1>7. z.done = TRUE /\ z.atEnd = past
  BY DEF TestPbGoing
<1>8. ASSUME NEW a, a.ok = FALSE, NEW x PROVE TestPbSpoilt(Go(a, x))
  <2> DEFINE b == Go(a, x)
  <2>1. b.ok = FALSE /\ b.done = ~a.ok
    BY <1>8
  <2> HIDE DEF b
  <2>2. TestPbSpoilt(b)
    BY <1>8, <2>1 DEF TestPbSpoilt
  <2> QED
    BY <2>2 DEF b
<1>9. CASE Cut(buf, p, WriteVarint(d))
  <2>1. t.ok = FALSE
    BY <1>2, <1>4, <1>9, CodedOverrun
  <2> HIDE DEF t, r
  <2>2. tag = <<>>
    BY <2>1
  <2>3. <<>> # <<10>> /\ <<>> # <<16>> /\ <<>> # TableNameTag
    BY DEF TableNameTag
  <2> HIDE DEF tag, z, gs, gw, gn, gu, y
  <2>4. y = z
    BY <1>1, <1>2, <2>2, <2>3
  <2>5. TestPbSpoilt(y)
    BY <1>6, <1>7, <2>4 DEF TestPbSpoilt
  <2> QED
    BY <2>5 DEF y, r
<1>10. CASE At(buf, p, WriteVarint(d)) /\ Cut(buf, p + Len(WriteVarint(d)), rest) /\ p + Len(WriteVarint(d)) \in Pos
  <2> DEFINE q == p + Len(WriteVarint(d))
  <2>1. Unreadable(buf, m, d, q)
    BY <1>10
  <2>2. Len(WriteVarint(d)) = VarintSize(d)
    BY <1>4, VarintBytes
  <2>10. At(buf, p, WriteVarint(d))
    BY <1>10
  <2>11. Coded(buf, ReadVarint(buf, p, 10)) = Read(TRUE, d, p + VarintSize(d))
    BY <1>4, <2>10, CodedVarintAt
  <2>12. t = Coded(buf, ReadVarint(buf, p, 10))
    <3> HIDE DEF r
    <3> QED
      BY <1>2
  <2>3. t = Read(TRUE, d, q)
    <3> HIDE DEF t
    <3> QED
      BY <2>2, <2>11, <2>12
  <2> HIDE DEF t, r, q
  <2>4. t.ok = TRUE /\ t.val = d /\ t.pos = q
    BY <2>3 DEF Read
  <2>5. tag = d
    BY <1>4, <2>4
  <2>6. s = ReadText(m.sence, buf, q) /\ w = Coded(buf, ReadVarint(buf, q, 10)) /\ n = ReadText(m.tablename, buf, q)
    BY <1>2, <2>4
  <2> HIDE DEF s, w, n, Go
  <2>7. (d = <<10>> => TestPbSpoilt(gs)) /\ (d = <<16>> => TestPbSpoilt(gw)) /\ (d = TableNameTag => TestPbSpoilt(gn))
    BY <1>8, <2>1, <2>6 DEF Unreadable
  <2> HIDE DEF tag, z, gs, gw, gn, gu, y
  <2>8. (d = <<10>> => y = gs) /\ (d = <<16>> => y = gw) /\ (d = TableNameTag => y = gn)
    <3>1. <<10>> # <<16>> /\ <<10>> # TableNameTag /\ <<16>> # TableNameTag
      BY DEF TableNameTag
    <3> QED
      BY <1>1, <1>2, <1>3, <2>5, <3>1
  <2>9. TestPbSpoilt(y)
    BY <2>7, <2>8 DEF TestPbTag
  <2> QED
    BY <2>9 DEF y, r
<1> QED
  BY <1>5, <1>9, <1>10

\* The bytes s of a TestPb, when they are cut after their first byte or later.
TestPbRefuses(s) ==
  Len(s) <= SizeLimit =>
    \A f, buf, p : \A m \in TestPbMsgs :
      /\ TestPbLoop(f, buf) /\ TestPbReaches(f, buf, m, p) /\ p <= Len(buf) /\ Cut(buf, p, s)
      => TestPbSpoilt(f[Len(buf) + 1])

\* The loop ends there.
LEMMA TestPbRefused ==
  ASSUME NEW d \in TestPbTag, NEW rest \in Str,
         Len(WriteVarint(d) \o rest) <= SizeLimit =>
           \A buf \in Str, q \in Pos, m \in TestPbMsgs : Cut(buf, q, rest) => Unreadable(buf, m, d, q)
  PROVE  TestPbRefuses(WriteVarint(d) \o rest)
<1> DEFINE s == WriteVarint(d) \o rest
<1> SUFFICES ASSUME Len(s) <= SizeLimit, NEW f, NEW buf, NEW p, NEW m \in TestPbMsgs, TestPbLoop(f, buf),
                    TestPbReaches(f, buf, m, p), p <= Len(buf), Cut(buf, p, s)
             PROVE  TestPbSpoilt(f[Len(buf) + 1])
  BY DEF TestPbRefuses
<1> DEFINE n == Len(buf)
           r == TestPb_Round(TestPbGoing(m, p), buf)
<1>1. n \in Nat /\ p \in Pos /\ buf \in Str
  BY LenProperties DEF TestPbLoop, TestPbReaches, Str
<1>2. PICK k \in 0 .. n : f[k] = TestPbGoing(m, p)
  BY DEF TestPbReaches
<1>3. \A j \in 1 .. n + 1 : f[j] = TestPb_Round(f[j - 1], buf)
  BY DEF TestPbLoop
<1>4. k + 1 \in 1 .. n + 1 /\ (k + 1) - 1 = k /\ k + 1 \in 0 .. Len(buf) + 1
  BY <1>1
<1>5. \A q \in Pos : Cut(buf, q, rest) => Unreadable(buf, m, d, q)
  BY <1>1
<1>6. TestPbSpoilt(r)
  BY <1>1, <1>5, TestPbCutRound
<1>7. f[k + 1] = r
  BY <1>2, <1>3, <1>4
<1> HIDE DEF r
<1>8. r.done
  BY <1>6 DEF TestPbSpoilt
<1>9. f[Len(buf) + 1] = r
  BY <1>4, <1>7, <1>8, TestPbLoopEnds
<1> QED
  BY <1>6, <1>9

\* Nothing cannot be cut.
LEMMA TestPbNothingRefused == TestPbRefuses(<<>>)
<1> SUFFICES ASSUME NEW f, NEW buf, NEW p, TestPbLoop(f, buf), NEW m, TestPbReaches(f, buf, m, p),
                    p <= Len(buf), Cut(buf, p, <<>>)
             PROVE  FALSE
  BY DEF TestPbRefuses
<1>1. p \in Nat /\ Len(buf) \in Nat /\ Len(<<>>) = 0
  BY LenProperties DEF TestPbReaches, Pos, TestPbLoop, Str
<1> QED
  BY <1>1 DEF Cut

\* Its fields.
LEMMA TestPbFieldsRefused ==
  /\ \A s \in Str : TestPbRefuses(BytesField(<<10>>, s)) /\ TestPbRefuses(BytesField(TableNameTag, s))
  /\ \A d \in Digits64 : TestPbRefuses(VarintField(<<16>>, d))
<1> DEFINE A == <<10>>
           B == <<16>>
           C == TableNameTag
<1>0. A \in TestPbTag /\ B \in TestPbTag /\ C \in TestPbTag /\ A # B /\ A # C /\ B # C
  BY DEF TestPbTag, TableNameTag
<1>1. A \in Str /\ B \in Str /\ C \in Str /\ WriteVarint(A) \in Str /\ WriteVarint(B) \in Str /\ WriteVarint(C) \in Str
  <2>1. A \in Str /\ B \in Str /\ C \in Str
    BY TagsAre
  <2> HIDE DEF A, B, C
  <2> QED
    BY <2>1, WriteVarintSize
<1>2. \A buf, m, d, q : /\ d = A => ReadText(m.sence, buf, q).ok = FALSE
                        /\ d = B => Coded(buf, ReadVarint(buf, q, 10)).ok = FALSE
                        /\ d = C => ReadText(m.tablename, buf, q).ok = FALSE
                        => Unreadable(buf, m, d, q)
  BY DEF Unreadable
<1> HIDE DEF A, B, C
<1>3. ASSUME NEW s \in Str, NEW g \in {A, C} PROVE TestPbRefuses(BytesField(g, s))
  <2> DEFINE z == WriteVarint(Digits(Len(s)))
             h == WriteVarint(g)
  <2>1. g \in TestPbTag /\ h \in Str /\ g # B
    BY <1>0, <1>1
  <2>2. z \in Str /\ Len(z) >= 1
    <3> DEFINE d == Digits(Len(s))
    <3>1. Len(s) \in Nat
      BY LenProperties DEF Str
    <3>2. d \in Str
      BY <3>1, DigitsType
    <3> HIDE DEF d
    <3>3. WriteVarint(d) \in Str /\ Len(WriteVarint(d)) >= 1
      BY <3>2, WriteVarintSize
    <3> QED
      BY <3>3 DEF d
  <2>3. WriteBytes(g, s) = (h \o z) \o s
    BY DEF WriteBytes
  <2> HIDE DEF h, z
  <2>4. (h \o z) \o s = h \o (z \o s)
    <3> DEFINE S == Nat
    <3>1. h \in Seq(S) /\ z \in Seq(S) /\ s \in Seq(S)
      BY <2>1, <2>2 DEF Str
    <3> HIDE DEF S
    <3> QED
      BY <3>1, StrAssoc
  <2>5. z \o s \in Str /\ Len(z \o s) = Len(z) + Len(s) /\ Len(z) \in Nat /\ Len(s) \in Nat
    BY <2>2, StrConcat
  <2>6. Len(h \o (z \o s)) = Len(h) + Len(z \o s) /\ Len(h) \in Nat
    BY <2>1, <2>5, StrConcat
  <2>7. Len(h \o (z \o s)) <= SizeLimit => Len(s) < SizeLimit
    <3> DEFINE i == Len(z)
               j == Len(s)
               k == Len(h)
    <3>1. i \in Nat /\ j \in Nat /\ k \in Nat /\ i >= 1 /\ Len(h \o (z \o s)) = k + (i + j)
      BY <2>2, <2>5, <2>6
    <3> HIDE DEF i, j, k
    <3>2. k + (i + j) <= SizeLimit => j < SizeLimit
      BY <3>1 DEF SizeLimit
    <3> QED
      BY <3>1, <3>2 DEF j
  <2>8. ASSUME Len(s) < SizeLimit, NEW buf \in Str, NEW q \in Pos, NEW m \in TestPbMsgs, Cut(buf, q, z \o s)
        PROVE  Unreadable(buf, m, g, q)
    <3>1. \A old : ReadText(old, buf, q).ok = FALSE
      BY <2>8, TextCut DEF z
    <3> QED
      BY <1>2, <2>1, <3>1
  <2>9. TestPbRefuses(h \o (z \o s))
    <3> DEFINE rest == z \o s
    <3>1. Len(h \o rest) <= SizeLimit =>
            \A buf \in Str, q \in Pos, m \in TestPbMsgs : Cut(buf, q, rest) => Unreadable(buf, m, g, q)
      BY <2>7, <2>8
    <3>2. rest \in Str
      BY <2>5
    <3> HIDE DEF rest
    <3>3. TestPbRefuses(h \o rest)
      BY <2>1, <3>1, <3>2, TestPbRefused DEF h
    <3> QED
      BY <3>3 DEF rest
  <2> QED
    BY <2>3, <2>4, <2>9, TestPbNothingRefused DEF BytesField
<1>4. ASSUME NEW d \in Digits64 PROVE TestPbRefuses(VarintField(B, d))
  <2> DEFINE rest == WriteVarint(d)
  <2>1. rest \in Str
    BY VarintBytes
  <2>2. ASSUME NEW buf \in Str, NEW q \in Pos, NEW m \in TestPbMsgs, Cut(buf, q, rest)
        PROVE  Unreadable(buf, m, B, q)
    <3>1. Coded(buf, ReadVarint(buf, q, 10)).ok = FALSE
      BY <2>2, CodedOverrun
    <3> QED
      BY <1>0, <1>2, <3>1
  <2> HIDE DEF rest
  <2>3. TestPbRefuses(WriteVarint(B) \o rest)
    BY <1>0, <2>1, <2>2, TestPbRefused
  <2> QED
    BY <2>3, TestPbNothingRefused DEF VarintField, rest
<1> QED
  BY <1>3, <1>4 DEF A, B, C

-----------------------------------------------------------------------------
(* Merging messages that were built with the accessors.                     *)

\* Fields without presence: the last value that is not the default,
LEMMA NewerAre ==
  /\ \A a, b, c : Newer(Newer(a, b), c) = Newer(a, Newer(b, c))
  /\ \A a : Newer(a, <<>>) = a /\ Newer(<<>>, a) = a
  /\ \A S : \A a \in S, b \in S : Newer(a, b) \in S
BY DEF Newer

\* and repeated fields: one after the other.
LEMMA JoinedAre ==
  /\ \A S : \A a \in Seq(S), b \in Seq(S) : a \o b \in Seq(S)
  /\ \A S : \A a \in Seq(S), b \in Seq(S), c \in Seq(S) : (a \o b) \o c = a \o (b \o c)
  /\ \A S : \A a \in Seq(S) : a \o <<>> = a /\ <<>> \o a = a
  /\ <<>> \o <<>> = <<>>
<1>1. \A S : \A a \in Seq(S), b \in Seq(S) : a \o b \in Seq(S)
  BY ConcatProperties
<1>2. \A S : \A a \in Seq(S), b \in Seq(S), c \in Seq(S) : (a \o b) \o c = a \o (b \o c)
  BY ConcatAssociative
<1>3. \A S : \A a \in Seq(S) : a \o <<>> = a /\ <<>> \o a = a
  BY ConcatEmptySeq
<1>4. <<>> \o <<>> = <<>>
  <2>1. <<>> \in Seq(Nat)
    BY EmptySeq
  <2> QED
    BY <1>3, <2>1
<1> QED
  BY <1>1, <1>2, <1>3, <1>4

\* Two messages of type oneInfo merge to another, it does not matter which are merged
\* first, and a new one adds nothing.
LEMMA oneInfoSums ==
  ASSUME NEW x \in oneInfoPlain, NEW y \in oneInfoPlain, NEW z \in oneInfoPlain
  PROVE  /\ oneInfo_MergeFrom(x, y) \in oneInfoPlain
         /\ oneInfo_MergeFrom(oneInfo_MergeFrom(x, y), z) = oneInfo_MergeFrom(x, oneInfo_MergeFrom(y, z))
         /\ oneInfo_MergeFrom(oneInfo_New, x) = x /\ oneInfo_MergeFrom(x, oneInfo_New) = x
<1> DEFINE M(a, b) == oneInfo_MergeFrom(a, b)
           P == oneInfoPlain
           v == oneInfo_New
<1>1. \A m \in P : m.key \in Digits64 /\ m.data \in Str /\ m.unk = <<>>
  BY DEF oneInfoPlain
<1>2. \A m \in P : m = [key |-> m.key, data |-> m.data, unk |-> <<>>]
  BY DEF oneInfoPlain
<1>3. \A a, b : a.unk = <<>> /\ b.unk = <<>> =>
        M(a, b) = [key |-> Newer(a.key, b.key), data |-> Newer(a.data, b.data), unk |-> <<>>]
  BY JoinedAre DEF oneInfo_MergeFrom
<1> DEFINE E(a, b) == [key |-> Newer(a.key, b.key), data |-> Newer(a.data, b.data), unk |-> <<>>]
<1>4. ASSUME NEW a \in P, NEW b \in P PROVE M(a, b) = E(a, b) /\ M(a, b) \in P
  <2>1. (Newer(a.key, b.key)) \in Digits64 /\ (Newer(a.data, b.data)) \in Str
    BY <1>1, NewerAre, JoinedAre
  <2>2. M(a, b) = E(a, b)
    BY <1>1, <1>3
  <2>3. E(a, b) \in P
    BY <2>1 DEF oneInfoPlain
  <2> QED
    BY <2>2, <2>3
<1>5. v \in P /\ v.key = <<>> /\ v.data = <<>>
  <2>1. v \in P
    BY NewIsPlain, PlainAre DEF New, MessageTypes
  <2> QED
    BY <2>1 DEF oneInfo_New
<1> HIDE DEF P, v, M
<1> DEFINE m == M(x, y)
           n == M(y, z)
<1>6. x \in P /\ y \in P /\ z \in P
  BY DEF P
<1>7. m \in P /\ n \in P /\ m = E(x, y) /\ n = E(y, z)
  BY <1>4, <1>6
<1>8. m.key = Newer(x.key, y.key) /\ n.key = Newer(y.key, z.key) /\ m.data = Newer(x.data, y.data) /\ n.data = Newer(y.data, z.data)
  <2> HIDE DEF m, n
  <2> QED
    BY <1>7
<1> HIDE DEF m, n
<1>9. M(m, z) = E(m, z) /\ M(x, n) = E(x, n) /\ M(v, x) = E(v, x) /\ M(x, v) = E(x, v)
  BY <1>4, <1>5, <1>6, <1>7
<1>10. (Newer(m.key, z.key)) = (Newer(x.key, n.key)) /\ (Newer(m.data, z.data)) = (Newer(x.data, n.data))
  BY <1>8, NewerAre
<1>11. E(v, x) = [key |-> x.key, data |-> x.data, unk |-> <<>>] /\ E(x, v) = [key |-> x.key, data |-> x.data, unk |-> <<>>]
  BY <1>1, <1>5, <1>6, NewerAre, JoinedAre
<1>12. E(m, z) = E(x, n)
  BY <1>10
<1> HIDE DEF E
<1>13. M(v, x) = x /\ M(x, v) = x /\ M(m, z) = M(x, n)
  BY <1>2, <1>6, <1>9, <1>11, <1>12
<1> QED
  BY <1>7, <1>13 DEF m, n, M, P, v

\* Two messages of type PushReq merge to another, it does not matter which are merged
\* first, and a new one adds nothing.
LEMMA PushReqSums ==
  ASSUME NEW x \in PushReqPlain, NEW y \in PushReqPlain, NEW z \in PushReqPlain
  PROVE  /\ PushReq_MergeFrom(x, y) \in PushReqPlain
         /\ PushReq_MergeFrom(PushReq_MergeFrom(x, y), z) = PushReq_MergeFrom(x, PushReq_MergeFrom(y, z))
         /\ PushReq_MergeFrom(PushReq_New, x) = x /\ PushReq_MergeFrom(x, PushReq_New) = x
<1> DEFINE M(a, b) == PushReq_MergeFrom(a, b)
           P == PushReqPlain
           v == PushReq_New
<1>1. \A m \in P : m.infos \in Seq(oneInfoPlain) /\ m.unk = <<>>
  BY DEF PushReqPlain
<1>2. \A m \in P : m = [infos |-> m.infos, unk |-> <<>>]
  BY DEF PushReqPlain
<1>3. \A a, b : a.unk = <<>> /\ b.unk = <<>> =>
        M(a, b) = [infos |-> a.infos \o b.infos, unk |-> <<>>]
  BY JoinedAre DEF PushReq_MergeFrom
<1> DEFINE E(a, b) == [infos |-> a.infos \o b.infos, unk |-> <<>>]
<1>4. ASSUME NEW a \in P, NEW b \in P PROVE M(a, b) = E(a, b) /\ M(a, b) \in P
  <2>1. (a.infos \o b.infos) \in Seq(oneInfoPlain)
    BY <1>1, NewerAre, JoinedAre
  <2>2. M(a, b) = E(a, b)
    BY <1>1, <1>3
  <2>3. E(a, b) \in P
    BY <2>1 DEF PushReqPlain
  <2> QED
    BY <2>2, <2>3
<1>5. v \in P /\ v.infos = <<>>
  <2>1. v \in P
    BY NewIsPlain, PlainAre DEF New, MessageTypes
  <2> QED
    BY <2>1 DEF PushReq_New
<1> HIDE DEF P, v, M
<1> DEFINE m == M(x, y)
           n == M(y, z)
<1>6. x \in P /\ y \in P /\ z \in P
  BY DEF P
<1>7. m \in P /\ n \in P /\ m = E(x, y) /\ n = E(y, z)
  BY <1>4, <1>6
<1>8. m.infos = x.infos \o y.infos /\ n.infos = y.infos \o z.infos
  <2> HIDE DEF m, n
  <2> QED
    BY <1>7
<1> HIDE DEF m, n
<1>9. M(m, z) = E(m, z) /\ M(x, n) = E(x, n) /\ M(v, x) = E(v, x) /\ M(x, v) = E(x, v)
  BY <1>4, <1>5, <1>6, <1>7
<1>10. (m.infos \o z.infos) = (x.infos \o n.infos)
  <2>1. x.infos \in Seq(oneInfoPlain) /\ y.infos \in Seq(oneInfoPlain) /\ z.infos \in Seq(oneInfoPlain)
    BY <1>1, <1>6
  <2>2. (x.infos \o y.infos) \o z.infos = x.infos \o (y.infos \o z.infos)
    <3> DEFINE a == x.infos
               b == y.infos
               c == z.infos
               S == oneInfoPlain
    <3>1. a \in Seq(S) /\ b \in Seq(S) /\ c \in Seq(S)
      BY <2>1
    <3> HIDE DEF a, b, c, S
    <3>2. (a \o b) \o c = a \o (b \o c)
      BY <3>1, StrAssoc
    <3> QED
      BY <3>2 DEF a, b, c
  <2> QED
    BY <1>8, <2>2, NewerAre
<1>11. E(v, x) = [infos |-> x.infos, unk |-> <<>>] /\ E(x, v) = [infos |-> x.infos, unk |-> <<>>]
  BY <1>1, <1>5, <1>6, NewerAre, JoinedAre
<1>12. E(m, z) = E(x, n)
  BY <1>10
<1> HIDE DEF E
<1>13. M(v, x) = x /\ M(x, v) = x /\ M(m, z) = M(x, n)
  BY <1>2, <1>6, <1>9, <1>11, <1>12
<1> QED
  BY <1>7, <1>13 DEF m, n, M, P, v

\* Two messages of type PushRsp merge to another, it does not matter which are merged
\* first, and a new one adds nothing.
LEMMA PushRspSums ==
  ASSUME NEW x \in PushRspPlain, NEW y \in PushRspPlain, NEW z \in PushRspPlain
  PROVE  /\ PushRsp_MergeFrom(x, y) \in PushRspPlain
         /\ PushRsp_MergeFrom(PushRsp_MergeFrom(x, y), z) = PushRsp_MergeFrom(x, PushRsp_MergeFrom(y, z))
         /\ PushRsp_MergeFrom(PushRsp_New, x) = x /\ PushRsp_MergeFrom(x, PushRsp_New) = x
<1> DEFINE M(a, b) == PushRsp_MergeFrom(a, b)
           P == PushRspPlain
           v == PushRsp_New
<1>1. \A m \in P : m.errCode \in DigitsInt32 /\ m.errDesc \in Utf8 /\ m.unk = <<>>
  BY DEF PushRspPlain
<1>2. \A m \in P : m = [errCode |-> m.errCode, errDesc |-> m.errDesc, unk |-> <<>>]
  BY DEF PushRspPlain
<1>3. \A a, b : a.unk = <<>> /\ b.unk = <<>> =>
        M(a, b) = [errCode |-> Newer(a.errCode, b.errCode), errDesc |-> Newer(a.errDesc, b.errDesc), unk |-> <<>>]
  BY JoinedAre DEF PushRsp_MergeFrom
<1> DEFINE E(a, b) == [errCode |-> Newer(a.errCode, b.errCode), errDesc |-> Newer(a.errDesc, b.errDesc), unk |-> <<>>]
<1>4. ASSUME NEW a \in P, NEW b \in P PROVE M(a, b) = E(a, b) /\ M(a, b) \in P
  <2>1. (Newer(a.errCode, b.errCode)) \in DigitsInt32 /\ (Newer(a.errDesc, b.errDesc)) \in Utf8
    BY <1>1, NewerAre, JoinedAre
  <2>2. M(a, b) = E(a, b)
    BY <1>1, <1>3
  <2>3. E(a, b) \in P
    BY <2>1 DEF PushRspPlain
  <2> QED
    BY <2>2, <2>3
<1>5. v \in P /\ v.errCode = <<>> /\ v.errDesc = <<>>
  <2>1. v \in P
    BY NewIsPlain, PlainAre DEF New, MessageTypes
  <2> QED
    BY <2>1 DEF PushRsp_New
<1> HIDE DEF P, v, M
<1> DEFINE m == M(x, y)
           n == M(y, z)
<1>6. x \in P /\ y \in P /\ z \in P
  BY DEF P
<1>7. m \in P /\ n \in P /\ m = E(x, y) /\ n = E(y, z)
  BY <1>4, <1>6
<1>8. m.errCode = Newer(x.errCode, y.errCode) /\ n.errCode = Newer(y.errCode, z.errCode) /\ m.errDesc = Newer(x.errDesc, y.errDesc) /\ n.errDesc = Newer(y.errDesc, z.errDesc)
  <2> HIDE DEF m, n
  <2> QED
    BY <1>7
<1> HIDE DEF m, n
<1>9. M(m, z) = E(m, z) /\ M(x, n) = E(x, n) /\ M(v, x) = E(v, x) /\ M(x, v) = E(x, v)
  BY <1>4, <1>5, <1>6, <1>7
<1>10. (Newer(m.errCode, z.errCode)) = (Newer(x.errCode, n.errCode)) /\ (Newer(m.errDesc, z.errDesc)) = (Newer(x.errDesc, n.errDesc))
  BY <1>8, NewerAre
<1>11. E(v, x) = [errCode |-> x.errCode, errDesc |-> x.errDesc, unk |-> <<>>] /\ E(x, v) = [errCode |-> x.errCode, errDesc |-> x.errDesc, unk |-> <<>>]
  BY <1>1, <1>5, <1>6, NewerAre, JoinedAre
<1>12. E(m, z) = E(x, n)
  BY <1>10
<1> HIDE DEF E
<1>13. M(v, x) = x /\ M(x, v) = x /\ M(m, z) = M(x, n)
  BY <1>2, <1>6, <1>9, <1>11, <1>12
<1> QED
  BY <1>7, <1>13 DEF m, n, M, P, v

\* Two messages of type PullReq merge to another, it does not matter which are merged
\* first, and a new one adds nothing.
LEMMA PullReqSums ==
  ASSUME NEW x \in PullReqPlain, NEW y \in PullReqPlain, NEW z \in PullReqPlain
  PROVE  /\ PullReq_MergeFrom(x, y) \in PullReqPlain
         /\ PullReq_MergeFrom(PullReq_MergeFrom(x, y), z) = PullReq_MergeFrom(x, PullReq_MergeFrom(y, z))
         /\ PullReq_MergeFrom(PullReq_New, x) = x /\ PullReq_MergeFrom(x, PullReq_New) = x
<1> DEFINE M(a, b) == PullReq_MergeFrom(a, b)
           P == PullReqPlain
           v == PullReq_New
<1>1. \A m \in P : m.keys \in Seq(Digits64) /\ m.field \in Seq(Digits32) /\ m.unk = <<>>
  BY DEF PullReqPlain
<1>2. \A m \in P : m = [keys |-> m.keys, field |-> m.field, unk |-> <<>>]
  BY DEF PullReqPlain
<1>3. \A a, b : a.unk = <<>> /\ b.unk = <<>> =>
        M(a, b) = [keys |-> a.keys \o b.keys, field |-> a.field \o b.field, unk |-> <<>>]
  BY JoinedAre DEF PullReq_MergeFrom
<1> DEFINE E(a, b) == [keys |-> a.keys \o b.keys, field |-> a.field \o b.field, unk |-> <<>>]
<1>4. ASSUME NEW a \in P, NEW b \in P PROVE M(a, b) = E(a, b) /\ M(a, b) \in P
  <2>1. (a.keys \o b.keys) \in Seq(Digits64) /\ (a.field \o b.field) \in Seq(Digits32)
    BY <1>1, NewerAre, JoinedAre
  <2>2. M(a, b) = E(a, b)
    BY <1>1, <1>3
  <2>3. E(a, b) \in P
    BY <2>1 DEF PullReqPlain
  <2> QED
    BY <2>2, <2>3
<1>5. v \in P /\ v.keys = <<>> /\ v.field = <<>>
  <2>1. v \in P
    BY NewIsPlain, PlainAre DEF New, MessageTypes
  <2> QED
    BY <2>1 DEF PullReq_New
<1> HIDE DEF P, v, M
<1> DEFINE m == M(x, y)
           n == M(y, z)
<1>6. x \in P /\ y \in P /\ z \in P
  BY DEF P
<1>7. m \in P /\ n \in P /\ m = E(x, y) /\ n = E(y, z)
  BY <1>4, <1>6
<1>8. m.keys = x.keys \o y.keys /\ n.keys = y.keys \o z.keys /\ m.field = x.field \o y.field /\ n.field = y.field \o z.field
  <2> HIDE DEF m, n
  <2> QED
    BY <1>7
<1> HIDE DEF m, n
<1>9. M(m, z) = E(m, z) /\ M(x, n) = E(x, n) /\ M(v, x) = E(v, x) /\ M(x, v) = E(x, v)
  BY <1>4, <1>5, <1>6, <1>7
<1>10. (m.keys \o z.keys) = (x.keys \o n.keys) /\ (m.field \o z.field) = (x.field \o n.field)
  <2>1. x.keys \in Seq(Digits64) /\ y.keys \in Seq(Digits64) /\ z.keys \in Seq(Digits64)
    BY <1>1, <1>6
  <2>2. (x.keys \o y.keys) \o z.keys = x.keys \o (y.keys \o z.keys)
    <3> DEFINE a == x.keys
               b == y.keys
               c == z.keys
               S == Digits64
    <3>1. a \in Seq(S) /\ b \in Seq(S) /\ c \in Seq(S)
      BY <2>1
    <3> HIDE DEF a, b, c, S
    <3>2. (a \o b) \o c = a \o (b \o c)
      BY <3>1, StrAssoc
    <3> QED
      BY <3>2 DEF a, b, c
  <2>3. x.field \in Seq(Digits32) /\ y.field \in Seq(Digits32) /\ z.field \in Seq(Digits32)
    BY <1>1, <1>6
  <2>4. (x.field \o y.field) \o z.field = x.field \o (y.field \o z.field)
    <3> DEFINE a == x.field
               b == y.field
               c == z.field
               S == Digits32
    <3>1. a \in Seq(S) /\ b \in Seq(S) /\ c \in Seq(S)
      BY <2>3
    <3> HIDE DEF a, b, c, S
    <3>2. (a \o b) \o c = a \o (b \o c)
      BY <3>1, StrAssoc
    <3> QED
      BY <3>2 DEF a, b, c
  <2> QED
    BY <1>8, <2>2, <2>4, NewerAre
<1>11. E(v, x) = [keys |-> x.keys, field |-> x.field, unk |-> <<>>] /\ E(x, v) = [keys |-> x.keys, field |-> x.field, unk |-> <<>>]
  BY <1>1, <1>5, <1>6, NewerAre, JoinedAre
<1>12. E(m, z) = E(x, n)
  BY <1>10
<1> HIDE DEF E
<1>13. M(v, x) = x /\ M(x, v) = x /\ M(m, z) = M(x, n)
  BY <1>2, <1>6, <1>9, <1>11, <1>12
<1> QED
  BY <1>7, <1>13 DEF m, n, M, P, v

\* Two messages of type PullRsp merge to another, it does not matter which are merged
\* first, and a new one adds nothing.
LEMMA PullRspSums ==
  ASSUME NEW x \in PullRspPlain, NEW y \in PullRspPlain, NEW z \in PullRspPlain
  PROVE  /\ PullRsp_MergeFrom(x, y) \in PullRspPlain
         /\ PullRsp_MergeFrom(PullRsp_MergeFrom(x, y), z) = PullRsp_MergeFrom(x, PullRsp_MergeFrom(y, z))
         /\ PullRsp_MergeFrom(PullRsp_New, x) = x /\ PullRsp_MergeFrom(x, PullRsp_New) = x
<1> DEFINE M(a, b) == PullRsp_MergeFrom(a, b)
           P == PullRspPlain
           v == PullRsp_New
<1>1. \A m \in P : m.errCode \in DigitsInt32 /\ m.errDesc \in Utf8 /\ m.data \in Seq(Str) /\ m.unk = <<>>
  BY DEF PullRspPlain
<1>2. \A m \in P : m = [errCode |-> m.errCode, errDesc |-> m.errDesc, data |-> m.data, unk |-> <<>>]
  BY DEF PullRspPlain
<1>3. \A a, b : a.unk = <<>> /\ b.unk = <<>> =>
        M(a, b) = [errCode |-> Newer(a.errCode, b.errCode), errDesc |-> Newer(a.errDesc, b.errDesc), data |-> a.data \o b.data, unk |-> <<>>]
  BY JoinedAre DEF PullRsp_MergeFrom
<1> DEFINE E(a, b) == [errCode |-> Newer(a.errCode, b.errCode), errDesc |-> Newer(a.errDesc, b.errDesc), data |-> a.data \o b.data, unk |-> <<>>]
<1>4. ASSUME NEW a \in P, NEW b \in P PROVE M(a, b) = E(a, b) /\ M(a, b) \in P
  <2>1. (Newer(a.errCode, b.errCode)) \in DigitsInt32 /\ (Newer(a.errDesc, b.errDesc)) \in Utf8 /\ (a.data \o b.data) \in Seq(Str)
    BY <1>1, NewerAre, JoinedAre
  <2>2. M(a, b) = E(a, b)
    BY <1>1, <1>3
  <2>3. E(a, b) \in P
    BY <2>1 DEF PullRspPlain
  <2> QED
    BY <2>2, <2>3
<1>5. v \in P /\ v.errCode = <<>> /\ v.errDesc = <<>> /\ v.data = <<>>
  <2>1. v \in P
    BY NewIsPlain, PlainAre DEF New, MessageTypes
  <2> QED
    BY <2>1 DEF PullRsp_New
<1> HIDE DEF P, v, M
<1> DEFINE m == M(x, y)
           n == M(y, z)
<1>6. x \in P /\ y \in P /\ z \in P
  BY DEF P
<1>7. m \in P /\ n \in P /\ m = E(x, y) /\ n = E(y, z)
  BY <1>4, <1>6
<1>8. m.errCode = Newer(x.errCode, y.errCode) /\ n.errCode = Newer(y.errCode, z.errCode) /\ m.errDesc = Newer(x.errDesc, y.errDesc) /\ n.errDesc = Newer(y.errDesc, z.errDesc) /\ m.data = x.data \o y.data /\ n.data = y.data \o z.data
  <2> HIDE DEF m, n
  <2> QED
    BY <1>7
<1> HIDE DEF m, n
<1>9. M(m, z) = E(m, z) /\ M(x, n) = E(x, n) /\ M(v, x) = E(v, x) /\ M(x, v) = E(x, v)
  BY <1>4, <1>5, <1>6, <1>7
<1>10. (Newer(m.errCode, z.errCode)) = (Newer(x.errCode, n.errCode)) /\ (Newer(m.errDesc, z.errDesc)) = (Newer(x.errDesc, n.errDesc)) /\ (m.data \o z.data) = (x.data \o n.data)
  <2>1. x.data \in Seq(Str) /\ y.data \in Seq(Str) /\ z.data \in Seq(Str)
    BY <1>1, <1>6
  <2>2. (x.data \o y.data) \o z.data = x.data \o (y.data \o z.data)
    <3> DEFINE a == x.data
               b == y.data
               c == z.data
               S == Str
    <3>1. a \in Seq(S) /\ b \in Seq(S) /\ c \in Seq(S)
      BY <2>1
    <3> HIDE DEF a, b, c, S
    <3>2. (a \o b) \o c = a \o (b \o c)
      BY <3>1, StrAssoc
    <3> QED
      BY <3>2 DEF a, b, c
  <2> QED
    BY <1>8, <2>2, NewerAre
<1>11. E(v, x) = [errCode |-> x.errCode, errDesc |-> x.errDesc, data |-> x.data, unk |-> <<>>] /\ E(x, v) = [errCode |-> x.errCode, errDesc |-> x.errDesc, data |-> x.data, unk |-> <<>>]
  BY <1>1, <1>5, <1>6, NewerAre, JoinedAre
<1>12. E(m, z) = E(x, n)
  BY <1>10
<1> HIDE DEF E
<1>13. M(v, x) = x /\ M(x, v) = x /\ M(m, z) = M(x, n)
  BY <1>2, <1>6, <1>9, <1>11, <1>12
<1> QED
  BY <1>7, <1>13 DEF m, n, M, P, v

\* Two messages of type DelCacheReq merge to another, it does not matter which are merged
\* first, and a new one adds nothing.
LEMMA DelCacheReqSums ==
  ASSUME NEW x \in DelCacheReqPlain, NEW y \in DelCacheReqPlain, NEW z \in DelCacheReqPlain
  PROVE  /\ DelCacheReq_MergeFrom(x, y) \in DelCacheReqPlain
         /\ DelCacheReq_MergeFrom(DelCacheReq_MergeFrom(x, y), z) = DelCacheReq_MergeFrom(x, DelCacheReq_MergeFrom(y, z))
         /\ DelCacheReq_MergeFrom(DelCacheReq_New, x) = x /\ DelCacheReq_MergeFrom(x, DelCacheReq_New) = x
<1> DEFINE M(a, b) == DelCacheReq_MergeFrom(a, b)
           P == DelCacheReqPlain
           v == DelCacheReq_New
<1>1. \A m \in P : m.key \in Digits64 /\ m.unk = <<>>
  BY DEF DelCacheReqPlain
<1>2. \A m \in P : m = [key |-> m.key, unk |-> <<>>]
  BY DEF DelCacheReqPlain
<1>3. \A a, b : a.unk = <<>> /\ b.unk = <<>> =>
        M(a, b) = [key |-> Newer(a.key, b.key), unk |-> <<>>]
  BY JoinedAre DEF DelCacheReq_MergeFrom
<1> DEFINE E(a, b) == [key |-> Newer(a.key, b.key), unk |-> <<>>]
<1>4. ASSUME NEW a \in P, NEW b \in P PROVE M(a, b) = E(a, b) /\ M(a, b) \in P
  <2>1. (Newer(a.key, b.key)) \in Digits64
    BY <1>1, NewerAre, JoinedAre
  <2>2. M(a, b) = E(a, b)
    BY <1>1, <1>3
  <2>3. E(a, b) \in P
    BY <2>1 DEF DelCacheReqPlain
  <2> QED
    BY <2>2, <2>3
<1>5. v \in P /\ v.key = <<>>
  <2>1. v \in P
    BY NewIsPlain, PlainAre DEF New, MessageTypes
  <2> QED
    BY <2>1 DEF DelCacheReq_New
<1> HIDE DEF P, v, M
<1> DEFINE m == M(x, y)
           n == M(y, z)
<1>6. x \in P /\ y \in P /\ z \in P
  BY DEF P
<1>7. m \in P /\ n \in P /\ m = E(x, y) /\ n = E(y, z)
  BY <1>4, <1>6
<1>8. m.key = Newer(x.key, y.key) /\ n.key = Newer(y.key, z.key)
  <2> HIDE DEF m, n
  <2> QED
    BY <1>7
<1> HIDE DEF m, n
<1>9. M(m, z) = E(m, z) /\ M(x, n) = E(x, n) /\ M(v, x) = E(v, x) /\ M(x, v) = E(x, v)
  BY <1>4, <1>5, <1>6, <1>7
<1>10. (Newer(m.key, z.key)) = (Newer(x.key, n.key))
  BY <1>8, NewerAre
<1>11. E(v, x) = [key |-> x.key, unk |-> <<>>] /\ E(x, v) = [key |-> x.key, unk |-> <<>>]
  BY <1>1, <1>5, <1>6, NewerAre, JoinedAre
<1>12. E(m, z) = E(x, n)
  BY <1>10
<1> HIDE DEF E
<1>13. M(v, x) = x /\ M(x, v) = x /\ M(m, z) = M(x, n)
  BY <1>2, <1>6, <1>9, <1>11, <1>12
<1> QED
  BY <1>7, <1>13 DEF m, n, M, P, v

\* Two messages of type DelCacheRsp merge to another, it does not matter which are merged
\* first, and a new one adds nothing.
LEMMA DelCacheRspSums ==
  ASSUME NEW x \in DelCacheRspPlain, NEW y \in DelCacheRspPlain, NEW z \in DelCacheRspPlain
  PROVE  /\ DelCacheRsp_MergeFrom(x, y) \in DelCacheRspPlain
         /\ DelCacheRsp_MergeFrom(DelCacheRsp_MergeFrom(x, y), z) = DelCacheRsp_MergeFrom(x, DelCacheRsp_MergeFrom(y, z))
         /\ DelCacheRsp_MergeFrom(DelCacheRsp_New, x) = x /\ DelCacheRsp_MergeFrom(x, DelCacheRsp_New) = x
<1> DEFINE M(a, b) == DelCacheRsp_MergeFrom(a, b)
           P == DelCacheRspPlain
           v == DelCacheRsp_New
<1>1. \A m \in P : m.succ \in Bools /\ m.unk = <<>>
  BY DEF DelCacheRspPlain
<1>2. \A m \in P : m = [succ |-> m.succ, unk |-> <<>>]
  BY DEF DelCacheRspPlain
<1>3. \A a, b : a.unk = <<>> /\ b.unk = <<>> =>
        M(a, b) = [succ |-> Newer(a.succ, b.succ), unk |-> <<>>]
  BY JoinedAre DEF DelCacheRsp_MergeFrom
<1> DEFINE E(a, b) == [succ |-> Newer(a.succ, b.succ), unk |-> <<>>]
<1>4. ASSUME NEW a \in P, NEW b \in P PROVE M(a, b) = E(a, b) /\ M(a, b) \in P
  <2>1. (Newer(a.succ, b.succ)) \in Bools
    BY <1>1, NewerAre, JoinedAre
  <2>2. M(a, b) = E(a, b)
    BY <1>1, <1>3
  <2>3. E(a, b) \in P
    BY <2>1 DEF DelCacheRspPlain
  <2> QED
    BY <2>2, <2>3
<1>5. v \in P /\ v.succ = <<>>
  <2>1. v \in P
    BY NewIsPlain, PlainAre DEF New, MessageTypes
  <2> QED
    BY <2>1 DEF DelCacheRsp_New
<1> HIDE DEF P, v, M
<1> DEFINE m == M(x, y)
           n == M(y, z)
<1>6. x \in P /\ y \in P /\ z \in P
  BY DEF P
<1>7. m \in P /\ n \in P /\ m = E(x, y) /\ n = E(y, z)
  BY <1>4, <1>6
<1>8. m.succ = Newer(x.succ, y.succ) /\ n.succ = Newer(y.succ, z.succ)
  <2> HIDE DEF m, n
  <2> QED
    BY <1>7
<1> HIDE DEF m, n
<1>9. M(m, z) = E(m, z) /\ M(x, n) = E(x, n) /\ M(v, x) = E(v, x) /\ M(x, v) = E(x, v)
  BY <1>4, <1>5, <1>6, <1>7
<1>10. (Newer(m.succ, z.succ)) = (Newer(x.succ, n.succ))
  BY <1>8, NewerAre
<1>11. E(v, x) = [succ |-> x.succ, unk |-> <<>>] /\ E(x, v) = [succ |-> x.succ, unk |-> <<>>]
  BY <1>1, <1>5, <1>6, NewerAre, JoinedAre
<1>12. E(m, z) = E(x, n)
  BY <1>10
<1> HIDE DEF E
<1>13. M(v, x) = x /\ M(x, v) = x /\ M(m, z) = M(x, n)
  BY <1>2, <1>6, <1>9, <1>11, <1>12
<1> QED
  BY <1>7, <1>13 DEF m, n, M, P, v

\* Two messages of type HelloRequest merge to another, it does not matter which are merged
\* first, and a new one adds nothing.
LEMMA HelloRequestSums ==
  ASSUME NEW x \in HelloRequestPlain, NEW y \in HelloRequestPlain, NEW z \in HelloRequestPlain
  PROVE  /\ HelloRequest_MergeFrom(x, y) \in HelloRequestPlain
         /\ HelloRequest_MergeFrom(HelloRequest_MergeFrom(x, y), z) = HelloRequest_MergeFrom(x, HelloRequest_MergeFrom(y, z))
         /\ HelloRequest_MergeFrom(HelloRequest_New, x) = x /\ HelloRequest_MergeFrom(x, HelloRequest_New) = x
<1> DEFINE M(a, b) == HelloRequest_MergeFrom(a, b)
           P == HelloRequestPlain
           v == HelloRequest_New
<1>1. \A m \in P : m.name \in Utf8 /\ m.unk = <<>>
  BY DEF HelloRequestPlain
<1>2. \A m \in P : m = [name |-> m.name, unk |-> <<>>]
  BY DEF HelloRequestPlain
<1>3. \A a, b : a.unk = <<>> /\ b.unk = <<>> =>
        M(a, b) = [name |-> Newer(a.name, b.name), unk |-> <<>>]
  BY JoinedAre DEF HelloRequest_MergeFrom
<1> DEFINE E(a, b) == [name |-> Newer(a.name, b.name), unk |-> <<>>]
<1>4. ASSUME NEW a \in P, NEW b \in P PROVE M(a, b) = E(a, b) /\ M(a, b) \in P
  <2>1. (Newer(a.name, b.name)) \in Utf8
    BY <1>1, NewerAre, JoinedAre
  <2>2. M(a, b) = E(a, b)
    BY <1>1, <1>3
  <2>3. E(a, b) \in P
    BY <2>1 DEF HelloRequestPlain
  <2> QED
    BY <2>2, <2>3
<1>5. v \in P /\ v.name = <<>>
  <2>1. v \in P
    BY NewIsPlain, PlainAre DEF New, MessageTypes
  <2> QED
    BY <2>1 DEF HelloRequest_New
<1> HIDE DEF P, v, M
<1> DEFINE m == M(x, y)
           n == M(y, z)
<1>6. x \in P /\ y \in P /\ z \in P
  BY DEF P
<1>7. m \in P /\ n \in P /\ m = E(x, y) /\ n = E(y, z)
  BY <1>4, <1>6
<1>8. m.name = Newer(x.name, y.name) /\ n.name = Newer(y.name, z.name)
  <2> HIDE DEF m, n
  <2> QED
    BY <1>7
<1> HIDE DEF m, n
<1>9. M(m, z) = E(m, z) /\ M(x, n) = E(x, n) /\ M(v, x) = E(v, x) /\ M(x, v) = E(x, v)
  BY <1>4, <1>5, <1>6, <1>7
<1>10. (Newer(m.name, z.name)) = (Newer(x.name, n.name))
  BY <1>8, NewerAre
<1>11. E(v, x) = [name |-> x.name, unk |-> <<>>] /\ E(x, v) = [name |-> x.name, unk |-> <<>>]
  BY <1>1, <1>5, <1>6, NewerAre, JoinedAre
<1>12. E(m, z) = E(x, n)
  BY <1>10
<1> HIDE DEF E
<1>13. M(v, x) = x /\ M(x, v) = x /\ M(m, z) = M(x, n)
  BY <1>2, <1>6, <1>9, <1>11, <1>12
<1> QED
  BY <1>7, <1>13 DEF m, n, M, P, v

\* Two messages of type HelloReply merge to another, it does not matter which are merged
\* first, and a new one adds nothing.
LEMMA HelloReplySums ==
  ASSUME NEW x \in HelloReplyPlain, NEW y \in HelloReplyPlain, NEW z \in HelloReplyPlain
  PROVE  /\ HelloReply_MergeFrom(x, y) \in HelloReplyPlain
         /\ HelloReply_MergeFrom(HelloReply_MergeFrom(x, y), z) = HelloReply_MergeFrom(x, HelloReply_MergeFrom(y, z))
         /\ HelloReply_MergeFrom(HelloReply_New, x) = x /\ HelloReply_MergeFrom(x, HelloReply_New) = x
<1> DEFINE M(a, b) == HelloReply_MergeFrom(a, b)
           P == HelloReplyPlain
           v == HelloReply_New
<1>1. \A m \in P : m.message \in Utf8 /\ m.unk = <<>>
  BY DEF HelloReplyPlain
<1>2. \A m \in P : m = [message |-> m.message, unk |-> <<>>]
  BY DEF HelloReplyPlain
<1>3. \A a, b : a.unk = <<>> /\ b.unk = <<>> =>
        M(a, b) = [message |-> Newer(a.message, b.message), unk |-> <<>>]
  BY JoinedAre DEF HelloReply_MergeFrom
<1> DEFINE E(a, b) == [message |-> Newer(a.message, b.message), unk |-> <<>>]
<1>4. ASSUME NEW a \in P, NEW b \in P PROVE M(a, b) = E(a, b) /\ M(a, b) \in P
  <2>1. (Newer(a.message, b.message)) \in Utf8
    BY <1>1, NewerAre, JoinedAre
  <2>2. M(a, b) = E(a, b)
    BY <1>1, <1>3
  <2>3. E(a, b) \in P
    BY <2>1 DEF HelloReplyPlain
  <2> QED
    BY <2>2, <2>3
<1>5. v \in P /\ v.message = <<>>
  <2>1. v \in P
    BY NewIsPlain, PlainAre DEF New, MessageTypes
  <2> QED
    BY <2>1 DEF HelloReply_New
<1> HIDE DEF P, v, M
<1> DEFINE m == M(x, y)
           n == M(y, z)
<1>6. x \in P /\ y \in P /\ z \in P
  BY DEF P
<1>7. m \in P /\ n \in P /\ m = E(x, y) /\ n = E(y, z)
  BY <1>4, <1>6
<1>8. m.message = Newer(x.message, y.message) /\ n.message = Newer(y.message, z.message)
  <2> HIDE DEF m, n
  <2> QED
    BY <1>7
<1> HIDE DEF m, n
<1>9. M(m, z) = E(m, z) /\ M(x, n) = E(x, n) /\ M(v, x) = E(v, x) /\ M(x, v) = E(x, v)
  BY <1>4, <1>5, <1>6, <1>7
<1>10. (Newer(m.message, z.message)) = (Newer(x.message, n.message))
  BY <1>8, NewerAre
<1>11. E(v, x) = [message |-> x.message, unk |-> <<>>] /\ E(x, v) = [message |-> x.message, unk |-> <<>>]
  BY <1>1, <1>5, <1>6, NewerAre, JoinedAre
<1>12. E(m, z) = E(x, n)
  BY <1>10
<1> HIDE DEF E
<1>13. M(v, x) = x /\ M(x, v) = x /\ M(m, z) = M(x, n)
  BY <1>2, <1>6, <1>9, <1>11, <1>12
<1> QED
  BY <1>7, <1>13 DEF m, n, M, P, v

\* Two messages of type TestPb merge to another, it does not matter which are merged
\* first, and a new one adds nothing.
LEMMA TestPbSums ==
  ASSUME NEW x \in TestPbPlain, NEW y \in TestPbPlain, NEW z \in TestPbPlain
  PROVE  /\ TestPb_MergeFrom(x, y) \in TestPbPlain
         /\ TestPb_MergeFrom(TestPb_MergeFrom(x, y), z) = TestPb_MergeFrom(x, TestPb_MergeFrom(y, z))
         /\ TestPb_MergeFrom(TestPb_New, x) = x /\ TestPb_MergeFrom(x, TestPb_New) = x
<1> DEFINE M(a, b) == TestPb_MergeFrom(a, b)
           P == TestPbPlain
           v == TestPb_New
<1>1. \A m \in P : m.sence \in Utf8 /\ m.tablename \in Utf8 /\ m.page \in DigitsInt32 /\ m.unk = <<>>
  BY DEF TestPbPlain
<1>2. \A m \in P : m = [sence |-> m.sence, tablename |-> m.tablename, page |-> m.page, unk |-> <<>>]
  BY DEF TestPbPlain
<1>3. \A a, b : a.unk = <<>> /\ b.unk = <<>> =>
        M(a, b) = [sence |-> Newer(a.sence, b.sence), tablename |-> Newer(a.tablename, b.tablename), page |-> Newer(a.page, b.page), unk |-> <<>>]
  BY JoinedAre DEF TestPb_MergeFrom
<1> DEFINE E(a, b) == [sence |-> Newer(a.sence, b.sence), tablename |-> Newer(a.tablename, b.tablename), page |-> Newer(a.page, b.page), unk |-> <<>>]
<1>4. ASSUME NEW a \in P, NEW b \in P PROVE M(a, b) = E(a, b) /\ M(a, b) \in P
  <2>1. (Newer(a.sence, b.sence)) \in Utf8 /\ (Newer(a.tablename, b.tablename)) \in Utf8 /\ (Newer(a.page, b.page)) \in DigitsInt32
    BY <1>1, NewerAre, JoinedAre
  <2>2. M(a, b) = E(a, b)
    BY <1>1, <1>3
  <2>3. E(a, b) \in P
    BY <2>1 DEF TestPbPlain
  <2> QED
    BY <2>2, <2>3
<1>5. v \in P /\ v.sence = <<>> /\ v.tablename = <<>> /\ v.page = <<>>
  <2>1. v \in P
    BY NewIsPlain, PlainAre DEF New, MessageTypes
  <2> QED
    BY <2>1 DEF TestPb_New
<1> HIDE DEF P, v, M
<1> DEFINE m == M(x, y)
           n == M(y, z)
<1>6. x \in P /\ y \in P /\ z \in P
  BY DEF P
<1>7. m \in P /\ n \in P /\ m = E(x, y) /\ n = E(y, z)
  BY <1>4, <1>6
<1>8. m.sence = Newer(x.sence, y.sence) /\ n.sence = Newer(y.sence, z.sence) /\ m.tablename = Newer(x.tablename, y.tablename) /\ n.tablename = Newer(y.tablename, z.tablename) /\ m.page = Newer(x.page, y.page) /\ n.page = Newer(y.page, z.page)
  <2> HIDE DEF m, n
  <2> QED
    BY <1>7
<1> HIDE DEF m, n
<1>9. M(m, z) = E(m, z) /\ M(x, n) = E(x, n) /\ M(v, x) = E(v, x) /\ M(x, v) = E(x, v)
  BY <1>4, <1>5, <1>6, <1>7
<1>10. (Newer(m.sence, z.sence)) = (Newer(x.sence, n.sence)) /\ (Newer(m.tablename, z.tablename)) = (Newer(x.tablename, n.tablename)) /\ (Newer(m.page, z.page)) = (Newer(x.page, n.page))
  BY <1>8, NewerAre
<1>11. E(v, x) = [sence |-> x.sence, tablename |-> x.tablename, page |-> x.page, unk |-> <<>>] /\ E(x, v) = [sence |-> x.sence, tablename |-> x.tablename, page |-> x.page, unk |-> <<>>]
  BY <1>1, <1>5, <1>6, NewerAre, JoinedAre
<1>12. E(m, z) = E(x, n)
  BY <1>10
<1> HIDE DEF E
<1>13. M(v, x) = x /\ M(x, v) = x /\ M(m, z) = M(x, n)
  BY <1>2, <1>6, <1>9, <1>11, <1>12
<1> QED
  BY <1>7, <1>13 DEF m, n, M, P, v

\* The same for every type.
LEMMA MergeSums ==
  ASSUME NEW t \in MessageTypes, NEW x \in Plain(t), NEW y \in Plain(t), NEW z \in Plain(t)
  PROVE  /\ MergeFrom(t, x, y) \in Plain(t)
         /\ MergeFrom(t, MergeFrom(t, x, y), z) = MergeFrom(t, x, MergeFrom(t, y, z))
         /\ MergeFrom(t, New(t), x) = x /\ MergeFrom(t, x, New(t)) = x
<1>1. CASE t = "oneInfo"
  <2>1. x \in oneInfoPlain /\ y \in oneInfoPlain /\ z \in oneInfoPlain
    BY <1>1, PlainAre
  <2>2. New(t) = oneInfo_New /\ Plain(t) = oneInfoPlain /\ \A a, b : MergeFrom(t, a, b) = oneInfo_MergeFrom(a, b)
    BY <1>1, PlainAre DEF New, MergeFrom
  <2>3. /\ oneInfo_MergeFrom(x, y) \in oneInfoPlain
        /\ oneInfo_MergeFrom(oneInfo_MergeFrom(x, y), z) = oneInfo_MergeFrom(x, oneInfo_MergeFrom(y, z))
        /\ oneInfo_MergeFrom(oneInfo_New, x) = x /\ oneInfo_MergeFrom(x, oneInfo_New) = x
    BY <2>1, oneInfoSums
  <2> QED
    BY <2>2, <2>3
<1>2. CASE t = "PushReq"
  <2>1. x \in PushReqPlain /\ y \in PushReqPlain /\ z \in PushReqPlain
    BY <1>2, PlainAre
  <2>2. New(t) = PushReq_New /\ Plain(t) = PushReqPlain /\ \A a, b : MergeFrom(t, a, b) = PushReq_MergeFrom(a, b)
    BY <1>2, PlainAre DEF New, MergeFrom
  <2>3. /\ PushReq_MergeFrom(x, y) \in PushReqPlain
        /\ PushReq_MergeFrom(PushReq_MergeFrom(x, y), z) = PushReq_MergeFrom(x, PushReq_MergeFrom(y, z))
        /\ PushReq_MergeFrom(PushReq_New, x) = x /\ PushReq_MergeFrom(x, PushReq_New) = x
    BY <2>1, PushReqSums
  <2> QED
    BY <2>2, <2>3
<1>3. CASE t = "PushRsp"
  <2>1. x \in PushRspPlain /\ y \in PushRspPlain /\ z \in PushRspPlain
    BY <1>3, PlainAre
  <2>2. New(t) = PushRsp_New /\ Plain(t) = PushRspPlain /\ \A a, b : MergeFrom(t, a, b) = PushRsp_MergeFrom(a, b)
    BY <1>3, PlainAre DEF New, MergeFrom
  <2>3. /\ PushRsp_MergeFrom(x, y) \in PushRspPlain
        /\ PushRsp_MergeFrom(PushRsp_MergeFrom(x, y), z) = PushRsp_MergeFrom(x, PushRsp_MergeFrom(y, z))
        /\ PushRsp_MergeFrom(PushRsp_New, x) = x /\ PushRsp_MergeFrom(x, PushRsp_New) = x
    BY <2>1, PushRspSums
  <2> QED
    BY <2>2, <2>3
<1>4. CASE t = "PullReq"
  <2>1. x \in PullReqPlain /\ y \in PullReqPlain /\ z \in PullReqPlain
    BY <1>4, PlainAre
  <2>2. New(t) = PullReq_New /\ Plain(t) = PullReqPlain /\ \A a, b : MergeFrom(t, a, b) = PullReq_MergeFrom(a, b)
    BY <1>4, PlainAre DEF New, MergeFrom
  <2>3. /\ PullReq_MergeFrom(x, y) \in PullReqPlain
        /\ PullReq_MergeFrom(PullReq_MergeFrom(x, y), z) = PullReq_MergeFrom(x, PullReq_MergeFrom(y, z))
        /\ PullReq_MergeFrom(PullReq_New, x) = x /\ PullReq_MergeFrom(x, PullReq_New) = x
    BY <2>1, PullReqSums
  <2> QED
    BY <2>2, <2>3
<1>5. CASE t = "PullRsp"
  <2>1. x \in PullRspPlain /\ y \in PullRspPlain /\ z \in PullRspPlain
    BY <1>5, PlainAre
  <2>2. New(t) = PullRsp_New /\ Plain(t) = PullRspPlain /\ \A a, b : MergeFrom(t, a, b) = PullRsp_MergeFrom(a, b)
    BY <1>5, PlainAre DEF New, MergeFrom
  <2>3. /\ PullRsp_MergeFrom(x, y) \in PullRspPlain
        /\ PullRsp_MergeFrom(PullRsp_MergeFrom(x, y), z) = PullRsp_MergeFrom(x, PullRsp_MergeFrom(y, z))
        /\ PullRsp_MergeFrom(PullRsp_New, x) = x /\ PullRsp_MergeFrom(x, PullRsp_New) = x
    BY <2>1, PullRspSums
  <2> QED
    BY <2>2, <2>3
<1>6. CASE t = "DelCacheReq"
  <2>1. x \in DelCacheReqPlain /\ y \in DelCacheReqPlain /\ z \in DelCacheReqPlain
    BY <1>6, PlainAre
  <2>2. New(t) = DelCacheReq_New /\ Plain(t) = DelCacheReqPlain /\ \A a, b : MergeFrom(t, a, b) = DelCacheReq_MergeFrom(a, b)
    BY <1>6, PlainAre DEF New, MergeFrom
  <2>3. /\ DelCacheReq_MergeFrom(x, y) \in DelCacheReqPlain
        /\ DelCacheReq_MergeFrom(DelCacheReq_MergeFrom(x, y), z) = DelCacheReq_MergeFrom(x, DelCacheReq_MergeFrom(y, z))
        /\ DelCacheReq_MergeFrom(DelCacheReq_New, x) = x /\ DelCacheReq_MergeFrom(x, DelCacheReq_New) = x
    BY <2>1, DelCacheReqSums
  <2> QED
    BY <2>2, <2>3
<1>7. CASE t = "DelCacheRsp"
  <2>1. x \in DelCacheRspPlain /\ y \in DelCacheRspPlain /\ z \in DelCacheRspPlain
    BY <1>7, PlainAre
  <2>2. New(t) = DelCacheRsp_New /\ Plain(t) = DelCacheRspPlain /\ \A a, b : MergeFrom(t, a, b) = DelCacheRsp_MergeFrom(a, b)
    BY <1>7, PlainAre DEF New, MergeFrom
  <2>3. /\ DelCacheRsp_MergeFrom(x, y) \in DelCacheRspPlain
        /\ DelCacheRsp_MergeFrom(DelCacheRsp_MergeFrom(x, y), z) = DelCacheRsp_MergeFrom(x, DelCacheRsp_MergeFrom(y, z))
        /\ DelCacheRsp_MergeFrom(DelCacheRsp_New, x) = x /\ DelCacheRsp_MergeFrom(x, DelCacheRsp_New) = x
    BY <2>1, DelCacheRspSums
  <2> QED
    BY <2>2, <2>3
<1>8. CASE t = "HelloRequest"
  <2>1. x \in HelloRequestPlain /\ y \in HelloRequestPlain /\ z \in HelloRequestPlain
    BY <1>8, PlainAre
  <2>2. New(t) = HelloRequest_New /\ Plain(t) = HelloRequestPlain /\ \A a, b : MergeFrom(t, a, b) = HelloRequest_MergeFrom(a, b)
    BY <1>8, PlainAre DEF New, MergeFrom
  <2>3. /\ HelloRequest_MergeFrom(x, y) \in HelloRequestPlain
        /\ HelloRequest_MergeFrom(HelloRequest_MergeFrom(x, y), z) = HelloRequest_MergeFrom(x, HelloRequest_MergeFrom(y, z))
        /\ HelloRequest_MergeFrom(HelloRequest_New, x) = x /\ HelloRequest_MergeFrom(x, HelloRequest_New) = x
    BY <2>1, HelloRequestSums
  <2> QED
    BY <2>2, <2>3
<1>9. CASE t = "HelloReply"
  <2>1. x \in HelloReplyPlain /\ y \in HelloReplyPlain /\ z \in HelloReplyPlain
    BY <1>9, PlainAre
  <2>2. New(t) = HelloReply_New /\ Plain(t) = HelloReplyPlain /\ \A a, b : MergeFrom(t, a, b) = HelloReply_MergeFrom(a, b)
    BY <1>9, PlainAre DEF New, MergeFrom
  <2>3. /\ HelloReply_MergeFrom(x, y) \in HelloReplyPlain
        /\ HelloReply_MergeFrom(HelloReply_MergeFrom(x, y), z) = HelloReply_MergeFrom(x, HelloReply_MergeFrom(y, z))
        /\ HelloReply_MergeFrom(HelloReply_New, x) = x /\ HelloReply_MergeFrom(x, HelloReply_New) = x
    BY <2>1, HelloReplySums
  <2> QED
    BY <2>2, <2>3
<1>10. CASE t = "TestPb"
  <2>1. x \in TestPbPlain /\ y \in TestPbPlain /\ z \in TestPbPlain
    BY <1>10, PlainAre
  <2>2. New(t) = TestPb_New /\ Plain(t) = TestPbPlain /\ \A a, b : MergeFrom(t, a, b) = TestPb_MergeFrom(a, b)
    BY <1>10, PlainAre DEF New, MergeFrom
  <2>3. /\ TestPb_MergeFrom(x, y) \in TestPbPlain
        /\ TestPb_MergeFrom(TestPb_MergeFrom(x, y), z) = TestPb_MergeFrom(x, TestPb_MergeFrom(y, z))
        /\ TestPb_MergeFrom(TestPb_New, x) = x /\ TestPb_MergeFrom(x, TestPb_New) = x
    BY <2>1, TestPbSums
  <2> QED
    BY <2>2, <2>3
<1> QED
  BY <1>1, <1>2, <1>3, <1>4, <1>5, <1>6, <1>7, <1>8, <1>9, <1>10 DEF MessageTypes

-----------------------------------------------------------------------------
(* Where a sequence of bytes is cut in two.                                 *)

\* The two parts.
LEMMA Parts ==
  ASSUME NEW w \in Str, NEW k \in 0 .. Len(w)
  PROVE  /\ SubSeq(w, 1, k) \in Str /\ Len(SubSeq(w, 1, k)) = k
         /\ SubSeq(w, k + 1, Len(w)) \in Str /\ Len(SubSeq(w, k + 1, Len(w))) = Len(w) - k
         /\ w = SubSeq(w, 1, k) \o SubSeq(w, k + 1, Len(w))
<1> DEFINE n == Len(w)
           a == SubSeq(w, 1, k)
           b == SubSeq(w, k + 1, n)
<1>1. n \in Nat /\ \A i \in 1 .. n : w[i] \in Nat
  BY LenProperties, ElementOfSeq DEF Str
<1>2. k \in Nat /\ k <= n
  BY <1>1
<1> HIDE DEF n
<1>3. a \in Seq(Nat) /\ Len(a) = k /\ \A i \in 1 .. k : a[i] = w[i]
  <2>1. 1 \in Int /\ k \in Int /\ \A i \in 1 .. k : w[i] \in Nat
    BY <1>1, <1>2
  <2>2. a \in Seq(Nat) /\ Len(a) = (IF 1 <= k THEN k - 1 + 1 ELSE 0) /\ \A i \in 1 .. k - 1 + 1 : a[i] = w[1 + i - 1]
    <3> DEFINE S == Nat
    <3> HIDE DEF S
    <3>1. \A i \in 1 .. k : w[i] \in S
      BY <2>1 DEF S
    <3>2. a \in Seq(S) /\ Len(a) = (IF 1 <= k THEN k - 1 + 1 ELSE 0) /\ \A i \in 1 .. k - 1 + 1 : a[i] = w[1 + i - 1]
      BY <2>1, <3>1, SubSeqProperties
    <3> QED
      BY <3>2 DEF S
  <2> HIDE DEF a
  <2>3. Len(a) = k
    BY <1>2, <2>2
  <2>4. \A i \in 1 .. k : a[i] = w[i]
    BY <1>2, <2>2
  <2> QED
    BY <2>2, <2>3, <2>4
<1>4. b \in Seq(Nat) /\ Len(b) = n - k /\ \A i \in 1 .. n - k : b[i] = w[k + i]
  <2>1. k + 1 \in Int /\ n \in Int /\ \A i \in k + 1 .. n : w[i] \in Nat
    BY <1>1, <1>2
  <2> DEFINE l == k + 1
             e == n - l + 1
  <2>2. b \in Seq(Nat) /\ Len(b) = (IF l <= n THEN e ELSE 0) /\ \A i \in 1 .. e : b[i] = w[l + i - 1]
    <3> DEFINE S == Nat
    <3> HIDE DEF S
    <3>1. l \in Int /\ n \in Int /\ \A i \in l .. n : w[i] \in S
      BY <2>1 DEF S
    <3> HIDE DEF l
    <3>2. b = SubSeq(w, l, n)
      BY DEF l
    <3> HIDE DEF b
    <3>3. b \in Seq(S) /\ Len(b) = (IF l <= n THEN e ELSE 0) /\ \A i \in 1 .. e : b[i] = w[l + i - 1]
      BY <3>1, <3>2, SubSeqProperties
    <3> QED
      BY <3>3 DEF S
  <2> HIDE DEF b
  <2>3. e = n - k /\ (IF l <= n THEN e ELSE 0) = n - k /\ \A i \in 1 .. n - k : l + i - 1 = k + i
    BY <1>1, <1>2
  <2> HIDE DEF l, e
  <2> QED
    BY <2>2, <2>3
<1> HIDE DEF a, b
<1> DEFINE c == a \o b
<1>5. c \in Seq(Nat) /\ Len(c) = k + (n - k) /\ \A i \in 1 .. k + (n - k) : c[i] = IF i <= k THEN a[i] ELSE b[i - k]
  <2> DEFINE S == Nat
  <2>1. a \in Seq(S) /\ b \in Seq(S)
    BY <1>3, <1>4
  <2> HIDE DEF S
  <2>2. c \in Seq(S) /\ Len(c) = Len(a) + Len(b) /\ \A i \in 1 .. Len(a) + Len(b) : c[i] = IF i <= Len(a) THEN a[i] ELSE b[i - Len(a)]
    BY <2>1, ConcatProperties
  <2> QED
    BY <1>3, <1>4, <2>2 DEF S
<1> HIDE DEF c
<1>6. Len(c) = n
  BY <1>1, <1>2, <1>5
<1>7. ASSUME NEW i \in 1 .. n PROVE w[i] = c[i]
  <2>1. i \in 1 .. k + (n - k)
    BY <1>1, <1>2
  <2>2. CASE i <= k
    <3>1. i \in 1 .. k
      BY <1>2, <2>2
    <3> QED
      BY <1>3, <1>5, <2>1, <2>2, <3>1
  <2>3. CASE ~(i <= k)
    <3>1. i - k \in 1 .. n - k /\ k + (i - k) = i
      BY <1>1, <1>2, <2>3
    <3> QED
      BY <1>4, <1>5, <2>1, <2>3, <3>1
  <2> QED
    BY <2>2, <2>3
<1>8. w = c
  <2> DEFINE S == Nat
  <2>1. w \in Seq(S) /\ c \in Seq(S) /\ Len(w) = Len(c) /\ \A i \in 1 .. Len(w) : w[i] = c[i]
    BY <1>5, <1>6, <1>7 DEF Str, n
  <2> HIDE DEF S
  <2> QED
    BY <2>1, SeqEqual
<1> QED
  BY <1>3, <1>4, <1>8 DEF Str, a, b, c, n

\* Three parts.
LEMMA ThreeParts ==
  ASSUME NEW a \in Str, NEW b \in Str, NEW c \in Str
  PROVE  (a \o b) \o c = a \o (b \o c)
BY StrAssoc DEF Str

\* The first part ends in w, or after it in the middle of s or at its end.
LEMMA WhereCut ==
  ASSUME NEW w \in Str, NEW s \in Str, NEW a \in Str, NEW b \in Str, w \o s = a \o b
  PROVE  \/ \E c \in Str : w = a \o c /\ b = c \o s
         \/ At(a, 1, w) /\ 1 + Len(w) <= Len(a) /\ b = <<>> /\ a = w \o s
         \/ At(a, 1, w) /\ 1 + Len(w) <= Len(a) /\ Cut(a, 1 + Len(w), s)
<1> DEFINE u == w \o s
           n == Len(w)
           l == Len(s)
           k == Len(a)
           j == Len(b)
<1>1. n \in Nat /\ l \in Nat /\ k \in Nat /\ j \in Nat
  BY LenProperties DEF Str
<1>2. u \in Str /\ Len(u) = n + l /\ \A i \in 1 .. n + l : u[i] = IF i <= n THEN w[i] ELSE s[i - n]
  <2> DEFINE S == Nat
  <2>1. w \in Seq(S) /\ s \in Seq(S)
    BY DEF Str
  <2> HIDE DEF S
  <2>2. u \in Seq(S) /\ Len(u) = n + l /\ \A i \in 1 .. n + l : u[i] = IF i <= n THEN w[i] ELSE s[i - n]
    BY <2>1, ConcatProperties
  <2> QED
    BY <2>2 DEF S, Str
<1>3. Len(u) = k + j /\ \A i \in 1 .. k + j : u[i] = IF i <= k THEN a[i] ELSE b[i - k]
  <2> DEFINE S == Nat
             v == a \o b
  <2>1. a \in Seq(S) /\ b \in Seq(S)
    BY DEF Str
  <2> HIDE DEF S
  <2>2. Len(v) = k + j /\ \A i \in 1 .. k + j : v[i] = IF i <= k THEN a[i] ELSE b[i - k]
    BY <2>1, ConcatProperties
  <2>3. u = v
    OBVIOUS
  <2> HIDE DEF u, v
  <2> QED
    BY <2>2, <2>3
<1>4. u = a \o b
  OBVIOUS
<1> HIDE DEF u, n, l, k, j
<1>5. n + l = k + j
  BY <1>2, <1>3
<1>6. CASE k <= n
  <2> DEFINE x == SubSeq(w, 1, k)
             c == SubSeq(w, k + 1, n)
  <2>1. k \in 0 .. Len(w)
    BY <1>1, <1>6 DEF n
  <2>2. x \in Str /\ Len(x) = k /\ c \in Str /\ w = x \o c /\ Len(c) = n - k
    BY <2>1, Parts DEF n
  <2> HIDE DEF x, c
  <2>3. \A i \in 1 .. k : x[i] = w[i]
    <3>1. \A i \in 1 .. k : (x \o c)[i] = x[i]
      <4> DEFINE S == Nat
                 v == x \o c
      <4>1. x \in Seq(S) /\ c \in Seq(S)
        BY <2>2 DEF Str
      <4> HIDE DEF S
      <4>2. \A i \in 1 .. Len(x) + Len(c) : v[i] = IF i <= Len(x) THEN x[i] ELSE c[i - Len(x)]
        BY <4>1, ConcatProperties
      <4> HIDE DEF v
      <4>3. \A i \in 1 .. k : i \in 1 .. Len(x) + Len(c) /\ i <= Len(x)
        BY <1>1, <1>6, <2>2
      <4>4. \A i \in 1 .. k : v[i] = x[i]
        BY <4>2, <4>3
      <4> QED
        BY <4>4 DEF v
    <3> QED
      BY <2>2, <3>1
  <2>4. \A i \in 1 .. k : x[i] = a[i]
    <3> SUFFICES ASSUME NEW i \in 1 .. k PROVE x[i] = a[i]
      OBVIOUS
    <3>1. i \in 1 .. n + l /\ i \in 1 .. k + j /\ i <= n /\ i <= k
      BY <1>1, <1>6
    <3>2. u[i] = w[i] /\ u[i] = a[i]
      BY <1>2, <1>3, <3>1
    <3> QED
      BY <2>3, <3>2
  <2>5. x = a
    <3> DEFINE S == Nat
    <3>1. x \in Seq(S) /\ a \in Seq(S) /\ Len(x) = Len(a) /\ \A i \in 1 .. Len(x) : x[i] = a[i]
      BY <2>2, <2>4 DEF Str, k
    <3> HIDE DEF S
    <3> QED
      BY <3>1, SeqEqual
  <2>6. a \o (c \o s) = a \o b
    <3>0. c \in Str
      BY <2>2
    <3>1. (a \o c) \o s = a \o (c \o s)
      BY <3>0, ThreeParts
    <3> QED
      BY <1>4, <2>2, <2>5, <3>1 DEF u
  <2>7. c \o s = b
    <3> DEFINE y == c \o s
    <3>1. y \in Str
      BY <2>2, StrConcat
    <3>2. a \o y = a \o b
      BY <2>6
    <3> HIDE DEF y
    <3>3. \A p, q, r \in Str : p \o q = p \o r => q = r
      BY ConcatSimplifications DEF Str
    <3>4. y = b
      BY <3>1, <3>2, <3>3
    <3> QED
      BY <3>4 DEF y
  <2> QED
    BY <2>2, <2>5, <2>7
<1>7. CASE ~(k <= n)
  <2>1. 1 + n <= k
    BY <1>1, <1>7
  <2>2. \A i \in 1 .. n : a[(1 - 1) + i] = w[i]
    <3> SUFFICES ASSUME NEW i \in 1 .. n PROVE a[(1 - 1) + i] = w[i]
      OBVIOUS
    <3>1. i \in 1 .. n + l /\ i \in 1 .. k + j /\ i <= n /\ i <= k /\ (1 - 1) + i = i
      BY <1>1, <1>7
    <3>2. u[i] = w[i] /\ u[i] = a[i]
      BY <1>2, <1>3, <3>1
    <3> QED
      BY <3>1, <3>2
  <2>3. At(a, 1, w)
    <3>1. 1 + n <= k + 1
      BY <1>1, <1>7
    <3> QED
      BY <2>2, <3>1 DEF At, n, k
  <2>4. CASE j = 0
    <3>1. b = <<>>
      BY <2>4, EmptySeq DEF j, Str
    <3>2. a \o <<>> = a
      BY ConcatEmptySeq DEF Str
    <3> QED
      BY <1>4, <2>1, <2>3, <3>1, <3>2 DEF u, n, k
  <2>5. CASE j # 0
    <3>1. 1 + n <= k + 1 /\ k + 1 < (1 + n) + l
      BY <1>1, <1>5, <2>1, <2>5
    <3>2. ASSUME NEW i \in 1 .. (k + 1) - (1 + n) PROVE a[((1 + n) - 1) + i] = s[i]
      <4> DEFINE h == ((1 + n) - 1) + i
      <4>1. h \in 1 .. n + l /\ h \in 1 .. k + j /\ ~(h <= n) /\ h <= k /\ h - n = i
        BY <1>1, <1>5, <1>7
      <4> HIDE DEF h
      <4>2. u[h] = s[h - n] /\ u[h] = a[h]
        BY <1>2, <1>3, <4>1
      <4>3. a[h] = s[i]
        BY <4>1, <4>2
      <4> QED
        BY <4>3 DEF h
    <3>3. Cut(a, 1 + n, s)
      BY <3>1, <3>2 DEF Cut, k, l
    <3> QED
      BY <2>1, <2>3, <3>3 DEF n, k
  <2> QED
    BY <2>4, <2>5
<1> QED
  BY <1>6, <1>7

-----------------------------------------------------------------------------
(* Bodies made of fields.                                                   *)

\* A message with one field, which is noticed when it is cut.
Refuses(t, s) == IF t = "TestPb" THEN TestPbRefuses(s) ELSE OtherRefuses(t, s)
Unit(t) ==
  {u \in Plain(t) : Refuses(t, SerializeToString(t, u)) /\ (t = "PushReq" => Len(u.infos) = 1)}

\* The bytes w are fields written one after the other, and m is their merge: the least
\* relation that holds of no bytes and a new message, and when it holds then with one
\* field more.
Closed(t, G) ==
  /\ <<<<>>, New(t)>> \in G
  /\ \A w \in Str, m \in Plain(t), u \in Unit(t) :
       <<w, m>> \in G => <<w \o SerializeToString(t, u), MergeFrom(t, m, u)>> \in G
Fields(t, w, m) == \A G : Closed(t, G) => <<w, m>> \in G

\* The bytes of a message.
LEMMA PlainBytes ==
  ASSUME NEW t \in MessageTypes, NEW u \in Plain(t)
  PROVE  u \in Msgs(t) /\ SerializeToString(t, u) \in Str
<1>0. New(t) \in Msgs(t)
  BY NewType
<1>1. u \in Msgs(t)
  BY <1>0, PlainSame
<1> QED
  BY <1>1, SizesAreExact DEF Exact

\* What the relation relates.
LEMMA FieldsType ==
  ASSUME NEW t \in MessageTypes, NEW w, NEW m, Fields(t, w, m)
  PROVE  w \in Str /\ m \in Plain(t)
<1> DEFINE G == Str \X Plain(t)
<1>1. <<<<>>, New(t)>> \in G
  BY NewIsPlain, PlainValues
<1>2. ASSUME NEW v \in Str, NEW x \in Plain(t), NEW u \in Unit(t)
      PROVE  <<v \o SerializeToString(t, u), MergeFrom(t, x, u)>> \in G
  <2>1. u \in Plain(t)
    BY DEF Unit
  <2>2. SerializeToString(t, u) \in Str
    BY <2>1, PlainBytes
  <2>3. v \o SerializeToString(t, u) \in Str
    BY <2>2, StrConcat
  <2>4. MergeFrom(t, x, u) \in Plain(t)
    BY <2>1, MergeSums
  <2> QED
    BY <2>3, <2>4
<1> HIDE DEF G
<1>3. Closed(t, G)
  BY <1>1, <1>2 DEF Closed
<1>4. <<w, m>> \in G
  BY <1>3 DEF Fields
<1> QED
  BY <1>4 DEF G

\* No bytes,
LEMMA NoFields ==
  ASSUME NEW t
  PROVE  Fields(t, <<>>, New(t))
BY DEF Fields, Closed

\* one field more,
LEMMA OneField ==
  ASSUME NEW t \in MessageTypes, NEW w, NEW m, Fields(t, w, m), NEW u \in Unit(t)
  PROVE  Fields(t, w \o SerializeToString(t, u), MergeFrom(t, m, u))
<1>1. w \in Str /\ m \in Plain(t)
  BY FieldsType
<1> DEFINE v == w \o SerializeToString(t, u)
           x == MergeFrom(t, m, u)
<1>2. ASSUME NEW G, Closed(t, G) PROVE <<v, x>> \in G
  <2>1. <<w, m>> \in G
    BY <1>2 DEF Fields
  <2> QED
    BY <1>1, <1>2, <2>1 DEF Closed
<1> HIDE DEF v, x
<1>3. Fields(t, v, x)
  BY <1>2 DEF Fields
<1> QED
  BY <1>3 DEF v, x

\* and only these: what holds of no bytes and is kept by one field more.
LEMMA FieldsInduction ==
  ASSUME NEW t \in MessageTypes, NEW w, NEW m, Fields(t, w, m), NEW Z, <<<<>>, New(t)>> \in Z,
         \A v, x : \A u \in Unit(t) : Fields(t, v, x) /\ <<v, x>> \in Z =>
           <<v \o SerializeToString(t, u), MergeFrom(t, x, u)>> \in Z
  PROVE  <<w, m>> \in Z
<1> DEFINE G == {g \in Z : Fields(t, g[1], g[2])}
<1>1. \A v, x : <<v, x>> \in G <=> <<v, x>> \in Z /\ Fields(t, v, x)
  OBVIOUS
<1> HIDE DEF G
<1>2. <<<<>>, New(t)>> \in G
  BY <1>1, NoFields
<1>3. ASSUME NEW v \in Str, NEW x \in Plain(t), NEW u \in Unit(t), <<v, x>> \in G
      PROVE  <<v \o SerializeToString(t, u), MergeFrom(t, x, u)>> \in G
  <2>1. <<v, x>> \in Z /\ Fields(t, v, x)
    BY <1>1, <1>3
  <2>2. Fields(t, v \o SerializeToString(t, u), MergeFrom(t, x, u))
    BY <2>1, OneField
  <2>3. <<v \o SerializeToString(t, u), MergeFrom(t, x, u)>> \in Z
    BY <2>1
  <2> QED
    BY <1>1, <2>2, <2>3
<1>4. Closed(t, G)
  BY <1>2, <1>3 DEF Closed
<1>5. <<w, m>> \in G
  BY <1>4 DEF Fields
<1> QED
  BY <1>1, <1>5

\* Fields after fields.
LEMMA FieldsConcat ==
  ASSUME NEW t \in MessageTypes, NEW v, NEW x, Fields(t, v, x), NEW w, NEW y, Fields(t, w, y)
  PROVE  Fields(t, v \o w, MergeFrom(t, x, y))
<1> DEFINE Z == {g \in Str \X Plain(t) : Fields(t, v \o g[1], MergeFrom(t, x, g[2]))}
<1>1. \A b, z : <<b, z>> \in Z <=> b \in Str /\ z \in Plain(t) /\ Fields(t, v \o b, MergeFrom(t, x, z))
  OBVIOUS
<1>2. v \in Str /\ x \in Plain(t)
  BY FieldsType
<1> HIDE DEF Z
<1>3. <<<<>>, New(t)>> \in Z
  <2>1. v \o <<>> = v
    BY <1>2, ConcatEmptySeq DEF Str
  <2>2. New(t) \in Plain(t) /\ <<>> \in Str
    BY NewIsPlain, PlainValues
  <2>3. MergeFrom(t, x, New(t)) = x
    BY <1>2, MergeSums
  <2> QED
    BY <1>1, <2>1, <2>2, <2>3
<1>4. ASSUME NEW b, NEW z, NEW u \in Unit(t), Fields(t, b, z), <<b, z>> \in Z
      PROVE  <<b \o SerializeToString(t, u), MergeFrom(t, z, u)>> \in Z
  <2> DEFINE s == SerializeToString(t, u)
  <2>1. b \in Str /\ z \in Plain(t) /\ Fields(t, v \o b, MergeFrom(t, x, z))
    BY <1>1, <1>4
  <2>2. u \in Plain(t)
    BY DEF Unit
  <2>3. s \in Str
    BY <2>2, PlainBytes
  <2>4. Fields(t, (v \o b) \o s, MergeFrom(t, MergeFrom(t, x, z), u))
    BY <2>1, OneField
  <2> HIDE DEF s
  <2>5. (v \o b) \o s = v \o (b \o s)
    BY <1>2, <2>1, <2>3, ThreeParts
  <2>6. MergeFrom(t, MergeFrom(t, x, z), u) = MergeFrom(t, x, MergeFrom(t, z, u)) /\ MergeFrom(t, z, u) \in Plain(t)
    BY <1>2, <2>1, <2>2, MergeSums
  <2>7. b \o s \in Str
    BY <2>1, <2>3, StrConcat
  <2> QED
    BY <1>1, <2>4, <2>5, <2>6, <2>7 DEF s
<1>5. <<w, y>> \in Z
  BY <1>3, <1>4, FieldsInduction
<1> QED
  BY <1>1, <1>5

\* One field.
LEMMA UnitFields ==
  ASSUME NEW t \in MessageTypes, NEW u \in Unit(t)
  PROVE  Fields(t, SerializeToString(t, u), u)
<1> DEFINE s == SerializeToString(t, u)
           v == <<>>
           m == New(t)
<1>1. u \in Plain(t)
  BY DEF Unit
<1>2. s \in Str
  BY <1>1, PlainBytes
<1>3. v \o s = s
  BY <1>2, ConcatEmptySeq DEF Str
<1>4. MergeFrom(t, m, u) = u
  BY <1>1, MergeSums
<1>5. Fields(t, v, m)
  BY NoFields
<1> HIDE DEF v, m
<1>6. Fields(t, v \o s, MergeFrom(t, m, u))
  BY <1>5, OneField
<1> QED
  BY <1>3, <1>4, <1>6

\* Fields are read as their merge.
LEMMA FieldsRead ==
  ASSUME NEW t \in MessageTypes, NEW w, NEW m, Fields(t, w, m)
  PROVE  ReadsAs(t, w, m)
<1> DEFINE Z == {g \in Str \X Plain(t) : ReadsAs(t, g[1], g[2])}
<1>1. \A b, z : <<b, z>> \in Z <=> b \in Str /\ z \in Plain(t) /\ ReadsAs(t, b, z)
  OBVIOUS
<1> HIDE DEF Z
<1>2. <<<<>>, New(t)>> \in Z
  BY <1>1, NewIsPlain, PlainValues, ReadsNothing
<1>3. ASSUME NEW b, NEW z, NEW u \in Unit(t), Fields(t, b, z), <<b, z>> \in Z
      PROVE  <<b \o SerializeToString(t, u), MergeFrom(t, z, u)>> \in Z
  <2>1. b \in Str /\ z \in Plain(t) /\ ReadsAs(t, b, z)
    BY <1>1, <1>3
  <2>2. u \in Plain(t)
    BY DEF Unit
  <2>3. z \in Msgs(t)
    BY <2>1, PlainBytes
  <2>4. ReadsAs(t, b \o SerializeToString(t, u), MergeFrom(t, z, u))
    BY <2>1, <2>2, <2>3, ReadsMore
  <2>5. Fields(t, b \o SerializeToString(t, u), MergeFrom(t, z, u))
    BY <1>3, OneField
  <2>6. b \o SerializeToString(t, u) \in Str /\ MergeFrom(t, z, u) \in Plain(t)
    BY <2>5, FieldsType
  <2> QED
    BY <1>1, <2>4, <2>6
<1>4. <<w, m>> \in Z
  BY <1>2, <1>3, FieldsInduction
<1> QED
  BY <1>1, <1>4

-----------------------------------------------------------------------------
(* What is read from a first chunk.                                         *)

\* All but the last of the infos c are at their place in v, and there are no more of them.
Agrees(c, v) == Len(c) <= Len(v) /\ \A i \in 1 .. Len(c) - 1 : c[i] = v[i]

\* Infos that are sent later do not matter, and all the infos sent before agree, with
\* one more that is not read as it was sent.
LEMMA AgreesThen ==
  ASSUME NEW S, NEW v \in Seq(S), NEW y \in Seq(S)
  PROVE  /\ \A c \in Seq(S) : Agrees(c, v) => Agrees(c, v \o y)
         /\ Agrees(v, v \o y)
         /\ Len(y) = 1 => \A o : Agrees(Append(v, o), v \o y)
<1> DEFINE u == v \o y
           n == Len(v)
           l == Len(y)
<1>1. n \in Nat /\ l \in Nat
  BY LenProperties
<1>2. Len(u) = n + l /\ \A i \in 1 .. n + l : u[i] = IF i <= n THEN v[i] ELSE y[i - n]
  BY ConcatProperties
<1> HIDE DEF u
<1>3. \A i \in 1 .. n : u[i] = v[i]
  <2> HIDE DEF n, l
  <2>1. \A i \in 1 .. n : i \in 1 .. n + l /\ i <= n
    BY <1>1
  <2> QED
    BY <1>2, <2>1
<1>4. ASSUME NEW c \in Seq(S), Agrees(c, v) PROVE Agrees(c, u)
  <2> DEFINE k == Len(c)
  <2>1. k \in Nat /\ k <= n /\ \A i \in 1 .. k - 1 : c[i] = v[i]
    BY <1>4, LenProperties DEF Agrees
  <2> HIDE DEF k, n, l
  <2>2. k <= n + l /\ \A i \in 1 .. k - 1 : i \in 1 .. n
    BY <1>1, <2>1
  <2>3. \A i \in 1 .. k - 1 : c[i] = u[i]
    BY <1>3, <2>1, <2>2
  <2> QED
    BY <1>2, <2>2, <2>3 DEF Agrees, k
<1>5. Agrees(v, u)
  <2>1. Agrees(v, v)
    BY <1>1 DEF Agrees
  <2> QED
    BY <1>4, <2>1
<1>6. ASSUME l = 1, NEW o PROVE Agrees(Append(v, o), u)
  <2> DEFINE T == S \cup {o}
             c == Append(v, o)
  <2>1. v \in Seq(T) /\ o \in T
    OBVIOUS
  <2> HIDE DEF T
  <2>2. Len(c) = n + 1 /\ \A i \in 1 .. n : c[i] = v[i]
    BY <2>1, AppendProperties
  <2> HIDE DEF c, n
  <2>3. (n + 1) - 1 = n
    BY <1>1
  <2>4. \A i \in 1 .. n : c[i] = u[i]
    BY <1>3, <2>2
  <2>5. Len(c) <= Len(u)
    BY <1>1, <1>2, <1>6, <2>2
  <2>6. \A i \in 1 .. Len(c) - 1 : c[i] = u[i]
    BY <2>2, <2>3, <2>4
  <2> QED
    BY <2>5, <2>6 DEF Agrees, c
<1> QED
  BY <1>4, <1>5, <1>6 DEF u

\* A chunk that ends in the middle of a field is refused, and of its infos the last is
\* the one that was cut.
LEMMA CutChunk ==
  ASSUME NEW t \in MessageTypes, NEW w \in Str, NEW m \in Plain(t), ReadsAs(t, w, m), NEW u \in Unit(t),
         NEW a \in Str, Len(a) <= SizeLimit, Len(SerializeToString(t, u)) <= SizeLimit,
         At(a, 1, w), 1 + Len(w) <= Len(a), Cut(a, 1 + Len(w), SerializeToString(t, u))
  PROVE  /\ ParseFromString(t, a).ok = FALSE
         /\ t = "PushReq" => \E o : ParseFromString(t, a).m.infos = Append(m.infos, o)
<1> DEFINE s == SerializeToString(t, u)
           q == 1 + Len(w)
           n == Len(a)
<1>1. Refuses(t, s) /\ Len(s) <= SizeLimit /\ q <= n /\ Cut(a, q, s)
  BY DEF Unit
<1>2. m \in Msgs(t)
  BY PlainBytes
<1>3. n \in Nat /\ 1 \in Pos /\ n + 1 \in Nat
  BY LenProperties DEF Str, Pos
<1> HIDE DEF s
<1>4. CASE t = "TestPb"
  <2>1. PICK f : TestPbSteps(f, a)
    BY TestPbRun
  <2>2. TestPbLoop(f, a) /\ f[0] = TestPbStart
    BY <2>1 DEF TestPbSteps, TestPbLoop
  <2>3. TestPbReaches(f, a, m, q)
    BY <1>4, <2>2 DEF ReadsAs, TestPbReadsAs
  <2>4. m \in TestPbMsgs /\ TestPbRefuses(s)
    BY <1>1, <1>2, <1>4, MsgsAre DEF Refuses
  <2> DEFINE r == f[n + 1]
  <2>5. TestPbSpoilt(r)
    BY <1>1, <2>2, <2>3, <2>4 DEF TestPbRefuses
  <2>6. TestPb_MergePartialFromCodedStream(TestPb_New, a) = r
    BY <2>1 DEF TestPbSteps
  <2> HIDE DEF r
  <2>7. TestPb_ParseFromString(a) = [m |-> r.m, ok |-> r.ok /\ r.atEnd]
    BY <2>6 DEF TestPb_ParseFromString
  <2>8. (r.ok /\ r.atEnd) = FALSE
    BY <2>5 DEF TestPbSpoilt
  <2>9. ParseFromString(t, a) = [m |-> r.m, ok |-> FALSE]
    BY <1>4, <2>7, <2>8 DEF ParseFromString
  <2> QED
    BY <1>4, <2>9
<1>5. CASE t # "TestPb"
  <2>1. t \in MessageTypes \ {"TestPb"}
    BY <1>5
  <2>2. PICK f : ParseSteps(f, t, a) /\ \A k \in 0 .. Len(a) : f[k] \in States(Msgs(t))
    BY <2>1, ParseRun
  <2>3. Loop(f, t, a, 1, Len(a) + 1) /\ f[0] = ParseStart(New(t), 1)
    BY <1>3, <2>2 DEF ParseSteps, Loop
  <2>4. Reaches(f, a, 1, m, q)
    BY <1>5, <2>3 DEF ReadsAs, OtherReadsAs
  <2> DEFINE z == f[n]
             c == (z.pos = n + 1 /\ z.pos <= n + 1)
             e == ParseEnd(z, a, n + 1)
  <2>5. OtherRefuses(t, s)
    BY <1>1, <1>5 DEF Refuses
  <2>6. Spoilt(t, m, a, z)
    BY <1>1, <1>2, <2>3, <2>4, <2>5 DEF OtherRefuses
  <2>7. n \in 0 .. Len(a)
    BY <1>3
  <2>8. z \in States(Msgs(t))
    BY <2>2, <2>7
  <2>9. ParseFromString(t, a) = Verdict(e)
    BY <2>2 DEF ParseSteps
  <2> HIDE DEF z
  <2>10. z.stop = FALSE /\ (z.ok => z.pos > n + 1) /\ (t = "PushReq" => \E o : z.m.infos = Append(m.infos, o))
    BY <2>6 DEF Spoilt, Overrun
  <2>11. z.pos \in Nat /\ z.ok \in BOOLEAN
    BY <2>8 DEF States, Pos
  <2>12. z.ok => c = FALSE
    BY <1>3, <2>10, <2>11
  <2>13. e = IF z.ok /\ ~z.stop THEN [z EXCEPT !.ok = c] ELSE z
    BY DEF ParseEnd
  <2> HIDE DEF c, e
  <2>14. e.ok = FALSE /\ e.m = z.m
    <3>1. CASE z.ok
      <4>1. e = [z EXCEPT !.ok = FALSE]
        BY <2>10, <2>12, <2>13, <3>1
      <4> QED
        BY <2>8, <4>1 DEF States
    <3>2. CASE ~z.ok
      <4>1. e = z /\ z.ok = FALSE
        BY <2>11, <2>13, <3>2
      <4> QED
        BY <4>1
    <3> QED
      BY <3>1, <3>2
  <2>15. Verdict(e).ok = FALSE /\ Verdict(e).m = z.m
    BY <2>14 DEF Verdict
  <2> QED
    BY <2>9, <2>10, <2>15
<1> QED
  BY <1>4, <1>5

\* A chunk and the rest of the bytes, when the chunk ends between two fields,
Between(t, a, b, m) == \E x, y : Fields(t, a, x) /\ Fields(t, b, y) /\ MergeFrom(t, x, y) = m

\* and wherever it ends.
Splits(t, w, m) ==
  \A a \in Str, b \in Str : w = a \o b =>
    /\ ParseFromString(t, a).ok = FALSE \/ Between(t, a, b, m)
    /\ t = "PushReq" => Agrees(ParseFromString(t, a).m.infos, m.infos)

\* The infos of a push that was built with the accessors, and of one that was read.
LEMMA InfosAre ==
  /\ \A x \in Plain("PushReq") : x.infos \in Seq(oneInfoMsgs)
  /\ \A x \in Plain("PushReq"), y \in Plain("PushReq") : MergeFrom("PushReq", x, y).infos = x.infos \o y.infos
  /\ \A a \in Str : ParseFromString("PushReq", a).m.infos \in Seq(oneInfoMsgs)
<1>1. \A x \in Plain("PushReq") : x.infos \in Seq(oneInfoMsgs)
  <2> SUFFICES ASSUME NEW x \in Plain("PushReq") PROVE x.infos \in Seq(oneInfoMsgs)
    OBVIOUS
  <2>0. x \in PushReqPlain
    BY PlainAre
  <2>1. x.infos \in Seq(oneInfoPlain)
    BY <2>0 DEF PushReqPlain
  <2> QED
    BY <2>1, PlainValues
<1>2. \A x, y : MergeFrom("PushReq", x, y).infos = x.infos \o y.infos
  <2> SUFFICES ASSUME NEW x, NEW y PROVE MergeFrom("PushReq", x, y).infos = x.infos \o y.infos
    OBVIOUS
  <2> DEFINE r == MergeFrom("PushReq", x, y)
             i == x.infos \o y.infos
             k == x.unk \o y.unk
  <2>1. r = PushReq_MergeFrom(x, y)
    BY DEF MergeFrom
  <2>2. PushReq_MergeFrom(x, y) = [infos |-> i, unk |-> k]
    BY DEF PushReq_MergeFrom
  <2> HIDE DEF r, i, k
  <2>3. r.infos = i
    BY <2>1, <2>2
  <2> QED
    BY <2>3 DEF r, i
<1>3. ASSUME NEW a \in Str PROVE ParseFromString("PushReq", a).m.infos \in Seq(oneInfoMsgs)
  <2> DEFINE r == ParseFromString("PushReq", a)
             t == "PushReq"
  <2>1. t \in MessageTypes
    BY DEF MessageTypes
  <2> HIDE DEF t
  <2>2. ParseFromString(t, a) \in Gots(Msgs(t))
    BY <2>1, ParseType
  <2>3. r \in Gots(PushReqMsgs)
    BY <2>2, MsgsAre DEF t
  <2> HIDE DEF r
  <2>4. r.m \in PushReqMsgs
    BY <2>3 DEF Gots
  <2>5. r.m.infos \in Seq(oneInfoMsgs)
    BY <2>4 DEF PushReqMsgs
  <2> QED
    BY <2>5 DEF r
<1> QED
  BY <1>1, <1>2, <1>3

\* No bytes cannot be split.
LEMMA NothingSplits ==
  ASSUME NEW t \in MessageTypes
  PROVE  Splits(t, <<>>, New(t))
<1> DEFINE e == <<>>
<1> SUFFICES ASSUME NEW a \in Str, NEW b \in Str, e = a \o b
             PROVE  /\ Between(t, a, b, New(t))
                    /\ t = "PushReq" => Agrees(ParseFromString(t, a).m.infos, New(t).infos)
  BY DEF Splits
<1>1. a = e /\ b = e
  BY ConcatSimplifications DEF Str
<1>2. Fields(t, e, New(t))
  BY NoFields
<1>3. New(t) \in Plain(t)
  BY NewIsPlain
<1>4. MergeFrom(t, New(t), New(t)) = New(t)
  BY <1>3, MergeSums
<1>5. ReadsAs(t, e, New(t)) /\ e \in Str /\ Len(e) = 0
  BY ReadsNothing, EmptySeq DEF Str
<1> HIDE DEF e
<1>6. Len(e) <= SizeLimit
  BY <1>5 DEF SizeLimit
<1>7. ParseFromString(t, e) = [m |-> New(t), ok |-> TRUE]
  BY <1>5, <1>6, ReadsWhole
<1>8. ParseFromString(t, a).m = New(t)
  <2> DEFINE v == New(t)
             r == ParseFromString(t, a)
  <2>1. r = [m |-> v, ok |-> TRUE]
    BY <1>1, <1>7
  <2> HIDE DEF v, r
  <2>2. r.m = v
    BY <2>1
  <2> QED
    BY <2>2 DEF r, v
<1>9. ASSUME t = "PushReq" PROVE Agrees(New(t).infos, New(t).infos)
  <2>1. New(t).infos \in Seq(oneInfoMsgs)
    BY <1>3, <1>9, InfosAre
  <2>2. Len(New(t).infos) \in Nat
    BY <2>1, LenProperties
  <2> QED
    BY <2>2 DEF Agrees
<1>10. Between(t, a, b, New(t))
  BY <1>1, <1>2, <1>4 DEF Between
<1> QED
  BY <1>8, <1>9, <1>10

\* One field more.
LEMMA OneMoreSplits ==
  ASSUME NEW t \in MessageTypes, NEW w, NEW m, Fields(t, w, m), Splits(t, w, m), NEW u \in Unit(t),
         Len(w \o SerializeToString(t, u)) <= SizeLimit
  PROVE  Splits(t, w \o SerializeToString(t, u), MergeFrom(t, m, u))
<1> DEFINE s == SerializeToString(t, u)
           x == MergeFrom(t, m, u)
<1> SUFFICES ASSUME NEW a \in Str, NEW b \in Str, w \o s = a \o b
             PROVE  /\ ParseFromString(t, a).ok = FALSE \/ Between(t, a, b, x)
                    /\ t = "PushReq" => Agrees(ParseFromString(t, a).m.infos, x.infos)
  BY DEF Splits
<1>1. w \in Str /\ m \in Plain(t) /\ u \in Plain(t)
  BY FieldsType DEF Unit
<1>2. s \in Str
  BY <1>1, PlainBytes
<1>3. Fields(t, w \o s, x)
  BY OneField
<1>4. x \in Plain(t)
  BY <1>1, MergeSums
<1>5. t = "PushReq" => /\ m.infos \in Seq(oneInfoMsgs) /\ u.infos \in Seq(oneInfoMsgs) /\ Len(u.infos) = 1
                       /\ x.infos = m.infos \o u.infos /\ ParseFromString(t, a).m.infos \in Seq(oneInfoMsgs)
                       /\ x.infos \in Seq(oneInfoMsgs)
  <2> SUFFICES ASSUME t = "PushReq"
               PROVE  /\ m.infos \in Seq(oneInfoMsgs) /\ u.infos \in Seq(oneInfoMsgs) /\ Len(u.infos) = 1
                      /\ x.infos = m.infos \o u.infos /\ ParseFromString(t, a).m.infos \in Seq(oneInfoMsgs)
                      /\ x.infos \in Seq(oneInfoMsgs)
    OBVIOUS
  <2>1. Len(u.infos) = 1
    BY DEF Unit
  <2> HIDE DEF x
  <2>2. m.infos \in Seq(oneInfoMsgs) /\ u.infos \in Seq(oneInfoMsgs) /\ x.infos \in Seq(oneInfoMsgs)
    BY <1>1, <1>4, InfosAre
  <2>3. ParseFromString(t, a).m.infos \in Seq(oneInfoMsgs)
    BY InfosAre
  <2>4. x.infos = m.infos \o u.infos
    BY <1>1, InfosAre DEF x
  <2> QED
    BY <2>1, <2>2, <2>3, <2>4
<1>6. Len(w \o s) = Len(w) + Len(s) /\ Len(w) \in Nat /\ Len(s) \in Nat
  BY <1>1, <1>2, StrConcat
<1>7. Len(a \o b) = Len(a) + Len(b) /\ Len(a) \in Nat /\ Len(b) \in Nat
  BY StrConcat
<1>8. Len(a) <= SizeLimit /\ Len(s) <= SizeLimit
  BY <1>6, <1>7 DEF SizeLimit
<1> HIDE DEF x
<1>9. ASSUME NEW c \in Str, w = a \o c, b = c \o s
      PROVE  /\ ParseFromString(t, a).ok = FALSE \/ Between(t, a, b, x)
             /\ t = "PushReq" => Agrees(ParseFromString(t, a).m.infos, x.infos)
  <2>1. /\ ParseFromString(t, a).ok = FALSE \/ Between(t, a, c, m)
        /\ t = "PushReq" => Agrees(ParseFromString(t, a).m.infos, m.infos)
    BY <1>9 DEF Splits
  <2>2. ASSUME Between(t, a, c, m) PROVE Between(t, a, b, x)
    <3>1. PICK y, z : Fields(t, a, y) /\ Fields(t, c, z) /\ MergeFrom(t, y, z) = m
      BY <2>2 DEF Between
    <3>2. Fields(t, c \o s, MergeFrom(t, z, u))
      BY <3>1, OneField
    <3>3. y \in Plain(t) /\ z \in Plain(t)
      BY <3>1, FieldsType
    <3>4. MergeFrom(t, MergeFrom(t, y, z), u) = MergeFrom(t, y, MergeFrom(t, z, u))
      BY <1>1, <3>3, MergeSums
    <3>5. MergeFrom(t, y, MergeFrom(t, z, u)) = x
      BY <3>1, <3>4 DEF x
    <3> QED
      BY <1>9, <3>1, <3>2, <3>5 DEF Between
  <2>3. ASSUME t = "PushReq" PROVE Agrees(ParseFromString(t, a).m.infos, x.infos)
    <3> DEFINE g == ParseFromString(t, a).m.infos
               v == m.infos
               y == u.infos
    <3>1. g \in Seq(oneInfoMsgs) /\ v \in Seq(oneInfoMsgs) /\ y \in Seq(oneInfoMsgs) /\ Agrees(g, v)
      BY <1>5, <2>1, <2>3
    <3> HIDE DEF g, v, y
    <3>2. Agrees(g, v \o y)
      BY <3>1, AgreesThen
    <3> QED
      BY <1>5, <2>3, <3>2 DEF g, v, y
  <2> QED
    BY <2>1, <2>2, <2>3
<1>10. ASSUME b = <<>>, a = w \o s
       PROVE  /\ Between(t, a, b, x)
              /\ t = "PushReq" => Agrees(ParseFromString(t, a).m.infos, x.infos)
  <2>1. Fields(t, a, x) /\ Fields(t, b, New(t))
    BY <1>3, <1>10, NoFields
  <2>2. MergeFrom(t, x, New(t)) = x
    BY <1>4, MergeSums
  <2>3. ReadsAs(t, a, x)
    BY <2>1, FieldsRead
  <2>4. ParseFromString(t, a) = [m |-> x, ok |-> TRUE]
    BY <1>8, <2>3, ReadsWhole
  <2>5. ParseFromString(t, a).m = x
    BY <2>4
  <2>6. t = "PushReq" => Len(x.infos) \in Nat
    BY <1>5, LenProperties
  <2>7. t = "PushReq" => Agrees(x.infos, x.infos)
    BY <2>6 DEF Agrees
  <2>8. Between(t, a, b, x)
    BY <2>1, <2>2 DEF Between
  <2> QED
    BY <2>5, <2>7, <2>8
<1>11. ASSUME At(a, 1, w), 1 + Len(w) <= Len(a), Cut(a, 1 + Len(w), s)
       PROVE  /\ ParseFromString(t, a).ok = FALSE
              /\ t = "PushReq" => Agrees(ParseFromString(t, a).m.infos, x.infos)
  <2>1. ReadsAs(t, w, m)
    BY FieldsRead
  <2>2. /\ ParseFromString(t, a).ok = FALSE
        /\ t = "PushReq" => \E o : ParseFromString(t, a).m.infos = Append(m.infos, o)
    BY <1>1, <1>8, <1>11, <2>1, CutChunk
  <2>3. ASSUME t = "PushReq" PROVE Agrees(ParseFromString(t, a).m.infos, x.infos)
    <3> DEFINE v == m.infos
               y == u.infos
    <3>1. v \in Seq(oneInfoMsgs) /\ y \in Seq(oneInfoMsgs) /\ Len(y) = 1
      BY <1>5, <2>3
    <3>2. PICK o : ParseFromString(t, a).m.infos = Append(v, o)
      BY <2>2, <2>3
    <3> HIDE DEF v, y
    <3>3. Agrees(Append(v, o), v \o y)
      BY <3>1, AgreesThen
    <3>4. x.infos = v \o y
      BY <1>5, <2>3 DEF v, y
    <3> QED
      BY <3>2, <3>3, <3>4
  <2> QED
    BY <2>2, <2>3
<1> HIDE DEF s
<1>12. \/ \E c \in Str : w = a \o c /\ b = c \o s
       \/ At(a, 1, w) /\ 1 + Len(w) <= Len(a) /\ b = <<>> /\ a = w \o s
       \/ At(a, 1, w) /\ 1 + Len(w) <= Len(a) /\ Cut(a, 1 + Len(w), s)
  BY <1>1, <1>2, WhereCut
<1> QED
  BY <1>9, <1>10, <1>11, <1>12

\* So fields can be split anywhere.
LEMMA FieldsSplit ==
  ASSUME NEW t \in MessageTypes, NEW w, NEW m, Fields(t, w, m), Len(w) <= SizeLimit
  PROVE  Splits(t, w, m)
<1> DEFINE Z == {g \in Str \X Plain(t) : Len(g[1]) <= SizeLimit => Splits(t, g[1], g[2])}
<1>1. \A b, z : <<b, z>> \in Z <=> b \in Str /\ z \in Plain(t) /\ (Len(b) <= SizeLimit => Splits(t, b, z))
  OBVIOUS
<1> HIDE DEF Z
<1>2. <<<<>>, New(t)>> \in Z
  BY <1>1, NewIsPlain, PlainValues, NothingSplits
<1>3. ASSUME NEW b, NEW z, NEW u \in Unit(t), Fields(t, b, z), <<b, z>> \in Z
      PROVE  <<b \o SerializeToString(t, u), MergeFrom(t, z, u)>> \in Z
  <2> DEFINE s == SerializeToString(t, u)
  <2>1. b \in Str /\ (Len(b) <= SizeLimit => Splits(t, b, z))
    BY <1>1, <1>3
  <2>2. Fields(t, b \o s, MergeFrom(t, z, u))
    BY <1>3, OneField
  <2>3. b \o s \in Str /\ MergeFrom(t, z, u) \in Plain(t)
    BY <2>2, FieldsType
  <2>4. u \in Plain(t)
    BY DEF Unit
  <2>5. s \in Str
    BY <2>4, PlainBytes
  <2>6. Len(b \o s) = Len(b) + Len(s) /\ Len(b) \in Nat /\ Len(s) \in Nat
    BY <2>1, <2>5, StrConcat
  <2>7. ASSUME Len(b \o s) <= SizeLimit PROVE Splits(t, b \o s, MergeFrom(t, z, u))
    <3>1. Len(b) <= SizeLimit
      BY <2>6, <2>7 DEF SizeLimit
    <3>2. Splits(t, b, z)
      BY <2>1, <3>1
    <3> QED
      BY <1>3, <2>7, <3>2, OneMoreSplits
  <2> QED
    BY <1>1, <2>3, <2>7
<1>4. <<w, m>> \in Z
  BY <1>2, <1>3, FieldsInduction
<1> QED
  BY <1>1, <1>4

-----------------------------------------------------------------------------
(* Every message that accessors build is written as fields.                 *)

\* Fields that are left out.
LEMMA NoElements ==
  /\ \A g : VarintField(g, <<>>) = <<>> /\ BytesField(g, <<>>) = <<>>
  /\ \A g : PackedField(g, <<>>) = <<>>
  /\ JoinSeq(<<>>) = <<>>
<1>1. \A g : VarintField(g, <<>>) = <<>> /\ BytesField(g, <<>>) = <<>>
  BY DEF VarintField, BytesField
<1> DEFINE e == <<>>
<1>2. e \in Seq(Str) /\ e \in Seq(Nat) /\ Len(e) = 0
  BY EmptySeq
<1>3. [i \in DOMAIN e |-> VarintSize(e[i])] = e
  OBVIOUS
<1> HIDE DEF e
<1>4. JoinSeq(e) = <<>>
  <2>1. PICK f : JoinRun(f, e)
    BY <1>2, JoinSteps
  <2> QED
    BY <1>2, <2>1 DEF JoinRun
<1>5. PackedSize(e) = 0
  <2>1. PICK f : SumRun(f, e)
    BY <1>2, SumSteps
  <2>2. SumSeq(e) = 0
    BY <1>2, <2>1 DEF SumRun
  <2> QED
    BY <1>3, <2>2 DEF PackedSize
<1>6. \A g : PackedField(g, e) = <<>>
  BY <1>5 DEF PackedField
<1> QED
  BY <1>1, <1>4, <1>6 DEF e

\* One element.
LEMMA OneElement ==
  ASSUME NEW w \in Str
  PROVE  JoinSeq(<<w>>) = w
<1> DEFINE s == <<w>>
<1>1. s \in Seq(Str) /\ Len(s) = 1 /\ s[1] = w
  OBVIOUS
<1> HIDE DEF s
<1>2. PICK f : JoinRun(f, s)
  BY <1>1, JoinSteps
<1>3. f[0] = <<>> /\ (\A i \in 1 .. 1 : f[i] = f[i - 1] \o s[i]) /\ JoinSeq(s) = f[1]
  BY <1>1, <1>2 DEF JoinRun
<1>4. 1 \in 1 .. 1 /\ 1 - 1 = 0
  OBVIOUS
<1>5. f[1] = <<>> \o w
  BY <1>1, <1>3, <1>4
<1>6. <<>> \o w = w
  BY ConcatEmptySeq DEF Str
<1> QED
  BY <1>3, <1>5, <1>6 DEF s

\* A field of a message that has no repeated messages in it.
LEMMA UnitIs ==
  ASSUME NEW t \in MessageTypes, t # "PushReq", NEW u \in Plain(t), NEW F, SerializeToString(t, u) = F,
         Refuses(t, F)
  PROVE  u \in Unit(t) /\ Fields(t, F, u)
<1>1. u \in Unit(t)
  BY DEF Unit
<1> QED
  BY <1>1, UnitFields

\* The elements of a repeated field.
LEMMA RepeatedFields ==
  ASSUME NEW t \in MessageTypes, NEW s \in Seq(Str), NEW u, NEW acc, acc[0] = New(t),
         \A i \in 1 .. Len(s) : /\ u[i] \in Unit(t) /\ SerializeToString(t, u[i]) = s[i]
                                /\ MergeFrom(t, acc[i - 1], u[i]) = acc[i]
  PROVE  Fields(t, JoinSeq(s), acc[Len(s)])
<1> DEFINE n == Len(s)
<1>1. n \in Nat
  BY LenProperties
<1>2. PICK f : JoinRun(f, s)
  BY JoinSteps
<1>3. f[0] = <<>> /\ (\A i \in 1 .. n : f[i] = f[i - 1] \o s[i]) /\ JoinSeq(s) = f[n]
  BY <1>2 DEF JoinRun
<1> DEFINE Z == {i \in 0 .. n : Fields(t, f[i], acc[i])}
<1>4. 0 \in Z /\ 0 \in Nat
  <2>1. Fields(t, f[0], acc[0])
    BY <1>3, NoFields
  <2> QED
    BY <1>1, <2>1
<1>5. ASSUME NEW i \in 0 .. n - 1, i \in Z PROVE i + 1 \in Z
  <2> DEFINE j == i + 1
  <2>1. j \in 1 .. n /\ j \in 0 .. n /\ j - 1 = i
    BY <1>1
  <2>2. Fields(t, f[i], acc[i])
    BY <1>5
  <2> HIDE DEF j
  <2>3. u[j] \in Unit(t) /\ SerializeToString(t, u[j]) = s[j] /\ MergeFrom(t, acc[i], u[j]) = acc[j]
    BY <2>1
  <2>4. Fields(t, f[i] \o SerializeToString(t, u[j]), MergeFrom(t, acc[i], u[j]))
    BY <2>2, <2>3, OneField
  <2>5. f[j] = f[i] \o s[j]
    BY <1>3, <2>1
  <2>6. Fields(t, f[j], acc[j])
    BY <2>3, <2>4, <2>5
  <2> QED
    BY <2>1, <2>6 DEF j
<1> HIDE DEF Z, n
<1>6. \A i \in 0 .. n : i \in Z
  BY <1>1, <1>4, <1>5, UpTo
<1>7. Fields(t, f[n], acc[n])
  BY <1>1, <1>6 DEF Z
<1> QED
  BY <1>3, <1>7 DEF n

\* The digits of a bool.
LEMMA BoolDigits == \A d \in Bools : d \in Digits64
<1>1. <<1>> \in Str /\ <<>> \in Digits64
  BY TagsAre, PlainValues
<1>2. <<1>> \in Digits64
  BY <1>1 DEF Digits64, Shortest
<1> QED
  BY <1>1, <1>2 DEF Bools

\* A message of type oneInfo is written as its fields.
LEMMA oneInfoFields ==
  ASSUME NEW x \in Plain("oneInfo")
  PROVE  Fields("oneInfo", SerializeToString("oneInfo", x), x)
<1> DEFINE t == "oneInfo"
           e == <<>>
           a1 == x.key
           a2 == x.data
           W1(a) == VarintField(<<8>>, a)
           W2(a) == BytesField(<<18>>, a)
           F1 == W1(a1)
           F2 == W2(a2)
           u1 == [key |-> a1, data |-> e, unk |-> e]
           u2 == [key |-> e, data |-> a2, unk |-> e]
<1>1. a1 \in Digits64 /\ a2 \in Str /\ x = [key |-> a1, data |-> a2, unk |-> e]
  <2>1. x \in oneInfoPlain
    BY PlainAre
  <2> QED
    BY <2>1 DEF oneInfoPlain
<1>2. t \in MessageTypes /\ t # "PushReq"
  BY DEF MessageTypes
<1>3. a1 \in Digits64 /\ a2 \in Str
  <2>1. (\A d \in Digits32 : d \in Digits64) /\ (\A d \in DigitsInt32 : d \in Digits64) /\ \A d \in Utf8 : d \in Str
    BY ValuesAre
  <2>2. \A d \in Bools : d \in Digits64
    BY BoolDigits
  <2> HIDE DEF a1, a2
  <2> QED
    BY <1>1, <2>1, <2>2
<1>4. F1 \in Str /\ F2 \in Str
  <2> HIDE DEF a1, a2
  <2>1. F1 \in Str
    <3>1. a1 \in Str
      BY <1>3, Digits64Are
    <3> QED
      BY <3>1, TagsAre, FieldSizes
  <2>2. F2 \in Str
    <3>1. a2 \in Str
      BY <1>3, Digits64Are
    <3> QED
      BY <3>1, TagsAre, FieldSizes
  <2> QED
    BY <2>1, <2>2
<1>5. \A b1, b2 : SerializeToString(t, [key |-> b1, data |-> b2, unk |-> e]) = ((W1(b1) \o W2(b2)) \o e)
  BY DEF SerializeToString, InternalSerialize, oneInfo_InternalSerialize
<1>6. W1(e) = e /\ W2(e) = e
  BY NoElements
<1>7. e \in Str /\ \A w \in Str : w \o e = w /\ e \o w = w
  BY PlainValues, ConcatEmptySeq DEF Str
<1>8. Refuses(t, F1) /\ Refuses(t, F2)
  <2> HIDE DEF a1, a2
  <2> QED
    BY <1>3, oneInfoRefuses DEF Refuses
<1>9. u1 \in Plain(t) /\ u2 \in Plain(t)
  <2>1. e \in Digits64 /\ e \in Str /\ e \in DigitsInt32 /\ e \in Utf8
    BY PlainValues
  <2>2. \A V : e \in Seq(V)
    BY EmptySeq
  <2> HIDE DEF a1, a2
  <2>3. u1 \in oneInfoPlain /\ u2 \in oneInfoPlain
    BY <1>1, <2>1, <2>2 DEF oneInfoPlain, e
  <2> QED
    BY <2>3, PlainAre
<1>10. \A b1, c1, b2, c2 : MergeFrom(t, [key |-> b1, data |-> b2, unk |-> e], [key |-> c1, data |-> c2, unk |-> e]) =
         [key |-> Newer(b1, c1), data |-> Newer(b2, c2), unk |-> e]
  <2>1. e \o e = e
    BY <1>7
  <2> QED
    BY <2>1 DEF MergeFrom, oneInfo_MergeFrom
<1>11. \A b : Newer(b, e) = b /\ Newer(e, b) = b
  BY NewerAre
<1> HIDE DEF e, a1, F1, W1, a2, F2, W2
<1>12. MergeFrom(t, u1, u2) = x
  BY <1>1, <1>10, <1>11
<1>13. SerializeToString(t, u1) = F1
  <2>1. SerializeToString(t, u1) = ((F1 \o e) \o e)
    BY <1>5, <1>6 DEF F1
  <2> QED
    BY <1>4, <1>7, <2>1
<1>14. SerializeToString(t, u2) = F2
  <2>1. SerializeToString(t, u2) = ((e \o F2) \o e)
    BY <1>5, <1>6 DEF F2
  <2> QED
    BY <1>4, <1>7, <2>1
<1>15. SerializeToString(t, x) = (F1 \o F2)
  <2> DEFINE c == (F1 \o F2)
  <2>1. SerializeToString(t, x) = c \o e
    BY <1>1, <1>5 DEF F1, F2
  <2>2. c \in Str
    BY <1>4, StrConcat
  <2> HIDE DEF c
  <2>3. SerializeToString(t, x) = c
    BY <1>7, <2>1, <2>2
  <2> QED
    BY <2>3 DEF c
<1> HIDE DEF t, u1, u2
<1>16. Fields(t, F1, u1)
  BY <1>2, <1>8, <1>9, <1>13, UnitIs
<1>17. Fields(t, F2, u2)
  BY <1>2, <1>8, <1>9, <1>14, UnitIs
<1>18. Fields(t, F1 \o F2, MergeFrom(t, u1, u2))
  BY <1>2, <1>16, <1>17, FieldsConcat
<1> QED
  BY <1>12, <1>15, <1>18 DEF t

\* A message of type PushRsp is written as its fields.
LEMMA PushRspFields ==
  ASSUME NEW x \in Plain("PushRsp")
  PROVE  Fields("PushRsp", SerializeToString("PushRsp", x), x)
<1> DEFINE t == "PushRsp"
           e == <<>>
           a1 == x.errCode
           a2 == x.errDesc
           W1(a) == VarintField(<<8>>, a)
           W2(a) == BytesField(<<18>>, a)
           F1 == W1(a1)
           F2 == W2(a2)
           u1 == [errCode |-> a1, errDesc |-> e, unk |-> e]
           u2 == [errCode |-> e, errDesc |-> a2, unk |-> e]
<1>1. a1 \in DigitsInt32 /\ a2 \in Utf8 /\ x = [errCode |-> a1, errDesc |-> a2, unk |-> e]
  <2>1. x \in PushRspPlain
    BY PlainAre
  <2> QED
    BY <2>1 DEF PushRspPlain
<1>2. t \in MessageTypes /\ t # "PushReq"
  BY DEF MessageTypes
<1>3. a1 \in Digits64 /\ a2 \in Str
  <2>1. (\A d \in Digits32 : d \in Digits64) /\ (\A d \in DigitsInt32 : d \in Digits64) /\ \A d \in Utf8 : d \in Str
    BY ValuesAre
  <2>2. \A d \in Bools : d \in Digits64
    BY BoolDigits
  <2> HIDE DEF a1, a2
  <2> QED
    BY <1>1, <2>1, <2>2
<1>4. F1 \in Str /\ F2 \in Str
  <2> HIDE DEF a1, a2
  <2>1. F1 \in Str
    <3>1. a1 \in Str
      BY <1>3, Digits64Are
    <3> QED
      BY <3>1, TagsAre, FieldSizes
  <2>2. F2 \in Str
    <3>1. a2 \in Str
      BY <1>3, Digits64Are
    <3> QED
      BY <3>1, TagsAre, FieldSizes
  <2> QED
    BY <2>1, <2>2
<1>5. \A b1, b2 : SerializeToString(t, [errCode |-> b1, errDesc |-> b2, unk |-> e]) = ((W1(b1) \o W2(b2)) \o e)
  BY DEF SerializeToString, InternalSerialize, PushRsp_InternalSerialize
<1>6. W1(e) = e /\ W2(e) = e
  BY NoElements
<1>7. e \in Str /\ \A w \in Str : w \o e = w /\ e \o w = w
  BY PlainValues, ConcatEmptySeq DEF Str
<1>8. Refuses(t, F1) /\ Refuses(t, F2)
  <2> HIDE DEF a1, a2
  <2> QED
    BY <1>3, PushRspRefuses DEF Refuses
<1>9. u1 \in Plain(t) /\ u2 \in Plain(t)
  <2>1. e \in Digits64 /\ e \in Str /\ e \in DigitsInt32 /\ e \in Utf8
    BY PlainValues
  <2>2. \A V : e \in Seq(V)
    BY EmptySeq
  <2> HIDE DEF a1, a2
  <2>3. u1 \in PushRspPlain /\ u2 \in PushRspPlain
    BY <1>1, <2>1, <2>2 DEF PushRspPlain, e
  <2> QED
    BY <2>3, PlainAre
<1>10. \A b1, c1, b2, c2 : MergeFrom(t, [errCode |-> b1, errDesc |-> b2, unk |-> e], [errCode |-> c1, errDesc |-> c2, unk |-> e]) =
         [errCode |-> Newer(b1, c1), errDesc |-> Newer(b2, c2), unk |-> e]
  <2>1. e \o e = e
    BY <1>7
  <2> QED
    BY <2>1 DEF MergeFrom, PushRsp_MergeFrom
<1>11. \A b : Newer(b, e) = b /\ Newer(e, b) = b
  BY NewerAre
<1> HIDE DEF e, a1, F1, W1, a2, F2, W2
<1>12. MergeFrom(t, u1, u2) = x
  BY <1>1, <1>10, <1>11
<1>13. SerializeToString(t, u1) = F1
  <2>1. SerializeToString(t, u1) = ((F1 \o e) \o e)
    BY <1>5, <1>6 DEF F1
  <2> QED
    BY <1>4, <1>7, <2>1
<1>14. SerializeToString(t, u2) = F2
  <2>1. SerializeToString(t, u2) = ((e \o F2) \o e)
    BY <1>5, <1>6 DEF F2
  <2> QED
    BY <1>4, <1>7, <2>1
<1>15. SerializeToString(t, x) = (F1 \o F2)
  <2> DEFINE c == (F1 \o F2)
  <2>1. SerializeToString(t, x) = c \o e
    BY <1>1, <1>5 DEF F1, F2
  <2>2. c \in Str
    BY <1>4, StrConcat
  <2> HIDE DEF c
  <2>3. SerializeToString(t, x) = c
    BY <1>7, <2>1, <2>2
  <2> QED
    BY <2>3 DEF c
<1> HIDE DEF t, u1, u2
<1>16. Fields(t, F1, u1)
  BY <1>2, <1>8, <1>9, <1>13, UnitIs
<1>17. Fields(t, F2, u2)
  BY <1>2, <1>8, <1>9, <1>14, UnitIs
<1>18. Fields(t, F1 \o F2, MergeFrom(t, u1, u2))
  BY <1>2, <1>16, <1>17, FieldsConcat
<1> QED
  BY <1>12, <1>15, <1>18 DEF t

\* A message of type PullReq is written as its fields.
LEMMA PullReqFields ==
  ASSUME NEW x \in Plain("PullReq")
  PROVE  Fields("PullReq", SerializeToString("PullReq", x), x)
<1> DEFINE t == "PullReq"
           e == <<>>
           a1 == x.keys
           a2 == x.field
           W1(a) == PackedField(10, a)
           W2(a) == PackedField(18, a)
           F1 == W1(a1)
           F2 == W2(a2)
           u1 == [keys |-> a1, field |-> e, unk |-> e]
           u2 == [keys |-> e, field |-> a2, unk |-> e]
<1>1. a1 \in Seq(Digits64) /\ a2 \in Seq(Digits32) /\ x = [keys |-> a1, field |-> a2, unk |-> e]
  <2>1. x \in PullReqPlain
    BY PlainAre
  <2> QED
    BY <2>1 DEF PullReqPlain
<1>2. t \in MessageTypes /\ t # "PushReq"
  BY DEF MessageTypes
<1>3. a1 \in Seq(Digits64) /\ a2 \in Seq(Digits64)
  <2>1. (\A d \in Digits32 : d \in Digits64) /\ (\A d \in DigitsInt32 : d \in Digits64) /\ \A d \in Utf8 : d \in Str
    BY ValuesAre
  <2>2. \A d \in Bools : d \in Digits64
    BY BoolDigits
  <2> HIDE DEF a1, a2
  <2> QED
    BY <1>1, <2>1, <2>2
<1>4. F1 \in Str /\ F2 \in Str
  <2> HIDE DEF a1, a2
  <2>1. F1 \in Str
    BY <1>3, PackedFieldBytes
  <2>2. F2 \in Str
    BY <1>3, PackedFieldBytes
  <2> QED
    BY <2>1, <2>2
<1>5. \A b1, b2 : SerializeToString(t, [keys |-> b1, field |-> b2, unk |-> e]) = ((W1(b1) \o W2(b2)) \o e)
  BY DEF SerializeToString, InternalSerialize, PullReq_InternalSerialize, PackedField
<1>6. W1(e) = e /\ W2(e) = e
  BY NoElements
<1>7. e \in Str /\ \A w \in Str : w \o e = w /\ e \o w = w
  BY PlainValues, ConcatEmptySeq DEF Str
<1>8. Refuses(t, F1) /\ Refuses(t, F2)
  <2> HIDE DEF a1, a2
  <2> QED
    BY <1>3, PullReqRefuses DEF Refuses
<1>9. u1 \in Plain(t) /\ u2 \in Plain(t)
  <2>1. e \in Digits64 /\ e \in Str /\ e \in DigitsInt32 /\ e \in Utf8
    BY PlainValues
  <2>2. \A V : e \in Seq(V)
    BY EmptySeq
  <2> HIDE DEF a1, a2
  <2>3. u1 \in PullReqPlain /\ u2 \in PullReqPlain
    BY <1>1, <2>1, <2>2 DEF PullReqPlain, e
  <2> QED
    BY <2>3, PlainAre
<1>10. \A b1, c1, b2, c2 : MergeFrom(t, [keys |-> b1, field |-> b2, unk |-> e], [keys |-> c1, field |-> c2, unk |-> e]) =
         [keys |-> b1 \o c1, field |-> b2 \o c2, unk |-> e]
  <2>1. e \o e = e
    BY <1>7
  <2> QED
    BY <2>1 DEF MergeFrom, PullReq_MergeFrom
<1>11. a1 \o e = a1 /\ e \o a1 = a1 /\ a2 \o e = a2 /\ e \o a2 = a2
  BY <1>1, ConcatEmptySeq
<1> HIDE DEF e, a1, F1, W1, a2, F2, W2
<1>12. MergeFrom(t, u1, u2) = x
  <2>1. MergeFrom(t, [keys |-> a1, field |-> e, unk |-> e], [keys |-> e, field |-> a2, unk |-> e])
          = [keys |-> a1 \o e, field |-> e \o a2, unk |-> e]
    BY ONLY <1>10
  <2> QED
    BY <1>1, <1>11, <2>1
<1>13. SerializeToString(t, u1) = F1
  <2>1. SerializeToString(t, u1) = ((F1 \o e) \o e)
    BY <1>5, <1>6 DEF F1
  <2> QED
    BY <1>4, <1>7, <2>1
<1>14. SerializeToString(t, u2) = F2
  <2>1. SerializeToString(t, u2) = ((e \o F2) \o e)
    BY <1>5, <1>6 DEF F2
  <2> QED
    BY <1>4, <1>7, <2>1
<1>15. SerializeToString(t, x) = (F1 \o F2)
  <2> DEFINE c == (F1 \o F2)
  <2>1. SerializeToString(t, x) = c \o e
    BY <1>1, <1>5 DEF F1, F2
  <2>2. c \in Str
    BY <1>4, StrConcat
  <2> HIDE DEF c
  <2>3. SerializeToString(t, x) = c
    BY <1>7, <2>1, <2>2
  <2> QED
    BY <2>3 DEF c
<1> HIDE DEF t, u1, u2
<1>16. Fields(t, F1, u1)
  BY <1>2, <1>8, <1>9, <1>13, UnitIs
<1>17. Fields(t, F2, u2)
  BY <1>2, <1>8, <1>9, <1>14, UnitIs
<1>18. Fields(t, F1 \o F2, MergeFrom(t, u1, u2))
  BY <1>2, <1>16, <1>17, FieldsConcat
<1> QED
  BY <1>12, <1>15, <1>18 DEF t

\* A message of type DelCacheReq is written as its fields.
LEMMA DelCacheReqFields ==
  ASSUME NEW x \in Plain("DelCacheReq")
  PROVE  Fields("DelCacheReq", SerializeToString("DelCacheReq", x), x)
<1> DEFINE t == "DelCacheReq"
           e == <<>>
           a1 == x.key
           W1(a) == VarintField(<<8>>, a)
           F1 == W1(a1)
<1>1. a1 \in Digits64 /\ x = [key |-> a1, unk |-> e]
  <2>1. x \in DelCacheReqPlain
    BY PlainAre
  <2> QED
    BY <2>1 DEF DelCacheReqPlain
<1>2. t \in MessageTypes /\ t # "PushReq"
  BY DEF MessageTypes
<1>3. a1 \in Digits64
  <2>1. (\A d \in Digits32 : d \in Digits64) /\ (\A d \in DigitsInt32 : d \in Digits64) /\ \A d \in Utf8 : d \in Str
    BY ValuesAre
  <2>2. \A d \in Bools : d \in Digits64
    BY BoolDigits
  <2> HIDE DEF a1
  <2> QED
    BY <1>1, <2>1, <2>2
<1>4. F1 \in Str
  <2> HIDE DEF a1
  <2>1. F1 \in Str
    <3>1. a1 \in Str
      BY <1>3, Digits64Are
    <3> QED
      BY <3>1, TagsAre, FieldSizes
  <2> QED
    BY <2>1
<1>5. \A b1 : SerializeToString(t, [key |-> b1, unk |-> e]) = (W1(b1) \o e)
  BY DEF SerializeToString, InternalSerialize, DelCacheReq_InternalSerialize
<1>6. W1(e) = e
  BY NoElements
<1>7. e \in Str /\ \A w \in Str : w \o e = w /\ e \o w = w
  BY PlainValues, ConcatEmptySeq DEF Str
<1>8. Refuses(t, F1)
  <2> HIDE DEF a1
  <2> QED
    BY <1>3, DelCacheReqRefuses DEF Refuses
<1> HIDE DEF e, F1, W1, a1
<1>9. SerializeToString(t, x) = F1 \o e
  BY <1>1, <1>5 DEF F1
<1>10. SerializeToString(t, x) = F1
  BY <1>4, <1>7, <1>9
<1>11. x \in Plain(t)
  OBVIOUS
<1> HIDE DEF t
<1>12. Fields(t, F1, x)
  BY <1>2, <1>8, <1>10, <1>11, UnitIs
<1> QED
  BY <1>10, <1>12 DEF t

\* A message of type DelCacheRsp is written as its fields.
LEMMA DelCacheRspFields ==
  ASSUME NEW x \in Plain("DelCacheRsp")
  PROVE  Fields("DelCacheRsp", SerializeToString("DelCacheRsp", x), x)
<1> DEFINE t == "DelCacheRsp"
           e == <<>>
           a1 == x.succ
           W1(a) == VarintField(<<8>>, a)
           F1 == W1(a1)
<1>1. a1 \in Bools /\ x = [succ |-> a1, unk |-> e]
  <2>1. x \in DelCacheRspPlain
    BY PlainAre
  <2> QED
    BY <2>1 DEF DelCacheRspPlain
<1>2. t \in MessageTypes /\ t # "PushReq"
  BY DEF MessageTypes
<1>3. a1 \in Digits64
  <2>1. (\A d \in Digits32 : d \in Digits64) /\ (\A d \in DigitsInt32 : d \in Digits64) /\ \A d \in Utf8 : d \in Str
    BY ValuesAre
  <2>2. \A d \in Bools : d \in Digits64
    BY BoolDigits
  <2> HIDE DEF a1
  <2> QED
    BY <1>1, <2>1, <2>2
<1>4. F1 \in Str
  <2> HIDE DEF a1
  <2>1. F1 \in Str
    <3>1. a1 \in Str
      BY <1>3, Digits64Are
    <3> QED
      BY <3>1, TagsAre, FieldSizes
  <2> QED
    BY <2>1
<1>5. \A b1 : SerializeToString(t, [succ |-> b1, unk |-> e]) = (W1(b1) \o e)
  BY DEF SerializeToString, InternalSerialize, DelCacheRsp_InternalSerialize
<1>6. W1(e) = e
  BY NoElements
<1>7. e \in Str /\ \A w \in Str : w \o e = w /\ e \o w = w
  BY PlainValues, ConcatEmptySeq DEF Str
<1>8. Refuses(t, F1)
  <2> HIDE DEF a1
  <2> QED
    BY <1>3, DelCacheRspRefuses DEF Refuses
<1> HIDE DEF e, F1, W1, a1
<1>9. SerializeToString(t, x) = F1 \o e
  BY <1>1, <1>5 DEF F1
<1>10. SerializeToString(t, x) = F1
  BY <1>4, <1>7, <1>9
<1>11. x \in Plain(t)
  OBVIOUS
<1> HIDE DEF t
<1>12. Fields(t, F1, x)
  BY <1>2, <1>8, <1>10, <1>11, UnitIs
<1> QED
  BY <1>10, <1>12 DEF t

\* A message of type HelloRequest is written as its fields.
LEMMA HelloRequestFields ==
  ASSUME NEW x \in Plain("HelloRequest")
  PROVE  Fields("HelloRequest", SerializeToString("HelloRequest", x), x)
<1> DEFINE t == "HelloRequest"
           e == <<>>
           a1 == x.name
           W1(a) == BytesField(<<10>>, a)
           F1 == W1(a1)
<1>1. a1 \in Utf8 /\ x = [name |-> a1, unk |-> e]
  <2>1. x \in HelloRequestPlain
    BY PlainAre
  <2> QED
    BY <2>1 DEF HelloRequestPlain
<1>2. t \in MessageTypes /\ t # "PushReq"
  BY DEF MessageTypes
<1>3. a1 \in Str
  <2>1. (\A d \in Digits32 : d \in Digits64) /\ (\A d \in DigitsInt32 : d \in Digits64) /\ \A d \in Utf8 : d \in Str
    BY ValuesAre
  <2>2. \A d \in Bools : d \in Digits64
    BY BoolDigits
  <2> HIDE DEF a1
  <2> QED
    BY <1>1, <2>1, <2>2
<1>4. F1 \in Str
  <2> HIDE DEF a1
  <2>1. F1 \in Str
    <3>1. a1 \in Str
      BY <1>3, Digits64Are
    <3> QED
      BY <3>1, TagsAre, FieldSizes
  <2> QED
    BY <2>1
<1>5. \A b1 : SerializeToString(t, [name |-> b1, unk |-> e]) = (W1(b1) \o e)
  BY DEF SerializeToString, InternalSerialize, HelloRequest_InternalSerialize
<1>6. W1(e) = e
  BY NoElements
<1>7. e \in Str /\ \A w \in Str : w \o e = w /\ e \o w = w
  BY PlainValues, ConcatEmptySeq DEF Str
<1>8. Refuses(t, F1)
  <2> HIDE DEF a1
  <2> QED
    BY <1>3, HelloRequestRefuses DEF Refuses
<1> HIDE DEF e, F1, W1, a1
<1>9. SerializeToString(t, x) = F1 \o e
  BY <1>1, <1>5 DEF F1
<1>10. SerializeToString(t, x) = F1
  BY <1>4, <1>7, <1>9
<1>11. x \in Plain(t)
  OBVIOUS
<1> HIDE DEF t
<1>12. Fields(t, F1, x)
  BY <1>2, <1>8, <1>10, <1>11, UnitIs
<1> QED
  BY <1>10, <1>12 DEF t

\* A message of type HelloReply is written as its fields.
LEMMA HelloReplyFields ==
  ASSUME NEW x \in Plain("HelloReply")
  PROVE  Fields("HelloReply", SerializeToString("HelloReply", x), x)
<1> DEFINE t == "HelloReply"
           e == <<>>
           a1 == x.message
           W1(a) == BytesField(<<10>>, a)
           F1 == W1(a1)
<1>1. a1 \in Utf8 /\ x = [message |-> a1, unk |-> e]
  <2>1. x \in HelloReplyPlain
    BY PlainAre
  <2> QED
    BY <2>1 DEF HelloReplyPlain
<1>2. t \in MessageTypes /\ t # "PushReq"
  BY DEF MessageTypes
<1>3. a1 \in Str
  <2>1. (\A d \in Digits32 : d \in Digits64) /\ (\A d \in DigitsInt32 : d \in Digits64) /\ \A d \in Utf8 : d \in Str
    BY ValuesAre
  <2>2. \A d \in Bools : d \in Digits64
    BY BoolDigits
  <2> HIDE DEF a1
  <2> QED
    BY <1>1, <2>1, <2>2
<1>4. F1 \in Str
  <2> HIDE DEF a1
  <2>1. F1 \in Str
    <3>1. a1 \in Str
      BY <1>3, Digits64Are
    <3> QED
      BY <3>1, TagsAre, FieldSizes
  <2> QED
    BY <2>1
<1>5. \A b1 : SerializeToString(t, [message |-> b1, unk |-> e]) = (W1(b1) \o e)
  BY DEF SerializeToString, InternalSerialize, HelloReply_InternalSerialize
<1>6. W1(e) = e
  BY NoElements
<1>7. e \in Str /\ \A w \in Str : w \o e = w /\ e \o w = w
  BY PlainValues, ConcatEmptySeq DEF Str
<1>8. Refuses(t, F1)
  <2> HIDE DEF a1
  <2> QED
    BY <1>3, HelloReplyRefuses DEF Refuses
<1> HIDE DEF e, F1, W1, a1
<1>9. SerializeToString(t, x) = F1 \o e
  BY <1>1, <1>5 DEF F1
<1>10. SerializeToString(t, x) = F1
  BY <1>4, <1>7, <1>9
<1>11. x \in Plain(t)
  OBVIOUS
<1> HIDE DEF t
<1>12. Fields(t, F1, x)
  BY <1>2, <1>8, <1>10, <1>11, UnitIs
<1> QED
  BY <1>10, <1>12 DEF t

\* A message of type TestPb is written as its fields.
LEMMA TestPbFields ==
  ASSUME NEW x \in Plain("TestPb")
  PROVE  Fields("TestPb", SerializeToString("TestPb", x), x)
<1> DEFINE t == "TestPb"
           e == <<>>
           a1 == x.sence
           a2 == x.page
           a3 == x.tablename
           W1(a) == BytesField(<<10>>, a)
           W2(a) == VarintField(<<16>>, a)
           W3(a) == BytesField(TableNameTag, a)
           F1 == W1(a1)
           F2 == W2(a2)
           F3 == W3(a3)
           u1 == [sence |-> a1, page |-> e, tablename |-> e, unk |-> e]
           u2 == [sence |-> e, page |-> a2, tablename |-> e, unk |-> e]
           u3 == [sence |-> e, page |-> e, tablename |-> a3, unk |-> e]
<1>1. a1 \in Utf8 /\ a2 \in DigitsInt32 /\ a3 \in Utf8 /\ x = [sence |-> a1, page |-> a2, tablename |-> a3, unk |-> e]
  <2>1. x \in TestPbPlain
    BY PlainAre
  <2> QED
    BY <2>1 DEF TestPbPlain
<1>2. t \in MessageTypes /\ t # "PushReq"
  BY DEF MessageTypes
<1>3. a1 \in Str /\ a2 \in Digits64 /\ a3 \in Str
  <2>1. (\A d \in Digits32 : d \in Digits64) /\ (\A d \in DigitsInt32 : d \in Digits64) /\ \A d \in Utf8 : d \in Str
    BY ValuesAre
  <2>2. \A d \in Bools : d \in Digits64
    BY BoolDigits
  <2> HIDE DEF a1, a2, a3
  <2> QED
    BY <1>1, <2>1, <2>2
<1>4. F1 \in Str /\ F2 \in Str /\ F3 \in Str
  <2> HIDE DEF a1, a2, a3
  <2>1. F1 \in Str
    <3>1. a1 \in Str
      BY <1>3, Digits64Are
    <3> QED
      BY <3>1, TagsAre, FieldSizes
  <2>2. F2 \in Str
    <3>1. a2 \in Str
      BY <1>3, Digits64Are
    <3> QED
      BY <3>1, TagsAre, FieldSizes
  <2>3. F3 \in Str
    <3>1. a3 \in Str
      BY <1>3, Digits64Are
    <3> QED
      BY <3>1, TagsAre, FieldSizes
  <2> QED
    BY <2>1, <2>2, <2>3
<1>5. \A b1, b2, b3 : SerializeToString(t, [sence |-> b1, page |-> b2, tablename |-> b3, unk |-> e]) = (((W1(b1) \o W2(b2)) \o W3(b3)) \o e)
  BY DEF SerializeToString, InternalSerialize, TestPb_SerializeWithCachedSizes
<1>6. W1(e) = e /\ W2(e) = e /\ W3(e) = e
  BY NoElements
<1>7. e \in Str /\ \A w \in Str : w \o e = w /\ e \o w = w
  BY PlainValues, ConcatEmptySeq DEF Str
<1>8. Refuses(t, F1) /\ Refuses(t, F2) /\ Refuses(t, F3)
  <2> HIDE DEF a1, a2, a3
  <2> QED
    BY <1>3, TestPbFieldsRefused DEF Refuses
<1>9. u1 \in Plain(t) /\ u2 \in Plain(t) /\ u3 \in Plain(t)
  <2>1. e \in Digits64 /\ e \in Str /\ e \in DigitsInt32 /\ e \in Utf8
    BY PlainValues
  <2>2. \A V : e \in Seq(V)
    BY EmptySeq
  <2> HIDE DEF a1, a2, a3
  <2>3. u1 \in TestPbPlain /\ u2 \in TestPbPlain /\ u3 \in TestPbPlain
    BY <1>1, <2>1, <2>2 DEF TestPbPlain, e
  <2> QED
    BY <2>3, PlainAre
<1>10. \A b1, c1, b2, c2, b3, c3 : MergeFrom(t, [sence |-> b1, page |-> b2, tablename |-> b3, unk |-> e], [sence |-> c1, page |-> c2, tablename |-> c3, unk |-> e]) =
         [sence |-> Newer(b1, c1), page |-> Newer(b2, c2), tablename |-> Newer(b3, c3), unk |-> e]
  <2>1. e \o e = e
    BY <1>7
  <2> QED
    BY <2>1 DEF MergeFrom, TestPb_MergeFrom
<1>11. \A b : Newer(b, e) = b /\ Newer(e, b) = b
  BY NewerAre
<1> HIDE DEF e, a1, F1, W1, a2, F2, W2, a3, F3, W3
<1> DEFINE m2 == [sence |-> a1, page |-> a2, tablename |-> e, unk |-> e]
<1>12. MergeFrom(t, u1, u2) = m2 /\ MergeFrom(t, m2, u3) = x
  BY <1>1, <1>10, <1>11
<1>13. SerializeToString(t, u1) = F1
  <2>1. SerializeToString(t, u1) = (((F1 \o e) \o e) \o e)
    <3>1. SerializeToString(t, [sence |-> a1, page |-> e, tablename |-> e, unk |-> e])
            = (((W1(a1) \o W2(e)) \o W3(e)) \o e)
      BY ONLY <1>5
    <3>2. W1(a1) = F1
      BY DEF F1
    <3> QED
      BY <1>6, <3>1, <3>2
  <2> QED
    BY <1>4, <1>7, <2>1
<1>14. SerializeToString(t, u2) = F2
  <2>1. SerializeToString(t, u2) = (((e \o F2) \o e) \o e)
    <3>1. SerializeToString(t, [sence |-> e, page |-> a2, tablename |-> e, unk |-> e])
            = (((W1(e) \o W2(a2)) \o W3(e)) \o e)
      BY ONLY <1>5
    <3>2. W2(a2) = F2
      BY DEF F2
    <3> QED
      BY <1>6, <3>1, <3>2
  <2> QED
    BY <1>4, <1>7, <2>1
<1>15. SerializeToString(t, u3) = F3
  <2>1. SerializeToString(t, u3) = (((e \o e) \o F3) \o e)
    <3>1. SerializeToString(t, [sence |-> e, page |-> e, tablename |-> a3, unk |-> e])
            = (((W1(e) \o W2(e)) \o W3(a3)) \o e)
      BY ONLY <1>5
    <3>2. W3(a3) = F3
      BY DEF F3
    <3> QED
      BY <1>6, <3>1, <3>2
  <2> QED
    BY <1>4, <1>7, <2>1
<1>16. SerializeToString(t, x) = ((F1 \o F2) \o F3)
  <2> DEFINE c == ((F1 \o F2) \o F3)
  <2>1. SerializeToString(t, x) = c \o e
    BY <1>1, <1>5 DEF F1, F2, F3
  <2>2. c \in Str
    BY <1>4, StrConcat
  <2> HIDE DEF c
  <2>3. SerializeToString(t, x) = c
    BY <1>7, <2>1, <2>2
  <2> QED
    BY <2>3 DEF c
<1> HIDE DEF t, u1, u2, u3, m2
<1>17. Fields(t, F1, u1)
  BY <1>2, <1>8, <1>9, <1>13, UnitIs
<1>18. Fields(t, F2, u2)
  BY <1>2, <1>8, <1>9, <1>14, UnitIs
<1>19. Fields(t, F3, u3)
  BY <1>2, <1>8, <1>9, <1>15, UnitIs
<1>20. Fields(t, F1 \o F2, MergeFrom(t, u1, u2))
  BY <1>2, <1>17, <1>18, FieldsConcat
<1>21. Fields(t, F1 \o F2, m2)
  BY <1>12, <1>20
<1>22. Fields(t, (F1 \o F2) \o F3, MergeFrom(t, m2, u3))
  BY <1>2, <1>21, <1>19, FieldsConcat
<1> QED
  BY <1>12, <1>16, <1>22 DEF t

\* A push of one info.
LEMMA OneInfo ==
  ASSUME NEW o \in oneInfoPlain
  PROVE  /\ InfoField(o) \in Str
         /\ SerializeToString("PushReq", [infos |-> <<o>>, unk |-> <<>>]) = InfoField(o)
         /\ [infos |-> <<o>>, unk |-> <<>>] \in Unit("PushReq")
<1> DEFINE t == "PushReq"
           e == <<>>
           v == <<o>>
           u == [infos |-> v, unk |-> e]
           F == InfoField(o)
           B(a) == <<10>> \o WriteVarint(Digits(oneInfo_ByteSizeLong(a))) \o oneInfo_InternalSerialize(a)
           s == [i \in DOMAIN v |-> B(v[i])]
<1>1. v \in Seq(oneInfoPlain) /\ Len(v) = 1 /\ v[1] = o /\ DOMAIN v = 1 .. 1
  OBVIOUS
<1>2. F \in Str /\ B(o) = F
  BY InfoBytes DEF InfoField
<1>3. SerializeToString(t, u) = JoinSeq(s) \o e
  BY DEF SerializeToString, InternalSerialize, PushReq_InternalSerialize
<1>4. s = <<F>>
  <2> HIDE DEF F, B, v
  <2>1. s = [i \in 1 .. 1 |-> F]
    BY <1>1, <1>2
  <2> QED
    BY <2>1
<1>5. JoinSeq(s) = F
  <2> HIDE DEF F, s
  <2> QED
    BY <1>2, <1>4, OneElement
<1>6. F \o e = F
  <2> HIDE DEF F
  <2> QED
    BY <1>2, ConcatEmptySeq DEF Str
<1>7. SerializeToString(t, u) = F
  BY <1>3, <1>5, <1>6
<1>8. u \in Plain(t)
  BY <1>1, PlainAre DEF PushReqPlain
<1>9. Refuses(t, F)
  <2>1. oneInfo_InternalSerialize(o) \in Str
    BY oneInfoPlainAre
  <2>2. OtherRefuses("PushReq", WriteBytes(<<10>>, oneInfo_InternalSerialize(o)))
    BY <2>1, InfoRefused
  <2> QED
    BY <2>2 DEF Refuses, InfoField
<1>10. Len(u.infos) = 1
  BY <1>1
<1>11. u \in Unit(t)
  <2> HIDE DEF t, F, u
  <2> QED
    BY <1>7, <1>8, <1>9, <1>10 DEF Unit
<1> QED
  BY <1>2, <1>7, <1>11

\* A message of type PushReq is written as its infos.
LEMMA PushReqFields ==
  ASSUME NEW x \in Plain("PushReq")
  PROVE  Fields("PushReq", SerializeToString("PushReq", x), x)
<1> DEFINE t == "PushReq"
           e == <<>>
           v == x.infos
           n == Len(v)
           B(a) == <<10>> \o WriteVarint(Digits(oneInfo_ByteSizeLong(a))) \o oneInfo_InternalSerialize(a)
           s == [i \in DOMAIN v |-> B(v[i])]
           u == [i \in 1 .. n |-> [infos |-> <<v[i]>>, unk |-> e]]
           acc == [i \in 0 .. n |-> [infos |-> Prefix(v, i), unk |-> e]]
<1>1. v \in Seq(oneInfoPlain) /\ x = [infos |-> v, unk |-> e]
  <2>1. x \in PushReqPlain
    BY PlainAre
  <2> QED
    BY <2>1 DEF PushReqPlain
<1>2. t \in MessageTypes /\ New(t) = [infos |-> e, unk |-> e]
  BY DEF MessageTypes, New, PushReq_New
<1>3. SerializeToString(t, [infos |-> v, unk |-> e]) = JoinSeq(s) \o e
  BY DEF SerializeToString, InternalSerialize, PushReq_InternalSerialize
<1>4. \A a, b : MergeFrom(t, [infos |-> a, unk |-> e], [infos |-> b, unk |-> e]) = [infos |-> a \o b, unk |-> e]
  <2>1. e \o e = e
    BY PlainValues, ConcatEmptySeq DEF Str
  <2> QED
    BY <2>1 DEF MergeFrom, PushReq_MergeFrom
<1> HIDE DEF v, e
<1>5. n \in Nat /\ DOMAIN v = 1 .. n /\ \A i \in 1 .. n : v[i] \in oneInfoPlain
  BY <1>1, LenProperties, ElementOfSeq
<1>6. \A a \in oneInfoPlain : B(a) = InfoField(a)
  BY InfoBytes DEF InfoField
<1>7. \A i \in 1 .. n : s[i] = InfoField(v[i]) /\ s[i] \in Str
  <2> SUFFICES ASSUME NEW i \in 1 .. n PROVE s[i] = InfoField(v[i]) /\ s[i] \in Str
    OBVIOUS
  <2>1. v[i] \in oneInfoPlain /\ i \in DOMAIN v
    BY <1>5
  <2> HIDE DEF B, n
  <2>2. s[i] = InfoField(v[i])
    BY <1>6, <2>1
  <2>3. InfoField(v[i]) \in Str
    BY <2>1, OneInfo
  <2> QED
    BY <2>2, <2>3
<1>8. s \in Seq(Str) /\ Len(s) = n
  <2>1. s = [i \in 1 .. n |-> s[i]]
    BY <1>5
  <2> HIDE DEF s, n
  <2> QED
    BY <1>5, <1>7, <2>1
<1>9. \A i \in 1 .. n : u[i] = [infos |-> <<v[i]>>, unk |-> e]
  OBVIOUS
<1>10. \A i \in 0 .. n : acc[i] = [infos |-> Prefix(v, i), unk |-> e]
  OBVIOUS
<1>11. /\ Prefix(v, 0) = e /\ Prefix(v, n) = v
       /\ \A i \in 1 .. n : Prefix(v, i - 1) \in Seq(oneInfoPlain) /\ Prefix(v, i) = Append(Prefix(v, i - 1), v[i])
  <2>1. \A i \in 1 .. n : i - 1 \in 0 .. n
    BY <1>5
  <2> HIDE DEF n
  <2> QED
    BY <1>1, <2>1, PrefixSteps DEF e, n
<1>12. acc[0] = New(t) /\ acc[n] = x
  <2>1. 0 \in 0 .. n /\ n \in 0 .. n
    BY <1>5
  <2> HIDE DEF acc, n
  <2> QED
    BY <1>1, <1>2, <1>10, <1>11, <2>1
<1> HIDE DEF t, u, acc, s, n
<1>13. ASSUME NEW i \in 1 .. n
       PROVE  u[i] \in Unit(t) /\ SerializeToString(t, u[i]) = s[i] /\ MergeFrom(t, acc[i - 1], u[i]) = acc[i]
  <2>1. v[i] \in oneInfoPlain /\ i - 1 \in 0 .. n /\ i \in 0 .. n
    BY <1>5
  <2>2. u[i] \in Unit(t) /\ SerializeToString(t, u[i]) = InfoField(v[i])
    BY <1>9, <2>1, OneInfo DEF t, e
  <2>3. acc[i - 1] = [infos |-> Prefix(v, i - 1), unk |-> e] /\ acc[i] = [infos |-> Prefix(v, i), unk |-> e]
    BY <1>10, <2>1
  <2>4. Prefix(v, i - 1) \o <<v[i]>> = Prefix(v, i)
    <3> DEFINE p == Prefix(v, i - 1)
    <3>1. p \in Seq(oneInfoPlain) /\ Prefix(v, i) = Append(p, v[i])
      BY <1>11
    <3> HIDE DEF p
    <3>2. p \o <<v[i]>> = Append(p, v[i])
      BY <2>1, <3>1, AppendIsConcat
    <3> QED
      BY <3>1, <3>2 DEF p
  <2>5. MergeFrom(t, acc[i - 1], u[i]) = acc[i]
    BY <1>4, <1>9, <2>3, <2>4
  <2> QED
    BY <1>7, <2>2, <2>5
<1>14. Fields(t, JoinSeq(s), acc[Len(s)])
  BY <1>2, <1>8, <1>12, <1>13, RepeatedFields
<1>15. JoinSeq(s) \o e = JoinSeq(s)
  <2>1. JoinSeq(s) \in Str
    BY <1>2, <1>14, FieldsType
  <2> QED
    BY <2>1, ConcatEmptySeq DEF Str, e
<1> QED
  BY <1>1, <1>3, <1>8, <1>12, <1>14, <1>15 DEF t

\* A message of type PullRsp is written as its fields.
LEMMA PullRspFields ==
  ASSUME NEW x \in Plain("PullRsp")
  PROVE  Fields("PullRsp", SerializeToString("PullRsp", x), x)
<1> DEFINE t == "PullRsp"
           e == <<>>
           a1 == x.errCode
           a2 == x.errDesc
           v == x.data
           n == Len(v)
           W1(a) == VarintField(<<8>>, a)
           W2(a) == BytesField(<<18>>, a)
           B(a) == WriteBytes(<<26>>, a)
           W3(a) == JoinSeq([i \in DOMAIN a |-> B(a[i])])
           s == [i \in DOMAIN v |-> B(v[i])]
           F1 == W1(a1)
           F2 == W2(a2)
           F3 == JoinSeq(s)
           R(b1, b2, b3) == [errCode |-> b1, errDesc |-> b2, data |-> b3, unk |-> e]
           u1 == R(a1, e, e)
           u2 == R(e, a2, e)
           u3 == R(e, e, v)
           m2 == R(a1, a2, e)
           u == [i \in 1 .. n |-> R(e, e, <<v[i]>>)]
           acc == [i \in 0 .. n |-> R(e, e, Prefix(v, i))]
<1>1. a1 \in DigitsInt32 /\ a2 \in Utf8 /\ v \in Seq(Str) /\ x = R(a1, a2, v)
  <2>1. x \in PullRspPlain
    BY PlainAre
  <2> QED
    BY <2>1 DEF PullRspPlain
<1>2. t \in MessageTypes /\ t # "PushReq" /\ New(t) = R(e, e, e)
  BY DEF MessageTypes, New, PullRsp_New
<1>3. a1 \in Digits64 /\ a2 \in Str
  <2>1. (\A d \in DigitsInt32 : d \in Digits64) /\ \A d \in Utf8 : d \in Str
    BY ValuesAre
  <2> HIDE DEF a1, a2
  <2> QED
    BY <1>1, <2>1
<1>4. F1 \in Str /\ F2 \in Str
  <2> HIDE DEF a1, a2
  <2>1. F1 \in Str
    <3>1. a1 \in Str
      BY <1>3, Digits64Are
    <3> QED
      BY <3>1, TagsAre, FieldSizes
  <2>2. F2 \in Str
    BY <1>3, TagsAre, FieldSizes
  <2> QED
    BY <2>1, <2>2
<1>5. \A b1, b2, b3 : SerializeToString(t, R(b1, b2, b3)) = (((W1(b1) \o W2(b2)) \o W3(b3)) \o e)
  BY DEF SerializeToString, InternalSerialize, PullRsp_InternalSerialize
<1>6. W1(e) = e /\ W2(e) = e /\ W3(e) = e
  <2>1. [i \in DOMAIN e |-> B(e[i])] = e
    OBVIOUS
  <2>2. W1(e) = e /\ W2(e) = e /\ JoinSeq(e) = e
    BY NoElements
  <2> QED
    BY <2>1, <2>2
<1>7. e \in Str /\ \A w \in Str : w \o e = w /\ e \o w = w
  BY PlainValues, ConcatEmptySeq DEF Str
<1>8. Refuses(t, F1) /\ Refuses(t, F2) /\ \A w \in Str : Refuses(t, B(w))
  <2> HIDE DEF a1, a2
  <2> QED
    BY <1>3, PullRspRefuses DEF Refuses
<1>9. /\ u1 \in Plain(t) /\ u2 \in Plain(t)
      /\ \A w \in Str : R(e, e, <<w>>) \in Plain(t)
  <2>1. e \in DigitsInt32 /\ e \in Utf8
    BY PlainValues
  <2>2. \A V : e \in Seq(V)
    BY EmptySeq
  <2>3. \A w \in Str : <<w>> \in Seq(Str)
    OBVIOUS
  <2> HIDE DEF a1, a2
  <2>4. u1 \in PullRspPlain /\ u2 \in PullRspPlain
    BY <1>1, <2>1, <2>2 DEF PullRspPlain, e
  <2>5. \A w \in Str : R(e, e, <<w>>) \in PullRspPlain
    BY <2>1, <2>3 DEF PullRspPlain, e
  <2> QED
    BY <2>4, <2>5, PlainAre
<1>10. \A b1, c1, b2, c2, b3, c3 : MergeFrom(t, R(b1, b2, b3), R(c1, c2, c3)) = R(Newer(b1, c1), Newer(b2, c2), b3 \o c3)
  <2>1. e \o e = e
    BY <1>7
  <2> QED
    BY <2>1 DEF MergeFrom, PullRsp_MergeFrom
<1>11. \A b : Newer(b, e) = b /\ Newer(e, b) = b
  BY NewerAre
<1>12. e \o e = e /\ e \o v = v
  BY <1>1, <1>7, ConcatEmptySeq
<1>13. W3(v) = F3
  OBVIOUS
<1>14. \A w \in Str : B(w) \in Str /\ W3(<<w>>) = B(w)
  <2> SUFFICES ASSUME NEW w \in Str PROVE B(w) \in Str /\ W3(<<w>>) = B(w)
    OBVIOUS
  <2>1. B(w) \in Str
    BY TagsAre, WriteBytesSize
  <2>2. [i \in DOMAIN <<w>> |-> B((<<w>>)[i])] = <<B(w)>>
    <3> HIDE DEF B
    <3> QED
      OBVIOUS
  <2> HIDE DEF B
  <2> QED
    BY <2>1, <2>2, OneElement
<1> HIDE DEF e, v, a1, a2, W1, W2, W3, B, R, F3
<1>15. n \in Nat /\ DOMAIN v = 1 .. n /\ \A i \in 1 .. n : v[i] \in Str
  BY <1>1, LenProperties, ElementOfSeq
<1>16. \A i \in 1 .. n : s[i] = B(v[i]) /\ s[i] \in Str
  BY <1>14, <1>15
<1>17. s \in Seq(Str) /\ Len(s) = n
  <2>1. s = [i \in 1 .. n |-> s[i]]
    BY <1>15
  <2> HIDE DEF s, n
  <2> QED
    BY <1>15, <1>16, <2>1
<1>18. (\A i \in 1 .. n : u[i] = R(e, e, <<v[i]>>)) /\ \A i \in 0 .. n : acc[i] = R(e, e, Prefix(v, i))
  OBVIOUS
<1>19. /\ Prefix(v, 0) = e /\ Prefix(v, n) = v
       /\ \A i \in 1 .. n : Prefix(v, i - 1) \in Seq(Str) /\ Prefix(v, i) = Append(Prefix(v, i - 1), v[i])
  <2>1. \A i \in 1 .. n : i - 1 \in 0 .. n
    BY <1>15
  <2> HIDE DEF n
  <2> QED
    BY <1>1, <2>1, PrefixSteps DEF e, n
<1>20. acc[0] = New(t) /\ acc[n] = u3
  <2>1. 0 \in 0 .. n /\ n \in 0 .. n
    BY <1>15
  <2> HIDE DEF acc, n
  <2> QED
    BY <1>2, <1>18, <1>19, <2>1
<1>21. \A w \in Str : SerializeToString(t, R(e, e, <<w>>)) = B(w)
  <2> SUFFICES ASSUME NEW w \in Str PROVE SerializeToString(t, R(e, e, <<w>>)) = B(w)
    OBVIOUS
  <2>1. SerializeToString(t, R(e, e, <<w>>)) = (((W1(e) \o W2(e)) \o W3(<<w>>)) \o e)
    BY ONLY <1>5
  <2>2. SerializeToString(t, R(e, e, <<w>>)) = (((e \o e) \o B(w)) \o e)
    BY <1>6, <1>14, <2>1
  <2> QED
    BY <1>7, <1>14, <2>2
<1>22. \A w \in Str : R(e, e, <<w>>) \in Unit(t)
  BY <1>2, <1>8, <1>9, <1>21 DEF Unit
<1>23. SerializeToString(t, u1) = F1 /\ SerializeToString(t, u2) = F2
  <2>1. SerializeToString(t, R(a1, e, e)) = (((W1(a1) \o W2(e)) \o W3(e)) \o e)
    BY ONLY <1>5
  <2>2. SerializeToString(t, R(e, a2, e)) = (((W1(e) \o W2(a2)) \o W3(e)) \o e)
    BY ONLY <1>5
  <2>3. SerializeToString(t, u1) = (((F1 \o e) \o e) \o e) /\ SerializeToString(t, u2) = (((e \o F2) \o e) \o e)
    BY <1>6, <2>1, <2>2
  <2> HIDE DEF F1, F2, u1, u2
  <2> QED
    BY <1>4, <1>7, <2>3
<1>24. MergeFrom(t, u1, u2) = m2 /\ MergeFrom(t, m2, u3) = x
  <2>1. MergeFrom(t, u1, u2) = R(Newer(a1, e), Newer(e, a2), e \o e)
    BY ONLY <1>10
  <2>2. MergeFrom(t, m2, u3) = R(Newer(a1, e), Newer(a2, e), e \o v)
    BY ONLY <1>10
  <2> QED
    BY <1>1, <1>11, <1>12, <2>1, <2>2
<1>25. SerializeToString(t, x) = ((F1 \o F2) \o F3) \o e
  BY <1>1, <1>5, <1>13
<1> HIDE DEF t, F1, F2, s, n, u, acc, u1, u2, u3, m2
<1>26. ASSUME NEW i \in 1 .. n
       PROVE  u[i] \in Unit(t) /\ SerializeToString(t, u[i]) = s[i] /\ MergeFrom(t, acc[i - 1], u[i]) = acc[i]
  <2>1. v[i] \in Str /\ i - 1 \in 0 .. n /\ i \in 0 .. n
    BY <1>15
  <2>2. u[i] \in Unit(t) /\ SerializeToString(t, u[i]) = B(v[i])
    BY <1>18, <1>21, <1>22, <2>1
  <2>3. acc[i - 1] = R(e, e, Prefix(v, i - 1)) /\ acc[i] = R(e, e, Prefix(v, i))
    BY <1>18, <2>1
  <2>4. Prefix(v, i - 1) \o <<v[i]>> = Prefix(v, i)
    <3> DEFINE p == Prefix(v, i - 1)
    <3>1. p \in Seq(Str) /\ Prefix(v, i) = Append(p, v[i])
      BY <1>19
    <3> HIDE DEF p
    <3>2. p \o <<v[i]>> = Append(p, v[i])
      BY <2>1, <3>1, AppendIsConcat
    <3> QED
      BY <3>1, <3>2 DEF p
  <2>5. MergeFrom(t, R(e, e, Prefix(v, i - 1)), R(e, e, <<v[i]>>)) = R(Newer(e, e), Newer(e, e), Prefix(v, i - 1) \o <<v[i]>>)
    BY ONLY <1>10
  <2>6. MergeFrom(t, acc[i - 1], u[i]) = acc[i]
    BY <1>11, <1>18, <2>3, <2>4, <2>5
  <2> QED
    BY <1>16, <2>2, <2>6
<1>27. Fields(t, JoinSeq(s), acc[Len(s)])
  BY <1>2, <1>17, <1>20, <1>26, RepeatedFields
<1>28. Fields(t, F3, u3)
  BY <1>17, <1>20, <1>27 DEF F3
<1>29. Fields(t, F1, u1) /\ Fields(t, F2, u2)
  BY <1>2, <1>8, <1>9, <1>23, UnitIs
<1>30. Fields(t, F1 \o F2, MergeFrom(t, u1, u2))
  BY <1>2, <1>29, FieldsConcat
<1>31. Fields(t, F1 \o F2, m2)
  BY <1>24, <1>30
<1>32. Fields(t, (F1 \o F2) \o F3, MergeFrom(t, m2, u3))
  BY <1>2, <1>28, <1>31, FieldsConcat
<1>33. ((F1 \o F2) \o F3) \o e = (F1 \o F2) \o F3
  <2>1. (F1 \o F2) \o F3 \in Str
    BY <1>2, <1>32, FieldsType
  <2> QED
    BY <1>7, <2>1
<1> QED
  BY <1>24, <1>25, <1>32, <1>33 DEF t

\* A message that accessors build is written as fields that merge to it.
LEMMA WrittenAsFields ==
  ASSUME NEW t \in MessageTypes, NEW x \in Plain(t)
  PROVE  Fields(t, SerializeToString(t, x), x)
<1>1. \/ t = "oneInfo" \/ t = "PushReq" \/ t = "PushRsp" \/ t = "PullReq" \/ t = "PullRsp"
      \/ t = "DelCacheReq" \/ t = "DelCacheRsp" \/ t = "HelloRequest" \/ t = "HelloReply" \/ t = "TestPb"
  BY DEF MessageTypes
<1>2. CASE t = "oneInfo"
  BY <1>2, oneInfoFields
<1>3. CASE t = "PushReq"
  BY <1>3, PushReqFields
<1>4. CASE t = "PushRsp"
  BY <1>4, PushRspFields
<1>5. CASE t = "PullReq"
  BY <1>5, PullReqFields
<1>6. CASE t = "PullRsp"
  BY <1>6, PullRspFields
<1>7. CASE t = "DelCacheReq"
  BY <1>7, DelCacheReqFields
<1>8. CASE t = "DelCacheRsp"
  BY <1>8, DelCacheRspFields
<1>9. CASE t = "HelloRequest"
  BY <1>9, HelloRequestFields
<1>10. CASE t = "HelloReply"
  BY <1>10, HelloReplyFields
<1>11. CASE t = "TestPb"
  BY <1>11, TestPbFields
<1> QED
  BY <1>1, <1>2, <1>3, <1>4, <1>5, <1>6, <1>7, <1>8, <1>9, <1>10, <1>11

-----------------------------------------------------------------------------
(* What is on the wire while every chunk is accepted.                       *)

\* The bytes w are fields that complete the message u to m,
Completes(t, w, u, m) ==
  /\ u \in Plain(t) /\ w \in Str /\ Len(w) < SizeLimit
  /\ \E y : Fields(t, w, y) /\ MergeFrom(t, u, y) = m
\* or they do so but for a zero byte at the end.
NulCompletes(t, b, u, m) == \E w : b = Append(w, 0) /\ Completes(t, w, u, m)
Ahead(t, how, b, u, m) == IF how = "nul" THEN NulCompletes(t, b, u, m) ELSE Completes(t, b, u, m)

\* No bytes are no fields.
LEMMA NoBytes ==
  ASSUME NEW t \in MessageTypes, NEW y, Fields(t, <<>>, y)
  PROVE  y = New(t)
<1> DEFINE e == <<>>
<1>1. e \in Str /\ Len(e) <= SizeLimit
  BY EmptySeq DEF Str, SizeLimit
<1>2. ReadsAs(t, e, y) /\ ReadsAs(t, e, New(t))
  BY FieldsRead, ReadsNothing
<1> HIDE DEF e
<1>3. ParseFromString(t, e) = [m |-> y, ok |-> TRUE]
  BY <1>1, <1>2, ReadsWhole
<1>4. ParseFromString(t, e) = [m |-> New(t), ok |-> TRUE]
  BY <1>1, <1>2, ReadsWhole
<1> QED
  BY <1>3, <1>4

\* A chunk of plain fields that is accepted.
LEMMA ChunkCompletes ==
  ASSUME NEW t \in MessageTypes, NEW a \in Str, NEW b \in Str, NEW u, NEW m, Completes(t, a \o b, u, m)
  PROVE  /\ ParseFromString(t, a).ok = TRUE => Completes(t, b, MergeFrom(t, u, ParseFromString(t, a).m), m)
         /\ t = "PushReq" /\ u = New(t) => Agrees(ParseFromString(t, a).m.infos, m.infos)
<1> DEFINE w == a \o b
           p == ParseFromString(t, a)
<1>1. u \in Plain(t) /\ w \in Str /\ Len(w) < SizeLimit
  BY DEF Completes
<1>2. PICK y : Fields(t, w, y) /\ MergeFrom(t, u, y) = m
  BY DEF Completes
<1>3. Len(a) \in Nat /\ Len(b) \in Nat /\ Len(w) = Len(a) + Len(b) /\ SizeLimit \in Nat
  <2> DEFINE S == Nat
  <2>1. a \in Seq(S) /\ b \in Seq(S)
    BY DEF Str
  <2> HIDE DEF S
  <2>2. Len(a) \in Nat /\ Len(b) \in Nat /\ Len(w) = Len(a) + Len(b)
    BY <2>1, LenProperties, ConcatProperties
  <2> QED
    BY <2>2 DEF SizeLimit
<1> HIDE DEF p, w
<1>4. Len(w) <= SizeLimit /\ Len(a) <= SizeLimit /\ Len(b) < SizeLimit
  BY <1>1, <1>3
<1>5. Splits(t, w, y)
  BY <1>2, <1>4, FieldsSplit
<1>6. /\ p.ok = FALSE \/ Between(t, a, b, y)
      /\ t = "PushReq" => Agrees(p.m.infos, y.infos)
  BY <1>5 DEF Splits, w, p
<1>7. y \in Plain(t)
  BY <1>2, FieldsType
<1>8. ASSUME p.ok = TRUE PROVE Completes(t, b, MergeFrom(t, u, p.m), m)
  <2>1. Between(t, a, b, y)
    BY <1>6, <1>8
  <2>2. PICK x, z : Fields(t, a, x) /\ Fields(t, b, z) /\ MergeFrom(t, x, z) = y
    BY <2>1 DEF Between
  <2>3. x \in Plain(t) /\ z \in Plain(t) /\ ReadsAs(t, a, x)
    BY <2>2, FieldsType, FieldsRead
  <2>4. p = [m |-> x, ok |-> TRUE]
    BY <1>4, <2>3, ReadsWhole DEF p
  <2>5. p.m = x
    BY <2>4
  <2>6. MergeFrom(t, u, x) \in Plain(t) /\ MergeFrom(t, MergeFrom(t, u, x), z) = MergeFrom(t, u, MergeFrom(t, x, z))
    BY <1>1, <2>3, MergeSums
  <2> DEFINE v == MergeFrom(t, u, x)
  <2>7. v \in Plain(t) /\ MergeFrom(t, v, z) = m
    BY <1>2, <2>2, <2>6
  <2> HIDE DEF v
  <2>8. Completes(t, b, v, m)
    BY <1>4, <2>2, <2>7 DEF Completes
  <2> QED
    BY <2>5, <2>8 DEF v
<1>9. ASSUME t = "PushReq", u = New(t) PROVE Agrees(p.m.infos, m.infos)
  <2>1. MergeFrom(t, New(t), y) = y
    BY <1>7, MergeSums
  <2>2. m = y
    BY <1>2, <1>9, <2>1
  <2> QED
    BY <1>6, <1>9, <2>2
<1> QED
  BY <1>8, <1>9 DEF p

\* A chunk of fields with a zero byte after them.
LEMMA NulChunkCompletes ==
  ASSUME NEW t \in MessageTypes, NEW a \in Str, NEW b \in Str, NEW u, NEW m, NulCompletes(t, a \o b, u, m)
  PROVE  /\ ParseFromString(t, a).ok = TRUE => NulCompletes(t, b, MergeFrom(t, u, ParseFromString(t, a).m), m)
         /\ t = "PushReq" /\ u = New(t) => Agrees(ParseFromString(t, a).m.infos, m.infos)
<1> DEFINE o == <<0>>
           p == ParseFromString(t, a)
<1>1. PICK w : a \o b = Append(w, 0) /\ Completes(t, w, u, m)
  BY DEF NulCompletes
<1>2. w \in Str /\ u \in Plain(t) /\ Len(w) < SizeLimit
  BY <1>1 DEF Completes
<1>3. o \in Str /\ Len(o) = 1
  BY TagsAre
<1>4. \A c \in Str : Append(c, 0) = c \o o
  <2> SUFFICES ASSUME NEW c \in Str PROVE Append(c, 0) = c \o o
    OBVIOUS
  <2>1. c \in Seq(Nat) /\ 0 \in Nat
    BY DEF Str
  <2> QED
    BY <2>1, AppendIsConcat
<1>5. w \o o = a \o b
  BY <1>1, <1>2, <1>4
<1> HIDE DEF o, p
<1>6. \/ \E c \in Str : w = a \o c /\ b = c \o o
      \/ At(a, 1, w) /\ 1 + Len(w) <= Len(a) /\ b = <<>> /\ a = w \o o
      \/ At(a, 1, w) /\ 1 + Len(w) <= Len(a) /\ Cut(a, 1 + Len(w), o)
  BY <1>2, <1>3, <1>5, WhereCut
<1>7. ASSUME NEW c \in Str, w = a \o c, b = c \o o
      PROVE  /\ p.ok = TRUE => NulCompletes(t, b, MergeFrom(t, u, p.m), m)
             /\ t = "PushReq" /\ u = New(t) => Agrees(p.m.infos, m.infos)
  <2>1. Completes(t, a \o c, u, m)
    BY <1>1, <1>7
  <2>2. /\ p.ok = TRUE => Completes(t, c, MergeFrom(t, u, p.m), m)
        /\ t = "PushReq" /\ u = New(t) => Agrees(p.m.infos, m.infos)
    BY <2>1, ChunkCompletes DEF p
  <2>3. b = Append(c, 0)
    BY <1>4, <1>7
  <2> QED
    BY <2>2, <2>3 DEF NulCompletes
<1>8. ASSUME a = w \o o
      PROVE  /\ p.ok = TRUE => NulCompletes(t, b, MergeFrom(t, u, p.m), m)
             /\ t = "PushReq" /\ u = New(t) => Agrees(p.m.infos, m.infos)
  <2>1. PICK y : Fields(t, w, y) /\ MergeFrom(t, u, y) = m
    BY <1>1 DEF Completes
  <2>2. y \in Plain(t) /\ ReadsAs(t, w, y)
    BY <2>1, FieldsType, FieldsRead
  <2>3. ParseFromString(t, Append(w, 0)) = [m |-> y, ok |-> FALSE]
    BY <1>2, <2>2, ReadsNul
  <2>4. p = [m |-> y, ok |-> FALSE]
    BY <1>2, <1>4, <1>8, <2>3 DEF p
  <2>5. p.m = y /\ p.ok = FALSE
    BY <2>4
  <2>6. ASSUME t = "PushReq", u = New(t) PROVE Agrees(y.infos, m.infos)
    <3>1. MergeFrom(t, New(t), y) = y
      BY <2>2, MergeSums
    <3>2. m = y
      BY <2>1, <2>6, <3>1
    <3>3. y.infos \in Seq(oneInfoMsgs)
      BY <2>2, <2>6, InfosAre
    <3>4. Len(y.infos) \in Nat
      BY <3>3, LenProperties
    <3> QED
      BY <3>2, <3>4 DEF Agrees
  <2> QED
    BY <2>5, <2>6
<1>9. ~Cut(a, 1 + Len(w), o) \/ ~(1 + Len(w) <= Len(a))
  <2>1. Len(w) \in Nat /\ Len(a) \in Nat
    BY <1>2, LenProperties DEF Str
  <2> QED
    BY <1>3, <2>1 DEF Cut
<1> QED
  BY <1>6, <1>7, <1>8, <1>9 DEF p

\* A chunk.
LEMMA ChunkAhead ==
  ASSUME NEW t \in MessageTypes, NEW how, NEW a \in Str, NEW b \in Str, NEW u, NEW m, Ahead(t, how, a \o b, u, m)
  PROVE  /\ ParseFromString(t, a).ok = TRUE => Ahead(t, how, b, MergeFrom(t, u, ParseFromString(t, a).m), m)
         /\ t = "PushReq" /\ u = New(t) => Agrees(ParseFromString(t, a).m.infos, m.infos)
<1>1. CASE how = "nul"
  <2>1. NulCompletes(t, a \o b, u, m)
    BY <1>1 DEF Ahead
  <2> QED
    BY <1>1, <2>1, NulChunkCompletes DEF Ahead
<1>2. CASE how # "nul"
  <2>1. Completes(t, a \o b, u, m)
    BY <1>2 DEF Ahead
  <2> QED
    BY <1>2, <2>1, ChunkCompletes DEF Ahead
<1> QED
  BY <1>1, <1>2

\* The infos of a chunk but the last are a beginning of those sent.
LEMMA AgreesIsPrefix ==
  ASSUME NEW S, NEW c \in Seq(S), NEW v \in Seq(S), Agrees(c, v)
  PROVE  Len(c) <= Len(v) /\ (c # <<>> => IsPrefix(Front(c), v))
<1> DEFINE n == Len(c)
           k == n - 1
           f == SubSeq(c, 1, k)
           h == SubSeq(v, 1, k)
<1>1. n \in Nat /\ Len(v) \in Nat /\ n <= Len(v)
  BY LenProperties DEF Agrees
<1>2. \A i \in 1 .. k : c[i] = v[i]
  BY DEF Agrees
<1> SUFFICES ASSUME c # <<>> PROVE IsPrefix(Front(c), v)
  BY <1>1
<1>3. n # 0
  BY EmptySeq
<1>4. (\A i \in 1 .. n : c[i] \in S) /\ \A i \in 1 .. Len(v) : v[i] \in S
  BY ElementOfSeq
<1> HIDE DEF n
<1>5. k \in Nat /\ k <= n /\ k <= Len(v) /\ 1 \in Int /\ k \in Int
  BY <1>1, <1>3
<1> HIDE DEF k
<1>6. (\A i \in 1 .. k : c[i] \in S) /\ \A i \in 1 .. k : v[i] \in S
  BY <1>1, <1>4, <1>5
<1>7. f \in Seq(S) /\ Len(f) = (IF 1 <= k THEN k - 1 + 1 ELSE 0) /\ \A i \in 1 .. k - 1 + 1 : f[i] = c[1 + i - 1]
  BY <1>5, <1>6, SubSeqProperties
<1>8. h \in Seq(S) /\ Len(h) = (IF 1 <= k THEN k - 1 + 1 ELSE 0) /\ \A i \in 1 .. k - 1 + 1 : h[i] = v[1 + i - 1]
  BY <1>5, <1>6, SubSeqProperties
<1> HIDE DEF f, h
<1>9. Len(f) = k /\ Len(h) = k
  BY <1>5, <1>7, <1>8
<1>10. \A i \in 1 .. Len(f) : f[i] = h[i]
  <2> SUFFICES ASSUME NEW i \in 1 .. k PROVE f[i] = h[i]
    BY <1>9
  <2>1. i \in 1 .. k - 1 + 1 /\ 1 + i - 1 = i
    BY <1>5
  <2> QED
    BY <1>2, <1>7, <1>8, <2>1
<1>11. f = h
  BY <1>7, <1>8, <1>9, <1>10, SeqEqual
<1>12. SubSeq(f, 1, Len(f)) = f
  BY <1>7, SubSeqFull
<1>13. Front(c) = f
  BY DEF Front, f, k, n
<1>14. Len(f) <= Len(v) /\ SubSeq(f, 1, Len(f)) = SubSeq(v, 1, Len(f))
  BY <1>5, <1>9, <1>11, <1>12 DEF h
<1> QED
  BY <1>13, <1>14 DEF IsPrefix

\* The messages of the chunks, and that every chunk was accepted.
ReadFrom(g) == [i \in DOMAIN g |-> g[i].m]
Accepted(g) == \A i \in DOMAIN g : g[i].ok

\* One chunk more.
LEMMA OneMoreRead ==
  ASSUME NEW M, NEW g \in Seq(Gots(M)), NEW p \in Gots(M)
  PROVE  /\ ReadFrom(g) \in Seq(M)
         /\ ReadFrom(Append(g, p)) = Append(ReadFrom(g), p.m)
         /\ Accepted(Append(g, p)) => p.ok = TRUE /\ Accepted(g)
<1> DEFINE n == Len(g)
           h == Append(g, p)
           r == ReadFrom(g)
<1>1. n \in Nat /\ DOMAIN g = 1 .. n /\ \A i \in 1 .. n : g[i] \in Gots(M)
  BY LenProperties, ElementOfSeq
<1>2. h \in Seq(Gots(M)) /\ Len(h) = n + 1 /\ (\A i \in 1 .. n : h[i] = g[i]) /\ h[n + 1] = p
  BY AppendProperties
<1>3. DOMAIN h = 1 .. n + 1
  <2> HIDE DEF h, n
  <2> QED
    BY <1>2, LenProperties
<1>4. p.m \in M /\ p.ok \in BOOLEAN /\ \A i \in 1 .. n : g[i].m \in M
  BY <1>1 DEF Gots
<1> HIDE DEF h, n
<1>5. r = [i \in 1 .. n |-> g[i].m]
  BY <1>1 DEF ReadFrom
<1>6. r \in Seq(M) /\ Len(r) = n /\ \A i \in 1 .. n : r[i] = g[i].m
  <2>1. \A i \in 1 .. n : r[i] = g[i].m
    BY <1>5
  <2> QED
    BY <1>1, <1>4, <1>5, <2>1
<1>7. ReadFrom(h) = [i \in 1 .. n + 1 |-> h[i].m]
  BY <1>3 DEF ReadFrom
<1> DEFINE s == Append(r, p.m)
<1> HIDE DEF r
<1>8. s \in Seq(M) /\ Len(s) = n + 1 /\ (\A i \in 1 .. n : s[i] = r[i]) /\ s[n + 1] = p.m
  BY <1>4, <1>6, AppendProperties
<1>9. s = [i \in 1 .. n + 1 |-> s[i]]
  <2> HIDE DEF s
  <2> QED
    BY <1>8, LenProperties
<1> HIDE DEF s
<1>10. \A i \in 1 .. n + 1 : h[i].m = s[i]
  <2> SUFFICES ASSUME NEW i \in 1 .. n + 1 PROVE h[i].m = s[i]
    OBVIOUS
  <2>1. i \in 1 .. n \/ i = n + 1
    BY <1>1
  <2> QED
    BY <1>2, <1>6, <1>8, <2>1
<1>11. ReadFrom(h) = s
  BY <1>7, <1>9, <1>10
<1>12. ASSUME \A i \in DOMAIN h : h[i].ok PROVE p.ok = TRUE /\ \A i \in DOMAIN g : g[i].ok
  <2>1. n + 1 \in DOMAIN h /\ \A i \in 1 .. n : i \in DOMAIN h
    BY <1>1, <1>3
  <2>2. h[n + 1].ok
    BY <1>12, <2>1
  <2>3. p.ok
    BY <1>2, <2>2
  <2>4. p.ok = TRUE
    BY <1>4, <2>3
  <2>5. \A i \in DOMAIN g : g[i].ok
    BY <1>1, <1>2, <1>12, <2>1
  <2> QED
    BY <2>4, <2>5
<1> QED
  BY <1>6, <1>11, <1>12 DEF Accepted, h, r, s

\* While every chunk is accepted the wire completes what is understood to what was
\* meant, and the infos of the first chunk are those sent but for the last.
AllAccepted == Accepted(got)
CutKept ==
  /\ BodyKept
  /\ AllAccepted => Ahead(type, body, wire, Understood, Meant)
  /\ CutKeepsPrefix

\* Before the first chunk.
LEMMA NothingUnderstood ==
  ASSUME type \in MessageTypes, got = <<>>
  PROVE  AllAccepted /\ Understood = New(type) /\ CutKeepsPrefix
<1>1. DOMAIN got = {} /\ [i \in DOMAIN got |-> got[i].m] = <<>>
  OBVIOUS
<1>2. MergeAll(type, <<>>) = New(type)
  <2>1. New(type) \in Msgs(type) /\ <<>> \in Seq(Msgs(type))
    BY NewType, EmptySeq
  <2> QED
    BY <2>1, MergeOneMore
<1>3. Understood = New(type)
  BY <1>1, <1>2 DEF Understood
<1> QED
  BY <1>1, <1>3 DEF AllAccepted, Accepted, CutKeepsPrefix

\* A new body.
LEMMA InitCut == Init => CutKept
<1> SUFFICES ASSUME Init PROVE CutKept
  OBVIOUS
<1>1. BodyKept
  BY InitKept
<1>2. type \in Types /\ sent = <<>> /\ wire = <<>> /\ got = <<>> /\ body = "open"
  BY DEF Init
<1>3. type \in MessageTypes
  BY <1>2, InputsTyped
<1>4. Understood = New(type) /\ CutKeepsPrefix
  BY <1>2, <1>3, NothingUnderstood
<1>5. Meant = New(type)
  <2>1. New(type) \in Msgs(type) /\ <<>> \in Seq(Msgs(type))
    BY <1>3, NewType, EmptySeq
  <2>2. MergeAll(type, <<>>) = New(type)
    BY <1>3, <2>1, MergeOneMore
  <2> QED
    BY <1>2, <2>2 DEF Meant
<1>6. Completes(type, <<>>, New(type), New(type))
  <2> DEFINE t == type
             v == New(type)
             e == <<>>
  <2>1. v \in Plain(t) /\ Fields(t, e, v) /\ e \in Str /\ Len(e) < SizeLimit
    BY <1>3, NewIsPlain, NoFields, EmptySeq DEF Str, SizeLimit
  <2>2. MergeFrom(t, v, v) = v
    BY <1>3, <2>1, MergeSums
  <2> HIDE DEF t, v, e
  <2>3. Completes(t, e, v, v)
    BY <2>1, <2>2 DEF Completes
  <2> QED
    BY <2>3 DEF t, v, e
<1>7. Ahead(type, body, wire, Understood, Meant)
  BY <1>2, <1>4, <1>5, <1>6 DEF Ahead
<1> QED
  BY <1>1, <1>4, <1>7 DEF CutKept

\* One message more.
LEMMA SendCut ==
  ASSUME CutKept, Send
  PROVE  CutKept'
<1> DEFINE s == SerializeToString(type, msg)
<1>1. BodyKept /\ (AllAccepted => Ahead(type, body, wire, Understood, Meant))
  BY DEF CutKept
<1>2. /\ MessagesTyped /\ msg \in Plain(type) /\ (body = "open" => got = <<>>)
  BY <1>1 DEF BodyKept
<1>3. type \in Types /\ msg \in Msgs(type) /\ sent \in Seq(Msgs(type)) /\ wire \in Str
  BY <1>2 DEF MessagesTyped
<1>4. type \in MessageTypes
  BY <1>3, InputsTyped
<1>5. /\ body = "open" /\ sent' = Append(sent, msg)
      /\ wire' = wire \o s /\ type' = type /\ msg' = msg /\ body' = body /\ got' = got
  BY DEF Send
<1>6. BodyKept'
  BY <1>1, SendKept
<1>7. got = <<>> /\ got' = <<>> /\ Understood' = Understood
  BY <1>2, <1>5 DEF Understood
<1>8. AllAccepted
  BY <1>4, <1>7, NothingUnderstood
<1>9. CutKeepsPrefix'
  BY <1>7 DEF CutKeepsPrefix
<1>10. Len(wire') < SizeLimit /\ wire' \in Str
  <2>1. Unread' /\ MessagesTyped'
    BY <1>6, <1>7 DEF BodyKept
  <2>2. PlainBody(type', wire', Meant')
    BY <1>5, <2>1 DEF Unread
  <2> QED
    BY <2>1, <2>2 DEF PlainBody, MessagesTyped
<1>11. Meant' = MergeFrom(type, Meant, msg)
  <2>1. MergeAll(type, Append(sent, msg)) = MergeFrom(type, MergeAll(type, sent), msg)
    BY <1>3, <1>4, MergeOneMore
  <2> QED
    BY <1>5, <2>1 DEF Meant
<1>12. Completes(type, wire \o s, Understood, MergeFrom(type, Meant, msg))
  <2> DEFINE t == type
             u == Understood
             m == Meant
             x == msg
             w == wire
  <2>1. Completes(t, w, u, m)
    BY <1>1, <1>5, <1>8 DEF Ahead
  <2>2. t \in MessageTypes /\ x \in Plain(t) /\ w \o s \in Str /\ Len(w \o s) < SizeLimit
    BY <1>2, <1>4, <1>5, <1>10
  <2>3. Fields(t, s, x)
    BY <2>2, WrittenAsFields
  <2> HIDE DEF t, u, m, x, w, s
  <2>4. u \in Plain(t)
    BY <2>1 DEF Completes
  <2>5. PICK y : Fields(t, w, y) /\ MergeFrom(t, u, y) = m
    BY <2>1 DEF Completes
  <2>6. y \in Plain(t)
    BY <2>2, <2>5, FieldsType
  <2> DEFINE z == MergeFrom(t, y, x)
  <2>7. Fields(t, w \o s, z)
    BY <2>2, <2>3, <2>5, FieldsConcat
  <2>8. MergeFrom(t, MergeFrom(t, u, y), x) = MergeFrom(t, u, z)
    BY <2>2, <2>4, <2>6, MergeSums
  <2> HIDE DEF z
  <2>9. MergeFrom(t, u, z) = MergeFrom(t, m, x)
    BY <2>5, <2>8
  <2>10. Completes(t, w \o s, u, MergeFrom(t, m, x))
    BY <2>2, <2>4, <2>7, <2>9 DEF Completes
  <2> QED
    BY <2>10 DEF t, u, m, x, w
<1> HIDE DEF s
<1>13. Completes(type', wire', Understood', Meant')
  BY <1>5, <1>7, <1>11, <1>12
<1>14. Ahead(type, body, wire, Understood, Meant)'
  BY <1>5, <1>13 DEF Ahead
<1> QED
  BY <1>6, <1>9, <1>14 DEF CutKept

\* The end of the body.
LEMMA CloseCut ==
  ASSUME CutKept, NEW how \in {"closed", "nul"}, Close(how)
  PROVE  CutKept'
<1>1. BodyKept /\ (AllAccepted => Ahead(type, body, wire, Understood, Meant))
  BY DEF CutKept
<1>2. MessagesTyped /\ (body = "open" => got = <<>>)
  BY <1>1 DEF BodyKept
<1>3. type \in MessageTypes
  BY <1>2, InputsTyped DEF MessagesTyped
<1>4. /\ body = "open" /\ wire' = (IF how = "nul" THEN Append(wire, 0) ELSE wire)
      /\ type' = type /\ body' = how /\ got' = got /\ sent' = sent
  BY DEF Close
<1>5. BodyKept'
  BY <1>1, CloseKept
<1>6. got = <<>> /\ got' = <<>> /\ Understood' = Understood /\ Meant' = Meant
  BY <1>2, <1>4 DEF Understood, Meant
<1>7. AllAccepted
  BY <1>3, <1>6, NothingUnderstood
<1>8. CutKeepsPrefix'
  BY <1>6 DEF CutKeepsPrefix
<1>9. Ahead(type', body', wire', Understood', Meant')
  <2> DEFINE t == type
             u == Understood
             m == Meant
             w == wire
             z == Append(wire, 0)
  <2>1. Completes(t, w, u, m)
    BY <1>1, <1>4, <1>7 DEF Ahead
  <2> HIDE DEF t, u, m, w, z
  <2>2. NulCompletes(t, z, u, m)
    BY <2>1 DEF NulCompletes, z, w
  <2>3. type' = t /\ Understood' = u /\ Meant' = m /\ body' = how /\ wire' = (IF how = "nul" THEN z ELSE w)
    BY <1>4, <1>6 DEF t, u, m, w, z
  <2> QED
    BY <2>1, <2>2, <2>3 DEF Ahead
<1> QED
  BY <1>5, <1>8, <1>9 DEF CutKept

\* A chunk.
LEMMA DeliverCut ==
  ASSUME CutKept, NEW n \in 1 .. Len(wire), Deliver(n)
  PROVE  CutKept'
<1> DEFINE a == SubSeq(wire, 1, n)
           b == SubSeq(wire, n + 1, Len(wire))
           p == ParseFromString(type, a)
<1>1. BodyKept /\ (AllAccepted => Ahead(type, body, wire, Understood, Meant)) /\ CutKeepsPrefix
  BY DEF CutKept
<1>2. MessagesTyped
  BY <1>1 DEF BodyKept
<1>3. type \in Types /\ wire \in Str /\ got \in Seq(Gots(Msgs(type))) /\ sent \in Seq(Msgs(type))
  BY <1>2 DEF MessagesTyped
<1>4. type \in MessageTypes
  BY <1>3, InputsTyped
<1>5. /\ n <= Len(wire) /\ got' = Append(got, p) /\ wire' = b
      /\ type' = type /\ sent' = sent /\ body' = body
  <2>1. n <= Len(wire)
    BY <1>3, LenProperties DEF Str
  <2> QED
    BY <2>1 DEF Deliver
<1>6. BodyKept'
  BY <1>1, DeliverKept
<1>7. a \in Str /\ b \in Str /\ wire = a \o b
  <2>1. n \in 0 .. Len(wire)
    <3>1. Len(wire) \in Nat /\ n \in Nat
      BY <1>3, LenProperties DEF Str
    <3> QED
      BY <1>5, <3>1
  <2> QED
    BY <1>3, <2>1, Parts
<1> HIDE DEF a, b
<1>8. p \in Gots(Msgs(type))
  BY <1>4, <1>7, ParseType
<1>9. Meant' = Meant
  BY <1>5 DEF Meant
<1> HIDE DEF p
<1>10. /\ ReadFrom(got) \in Seq(Msgs(type)) /\ ReadFrom(got') = Append(ReadFrom(got), p.m)
       /\ (AllAccepted' => p.ok = TRUE /\ AllAccepted)
  <2>1. /\ ReadFrom(got) \in Seq(Msgs(type))
        /\ ReadFrom(Append(got, p)) = Append(ReadFrom(got), p.m)
        /\ Accepted(Append(got, p)) => p.ok = TRUE /\ Accepted(got)
    <3> DEFINE M == Msgs(type)
    <3>1. got \in Seq(Gots(M)) /\ p \in Gots(M)
      BY <1>3, <1>8
    <3> HIDE DEF M
    <3>2. /\ ReadFrom(got) \in Seq(M)
          /\ ReadFrom(Append(got, p)) = Append(ReadFrom(got), p.m)
          /\ Accepted(Append(got, p)) => p.ok = TRUE /\ Accepted(got)
      BY <3>1, OneMoreRead
    <3> QED
      BY <3>2 DEF M
  <2> QED
    BY <1>5, <2>1 DEF AllAccepted
<1>11. Understood' = MergeFrom(type, Understood, p.m)
  <2> DEFINE r == ReadFrom(got)
  <2>1. Understood = MergeAll(type, r) /\ Understood' = MergeAll(type', ReadFrom(got'))
    BY DEF Understood, ReadFrom
  <2>2. p.m \in Msgs(type)
    BY <1>8 DEF Gots
  <2>3. r \in Seq(Msgs(type)) /\ ReadFrom(got') = Append(r, p.m)
    BY <1>10
  <2> HIDE DEF r
  <2>4. MergeAll(type, Append(r, p.m)) = MergeFrom(type, MergeAll(type, r), p.m)
    BY <1>4, <2>2, <2>3, MergeOneMore
  <2> QED
    BY <1>5, <2>1, <2>3, <2>4
<1>12. /\ AllAccepted /\ p.ok = TRUE => Ahead(type, body, b, MergeFrom(type, Understood, p.m), Meant)
       /\ AllAccepted /\ type = "PushReq" /\ Understood = New(type) => Agrees(p.m.infos, Meant.infos)
  <2> SUFFICES ASSUME AllAccepted
               PROVE  /\ p.ok = TRUE => Ahead(type, body, b, MergeFrom(type, Understood, p.m), Meant)
                      /\ type = "PushReq" /\ Understood = New(type) => Agrees(p.m.infos, Meant.infos)
    OBVIOUS
  <2> DEFINE u == Understood
             m == Meant
  <2>1. Ahead(type, body, a \o b, u, m)
    BY <1>1, <1>7
  <2> HIDE DEF u, m
  <2>2. /\ p.ok = TRUE => Ahead(type, body, b, MergeFrom(type, u, p.m), m)
        /\ type = "PushReq" /\ u = New(type) => Agrees(p.m.infos, m.infos)
    BY <1>4, <1>7, <2>1, ChunkAhead DEF p
  <2> QED
    BY <2>2 DEF u, m
<1>13. AllAccepted' => Ahead(type, body, wire, Understood, Meant)'
  <2> SUFFICES ASSUME AllAccepted' PROVE Ahead(type', body', wire', Understood', Meant')
    OBVIOUS
  <2>1. Ahead(type, body, b, MergeFrom(type, Understood, p.m), Meant)
    BY <1>10, <1>12
  <2> QED
    BY <1>5, <1>9, <1>11, <2>1
<1>14. CutKeepsPrefix'
  <2> SUFFICES ASSUME type = "PushReq"
               PROVE  /\ Len(got'[1].m.infos) <= Len(Meant.infos)
                      /\ got'[1].m.infos # <<>> => IsPrefix(Front(got'[1].m.infos), Meant.infos)
    BY <1>5, <1>9 DEF CutKeepsPrefix
  <2>1. Len(got) \in Nat /\ (\A i \in 1 .. Len(got) : got'[i] = got[i]) /\ got'[Len(got) + 1] = p
    BY <1>3, <1>5, <1>8, LenProperties, AppendProperties
  <2>2. CASE got = <<>>
    <3>1. Len(got) = 0
      BY <2>2, EmptySeq
    <3>2. got'[1] = p
      BY <2>1, <3>1
    <3>3. AllAccepted /\ Understood = New(type)
      BY <1>4, <2>2, NothingUnderstood
    <3>4. Agrees(p.m.infos, Meant.infos)
      BY <1>12, <3>3
    <3>5. Meant \in Msgs(type)
      <4>1. New(type) \in Msgs(type)
        BY <1>4, NewType
      <4> QED
        BY <1>3, <1>4, <4>1, MergeOneMore DEF Meant
    <3>6. Meant.infos \in Seq(oneInfoMsgs)
      <4> DEFINE m == Meant
      <4> HIDE DEF m
      <4>1. m \in PushReqMsgs
        BY <3>5, MsgsAre DEF m
      <4>2. m.infos \in Seq(oneInfoMsgs)
        BY <4>1 DEF PushReqMsgs
      <4> QED
        BY <4>2 DEF m
    <3>7. p.m.infos \in Seq(oneInfoMsgs)
      BY <1>7, InfosAre DEF p
    <3> DEFINE c == p.m.infos
               v == Meant.infos
    <3>8. c \in Seq(oneInfoMsgs) /\ v \in Seq(oneInfoMsgs) /\ Agrees(c, v)
      BY <3>4, <3>6, <3>7
    <3> HIDE DEF c, v
    <3>9. Len(c) <= Len(v) /\ (c # <<>> => IsPrefix(Front(c), v))
      BY <3>8, AgreesIsPrefix
    <3> QED
      BY <3>2, <3>9 DEF c, v
  <2>3. CASE got # <<>>
    <3>1. Len(got) # 0
      BY <1>3, <2>3, EmptySeq
    <3>2. 1 \in 1 .. Len(got)
      BY <2>1, <3>1
    <3>3. got'[1] = got[1]
      BY <2>1, <3>2
    <3> QED
      BY <1>1, <2>3, <3>3 DEF CutKeepsPrefix
  <2> QED
    BY <2>2, <2>3
<1> QED
  BY <1>6, <1>13, <1>14 DEF CutKept

\* Every step.
LEMMA StepCut == CutKept /\ [Next]_vars => CutKept'
<1> SUFFICES ASSUME CutKept, [Next]_vars PROVE CutKept'
  OBVIOUS
<1>1. BodyKept /\ (AllAccepted => Ahead(type, body, wire, Understood, Meant)) /\ CutKeepsPrefix
  BY DEF CutKept
<1>2. BodyKept'
  BY <1>1, StepKept
<1>3. ASSUME UNCHANGED <<type, sent, wire, body, got>> PROVE CutKept'
  <2>1. type' = type /\ sent' = sent /\ wire' = wire /\ body' = body /\ got' = got
    BY <1>3
  <2>2. Meant' = Meant /\ Understood' = Understood /\ AllAccepted' = AllAccepted
    BY <2>1 DEF Meant, Understood, AllAccepted
  <2>3. CutKeepsPrefix'
    BY <1>1, <2>1, <2>2 DEF CutKeepsPrefix
  <2>4. AllAccepted' => Ahead(type', body', wire', Understood', Meant')
    BY <1>1, <2>1, <2>2
  <2> QED
    BY <1>2, <2>3, <2>4 DEF CutKept
<1>4. CASE Edit
  BY <1>3, <1>4 DEF Edit
<1>5. CASE Copy
  BY <1>3, <1>5 DEF Copy
<1>6. CASE Clear
  BY <1>3, <1>6 DEF Clear
<1>7. CASE Send
  BY <1>7, SendCut
<1>8. ASSUME NEW how \in {"closed", "nul"}, Close(how) PROVE CutKept'
  BY <1>8, CloseCut
<1>9. ASSUME NEW n \in 1 .. Len(wire), Deliver(n) PROVE CutKept'
  BY <1>9, DeliverCut
<1>10. CASE UNCHANGED vars
  BY <1>3, <1>10 DEF vars
<1> QED
  BY <1>4, <1>5, <1>6, <1>7, <1>8, <1>9, <1>10 DEF Next

\* A body whose chunks were all accepted.
LEMMA CutNoticed == CutKept => NoSilentCut
<1> SUFFICES ASSUME CutKept, Delivered, AllAccepted PROVE Understood = Meant
  BY DEF NoSilentCut, AllAccepted, Accepted
<1> DEFINE t == type
           u == Understood
           m == Meant
<1>1. BodyKept /\ Ahead(t, body, wire, u, m)
  BY DEF CutKept
<1>2. t \in MessageTypes
  BY <1>1, InputsTyped DEF BodyKept, MessagesTyped
<1>3. wire = <<>>
  BY DEF Delivered
<1> HIDE DEF t, u, m
<1>4. body # "nul"
  <2> SUFFICES ASSUME body = "nul" PROVE FALSE
    OBVIOUS
  <2>1. PICK w : wire = Append(w, 0) /\ Completes(t, w, u, m)
    BY <1>1 DEF Ahead, NulCompletes
  <2>2. w \in Seq(Nat) /\ 0 \in Nat
    BY <2>1 DEF Completes, Str
  <2>3. Len(Append(w, 0)) = Len(w) + 1 /\ Len(w) \in Nat
    BY <2>2, AppendProperties, LenProperties
  <2>4. Len(<<>>) = 0
    BY EmptySeq
  <2>5. Len(w) + 1 = 0
    BY <1>3, <2>1, <2>3, <2>4
  <2> QED
    BY <2>3, <2>5
<1>5. Completes(t, <<>>, u, m)
  BY <1>1, <1>3, <1>4 DEF Ahead
<1>6. u \in Plain(t)
  BY <1>5 DEF Completes
<1>7. PICK y : Fields(t, <<>>, y) /\ MergeFrom(t, u, y) = m
  BY <1>5 DEF Completes
<1>8. y = New(t)
  BY <1>2, <1>7, NoBytes
<1>9. MergeFrom(t, u, New(t)) = u
  BY <1>2, <1>6, MergeSums
<1> QED
  BY <1>7, <1>8, <1>9 DEF u, m

\* A cut in the middle of a field never goes unnoticed: a body whose chunks were all
\* accepted is understood as it was meant, however it was cut, for every type, value,
\* number of messages and of chunks, of a body shorter than SizeLimit and whether or not a
\* value is read in place (InternalParse of every message class, ParseFromString).
THEOREM CutsAreNoticed == Spec => []NoSilentCut
<1>1. Init => CutKept
  BY InitCut
<1>2. CutKept /\ [Next]_vars => CutKept'
  BY StepCut
<1>3. CutKept => NoSilentCut
  BY CutNoticed
<1> QED
  BY <1>1, <1>2, <1>3, PTL DEF Spec

\* Of the infos read from the first chunk only the last can be other than it was sent,
\* and none is made up, whatever the verdict (Msg.cpp:53-57), for every value and cut
\* of a push shorter than SizeLimit, and whether or not a value is read in place.
THEOREM CutsKeepPrefixes == Spec => []CutKeepsPrefix
<1>1. Init => CutKept
  BY InitCut
<1>2. CutKept /\ [Next]_vars => CutKept'
  BY StepCut
<1>3. CutKept => CutKeepsPrefix
  BY DEF CutKept
<1> QED
  BY <1>1, <1>2, <1>3, PTL DEF Spec
=============================================================================
