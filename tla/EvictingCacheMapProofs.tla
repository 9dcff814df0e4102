------------------------- MODULE EvictingCacheMapProofs -------------------------
(***************************************************************************)
(* What the operations of EvictingCacheMap return, for every LRU list.      *)
(***************************************************************************)
EXTENDS EvictingCacheMap, SequenceTheorems, TLAPS

\* The LRU lists over keys K and values V.
Lists(K, V) == Seq([key : K, val : V])

\* No key has two entries.
Unique(m) == \A i, j \in DOMAIN m : m[i].key = m[j].key => i = j

\* RemoveAt, entry by entry: the entries before position p keep their place,
\* the later ones move up by one.
LEMMA RemoveAtShape ==
  ASSUME NEW S, NEW m \in Seq(S), NEW p \in 1..Len(m)
  PROVE  /\ RemoveAt(m, p) \in Seq(S)
         /\ Len(RemoveAt(m, p)) = Len(m) - 1
         /\ \A i \in 1..(p - 1) : RemoveAt(m, p)[i] = m[i]
         /\ \A i \in p..(Len(m) - 1) : RemoveAt(m, p)[i] = m[i + 1]
<1> DEFINE a == SubSeq(m, 1, p - 1)
           b == SubSeq(m, p + 1, Len(m))
<1>0. Len(m) \in Nat /\ \A i \in 1..Len(m) : m[i] \in S
  BY LenProperties, ElementOfSeq
<1>1. a \in Seq(S) /\ Len(a) = p - 1 /\ \A i \in 1..(p - 1) : a[i] = m[i]
  <2>1. /\ a \in Seq(S) /\ Len(a) = IF 1 <= p - 1 THEN (p - 1) - 1 + 1 ELSE 0
        /\ \A i \in 1..((p - 1) - 1 + 1) : a[i] = m[1 + i - 1]
    BY <1>0, SubSeqProperties
  <2> QED
    BY <1>0, <2>1
<1>2. /\ b \in Seq(S) /\ Len(b) = Len(m) - p
      /\ \A i \in 1..(Len(m) - p) : b[i] = m[p + i]
  <2>1. /\ b \in Seq(S) /\ Len(b) = IF p + 1 <= Len(m) THEN Len(m) - (p + 1) + 1 ELSE 0
        /\ \A i \in 1..(Len(m) - (p + 1) + 1) : b[i] = m[(p + 1) + i - 1]
    BY <1>0, SubSeqProperties
  <2> QED
    BY <1>0, <2>1
<1> HIDE DEF a, b
<1>3. /\ a \o b \in Seq(S) /\ Len(a \o b) = Len(a) + Len(b)
      /\ \A i \in 1..(Len(a) + Len(b)) :
           (a \o b)[i] = IF i <= Len(a) THEN a[i] ELSE b[i - Len(a)]
  BY <1>1, <1>2, ConcatProperties
<1>4. \A i \in 1..(p - 1) : (a \o b)[i] = m[i]
  BY <1>0, <1>1, <1>2, <1>3
<1>5. ASSUME NEW i \in p..(Len(m) - 1)
      PROVE  (a \o b)[i] = m[i + 1]
  <2>1. (a \o b)[i] = b[i - (p - 1)] /\ i - (p - 1) \in 1..(Len(m) - p)
    BY <1>0, <1>1, <1>2, <1>3
  <2>2. b[i - (p - 1)] = m[p + (i - (p - 1))] /\ p + (i - (p - 1)) = i + 1
    BY <1>0, <1>2, <2>1
  <2> QED
    BY <2>1, <2>2
<1>6. RemoveAt(m, p) = a \o b
  BY DEF RemoveAt, a, b
<1>7. Len(a) + Len(b) = Len(m) - 1
  BY <1>0, <1>1, <1>2
<1> QED
  BY <1>3, <1>4, <1>5, <1>6, <1>7

\* Cons, entry by entry.
LEMMA ConsShape ==
  ASSUME NEW S, NEW m \in Seq(S), NEW e \in S
  PROVE  /\ Cons(e, m) \in Seq(S)
         /\ Len(Cons(e, m)) = Len(m) + 1
         /\ Cons(e, m)[1] = e
         /\ \A i \in 1..Len(m) : Cons(e, m)[i + 1] = m[i]
<1>1. <<e>> \in Seq(S) /\ Len(<<e>>) = 1 /\ <<e>>[1] = e /\ Len(m) \in Nat
  BY LenProperties
<1>2. /\ <<e>> \o m \in Seq(S) /\ Len(<<e>> \o m) = Len(<<e>>) + Len(m)
      /\ \A i \in 1..(Len(<<e>>) + Len(m)) :
           (<<e>> \o m)[i] = IF i <= Len(<<e>>) THEN <<e>>[i] ELSE m[i - Len(<<e>>)]
  BY <1>1, ConcatProperties
<1>3. (<<e>> \o m)[1] = e
  BY <1>1, <1>2
<1>4. ASSUME NEW i \in 1..Len(m)
      PROVE  (<<e>> \o m)[i + 1] = m[i]
  <2>1. i + 1 \in 1..(1 + Len(m)) /\ ~(i + 1 <= 1) /\ (i + 1) - 1 = i
    BY <1>1
  <2> QED
    BY <1>1, <1>2, <2>1
<1> QED
  BY <1>1, <1>2, <1>3, <1>4 DEF Cons

\* A key of the list has a position, and its value there.
LEMMA PosOfKey ==
  ASSUME NEW K, NEW V, NEW m \in Lists(K, V), NEW k \in KeysOf(m)
  PROVE  /\ PosOf(m, k) \in 1..Len(m)
         /\ m[PosOf(m, k)] \in [key : K, val : V]
         /\ m[PosOf(m, k)].key = k
         /\ Peek(m, k) \in V
<1>1. PosOf(m, k) \in DOMAIN m /\ m[PosOf(m, k)].key = k
  BY DEF PosOf, KeysOf
<1>2. PosOf(m, k) \in 1..Len(m)
  BY <1>1, LenProperties DEF Lists
<1>3. m[PosOf(m, k)] \in [key : K, val : V]
  BY <1>2, ElementOfSeq DEF Lists
<1> QED
  BY <1>1, <1>2, <1>3 DEF Peek

\* With one entry per key the position of a key is any at which it stands.
LEMMA PosOfUnique ==
  ASSUME NEW m, Unique(m), NEW i \in DOMAIN m
  PROVE  m[i].key \in KeysOf(m) /\ PosOf(m, m[i].key) = i
BY DEF Unique, PosOf, KeysOf

\* Each operation returns an LRU list.
LEMMA OperationTypes ==
  ASSUME NEW K, NEW V, NEW m \in Lists(K, V), NEW k \in K, NEW v \in V
  PROVE  /\ Erase(m, k) \in Lists(K, V)
         /\ Find(m, k) \in Lists(K, V)
         /\ Put(m, k, v) \in Lists(K, V)
<1>1. Erase(m, k) \in Lists(K, V)
  BY PosOfKey, RemoveAtShape DEF Erase, Lists
<1>2. Find(m, k) \in Lists(K, V)
  BY <1>1, PosOfKey, ConsShape DEF Find, Lists
<1>3. Cons(Entry(k, v), Erase(m, k)) \in Lists(K, V)
  BY <1>1, ConsShape DEF Entry, Lists
<1>4. ASSUME NEW n \in Lists(K, V), Len(n) > MaxSize
      PROVE  Prune(n, ClearSize) \in Lists(K, V)
  <2>1. /\ Len(n) \in Nat /\ Len(n) - ClearSize \in Int /\ Len(n) - ClearSize <= Len(n)
        /\ \A i \in 1..Len(n) : n[i] \in [key : K, val : V]
    <3>1. Len(n) \in Nat
      BY LenProperties DEF Lists
    <3>2. \A i \in 1..Len(n) : n[i] \in [key : K, val : V]
      BY ElementOfSeq DEF Lists
    <3> QED
      BY <3>1, <3>2, SizeAssumption
  <2>2. \A i \in 1..(Len(n) - ClearSize) : n[i] \in [key : K, val : V]
    BY <2>1
  <2> QED
    BY <2>1, <2>2, SubSeqProperties DEF Prune, Lists
<1> QED
  BY <1>1, <1>2, <1>3, <1>4 DEF Put

\* erase of the only entry of k: the other entries stay, in order.
LEMMA EraseUnique ==
  ASSUME NEW K, NEW V, NEW m \in Lists(K, V), Unique(m), NEW k \in K
  PROVE  /\ Unique(Erase(m, k))
         /\ KeysOf(Erase(m, k)) = KeysOf(m) \ {k}
         /\ \A j \in KeysOf(m) \ {k} : Peek(Erase(m, k), j) = Peek(m, j)
<1>1. CASE k \notin KeysOf(m)
  BY <1>1 DEF Erase
<1>2. CASE k \in KeysOf(m)
  <2> DEFINE p == PosOf(m, k)
             n == RemoveAt(m, p)
             at(i) == IF i < p THEN i ELSE i + 1
  <2>1. p \in 1..Len(m) /\ m[p].key = k /\ Len(m) \in Nat /\ DOMAIN m = 1..Len(m)
    <3>1. p \in 1..Len(m) /\ m[p].key = k
      BY <1>2, PosOfKey
    <3>2. m \in Seq([key : K, val : V])
      BY DEF Lists
    <3>3. Len(m) \in Nat /\ DOMAIN m = 1..Len(m)
      BY <3>2, LenProperties
    <3> QED
      BY <3>1, <3>3
  <2>2. /\ n \in Lists(K, V) /\ Len(n) = Len(m) - 1 /\ DOMAIN n = 1..(Len(m) - 1)
        /\ \A i \in 1..(p - 1) : n[i] = m[i]
        /\ \A i \in p..(Len(m) - 1) : n[i] = m[i + 1]
    <3> HIDE DEF p
    <3>1. m \in Seq([key : K, val : V])
      BY DEF Lists
    <3>2. /\ n \in Seq([key : K, val : V]) /\ Len(n) = Len(m) - 1
          /\ \A i \in 1..(p - 1) : n[i] = m[i]
          /\ \A i \in p..(Len(m) - 1) : n[i] = m[i + 1]
      BY <2>1, <3>1, RemoveAtShape
    <3>3. DOMAIN n = 1..Len(n)
      BY <3>2, LenProperties
    <3> QED
      BY <3>2, <3>3 DEF Lists
  <2>3. Erase(m, k) = n
    BY <1>2 DEF Erase
  <2> HIDE DEF p, n
  <2>4. \A i \in DOMAIN n : at(i) \in DOMAIN m /\ at(i) # p /\ n[i] = m[at(i)]
    <3> SUFFICES ASSUME NEW i \in DOMAIN n
                 PROVE  at(i) \in DOMAIN m /\ at(i) # p /\ n[i] = m[at(i)]
      OBVIOUS
    <3>1. CASE i < p
      BY <2>1, <2>2, <3>1
    <3>2. CASE i >= p
      BY <2>1, <2>2, <3>2
    <3> QED
      BY <2>1, <2>2, <3>1, <3>2
  <2>5. \A i, j \in DOMAIN n : at(i) = at(j) => i = j
    BY <2>1, <2>2
  <2>6. \A i \in DOMAIN m : i # p => \E j \in DOMAIN n : at(j) = i
    <3> SUFFICES ASSUME NEW i \in DOMAIN m, i # p
                 PROVE  \E j \in DOMAIN n : at(j) = i
      OBVIOUS
    <3>1. CASE i < p
      BY <2>1, <2>2, <3>1
    <3>2. CASE i > p
      <4>1. i - 1 \in DOMAIN n /\ at(i - 1) = i
        BY <2>1, <2>2, <3>2
      <4> QED
        BY <4>1
    <3> QED
      BY <2>1, <3>1, <3>2
  <2> HIDE DEF at
  <2>7. Unique(n)
    BY <2>4, <2>5 DEF Unique
  <2>8. KeysOf(n) = KeysOf(m) \ {k}
    <3>1. \A i \in DOMAIN m : m[i].key = k <=> i = p
      BY <2>1 DEF Unique
    <3>2. KeysOf(n) \subseteq KeysOf(m) \ {k}
      BY <2>4, <3>1 DEF KeysOf
    <3>3. KeysOf(m) \ {k} \subseteq KeysOf(n)
      BY <2>4, <2>6, <3>1 DEF KeysOf
    <3> QED
      BY <3>2, <3>3
  <2>9. ASSUME NEW j \in KeysOf(m) \ {k}
        PROVE  Peek(n, j) = Peek(m, j)
    <3>1. PICK i \in DOMAIN n : n[i].key = j
      BY <2>8 DEF KeysOf
    <3>2. PosOf(n, j) = i
      BY <2>7, <3>1, PosOfUnique
    <3>3. PosOf(m, j) = at(i)
      BY <2>4, <3>1, PosOfUnique
    <3> QED
      BY <2>4, <3>2, <3>3 DEF Peek
  <2> QED
    BY <2>3, <2>7, <2>8, <2>9
<1> QED
  BY <1>1, <1>2

\* erase never lengthens the list.
LEMMA EraseLen ==
  ASSUME NEW K, NEW V, NEW m \in Lists(K, V), NEW k
  PROVE  Len(m) \in Nat /\ Len(Erase(m, k)) \in Nat /\ Len(Erase(m, k)) <= Len(m)
<1> DEFINE S == [key : K, val : V]
<1>1. m \in Seq(S)
  BY DEF Lists
<1>2. CASE k \notin KeysOf(m)
  <2> HIDE DEF S
  <2> QED
    BY <1>1, <1>2, LenProperties DEF Erase
<1>3. CASE k \in KeysOf(m)
  <2>1. PosOf(m, k) \in 1..Len(m) /\ Erase(m, k) = RemoveAt(m, PosOf(m, k))
    BY <1>3, PosOfKey DEF Erase
  <2> HIDE DEF S
  <2>2. Len(Erase(m, k)) = Len(m) - 1 /\ Len(m) \in Nat
    BY <1>1, <2>1, RemoveAtShape, LenProperties
  <2> QED
    BY <2>1, <2>2
<1> QED
  BY <1>2, <1>3

\* An entry put in front of a list without its key.
LEMMA ConsUnique ==
  ASSUME NEW K, NEW V, NEW m \in Lists(K, V), Unique(m),
         NEW e \in [key : K, val : V], e.key \notin KeysOf(m)
  PROVE  /\ Unique(Cons(e, m))
         /\ KeysOf(Cons(e, m)) = KeysOf(m) \cup {e.key}
         /\ Peek(Cons(e, m), e.key) = e.val
         /\ \A j \in KeysOf(m) : Peek(Cons(e, m), j) = Peek(m, j)
<1> DEFINE n == Cons(e, m)
<1>1. /\ n \in Lists(K, V) /\ Len(n) = Len(m) + 1 /\ Len(m) \in Nat
      /\ DOMAIN n = 1..(Len(m) + 1) /\ DOMAIN m = 1..Len(m)
      /\ n[1] = e /\ \A i \in 1..Len(m) : n[i + 1] = m[i]
  <2> DEFINE S == [key : K, val : V]
  <2>1. m \in Seq(S) /\ e \in S
    BY DEF Lists
  <2> HIDE DEF S
  <2>2. /\ n \in Seq(S) /\ Len(n) = Len(m) + 1
        /\ n[1] = e /\ \A i \in 1..Len(m) : n[i + 1] = m[i]
    <3>1. n \in Seq(S)
      BY <2>1, ConsShape
    <3>2. Len(n) = Len(m) + 1
      BY <2>1, ConsShape
    <3>3. n[1] = e
      BY <2>1, ConsShape
    <3>4. \A i \in 1..Len(m) : n[i + 1] = m[i]
      BY <2>1, ConsShape
    <3> QED
      BY <3>1, <3>2, <3>3, <3>4
  <2>3. DOMAIN n = 1..Len(n) /\ Len(m) \in Nat /\ DOMAIN m = 1..Len(m)
    BY <2>1, <2>2, LenProperties
  <2> QED
    BY <2>2, <2>3 DEF Lists, S
<1> HIDE DEF n
<1>2. n[1] = e /\ 1 \in DOMAIN n
  BY <1>1
<1>3. \A i \in DOMAIN m : i + 1 \in DOMAIN n /\ n[i + 1] = m[i] /\ m[i].key # e.key
  <2>1. \A i \in DOMAIN m : i + 1 \in DOMAIN n /\ n[i + 1] = m[i]
    BY <1>1
  <2> QED
    BY <2>1 DEF KeysOf
<1>4. \A i \in DOMAIN n : i = 1 \/ (i - 1 \in DOMAIN m /\ n[i] = m[i - 1])
  <2> SUFFICES ASSUME NEW i \in DOMAIN n, i # 1
               PROVE  i - 1 \in DOMAIN m /\ n[i] = m[i - 1]
    OBVIOUS
  <2>1. i - 1 \in 1..Len(m) /\ (i - 1) + 1 = i
    BY <1>1
  <2> QED
    BY <1>1, <2>1
<1>5. Unique(n)
  <2> SUFFICES ASSUME NEW i \in DOMAIN n, NEW j \in DOMAIN n, n[i].key = n[j].key
               PROVE  i = j
    BY DEF Unique
  <2>1. CASE i = 1 \/ j = 1
    BY <1>2, <1>3, <1>4, <2>1 DEF KeysOf
  <2>2. CASE i # 1 /\ j # 1
    <3>1. i - 1 = j - 1
      BY <1>4, <2>2 DEF Unique
    <3> QED
      BY <1>1, <3>1
  <2> QED
    BY <2>1, <2>2
<1>6. KeysOf(n) = KeysOf(m) \cup {e.key}
  <2>1. KeysOf(n) \subseteq KeysOf(m) \cup {e.key}
    BY <1>2, <1>4 DEF KeysOf
  <2>2. e.key \in KeysOf(n)
    BY <1>2 DEF KeysOf
  <2>3. KeysOf(m) \subseteq KeysOf(n)
    BY <1>3 DEF KeysOf
  <2> QED
    BY <2>1, <2>2, <2>3
<1>7. Peek(n, e.key) = e.val
  BY <1>2, <1>5, PosOfUnique DEF Peek
<1>8. ASSUME NEW j \in KeysOf(m)
      PROVE  Peek(n, j) = Peek(m, j)
  <2>1. PICK i \in DOMAIN m : m[i].key = j
    BY DEF KeysOf
  <2>2. PosOf(m, j) = i
    BY <2>1, PosOfUnique
  <2>3. PosOf(n, j) = i + 1
    <3>1. i + 1 \in DOMAIN n /\ n[i + 1].key = j
      BY <1>3, <2>1
    <3> QED
      BY <1>5, <3>1, PosOfUnique
  <2> QED
    BY <1>3, <2>2, <2>3 DEF Peek
<1> QED
  BY <1>5, <1>6, <1>7, <1>8 DEF n

\* A list cut after its first q entries.
LEMMA CutUnique ==
  ASSUME NEW K, NEW V, NEW m \in Lists(K, V), Unique(m), NEW q \in 0..Len(m)
  PROVE  /\ SubSeq(m, 1, q) \in Lists(K, V)
         /\ Len(SubSeq(m, 1, q)) = q
         /\ \A i \in 1..q : SubSeq(m, 1, q)[i] = m[i]
         /\ Unique(SubSeq(m, 1, q))
         /\ KeysOf(SubSeq(m, 1, q)) \subseteq KeysOf(m)
         /\ \A j \in KeysOf(SubSeq(m, 1, q)) : Peek(SubSeq(m, 1, q), j) = Peek(m, j)
<1> DEFINE S == [key : K, val : V]
           n == SubSeq(m, 1, q)
<1>1. m \in Seq(S)
  BY DEF Lists
<1> HIDE DEF S
<1>2. Len(m) \in Nat /\ DOMAIN m = 1..Len(m) /\ \A i \in 1..q : m[i] \in S
  <2>1. Len(m) \in Nat /\ DOMAIN m = 1..Len(m)
    BY <1>1, LenProperties
  <2>2. \A i \in 1..Len(m) : m[i] \in S
    BY <1>1, ElementOfSeq
  <2> QED
    BY <2>1, <2>2
<1>3. n \in Seq(S) /\ Len(n) = q /\ \A i \in 1..q : n[i] = m[i]
  <2>1. /\ n \in Seq(S) /\ Len(n) = IF 1 <= q THEN q - 1 + 1 ELSE 0
        /\ \A i \in 1..(q - 1 + 1) : n[i] = m[1 + i - 1]
    BY <1>2, SubSeqProperties
  <2> QED
    BY <1>2, <2>1
<1>4. DOMAIN n = 1..q
  BY <1>3, LenProperties
<1> HIDE DEF n
<1>5. \A i \in DOMAIN n : i \in DOMAIN m /\ n[i] = m[i]
  BY <1>2, <1>3, <1>4
<1>6. Unique(n) /\ KeysOf(n) \subseteq KeysOf(m)
  BY <1>5 DEF Unique, KeysOf
<1>7. ASSUME NEW j \in KeysOf(n)
      PROVE  Peek(n, j) = Peek(m, j)
  <2>1. PICK i \in DOMAIN n : n[i].key = j
    BY DEF KeysOf
  <2>2. PosOf(n, j) = i /\ PosOf(m, j) = i
    BY <1>5, <1>6, <2>1, PosOfUnique
  <2> QED
    BY <1>5, <2>1, <2>2 DEF Peek
<1> QED
  BY <1>3, <1>6, <1>7 DEF n, S, Lists

\* find changes no binding.
LEMMA FindUnique ==
  ASSUME NEW K, NEW V, NEW m \in Lists(K, V), Unique(m), NEW k \in K
  PROVE  /\ Unique(Find(m, k))
         /\ Len(Find(m, k)) = Len(m)
         /\ KeysOf(Find(m, k)) = KeysOf(m)
         /\ \A j \in KeysOf(m) : Peek(Find(m, k), j) = Peek(m, j)
<1>1. CASE k \notin KeysOf(m)
  BY <1>1 DEF Find
<1>2. CASE k \in KeysOf(m)
  <2> DEFINE e == m[PosOf(m, k)]
             n == Erase(m, k)
  <2>1. e \in [key : K, val : V] /\ e.key = k /\ e.val = Peek(m, k)
    BY <1>2, PosOfKey DEF Peek
  <2>2. /\ n \in Lists(K, V) /\ Unique(n) /\ KeysOf(n) = KeysOf(m) \ {k}
        /\ \A j \in KeysOf(m) \ {k} : Peek(n, j) = Peek(m, j)
    BY <2>1, OperationTypes, EraseUnique
  <2>3. Len(n) = Len(m) - 1 /\ Len(m) \in Nat /\ Len(Cons(e, n)) = Len(n) + 1
    <3> DEFINE S == [key : K, val : V]
    <3>1. m \in Seq(S) /\ n \in Seq(S) /\ e \in S
      BY <2>1, <2>2 DEF Lists
    <3>2. PosOf(m, k) \in 1..Len(m) /\ n = RemoveAt(m, PosOf(m, k))
      BY <1>2, PosOfKey DEF Erase
    <3> HIDE DEF S, e, n
    <3> QED
      BY <3>1, <3>2, RemoveAtShape, ConsShape, LenProperties
  <2>4. Find(m, k) = Cons(e, n)
    BY <1>2 DEF Find
  <2> HIDE DEF e, n
  <2>5. /\ Unique(Cons(e, n))
        /\ KeysOf(Cons(e, n)) = KeysOf(n) \cup {k}
        /\ Peek(Cons(e, n), k) = e.val
        /\ \A j \in KeysOf(n) : Peek(Cons(e, n), j) = Peek(n, j)
    BY <2>1, <2>2, ConsUnique
  <2> QED
    BY <1>2, <2>1, <2>2, <2>3, <2>4, <2>5
<1> QED
  BY <1>1, <1>2

\* set binds its key to its value, binds no other key anew, and keeps the size bound.
LEMMA PutUnique ==
  ASSUME NEW K, NEW V, NEW m \in Lists(K, V), Unique(m), Len(m) <= MaxSize,
         NEW k \in K, NEW v \in V
  PROVE  /\ Unique(Put(m, k, v))
         /\ Len(Put(m, k, v)) <= MaxSize
         /\ k \in KeysOf(Put(m, k, v)) /\ Peek(Put(m, k, v), k) = v
         /\ \A j \in KeysOf(Put(m, k, v)) \ {k} :
              j \in KeysOf(m) /\ Peek(Put(m, k, v), j) = Peek(m, j)
<1> DEFINE S == [key : K, val : V]
           e == Entry(k, v)
           r == Erase(m, k)
           n == Cons(e, r)
<1>1. e \in S /\ e.key = k /\ e.val = v
  BY DEF Entry
<1>2. /\ r \in Lists(K, V) /\ Unique(r) /\ KeysOf(r) = KeysOf(m) \ {k}
      /\ \A j \in KeysOf(m) \ {k} : Peek(r, j) = Peek(m, j)
  BY OperationTypes, EraseUnique
<1>3. Len(m) \in Nat /\ Len(r) \in Nat /\ Len(r) <= Len(m)
  BY EraseLen
<1> HIDE DEF e, r
<1>4. /\ n \in Lists(K, V) /\ Len(n) = Len(r) + 1 /\ n[1] = e
  <2>1. r \in Seq(S)
    BY <1>2 DEF Lists
  <2> HIDE DEF S
  <2> QED
    <3>1. n \in Seq(S) /\ Len(n) = Len(r) + 1 /\ n[1] = e
      BY <1>1, <2>1, ConsShape
    <3> HIDE DEF n
    <3> QED
      BY <3>1 DEF Lists, S
<1>5. /\ Unique(n) /\ KeysOf(n) = KeysOf(r) \cup {k} /\ Peek(n, k) = v
      /\ \A j \in KeysOf(r) : Peek(n, j) = Peek(r, j)
  BY <1>1, <1>2, ConsUnique
<1>6. Put(m, k, v) = IF Len(n) > MaxSize THEN Prune(n, ClearSize) ELSE n
  BY DEF Put, e, r
<1> HIDE DEF n
<1>7. CASE Len(n) <= MaxSize
  BY <1>2, <1>3, <1>4, <1>5, <1>6, <1>7, SizeAssumption
<1>8. CASE Len(n) > MaxSize
  <2> DEFINE q == Len(n) - ClearSize
             c == SubSeq(n, 1, q)
  <2>1. q \in 0..Len(n) /\ 1 <= q /\ q <= MaxSize
    BY <1>3, <1>4, <1>8, SizeAssumption
  <2>2. Put(m, k, v) = c
    BY <1>6, <1>8 DEF Prune
  <2> HIDE DEF q
  <2>3. /\ c \in Lists(K, V) /\ Len(c) = q /\ \A i \in 1..q : c[i] = n[i]
        /\ Unique(c) /\ KeysOf(c) \subseteq KeysOf(n)
        /\ \A j \in KeysOf(c) : Peek(c, j) = Peek(n, j)
    BY <1>4, <1>5, <2>1, CutUnique
  <2> HIDE DEF c
  <2>4. k \in KeysOf(c)
    <3>1. 1 \in 1..q /\ c[1].key = k
      BY <1>1, <1>3, <1>4, <2>1, <2>3
    <3>2. DOMAIN c = 1..q
      <4>1. c \in Seq(S)
        BY <2>3 DEF Lists
      <4> HIDE DEF S
      <4> QED
        BY <2>3, <4>1, LenProperties
    <3> QED
      BY <3>1, <3>2 DEF KeysOf
  <2> QED
    BY <1>2, <1>5, <2>1, <2>2, <2>3, <2>4
<1> QED
  BY <1>3, <1>4, <1>7, <1>8, SizeAssumption

\* set drops no key that is among the MaxSize - ClearSize most recently used ones:
\* only an insertion into a full list prunes, and it prunes the other end.
LEMMA PutSpares ==
  ASSUME NEW K, NEW V, NEW m \in Lists(K, V), Unique(m), Len(m) <= MaxSize,
         NEW k \in K, NEW v \in V,
         NEW i \in DOMAIN m, i <= MaxSize - ClearSize
  PROVE  m[i].key \in KeysOf(Put(m, k, v))
<1> DEFINE S == [key : K, val : V]
           e == Entry(k, v)
           r == Erase(m, k)
           n == Cons(e, r)
<1>1. e \in S /\ e.key = k /\ e.val = v
  BY DEF Entry
<1>2. r \in Lists(K, V) /\ Unique(r) /\ KeysOf(r) = KeysOf(m) \ {k}
  BY OperationTypes, EraseUnique
<1>3. /\ r \in Seq(S) /\ m \in Seq(S)
      /\ k \notin KeysOf(m) => r = m
      /\ k \in KeysOf(m) => PosOf(m, k) \in 1..Len(m) /\ r = RemoveAt(m, PosOf(m, k))
  BY <1>2, PosOfKey DEF Lists, Erase
<1>4. Unique(n) /\ KeysOf(n) = KeysOf(m) \cup {k}
  <2> HIDE DEF e, r
  <2> QED
    BY <1>1, <1>2, ConsUnique
<1>5. Put(m, k, v) = IF Len(n) > MaxSize THEN Prune(n, ClearSize) ELSE n
  BY DEF Put
<1> HIDE DEF e, r
<1>6. n \in Lists(K, V)
  <2> HIDE DEF S
  <2> QED
    BY <1>1, <1>3, ConsShape DEF S, Lists
<1> HIDE DEF S
<1>7. /\ Len(m) \in Nat /\ DOMAIN m = 1..Len(m)
      /\ Len(n) = Len(r) + 1 /\ Len(r) \in Nat
      /\ \A j \in 1..Len(r) : n[j + 1] = r[j]
  BY <1>1, <1>3, ConsShape, LenProperties
<1> HIDE DEF n
<1>8. CASE Len(n) <= MaxSize
  <2>1. Put(m, k, v) = n
    BY <1>5, <1>7, <1>8, SizeAssumption
  <2> QED
    BY <1>4, <2>1 DEF KeysOf
<1>9. CASE Len(n) > MaxSize
  <2>1. k \notin KeysOf(m)
    <3> SUFFICES ASSUME k \in KeysOf(m) PROVE FALSE
      OBVIOUS
    <3>1. Len(r) = Len(m) - 1
      BY <1>3, RemoveAtShape
    <3> QED
      BY <1>7, <1>9, <3>1, SizeAssumption
  <2>2. r = m
    BY <1>3, <2>1
  <2> DEFINE q == Len(n) - ClearSize
             c == SubSeq(n, 1, q)
  <2>3. q \in 0..Len(n) /\ i + 1 \in 1..q
    BY <1>7, <1>9, <2>2, SizeAssumption
  <2>4. Put(m, k, v) = c
    BY <1>5, <1>9 DEF Prune
  <2> HIDE DEF q
  <2>5. c \in Lists(K, V) /\ Len(c) = q /\ \A j \in 1..q : c[j] = n[j]
    BY <1>4, <1>6, <2>3, CutUnique
  <2> HIDE DEF c
  <2>6. DOMAIN c = 1..q
    <3>1. c \in Seq(S)
      BY <2>5 DEF Lists, S
    <3> QED
      BY <2>5, <3>1, LenProperties
  <2>7. n[i + 1] = m[i]
    BY <1>7, <2>2
  <2>8. c[i + 1].key = m[i].key
    BY <2>3, <2>5, <2>7
  <2> QED
    BY <2>3, <2>4, <2>6, <2>8 DEF KeysOf
<1> QED
  BY <1>7, <1>8, <1>9, SizeAssumption
=============================================================================
