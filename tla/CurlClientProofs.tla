---------------------------- MODULE CurlClientProofs ----------------------------
(***************************************************************************)
(* The curl client, for every size of file and block, every number of chunks  *)
(* and of pushed transactions and every order of pauses, errors and pieces.   *)
(* parseHeaders finds the named items of a flag of any length: its loops are  *)
(* recursive functions over the positions of the string, and what they        *)
(* compute is shown by induction, as the set of the positions up to which it  *)
(* holds.                                                                     *)
(***************************************************************************)
EXTENDS CurlClient, SequenceTheorems, WellFoundedInduction, TLAPS

\* All of a file of that size, which may be empty or missing.
Whole(size) == IF size > 0 THEN size ELSE 0

\* What was sent is what was read; the end of message follows the whole file, and
\* nothing is sent once it is there.
Reading ==
  /\ conn \notin {"up", "closed"} => egress = <<>> /\ ~sending
  /\ conn \in {"up", "closed"} =>
       \/ egress = Sent(inputFile.pos)
       \/ /\ egress = Append(Sent(inputFile.pos), EOM) /\ ~sending
          /\ inputFile.pos = Whole(inputFile.size)
  /\ inputFile.good => inputFile.size >= inputFile.pos
  /\ ~inputFile.good => inputFile.pos = Whole(inputFile.size)

\* The blocks of headers of transaction t.
Blocks(t) == IF t = 1 THEN 1 ELSE 2

\* s is what is left of a response after k pieces.
Rest(s, h, n, k) == /\ Len(s) = h + n + 1 - k
                    /\ \A i \in 1 .. Len(s) : s[i] = Response(h, n)[k + i]

\* Transaction t has handled k pieces of a response of n chunks and may have ended.
Stage(t, s, hd, n, k) ==
  /\ s = <<>> \/ Rest(s, Blocks(t), n, k)
  /\ Len(hd) = IF k < Blocks(t) THEN k ELSE Blocks(t)

Handling(t, s, hd) ==
  \E n \in 0 .. MaxChunks : \E k \in 0 .. Blocks(t) + n + 1 : Stage(t, s, hd, n, k)

Writing ==
  /\ Len(txns) <= MaxPushes + 1
  /\ conn \in {"none", "connecting"} => txns = <<>> /\ output = <<>>
  /\ conn = "up" => Len(txns) > 0
  /\ \A j \in DOMAIN output : output[j][1] \in DOMAIN txns
  /\ \A t \in DOMAIN txns : Handling(t, txns[t], heads[t])

Inv == TypeOK /\ Reading /\ Writing
-----------------------------------------------------------------------------
(* What the transaction is given.                                           *)

\* Sent(n) is a sequence of n + 1 numbers, none of them an end of message.
LEMMA SentShape ==
  ASSUME NEW n \in Nat
  PROVE  /\ Sent(n) \in Seq(Int) /\ Len(Sent(n)) = n + 1
         /\ \A i \in 1 .. n + 1 : Sent(n)[i] = i - 1
         /\ Sent(n) # <<>>
<1>1. \A i \in 1 .. n + 1 : (IF i = 1 THEN HEADERS ELSE i - 1) = i - 1
  BY DEF HEADERS
<1>2. Sent(n) = [i \in 1 .. n + 1 |-> i - 1]
  BY <1>1 DEF Sent
<1>3. [i \in 1 .. n + 1 |-> i - 1] \in Seq(Int)
  BY IsASeq
<1>4. Len(Sent(n)) = n + 1
  BY <1>2, <1>3, LenProperties
<1> QED
  BY <1>2, <1>3, <1>4

\* What ends with an end of message contains one.
LEMMA SentEnds ==
  ASSUME NEW n \in Nat
  PROVE  Contains(Append(Sent(n), EOM), EOM)
<1> DEFINE s == Append(Sent(n), EOM)
<1>1. EOM \in Int
  BY DEF EOM
<1>2. Sent(n) \in Seq(Int) /\ Len(Sent(n)) = n + 1
  BY SentShape
<1>3. Len(s) = n + 2 /\ s[n + 2] = EOM
  BY <1>1, <1>2, AppendProperties
<1>4. n + 2 \in 1 .. n + 2
  OBVIOUS
<1> HIDE DEF s
<1>5. Contains(s, EOM)
  BY <1>3, <1>4 DEF Contains
<1> QED
  BY <1>5 DEF s

\* A block continues what was sent.
LEMMA SentBlock ==
  ASSUME NEW p \in Nat, NEW e \in Nat, p <= e
  PROVE  Sent(p) \o [i \in 1 .. e - p |-> p + i] = Sent(e)
<1> DEFINE b == [i \in 1 .. e - p |-> p + i]
           s == Sent(p) \o b
<1>1. b \in Seq(Int) /\ Len(b) = e - p
  <2>1. \A i \in 1 .. e - p : p + i \in Int
    OBVIOUS
  <2>2. b \in Seq(Int)
    BY <2>1, IsASeq
  <2> QED
    BY <2>2, LenProperties
<1>2. /\ s \in Seq(Int) /\ Len(s) = e + 1
      /\ \A i \in 1 .. e + 1 : s[i] = IF i <= p + 1 THEN Sent(p)[i] ELSE b[i - (p + 1)]
  <2>1. Sent(p) \in Seq(Int) /\ Len(Sent(p)) = p + 1
    BY SentShape
  <2> HIDE DEF b
  <2>2. /\ s \in Seq(Int) /\ Len(s) = Len(Sent(p)) + Len(b)
        /\ \A i \in 1 .. Len(Sent(p)) + Len(b) :
             s[i] = IF i <= Len(Sent(p)) THEN Sent(p)[i] ELSE b[i - Len(Sent(p))]
    BY <1>1, <2>1, ConcatProperties
  <2>3. Len(Sent(p)) + Len(b) = e + 1
    BY <1>1, <2>1
  <2> HIDE DEF s
  <2> QED
    BY <2>1, <2>2, <2>3
<1>3. \A i \in 1 .. e + 1 : s[i] = i - 1
  <2> SUFFICES ASSUME NEW i \in 1 .. e + 1 PROVE s[i] = i - 1
    OBVIOUS
  <2>1. CASE i <= p + 1
    BY <1>2, <2>1, SentShape
  <2>2. CASE ~(i <= p + 1)
    <3>1. i - (p + 1) \in 1 .. e - p
      BY <2>2
    <3>2. b[i - (p + 1)] = p + (i - (p + 1))
      BY <3>1
    <3> QED
      BY <1>2, <2>2, <3>2
  <2> QED
    BY <2>1, <2>2
<1>4. Sent(e) \in Seq(Int) /\ Len(Sent(e)) = e + 1 /\ \A i \in 1 .. e + 1 : Sent(e)[i] = i - 1
  BY SentShape
<1> HIDE DEF s
<1>5. s = Sent(e)
  BY <1>2, <1>3, <1>4, SeqEqual
<1> QED
  BY <1>5 DEF s
-----------------------------------------------------------------------------
(* The steps.                                                               *)

Files == [size : -2 .. MaxFile, pos : 0 .. MaxFile, good : BOOLEAN]

\* A step that leaves the egress alone, on a connection that stays up or down.
LEMMA SameReading ==
  ASSUME Reading, UNCHANGED <<inputFile, sending, egress>>,
         conn' \in {"up", "closed"} <=> conn \in {"up", "closed"}
  PROVE  Reading'
BY DEF Reading

\* A step that leaves the ingress alone.
LEMMA SameWriting ==
  ASSUME Writing, UNCHANGED <<txns, heads, output>>,
         conn' \in {"none", "connecting"} => conn \in {"none", "connecting"},
         conn' = "up" => conn = "up"
  PROVE  Writing'
BY DEF Writing

\* main, the end of the connection and the file.
LEMMA MainInv ==
  ASSUME Inv, MainStarts \/ RemoveFile \/ ConnectError \/ SessionCloses \/ MainReturns
  PROVE  Inv'
<1>1. /\ UNCHANGED <<method, inputFile, sending, paused, egress, txns, heads, output, failed>>
      /\ file' \in {file, -1} /\ conn' \in {conn, "connecting", "failed", "closed"}
      /\ conn' = "connecting" => conn \in {"none", "connecting"}
      /\ conn' = "closed" => conn \in {"up", "closed"}
      /\ conn' = "failed" => conn \in {"connecting", "failed"}
  BY DEF MainStarts, Start, RemoveFile, ConnectError, SessionCloses, MainReturns, InLoop,
         egressVars, ingressVars
<1>2. TypeOK'
  BY <1>1, CurlAssumption DEF Inv, TypeOK
<1>3. Reading'
  BY <1>1, SameReading DEF Inv
<1>4. Writing'
  BY <1>1, SameWriting DEF Inv
<1> QED
  BY <1>2, <1>3, <1>4 DEF Inv

\* The loop of sendBodyFromFile, its end, and its start over.
LEMMA SendInv ==
  ASSUME Inv, Egress \/ SendDone \/ OnEgressResumed
  PROVE  Inv'
<1>1. /\ UNCHANGED <<method, file, conn, txns, heads, output, failed>>
      /\ sending' \in BOOLEAN /\ paused' \in BOOLEAN
  BY DEF Egress, SendBlock, SendDone, OnEgressResumed, ingressVars, Inv, TypeOK
<1>2. Writing'
  BY <1>1, SameWriting DEF Inv
<1>3. inputFile \in Files /\ MaxFile \in Nat /\ kReadSize \in Nat \ {0} /\ conn \in {"none", "connecting", "up", "failed", "closed"}
  BY CurlAssumption DEF Inv, TypeOK, Files
<1>4. /\ inputFile.size \in -2 .. MaxFile /\ inputFile.pos \in 0 .. MaxFile /\ inputFile.pos \in Nat
      /\ inputFile.good \in BOOLEAN
  BY <1>3 DEF Files
<1>5. CASE Egress
  <2> DEFINE pos == inputFile.pos
             size == inputFile.size
             end == Min2(pos + kReadSize, size)
             f == [inputFile EXCEPT !.pos = end, !.good = (end = pos + kReadSize)]
  <2>1. /\ sending /\ inputFile.good /\ inputFile' = f /\ sending' = sending
        /\ egress' = egress \o [i \in 1 .. end - pos |-> pos + i]
    BY <1>5 DEF Egress, SendBlock
  <2>2. size >= pos /\ egress = Sent(pos) /\ conn \in {"up", "closed"}
    BY <2>1 DEF Inv, Reading
  <2>3. /\ end \in Nat /\ pos <= end /\ end <= size /\ end \in 0 .. MaxFile
        /\ end # pos + kReadSize => end = size
    BY <1>3, <1>4, <2>2 DEF Min2
  <2>4. Whole(size) = size
    BY <1>4, <2>2 DEF Whole
  <2> HIDE DEF end
  <2>5. f \in Files /\ f.pos = end /\ f.size = size /\ f.good = (end = pos + kReadSize)
    BY <1>3, <2>3 DEF Files
  <2>6. egress' = Sent(end)
    BY <1>4, <2>1, <2>2, <2>3, SentBlock
  <2> HIDE DEF f, pos, size
  <2>7. Reading'
    BY <1>1, <2>1, <2>2, <2>3, <2>4, <2>5, <2>6 DEF Reading
  <2>8. TypeOK'
    BY <1>1, <2>1, <2>5 DEF Inv, TypeOK, Files
  <2> QED
    BY <1>2, <2>7, <2>8 DEF Inv
<1>6. CASE SendDone
  <2>1. /\ sending /\ (~inputFile.good \/ paused) /\ ~sending' /\ UNCHANGED inputFile
        /\ egress' = IF paused THEN egress ELSE Append(egress, EOM)
    BY <1>6 DEF SendDone
  <2>2. egress = Sent(inputFile.pos) /\ conn \in {"up", "closed"}
    BY <2>1 DEF Inv, Reading
  <2>3. ~paused => inputFile.pos = Whole(inputFile.size)
    BY <2>1 DEF Inv, Reading
  <2>4. Reading'
    BY <1>1, <2>1, <2>2, <2>3 DEF Inv, Reading
  <2>5. TypeOK'
    BY <1>1, <2>1 DEF Inv, TypeOK
  <2> QED
    BY <1>2, <2>4, <2>5 DEF Inv
<1>7. CASE OnEgressResumed
  <2>1. conn = "up" /\ ~EgressEnded /\ UNCHANGED <<inputFile, egress>>
    BY <1>7 DEF OnEgressResumed
  <2>2. egress # Append(Sent(inputFile.pos), EOM)
    BY <1>4, <2>1, SentEnds DEF EgressEnded
  <2>3. egress = Sent(inputFile.pos)
    BY <2>1, <2>2 DEF Inv, Reading
  <2>4. Reading'
    BY <1>1, <2>1, <2>3 DEF Inv, Reading
  <2>5. TypeOK'
    BY <1>1, <2>1 DEF Inv, TypeOK
  <2> QED
    BY <1>2, <2>4, <2>5 DEF Inv
<1> QED
  BY <1>5, <1>6, <1>7
-----------------------------------------------------------------------------
(* What the transactions receive.                                           *)

Outputs == Seq((1 .. MaxPushes + 1) \X (1 .. MaxChunks))
HeadSeq == Seq({"promise", "response"})

\* A response has one or two blocks of headers.
LEMMA BlocksType == \A t : Blocks(t) \in {1, 2}
BY DEF Blocks

\* The pieces of a response.
LEMMA ResponseShape ==
  ASSUME NEW h \in {1, 2}, NEW n \in Nat
  PROVE  /\ Response(h, n) \in Seq(Int) /\ Len(Response(h, n)) = h + n + 1
         /\ \A i \in 1 .. h : Response(h, n)[i] = HEADERS
         /\ \A i \in h + 1 .. h + n : Response(h, n)[i] = i - h
         /\ Response(h, n)[h + n + 1] = EOM
<1> DEFINE e(i) == IF i <= h THEN HEADERS ELSE IF i <= h + n THEN i - h ELSE EOM
<1>1. \A i \in 1 .. h + n + 1 : e(i) \in Int
  BY DEF HEADERS, EOM
<1>2. Response(h, n) = [i \in 1 .. h + n + 1 |-> e(i)]
  BY DEF Response
<1>3. /\ \A i \in 1 .. h : e(i) = HEADERS
      /\ \A i \in h + 1 .. h + n : e(i) = i - h
      /\ e(h + n + 1) = EOM
  OBVIOUS
<1> HIDE DEF e
<1>4. h + n + 1 \in Nat
  OBVIOUS
<1>5. [i \in 1 .. h + n + 1 |-> e(i)] \in Seq(Int)
  BY <1>1, <1>4, IsASeq
<1>6. Response(h, n) \in Seq(Int) /\ Len(Response(h, n)) = h + n + 1
  BY <1>2, <1>4, <1>5, LenProperties
<1> QED
  BY <1>2, <1>3, <1>6

\* The next piece of what is left.
LEMMA NextPiece ==
  ASSUME NEW h \in {1, 2}, NEW n \in Nat, NEW k \in Nat, NEW s \in Seq(Int), s # <<>>, Rest(s, h, n, k)
  PROVE  /\ k + 1 <= h + n + 1
         /\ Tail(s) \in Seq(Int) /\ Rest(Tail(s), h, n, k + 1)
         /\ s[1] = HEADERS <=> k < h
         /\ s[1] \notin {HEADERS, EOM} => k >= h /\ k < h + n /\ s[1] = k + 1 - h
<1>1. Len(s) \in Nat \ {0} /\ Len(s) = h + n + 1 - k /\ \A i \in 1 .. Len(s) : s[i] = Response(h, n)[k + i]
  BY EmptySeq DEF Rest
<1>2. k + 1 <= h + n + 1 /\ s[1] = Response(h, n)[k + 1]
  BY <1>1
<1>3. Tail(s) \in Seq(Int) /\ Len(Tail(s)) = Len(s) - 1 /\ \A i \in 1 .. Len(Tail(s)) : Tail(s)[i] = s[i + 1]
  BY HeadTailProperties
<1>4. Rest(Tail(s), h, n, k + 1)
  <2>1. Len(Tail(s)) = h + n + 1 - (k + 1)
    BY <1>1, <1>3
  <2>2. ASSUME NEW i \in 1 .. Len(Tail(s)) PROVE Tail(s)[i] = Response(h, n)[k + 1 + i]
    <3>1. i + 1 \in 1 .. Len(s) /\ k + (i + 1) = k + 1 + i
      BY <1>1, <1>3
    <3>2. s[i + 1] = Response(h, n)[k + (i + 1)]
      BY <1>1, <3>1
    <3> QED
      BY <1>3, <3>1, <3>2
  <2> QED
    BY <2>1, <2>2 DEF Rest
<1>0. /\ \A i \in 1 .. h : Response(h, n)[i] = HEADERS
      /\ \A i \in h + 1 .. h + n : Response(h, n)[i] = i - h
  BY ResponseShape
<1>5. CASE k < h
  <2>1. s[1] = HEADERS
    <3>1. k + 1 \in 1 .. h
      BY <1>5
    <3> QED
      BY <1>0, <1>2, <3>1
  <2> QED
    BY <1>2, <1>3, <1>4, <1>5, <2>1
<1>6. CASE k >= h /\ k < h + n
  <2>1. s[1] = k + 1 - h /\ k + 1 - h > 0
    <3>1. k + 1 \in h + 1 .. h + n
      BY <1>6
    <3> QED
      BY <1>0, <1>2, <1>6, <3>1
  <2>2. s[1] # HEADERS
    BY <2>1 DEF HEADERS
  <2> QED
    BY <1>2, <1>3, <1>4, <1>6, <2>1, <2>2
<1>7. CASE k = h + n
  <2>1. s[1] = EOM
    BY <1>2, <1>7, ResponseShape
  <2>2. s[1] # HEADERS
    BY <2>1 DEF EOM, HEADERS
  <2> QED
    BY <1>2, <1>3, <1>4, <1>7, <2>1, <2>2
<1>8. k < h \/ (k >= h /\ k < h + n) \/ k = h + n
  BY <1>2
<1> QED
  BY <1>5, <1>6, <1>7, <1>8

\* A transaction that begins.
LEMMA FreshHandling ==
  ASSUME NEW t, NEW n \in 0 .. MaxChunks
  PROVE  Handling(t, Response(Blocks(t), n), <<>>)
<1>1. Blocks(t) \in {1, 2} /\ n \in Nat /\ MaxChunks \in Nat
  BY BlocksType, CurlAssumption
<1>2. Rest(Response(Blocks(t), n), Blocks(t), n, 0)
  <2> DEFINE h == Blocks(t)
  <2>1. h \in {1, 2} /\ n \in Nat
    BY <1>1
  <2> HIDE DEF h
  <2>0. Len(Response(h, n)) = h + n + 1
    BY <2>1, ResponseShape
  <2>2. Len(Response(h, n)) = h + n + 1 - 0
    BY <2>0, <2>1
  <2>3. \A i \in 1 .. Len(Response(h, n)) : 0 + i = i
    BY <2>1, <2>2
  <2>4. Rest(Response(h, n), h, n, 0)
    BY <2>2, <2>3 DEF Rest
  <2> QED
    BY <2>4 DEF h
<1>3. 0 \in 0 .. Blocks(t) + n + 1 /\ 0 < Blocks(t)
  BY <1>1
<1>4. Stage(t, Response(Blocks(t), n), <<>>, n, 0)
  BY <1>2, <1>3 DEF Stage
<1> QED
  BY <1>3, <1>4 DEF Handling

\* One transaction moves.
LEMMA TxnMoves ==
  ASSUME Inv, InLoop, NEW t \in DOMAIN txns,
         txns' \in Seq(Seq(Int)), Len(txns') = Len(txns),
         heads' \in Seq(HeadSeq), Len(heads') = Len(heads),
         \A u \in DOMAIN txns \ {t} : txns'[u] = txns[u] /\ heads'[u] = heads[u],
         Handling(t, txns'[t], heads'[t]),
         output' \in Outputs, \A j \in DOMAIN output' : output'[j][1] \in DOMAIN txns,
         failed' \in BOOLEAN,
         UNCHANGED <<method, file, conn, inputFile, sending, paused, egress>>
  PROVE  Inv'
<1>1. DOMAIN txns' = DOMAIN txns /\ DOMAIN heads' = DOMAIN txns /\ Len(txns') = Len(heads')
  BY LenProperties DEF Inv, TypeOK
<1>2. \A u \in DOMAIN txns : Handling(u, txns'[u], heads'[u])
  BY DEF Inv, Writing
<1>3. Writing'
  BY <1>1, <1>2 DEF Inv, Writing, InLoop
<1>4. \A u \in DOMAIN heads' : Len(heads'[u]) <= 2
  <2> SUFFICES ASSUME NEW u \in DOMAIN txns PROVE Len(heads'[u]) <= 2
    BY <1>1
  <2>1. PICK n \in 0 .. MaxChunks : \E k \in 0 .. Blocks(u) + n + 1 : Stage(u, txns'[u], heads'[u], n, k)
    BY <1>2 DEF Handling
  <2>2. PICK k \in 0 .. Blocks(u) + n + 1 : Stage(u, txns'[u], heads'[u], n, k)
    BY <2>1
  <2>3. Len(heads'[u]) = IF k < Blocks(u) THEN k ELSE Blocks(u)
    BY <2>2 DEF Stage
  <2>4. Blocks(u) \in {1, 2} /\ n \in Nat /\ k \in Nat
    BY BlocksType, CurlAssumption
  <2> QED
    BY <2>3, <2>4
<1>5. TypeOK'
  BY <1>1, <1>4 DEF Inv, TypeOK, HeadSeq, Outputs
<1>6. Reading'
  BY SameReading DEF Inv
<1> QED
  BY <1>3, <1>5, <1>6 DEF Inv

\* Where a transaction with something left to receive stands.
LEMMA Receiving ==
  ASSUME Inv, InLoop, NEW t \in DOMAIN txns, txns[t] # <<>>
  PROVE  \E n \in 0 .. MaxChunks : \E k \in 0 .. Blocks(t) + n :
           /\ Stage(t, txns[t], heads[t], n, k)
           /\ Tail(txns[t]) \in Seq(Int) /\ Rest(Tail(txns[t]), Blocks(t), n, k + 1)
           /\ txns[t][1] = HEADERS <=> k < Blocks(t)
           /\ txns[t][1] \notin {HEADERS, EOM} =>
                k >= Blocks(t) /\ k < Blocks(t) + n /\ txns[t][1] = k + 1 - Blocks(t)
<1> DEFINE h == Blocks(t)
           s == txns[t]
<1>1. s \in Seq(Int) /\ s # <<>> /\ h \in {1, 2} /\ MaxChunks \in Nat
  BY BlocksType, LenProperties, CurlAssumption DEF Inv, TypeOK
<1>2. PICK n \in 0 .. MaxChunks : \E k \in 0 .. h + n + 1 : Stage(t, s, heads[t], n, k)
  BY DEF Inv, Writing, Handling
<1>3. PICK k \in 0 .. h + n + 1 : Stage(t, s, heads[t], n, k)
  BY <1>2
<1>4. Rest(s, h, n, k)
  BY <1>3 DEF Stage
<1> HIDE DEF h, s
<1>5. n \in Nat /\ k \in Nat
  BY <1>1
<1>6. /\ k + 1 <= h + n + 1
      /\ Tail(s) \in Seq(Int) /\ Rest(Tail(s), h, n, k + 1)
      /\ s[1] = HEADERS <=> k < h
      /\ s[1] \notin {HEADERS, EOM} => k >= h /\ k < h + n /\ s[1] = k + 1 - h
  BY <1>1, <1>4, <1>5, NextPiece
<1>7. k \in 0 .. h + n
  BY <1>1, <1>5, <1>6
<1> QED
  BY <1>3, <1>6, <1>7 DEF h, s

\* Headers: those of the promise first for a pushed transaction.
LEMMA OnHeadersInv ==
  ASSUME Inv, NEW t \in DOMAIN txns, OnHeadersComplete(t)
  PROVE  Inv'
<1> DEFINE h == Blocks(t)
           e == IF t > 1 /\ heads[t] = <<>> THEN "promise" ELSE "response"
           hd == Append(heads[t], e)
<1>1. /\ InLoop /\ txns[t] # <<>> /\ txns[t][1] = HEADERS
      /\ heads' = [heads EXCEPT ![t] = hd] /\ txns' = [txns EXCEPT ![t] = Tail(txns[t])]
      /\ UNCHANGED <<method, file, conn, output, failed, inputFile, sending, paused, egress>>
  BY DEF OnHeadersComplete, egressVars
<1>2. PICK n \in 0 .. MaxChunks : \E k \in 0 .. h + n :
           /\ Stage(t, txns[t], heads[t], n, k)
           /\ Tail(txns[t]) \in Seq(Int) /\ Rest(Tail(txns[t]), h, n, k + 1)
           /\ k < h
  BY <1>1, Receiving
<1>3. PICK k \in 0 .. h + n :
           /\ Stage(t, txns[t], heads[t], n, k)
           /\ Tail(txns[t]) \in Seq(Int) /\ Rest(Tail(txns[t]), h, n, k + 1)
           /\ k < h
  BY <1>2
<1>4. h \in {1, 2} /\ n \in Nat /\ k \in Nat /\ MaxChunks \in Nat
  BY BlocksType, CurlAssumption
<1>5. /\ txns \in Seq(Seq(Int)) /\ heads \in Seq(HeadSeq) /\ Len(heads) = Len(txns)
      /\ t \in 1 .. Len(txns) /\ DOMAIN txns = 1 .. Len(txns) /\ DOMAIN heads = 1 .. Len(heads)
      /\ heads[t] \in HeadSeq
  BY LenProperties DEF Inv, TypeOK, HeadSeq
<1>6. hd \in HeadSeq /\ Len(hd) = Len(heads[t]) + 1
  <2>1. e \in {"promise", "response"}
    OBVIOUS
  <2> HIDE DEF e
  <2> QED
    BY <1>5, <2>1, AppendProperties DEF HeadSeq
<1>7. Len(heads[t]) = k
  BY <1>3 DEF Stage
<1> HIDE DEF hd, e
<1>8. /\ txns' \in Seq(Seq(Int)) /\ Len(txns') = Len(txns) /\ txns'[t] = Tail(txns[t])
      /\ heads' \in Seq(HeadSeq) /\ Len(heads') = Len(heads) /\ heads'[t] = hd
      /\ \A u \in DOMAIN txns \ {t} : txns'[u] = txns[u] /\ heads'[u] = heads[u]
  BY <1>1, <1>3, <1>5, <1>6, ExceptSeq
<1>9. Stage(t, Tail(txns[t]), hd, n, k + 1)
  <2>1. Len(hd) = IF k + 1 < h THEN k + 1 ELSE h
    BY <1>3, <1>4, <1>6, <1>7
  <2>2. Rest(Tail(txns[t]), h, n, k + 1)
    BY <1>3
  <2> HIDE DEF h
  <2> QED
    BY <2>1, <2>2 DEF Stage, h
<1>10. k + 1 \in 0 .. h + n + 1
  BY <1>4
<1>11. Handling(t, txns'[t], heads'[t])
  BY <1>1, <1>8, <1>9, <1>10 DEF Handling
<1>12. /\ output' \in Outputs /\ (\A j \in DOMAIN output' : output'[j][1] \in DOMAIN txns)
       /\ failed' \in BOOLEAN
  BY <1>1 DEF Inv, TypeOK, Writing, Outputs
<1> QED
  BY <1>1, <1>8, <1>11, <1>12, TxnMoves

\* A chunk of the body is written and the rest is still to come.
LEMMA OnBodyInv ==
  ASSUME Inv, NEW t \in DOMAIN txns, OnBody(t)
  PROVE  Inv'
<1> DEFINE h == Blocks(t)
           c == txns[t][1]
           e == <<t, c>>
<1>1. /\ InLoop /\ txns[t] # <<>> /\ c \notin {HEADERS, EOM}
      /\ output' = Append(output, e) /\ txns' = [txns EXCEPT ![t] = Tail(txns[t])]
      /\ UNCHANGED <<method, file, conn, heads, failed, inputFile, sending, paused, egress>>
  BY DEF OnBody, egressVars
<1>2. PICK n \in 0 .. MaxChunks : \E k \in 0 .. h + n :
           /\ Stage(t, txns[t], heads[t], n, k)
           /\ Tail(txns[t]) \in Seq(Int) /\ Rest(Tail(txns[t]), h, n, k + 1)
           /\ k >= h /\ k < h + n /\ c = k + 1 - h
  BY <1>1, Receiving
<1>3. PICK k \in 0 .. h + n :
           /\ Stage(t, txns[t], heads[t], n, k)
           /\ Tail(txns[t]) \in Seq(Int) /\ Rest(Tail(txns[t]), h, n, k + 1)
           /\ k >= h /\ k < h + n /\ c = k + 1 - h
  BY <1>2
<1>4. h \in {1, 2} /\ n \in Nat /\ k \in Nat /\ MaxChunks \in Nat /\ MaxPushes \in Nat
  BY BlocksType, CurlAssumption
<1>5. /\ txns \in Seq(Seq(Int)) /\ heads \in Seq(HeadSeq) /\ Len(heads) = Len(txns)
      /\ t \in 1 .. Len(txns) /\ DOMAIN txns = 1 .. Len(txns) /\ Len(txns) \in Nat
      /\ Len(txns) <= MaxPushes + 1 /\ output \in Outputs /\ DOMAIN output = 1 .. Len(output)
      /\ Len(output) \in Nat
  BY LenProperties DEF Inv, TypeOK, HeadSeq, Writing, Outputs
<1> HIDE DEF h, c
<1>6. c \in 1 .. MaxChunks /\ t \in 1 .. MaxPushes + 1
  BY <1>3, <1>4, <1>5
<1>7. e \in (1 .. MaxPushes + 1) \X (1 .. MaxChunks) /\ e[1] = t /\ e[2] = c
  BY <1>6
<1> HIDE DEF e
<1>8. /\ output' \in Outputs /\ Len(output') = Len(output) + 1
      /\ (\A j \in 1 .. Len(output) : output'[j] = output[j]) /\ output'[Len(output) + 1] = e
  BY <1>1, <1>5, <1>7, AppendProperties DEF Outputs
<1>9. DOMAIN output' = 1 .. Len(output) + 1
       /\ \A j \in 1 .. Len(output) + 1 : j \in 1 .. Len(output) \/ j = Len(output) + 1
  BY <1>5, <1>8, LenProperties DEF Outputs
<1>10. /\ txns' \in Seq(Seq(Int)) /\ Len(txns') = Len(txns) /\ txns'[t] = Tail(txns[t])
       /\ \A u \in DOMAIN txns \ {t} : txns'[u] = txns[u] /\ heads'[u] = heads[u]
  BY <1>1, <1>3, <1>5, ExceptSeq
<1>11. Stage(t, Tail(txns[t]), heads[t], n, k + 1)
  <2>1. Len(heads[t]) = IF k + 1 < h THEN k + 1 ELSE h
    <3>1. Len(heads[t]) = IF k < h THEN k ELSE h
      BY <1>3 DEF Stage, h
    <3> QED
      BY <1>3, <1>4, <3>1
  <2>2. Rest(Tail(txns[t]), h, n, k + 1)
    BY <1>3
  <2> QED
    BY <2>1, <2>2 DEF Stage, h
<1>12. k + 1 \in 0 .. h + n + 1
  BY <1>4
<1>13. Handling(t, txns'[t], heads'[t])
  BY <1>1, <1>10, <1>11, <1>12 DEF Handling, h
<1>14. \A j \in DOMAIN output' : output'[j][1] \in DOMAIN txns
  <2>1. \A j \in DOMAIN output : output[j][1] \in DOMAIN txns
    BY DEF Inv, Writing
  <2> QED
    BY <1>5, <1>7, <1>8, <1>9, <2>1
<1>15. heads' \in Seq(HeadSeq) /\ Len(heads') = Len(heads) /\ failed' \in BOOLEAN
  BY <1>1, <1>5 DEF Inv, TypeOK
<1> QED
  BY <1>1, <1>8, <1>10, <1>13, <1>14, <1>15, TxnMoves

\* The end of a response, or of the connection: nothing more comes.
LEMMA EndInv ==
  ASSUME Inv, NEW t \in DOMAIN txns, OnEOM(t) \/ OnError(t)
  PROVE  Inv'
<1>1. /\ InLoop /\ txns' = [txns EXCEPT ![t] = <<>>] /\ failed' \in BOOLEAN
      /\ UNCHANGED <<method, file, conn, heads, output, inputFile, sending, paused, egress>>
  BY DEF OnEOM, OnError, egressVars, Inv, TypeOK
<1>2. /\ txns \in Seq(Seq(Int)) /\ <<>> \in Seq(Int) /\ t \in 1 .. Len(txns) /\ DOMAIN txns = 1 .. Len(txns)
  BY LenProperties DEF Inv, TypeOK
<1>3. /\ txns' \in Seq(Seq(Int)) /\ Len(txns') = Len(txns) /\ txns'[t] = <<>>
      /\ \A u \in DOMAIN txns \ {t} : txns'[u] = txns[u]
  BY <1>1, <1>2, ExceptSeq
<1>4. Handling(t, <<>>, heads[t])
  BY DEF Inv, Writing, Handling, Stage
<1>5. /\ output' \in Outputs /\ (\A j \in DOMAIN output' : output'[j][1] \in DOMAIN txns)
      /\ heads' \in Seq(HeadSeq) /\ Len(heads') = Len(heads)
  BY <1>1 DEF Inv, TypeOK, Writing, Outputs, HeadSeq
<1> QED
  BY <1>1, <1>3, <1>4, <1>5, TxnMoves

\* A pushed transaction begins.
LEMMA PushedInv ==
  ASSUME Inv, NEW n \in 0 .. MaxChunks, OnPushedTransaction(n)
  PROVE  Inv'
<1> DEFINE T == Len(txns) + 1
<1>1. /\ InLoop /\ Len(txns) <= MaxPushes
      /\ txns' = Append(txns, Response(2, n)) /\ heads' = Append(heads, <<>>)
      /\ UNCHANGED <<method, file, conn, output, failed, inputFile, sending, paused, egress>>
  BY DEF OnPushedTransaction, egressVars
<1>2. /\ txns \in Seq(Seq(Int)) /\ heads \in Seq(HeadSeq) /\ Len(heads) = Len(txns)
      /\ Len(txns) \in Nat /\ Len(txns) > 0 /\ MaxPushes \in Nat /\ n \in Nat
      /\ DOMAIN txns = 1 .. Len(txns) /\ DOMAIN heads = 1 .. Len(txns)
  BY <1>1, LenProperties, CurlAssumption DEF Inv, TypeOK, HeadSeq, Writing, InLoop
<1>3. Response(2, n) \in Seq(Int) /\ <<>> \in HeadSeq
  BY <1>2, ResponseShape DEF HeadSeq
<1>4. /\ txns' \in Seq(Seq(Int)) /\ Len(txns') = T /\ txns'[T] = Response(2, n)
      /\ (\A u \in 1 .. Len(txns) : txns'[u] = txns[u])
  BY <1>1, <1>2, <1>3, AppendProperties
<1>5. /\ heads' \in Seq(HeadSeq) /\ Len(heads') = T /\ heads'[T] = <<>>
      /\ (\A u \in 1 .. Len(txns) : heads'[u] = heads[u])
  BY <1>1, <1>2, <1>3, AppendProperties
<1>6. DOMAIN txns' = 1 .. T /\ DOMAIN heads' = 1 .. T /\ \A u \in 1 .. T : u \in 1 .. Len(txns) \/ u = T
  BY <1>2, <1>4, <1>5, LenProperties
<1>7. Handling(T, txns'[T], heads'[T])
  <2>1. Blocks(T) = 2
    BY <1>2 DEF Blocks
  <2> HIDE DEF T
  <2>2. Handling(T, Response(2, n), <<>>)
    BY <2>1, FreshHandling
  <2> QED
    BY <1>1, <1>4, <1>5, <2>2
<1>8. \A u \in 1 .. Len(txns) : Handling(u, txns'[u], heads'[u])
  BY <1>1, <1>2, <1>4, <1>5 DEF Inv, Writing
<1>9. \A u \in DOMAIN txns' : Handling(u, txns'[u], heads'[u])
  BY <1>6, <1>7, <1>8
<1>10. /\ T <= MaxPushes + 1 /\ T > 0
       /\ (\A j \in DOMAIN output : output[j][1] \in 1 .. T)
       /\ conn = "up"
  <2>1. T <= MaxPushes + 1 /\ T > 0 /\ \A u \in 1 .. Len(txns) : u \in 1 .. T
    BY <1>1, <1>2
  <2>2. \A j \in DOMAIN output : output[j][1] \in 1 .. Len(txns)
    BY <1>2 DEF Inv, Writing
  <2>3. conn = "up"
    BY <1>1 DEF InLoop
  <2> HIDE DEF T
  <2> QED
    BY <2>1, <2>2, <2>3
<1> HIDE DEF T
<1>11. Writing'
  BY <1>1, <1>4, <1>6, <1>9, <1>10 DEF Writing
<1>12. TypeOK'
  <2>1. \A u \in DOMAIN heads' : Len(heads'[u]) <= 2
    <3>1. \A u \in 1 .. Len(txns) : Len(heads[u]) <= 2
      BY <1>2 DEF Inv, TypeOK
    <3> QED
      BY <1>5, <1>6, <3>1
  <2> QED
    BY <1>1, <1>4, <1>5, <2>1 DEF Inv, TypeOK, HeadSeq
<1>13. Reading'
  BY <1>1, SameReading DEF Inv
<1> QED
  BY <1>11, <1>12, <1>13 DEF Inv

\* A sequence of one element, and one more.
LEMMA AppendOne ==
  ASSUME NEW a, NEW b
  PROVE  Append(<<a>>, b) = <<a, b>>
<1> DEFINE S == {a, b}
           s == <<a>>
           u == Append(s, b)
           v == <<a, b>>
<1>1. s \in Seq(S) /\ Len(s) = 1 /\ s[1] = a /\ b \in S
  OBVIOUS
<1>2. v \in Seq(S) /\ Len(v) = 2 /\ v[1] = a /\ v[2] = b
  OBVIOUS
<1> HIDE DEF S, s, v
<1>3. u \in Seq(S) /\ Len(u) = 2 /\ u[1] = a /\ u[2] = b
  <2>1. /\ u \in Seq(S) /\ Len(u) = Len(s) + 1 /\ u[Len(s) + 1] = b
        /\ \A i \in 1 .. Len(s) : u[i] = s[i]
    BY <1>1, AppendProperties, ZenonT(30)
  <2> HIDE DEF u
  <2>2. 1 \in 1 .. Len(s) /\ Len(s) + 1 = 2
    BY <1>1
  <2> QED
    BY <1>1, <2>1, <2>2
<1> HIDE DEF u
<1>4. \A i \in 1 .. 2 : u[i] = v[i]
  BY <1>2, <1>3
<1>5. u = v
  BY <1>2, <1>3, <1>4, SeqEqual
<1> QED
  BY <1>5 DEF u, v, s

\* No file is open.
LEMMA ClosedFile ==
  Closed \in Files /\ Closed.pos = 0 /\ ~Closed.good /\ Whole(Closed.size) = 0
BY CurlAssumption DEF Closed, Files, Whole

\* connectSuccess: the request's own transaction begins.
LEMMA ConnectSuccessInv ==
  ASSUME Inv, NEW p \in BOOLEAN, NEW n \in 0 .. MaxChunks, ConnectSuccess(p, n)
  PROVE  Inv'
<1> DEFINE r == Response(1, n)
           f == IF method = "POST" THEN [size |-> file, pos |-> 0, good |-> file # -1] ELSE Closed
<1>1. /\ conn = "connecting" /\ conn' = "up" /\ txns' = <<r>> /\ heads' = <<<<>>>> /\ paused' = p
      /\ inputFile' = f /\ sending' = (method = "POST")
      /\ egress' = (IF method = "POST" THEN <<HEADERS>> ELSE <<HEADERS, EOM>>)
      /\ UNCHANGED <<method, file, output, failed>>
  BY DEF ConnectSuccess
<1>2. n \in Nat /\ MaxFile \in Nat /\ MaxPushes \in Nat /\ file \in -1 .. MaxFile /\ output = <<>>
  BY <1>1, CurlAssumption DEF Inv, TypeOK, Writing
<1>3. r \in Seq(Int)
  BY <1>2, ResponseShape
<1> HIDE DEF r
<1>4. f \in Files /\ f.pos = 0 /\ (f.good => f.size >= 0) /\ (~f.good => Whole(f.size) = 0)
      /\ (method # "POST" => ~f.good)
  <2>1. CASE method = "POST"
    <3>1. f = [size |-> file, pos |-> 0, good |-> file # -1]
      BY <2>1
    <3> HIDE DEF f
    <3>2. f.size = file /\ f.pos = 0 /\ f.good = (file # -1)
      BY <3>1
    <3>3. f \in Files
      BY <1>2, <3>1 DEF Files
    <3>4. (file # -1 => file >= 0) /\ (file = -1 => Whole(file) = 0)
      BY <1>2 DEF Whole
    <3> QED
      BY <2>1, <3>2, <3>3, <3>4
  <2>2. CASE method # "POST"
    <3>1. f = Closed
      BY <2>2
    <3> HIDE DEF f
    <3> QED
      BY <2>2, <3>1, ClosedFile
  <2> QED
    BY <2>1, <2>2
<1>5. Sent(0) = <<HEADERS>> /\ Append(Sent(0), EOM) = <<HEADERS, EOM>>
  <2>1. Sent(0) = <<HEADERS>>
    BY DEF Sent, HEADERS
  <2>2. Append(<<HEADERS>>, EOM) = <<HEADERS, EOM>>
    BY AppendOne
  <2> QED
    BY <2>1, <2>2, Zenon
<1> HIDE DEF f
<1>6. Reading'
  BY <1>1, <1>4, <1>5 DEF Reading
<1>7. Handling(1, r, <<>>)
  <2>1. Blocks(1) = 1
    BY DEF Blocks
  <2>2. \A t : t = 1 => Handling(t, Response(Blocks(t), n), <<>>)
    BY FreshHandling
  <2> QED
    BY <2>1, <2>2 DEF r
<1>8. txns' \in Seq(Seq(Int)) /\ Len(txns') = 1 /\ DOMAIN txns' = {1} /\ txns'[1] = r
  BY <1>1, <1>3
<1>9. heads' \in Seq(HeadSeq) /\ Len(heads') = 1 /\ DOMAIN heads' = {1} /\ heads'[1] = <<>>
  <2>1. <<>> \in HeadSeq
    BY DEF HeadSeq
  <2> QED
    BY <1>1, <2>1
<1>10. Writing'
  BY <1>1, <1>2, <1>7, <1>8, <1>9 DEF Writing
<1>11. TypeOK'
  <2>1. sending' \in BOOLEAN /\ paused' \in BOOLEAN
    BY <1>1
  <2> QED
    BY <1>1, <1>4, <1>8, <1>9, <2>1 DEF Inv, TypeOK, Files, HeadSeq
<1> QED
  BY <1>6, <1>10, <1>11 DEF Inv

\* The invariant holds of the specification.
LEMMA InvHolds == Spec => []Inv
<1>1. Init => Inv
  <2> SUFFICES ASSUME Init PROVE Inv
    OBVIOUS
  <2>1. Closed \in Files /\ Closed.pos = 0 /\ ~Closed.good /\ Whole(Closed.size) = 0
    BY ClosedFile
  <2>2. TypeOK
    <3>1. inputFile \in Files
      BY <2>1 DEF Init
    <3>2. sending \in BOOLEAN /\ paused \in BOOLEAN /\ failed \in BOOLEAN
      BY DEF Init
    <3>3. /\ txns = <<>> /\ heads = <<>> /\ output = <<>> /\ conn = "none"
          /\ method \in {"GET", "POST"} /\ file \in -1 .. MaxFile
      BY DEF Init
    <3>4. \A S : <<>> \in Seq(S)
      OBVIOUS
    <3>5. \A u \in DOMAIN heads : Len(heads[u]) <= 2
      BY <3>3
    <3>6. Len(txns) = Len(heads)
      BY <3>3
    <3> QED
      BY <3>1, <3>2, <3>3, <3>4, <3>5, <3>6 DEF TypeOK, Files
  <2>3. Reading
    BY <2>1 DEF Init, Reading
  <2>4. Writing
    BY CurlAssumption DEF Init, Writing
  <2> QED
    BY <2>2, <2>3, <2>4 DEF Inv
<1>2. Inv /\ [Next]_vars => Inv'
  <2> SUFFICES ASSUME Inv, [Next]_vars PROVE Inv'
    OBVIOUS
  <2>1. CASE Next
    BY <2>1, MainInv, ConnectSuccessInv, SendInv, OnHeadersInv, OnBodyInv, EndInv, PushedInv
       DEF Next, Ingress
  <2>2. CASE UNCHANGED vars
    <3>1. TypeOK'
      BY <2>2 DEF Inv, TypeOK, vars
    <3>2. Reading' /\ Writing'
      BY <2>2, SameReading, SameWriting DEF Inv, vars
    <3> QED
      BY <3>1, <3>2 DEF Inv
  <2> QED
    BY <2>1, <2>2
<1> QED
  BY <1>1, <1>2, PTL DEF Spec
-----------------------------------------------------------------------------
(* Induction and recursion on the positions of a string.                    *)

\* A non-empty set of natural numbers has a least element.
LEMMA LeastNat ==
  ASSUME NEW Z \in SUBSET Nat, Z # {}
  PROVE  \E i \in Z : \A j \in Z : i <= j
<1> DEFINE R == OpToRel(<, Nat)
<1>1. IsWellFoundedOn(R, Nat)
  BY NatLessThanWellFounded
<1>2. \A i, j \in Nat : <<i, j>> \in R <=> i < j
  BY DEF OpToRel
<1> HIDE DEF R
<1>3. PICK i \in Z : \A j \in Z : ~(<<j, i>> \in R)
  BY <1>1, WFMin
<1>4. \A j \in Z : i \in Nat /\ j \in Nat /\ ~(j < i)
  BY <1>2, <1>3
<1>5. \A j \in Z : i <= j
  BY <1>4
<1> QED
  BY <1>5

\* A set that holds a and is closed under the step up to n holds a .. n.
LEMMA UpTo ==
  ASSUME NEW a \in Nat, NEW n \in Nat, NEW Z, a \in Z,
         \A i \in a .. n - 1 : i \in Z => i + 1 \in Z
  PROVE  \A i \in a .. n : i \in Z
<1> SUFFICES ASSUME NEW x \in a .. n, x \notin Z
             PROVE  FALSE
  OBVIOUS
<1> DEFINE M == {i \in Nat : i \in a .. n /\ i \notin Z}
<1>1. M \in SUBSET Nat /\ x \in M
  OBVIOUS
<1>2. \A i \in M : i \in Nat /\ i \in a .. n /\ i \notin Z
  OBVIOUS
<1>3. \A i \in Nat : i \in a .. n /\ i \notin Z => i \in M
  OBVIOUS
<1> HIDE DEF M
<1>4. PICK m \in M : \A j \in M : m <= j
  BY <1>1, LeastNat
<1>5. m \in Nat /\ m >= a /\ m <= n /\ m \notin Z /\ m # a
  BY <1>2
<1>6. m - 1 \in Nat /\ m - 1 \in a .. n - 1 /\ m - 1 \in a .. n
  BY <1>5
<1>7. m - 1 \notin M
  BY <1>4, <1>5, <1>6
<1>8. m - 1 \in Z
  BY <1>3, <1>6, <1>7
<1>9. (m - 1) + 1 \in Z
  BY <1>6, <1>8
<1> QED
  BY <1>5, <1>9

\* g starts with b and goes on with the steps F, up to n.
Follows(g, n, b, F) == g[0] = b /\ \A i \in 1 .. n : g[i] = F[i][g[i - 1]]

\* A recursion along 0 .. n with steps within V has a solution.
LEMMA Recursion ==
  ASSUME NEW V, NEW n \in Nat, NEW b \in V, NEW F,
         \A i \in 1 .. n : \A v \in V : F[i][v] \in V
  PROVE  \E g \in [0 .. n -> V] : Follows(g, n, b, F)
<1> USE DEF Follows
<1> DEFINE Sol(g, k) == Follows(g, k, b, F)
           Z == {k \in 0 .. n : \E g \in [0 .. k -> V] : Sol(g, k)}
<1>1. 0 \in Z
  <2> DEFINE g == [i \in 0 .. 0 |-> b]
  <2>1. g \in [0 .. 0 -> V] /\ Sol(g, 0)
    OBVIOUS
  <2> HIDE DEF g
  <2>2. 0 \in 0 .. n
    OBVIOUS
  <2> QED
    BY <2>1, <2>2
<1>2. ASSUME NEW k \in 0 .. n - 1, k \in Z
      PROVE  k + 1 \in Z
  <2>1. PICK g \in [0 .. k -> V] : Sol(g, k)
    BY <1>2
  <2> DEFINE h == [i \in 0 .. k + 1 |-> IF i = k + 1 THEN F[k + 1][g[k]] ELSE g[i]]
  <2>2. F[k + 1][g[k]] \in V
    OBVIOUS
  <2>3. h \in [0 .. k + 1 -> V]
    BY <2>2
  <2>4. h[0] = b /\ h[k + 1] = F[k + 1][g[k]] /\ \A i \in 0 .. k : h[i] = g[i]
    BY <2>1
  <2> HIDE DEF h
  <2>5. ASSUME NEW i \in 1 .. k + 1
        PROVE  h[i] = F[i][h[i - 1]]
    <3>1. CASE i = k + 1
      BY <2>4, <3>1
    <3>2. CASE i # k + 1
      <4>1. i \in 1 .. k /\ i \in 0 .. k /\ i - 1 \in 0 .. k
        BY <3>2
      <4> QED
        BY <2>1, <2>4, <4>1
    <3> QED
      BY <3>1, <3>2
  <2> QED
    BY <2>3, <2>4, <2>5
<1> HIDE DEF Z
<1>3. \A i \in 0 .. n : i \in Z
  <2>1. \A i \in 0 .. n - 1 : i \in Z => i + 1 \in Z
    BY <1>2
  <2>2. 0 \in Nat
    OBVIOUS
  <2> QED
    BY <1>1, <2>1, <2>2, UpTo
<1>4. n \in Z
  BY <1>3
<1> QED
  BY <1>4 DEF Z
-----------------------------------------------------------------------------
(* folly::split.                                                            *)

Pieces(C) == Seq(Seq(C)) \ {<<>>}

\* A step of the split of a string.
LEMMA SplitAtType ==
  ASSUME NEW C, NEW ps \in Pieces(C), NEW sep, NEW c \in C
  PROVE  SplitAt(ps, sep, c) \in Pieces(C)
<1>1. ps \in Seq(Seq(C)) /\ Len(ps) \in Nat /\ Len(ps) \in 1 .. Len(ps) /\ ps[Len(ps)] \in Seq(C)
  BY EmptySeq, LenProperties, ElementOfSeq DEF Pieces
<1>2. CASE c = sep
  BY <1>1, <1>2, EmptySeq, AppendProperties DEF SplitAt, Pieces
<1>3. CASE c # sep
  <2> DEFINE e == Append(ps[Len(ps)], c)
  <2>1. e \in Seq(C)
    BY <1>1, AppendProperties
  <2>2. SplitAt(ps, sep, c) = [ps EXCEPT ![Len(ps)] = e]
    BY <1>3 DEF SplitAt
  <2> HIDE DEF e
  <2>3. [ps EXCEPT ![Len(ps)] = e] \in Seq(Seq(C)) /\ Len([ps EXCEPT ![Len(ps)] = e]) = Len(ps)
    BY <1>1, <2>1, ExceptSeq
  <2> QED
    BY <1>1, <2>2, <2>3, EmptySeq DEF Pieces
<1> QED
  BY <1>2, <1>3

SplitRun(g, sep, s) ==
  /\ g[0] = <<<<>>>>
  /\ \A i \in 1 .. Len(s) : g[i] = SplitAt(g[i - 1], sep, s[i])
  /\ Split(sep, s) = g[Len(s)]

\* The split is reached step by step.
LEMMA SplitSteps ==
  ASSUME NEW C, NEW s \in Seq(C), NEW sep
  PROVE  \E g \in [0 .. Len(s) -> Pieces(C)] : SplitRun(g, sep, s)
<1> DEFINE n == Len(s)
           b == <<<<>>>>
           V == Pieces(C)
           F == [i \in 1 .. n |-> [v \in V |-> SplitAt(v, sep, s[i])]]
           pieces[i \in 0 .. Len(s)] == IF i = 0 THEN <<<<>>>> ELSE SplitAt(pieces[i - 1], sep, s[i])
<1>1. n \in Nat /\ \A i \in 1 .. n : s[i] \in C
  BY LenProperties, ElementOfSeq
<1>2. b \in V
  BY EmptySeq DEF Pieces
<1>3. \A i \in 1 .. n : \A v \in V : SplitAt(v, sep, s[i]) \in V
  BY <1>1, SplitAtType
<1>4. \A i \in 1 .. n : \A v \in V : F[i][v] \in V
  BY <1>3
<1>5. \A i \in 1 .. n : \A v \in V : F[i][v] = SplitAt(v, sep, s[i])
  OBVIOUS
<1> HIDE DEF F, V, b, n
<1>6. PICK g \in [0 .. n -> V] : Follows(g, n, b, F)
  <2>1. n \in Nat
    BY <1>1
  <2> QED
    BY <1>2, <1>4, <2>1, Recursion
<1>7. \A i \in 1 .. n : g[i] = SplitAt(g[i - 1], sep, s[i])
  BY <1>1, <1>5, <1>6 DEF Follows
<1>8. g = [i \in 0 .. Len(s) |-> IF i = 0 THEN <<<<>>>> ELSE SplitAt(g[i - 1], sep, s[i])]
  <2>1. \A i \in 0 .. Len(s) : g[i] = IF i = 0 THEN <<<<>>>> ELSE SplitAt(g[i - 1], sep, s[i])
    <3> SUFFICES ASSUME NEW i \in 0 .. n
                 PROVE  g[i] = IF i = 0 THEN <<<<>>>> ELSE SplitAt(g[i - 1], sep, s[i])
      BY DEF n
    <3>1. i = 0 \/ i \in 1 .. n
      BY <1>1
    <3> QED
      BY <1>6, <1>7, <3>1 DEF b, Follows
  <2>2. g \in [0 .. Len(s) -> V]
    BY DEF n
  <2> QED
    BY <2>1, <2>2
<1>9. pieces = [i \in 0 .. Len(s) |-> IF i = 0 THEN <<<<>>>> ELSE SplitAt(pieces[i - 1], sep, s[i])]
  BY <1>8
<1>10. Split(sep, s) = pieces[Len(s)]
  BY DEF Split
<1> HIDE DEF pieces
<1> DEFINE Z == {i \in 0 .. n : pieces[i] \in V}
<1>11. pieces[0] = b /\ \A i \in 1 .. n : pieces[i] = SplitAt(pieces[i - 1], sep, s[i])
  <2>1. \A i \in 0 .. n : pieces[i] = IF i = 0 THEN <<<<>>>> ELSE SplitAt(pieces[i - 1], sep, s[i])
    BY <1>9 DEF n
  <2> QED
    BY <1>1, <2>1 DEF b
<1>12. \A i \in 0 .. n : i \in Z
  <2>1. 0 \in Z /\ 0 \in Nat
    BY <1>1, <1>2, <1>11
  <2>2. ASSUME NEW i \in 0 .. n - 1, i \in Z
        PROVE  i + 1 \in Z
    <3>1. i + 1 \in 1 .. n /\ i + 1 \in 0 .. n /\ (i + 1) - 1 = i
      BY <1>1
    <3>2. pieces[i + 1] = SplitAt(pieces[i], sep, s[i + 1])
      BY <1>11, <3>1
    <3> QED
      BY <1>3, <2>2, <3>1, <3>2
  <2> HIDE DEF Z
  <2>3. \A i \in 0 .. n - 1 : i \in Z => i + 1 \in Z
    BY <2>2
  <2> QED
    BY <1>1, <2>1, <2>3, UpTo
<1>13. pieces \in [0 .. n -> V]
  <2>1. \A i \in 0 .. n : pieces[i] \in V
    BY <1>12
  <2> QED
    BY <1>9, <2>1 DEF n
<1> QED
  BY <1>10, <1>11, <1>13 DEF b, V, n, SplitRun

\* c holds the cuts of the first k characters of s: 0, the separators and k + 1.
Cuts(c, m, sep, s, k) ==
  /\ c \in [0 .. m -> 0 .. k + 1] /\ c[0] = 0 /\ c[m] = k + 1
  /\ \A j \in 1 .. m : c[j - 1] < c[j]
  /\ \A j \in 1 .. m - 1 : s[c[j]] = sep
  /\ \A j \in 1 .. m : \A x \in c[j - 1] + 1 .. c[j] - 1 : s[x] # sep

\* ps are the pieces of s between the cuts.
Between(ps, c, s) == \A j \in 1 .. Len(ps) : ps[j] = SubSeq(s, c[j - 1] + 1, c[j] - 1)

\* A separator adds a cut behind it and an empty piece.
LEMMA CutAtSeparator ==
  ASSUME NEW C, NEW s \in Seq(C), NEW sep, NEW k \in 0 .. Len(s) - 1, NEW ps \in Pieces(C),
         NEW c, Cuts(c, Len(ps), sep, s, k), Between(ps, c, s), s[k + 1] = sep
  PROVE  LET qs == SplitAt(ps, sep, s[k + 1])
         IN  \E d : Cuts(d, Len(qs), sep, s, k + 1) /\ Between(qs, d, s)
<1> DEFINE m == Len(ps)
           qs == Append(ps, <<>>)
           d == [j \in 0 .. m + 1 |-> IF j = m + 1 THEN k + 2 ELSE c[j]]
<1>1. m \in Nat /\ m >= 1 /\ k \in Nat /\ ps \in Seq(Seq(C))
  BY EmptySeq, LenProperties DEF Pieces
<1>2. <<>> \in Seq(C)
  BY EmptySeq
<1>3. Len(qs) = m + 1 /\ qs[m + 1] = <<>> /\ \A j \in 1 .. m : qs[j] = ps[j]
  BY <1>1, <1>2, AppendProperties
<1>4. SplitAt(ps, sep, s[k + 1]) = qs
  BY DEF SplitAt
<1>5. /\ c \in [0 .. m -> 0 .. k + 1] /\ c[0] = 0 /\ c[m] = k + 1
      /\ \A j \in 1 .. m : c[j - 1] < c[j]
      /\ \A j \in 1 .. m - 1 : s[c[j]] = sep
      /\ \A j \in 1 .. m : \A x \in c[j - 1] + 1 .. c[j] - 1 : s[x] # sep
  BY DEF Cuts
<1>6. \A j \in 1 .. m : ps[j] = SubSeq(s, c[j - 1] + 1, c[j] - 1)
  BY DEF Between
<1>7. /\ d[m + 1] = k + 2 /\ \A j \in 0 .. m : d[j] = c[j]
      /\ d \in [0 .. m + 1 -> 0 .. (k + 1) + 1]
  BY <1>1, <1>5
<1> HIDE DEF m, d, qs
<1>8. \A j \in 0 .. m : c[j] \in Nat /\ c[j] <= k + 1
  BY <1>1, <1>5
<1>9. d[m] = k + 1 /\ d[0] = 0
  BY <1>1, <1>5, <1>7
<1>10. ASSUME NEW j \in 1 .. m + 1
       PROVE  /\ d[j - 1] < d[j]
              /\ \A x \in d[j - 1] + 1 .. d[j] - 1 : s[x] # sep
              /\ qs[j] = SubSeq(s, d[j - 1] + 1, d[j] - 1)
  <2>1. CASE j = m + 1
    <3>1. d[j - 1] = k + 1 /\ d[j] = k + 2
      BY <1>1, <1>7, <1>9, <2>1
    <3>2. SubSeq(s, k + 2, k + 1) = <<>>
      BY <1>1, SubSeqEmpty
    <3>3. d[j - 1] + 1 = k + 2 /\ d[j] - 1 = k + 1 /\ d[j - 1] < d[j]
      BY <1>1, <3>1
    <3>4. qs[j] = SubSeq(s, d[j - 1] + 1, d[j] - 1)
      BY <1>3, <2>1, <3>2, <3>3
    <3>5. \A x \in k + 2 .. k + 1 : FALSE
      BY <1>1
    <3> QED
      BY <3>3, <3>4, <3>5
  <2>2. CASE j \in 1 .. m
    <3>1. j - 1 \in 0 .. m /\ j \in 0 .. m
      BY <1>1, <2>2
    <3>2. d[j - 1] = c[j - 1] /\ d[j] = c[j]
      BY <1>7, <3>1
    <3> QED
      BY <1>3, <1>5, <1>6, <2>2, <3>2
  <2> QED
    BY <1>1, <2>1, <2>2
<1>11. ASSUME NEW j \in 1 .. (m + 1) - 1
       PROVE  s[d[j]] = sep
  <2>1. j \in 0 .. m /\ d[j] = c[j] /\ (j = m \/ j \in 1 .. m - 1)
    BY <1>1, <1>7
  <2> QED
    BY <1>5, <2>1
<1>12. Cuts(d, m + 1, sep, s, k + 1)
  <2>1. d[m + 1] = (k + 1) + 1
    BY <1>1, <1>7
  <2> QED
    BY <1>7, <1>9, <1>10, <1>11, <2>1 DEF Cuts
<1>13. Between(qs, d, s)
  BY <1>3, <1>10 DEF Between
<1> QED
  BY <1>3, <1>4, <1>12, <1>13

\* Any other character makes the last piece longer.
LEMMA CutMovesOn ==
  ASSUME NEW C, NEW s \in Seq(C), NEW sep, NEW k \in 0 .. Len(s) - 1, NEW ps \in Pieces(C),
         NEW c, Cuts(c, Len(ps), sep, s, k), Between(ps, c, s), s[k + 1] # sep
  PROVE  LET qs == SplitAt(ps, sep, s[k + 1])
         IN  \E d : Cuts(d, Len(qs), sep, s, k + 1) /\ Between(qs, d, s)
<1> DEFINE m == Len(ps)
           e == Append(ps[m], s[k + 1])
           qs == [ps EXCEPT ![m] = e]
           d == [j \in 0 .. m |-> IF j = m THEN k + 2 ELSE c[j]]
<1>1. m \in Nat /\ m >= 1 /\ k \in Nat /\ ps \in Seq(Seq(C)) /\ ps[m] \in Seq(C)
  BY EmptySeq, LenProperties, ElementOfSeq DEF Pieces
<1>2. s[k + 1] \in C /\ Len(s) \in Nat /\ k + 1 \in 1 .. Len(s)
  BY LenProperties, ElementOfSeq
<1>3. e \in Seq(C) /\ e = ps[m] \o <<s[k + 1]>>
  BY <1>1, <1>2, AppendProperties, AppendIsConcat
<1>4. SplitAt(ps, sep, s[k + 1]) = qs
  BY DEF SplitAt
<1>5. /\ c \in [0 .. m -> 0 .. k + 1] /\ c[0] = 0 /\ c[m] = k + 1
      /\ \A j \in 1 .. m : c[j - 1] < c[j]
      /\ \A j \in 1 .. m - 1 : s[c[j]] = sep
      /\ \A j \in 1 .. m : \A x \in c[j - 1] + 1 .. c[j] - 1 : s[x] # sep
  BY DEF Cuts
<1>6. \A j \in 1 .. m : ps[j] = SubSeq(s, c[j - 1] + 1, c[j] - 1)
  BY DEF Between
<1>7. /\ d[m] = k + 2 /\ \A j \in 0 .. m - 1 : d[j] = c[j]
      /\ d \in [0 .. m -> 0 .. (k + 1) + 1]
  BY <1>1, <1>5
<1> HIDE DEF e
<1>8. Len(qs) = m /\ \A j \in 1 .. m : qs[j] = IF j = m THEN e ELSE ps[j]
  BY <1>1, <1>3, ExceptSeq
<1> HIDE DEF m, d, qs
<1>9. d[0] = 0
  BY <1>1, <1>5, <1>7
<1>10. /\ c[m - 1] \in 0 .. k /\ d[m - 1] = c[m - 1]
       /\ ps[m] = SubSeq(s, c[m - 1] + 1, k)
  <2>1. m - 1 \in 0 .. m - 1 /\ m \in 1 .. m /\ m - 1 \in 0 .. m
    BY <1>1
  <2>2. c[m - 1] \in 0 .. k + 1 /\ c[m - 1] < k + 1
    BY <1>5, <2>1
  <2>3. (k + 1) - 1 = k
    BY <1>1
  <2>4. c[m - 1] \in 0 .. k
    BY <1>1, <2>2
  <2>5. d[m - 1] = c[m - 1]
    BY <1>7, <2>1
  <2>6. ps[m] = SubSeq(s, c[m - 1] + 1, c[m] - 1)
    BY <1>6, <2>1
  <2>7. c[m] - 1 = k
    BY <1>5, <2>3
  <2> QED
    BY <2>4, <2>5, <2>6, <2>7
<1>11. e = SubSeq(s, c[m - 1] + 1, k + 1)
  <2> DEFINE a == c[m - 1] + 1
  <2>1. a \in 1 .. Len(s) /\ k + 1 \in a .. Len(s) /\ (k + 1) - 1 = k
    <3> DEFINE x == c[m - 1]
    <3>1. x \in 0 .. k
      BY <1>10
    <3> HIDE DEF x
    <3>2. x + 1 \in 1 .. Len(s) /\ k + 1 \in x + 1 .. Len(s) /\ (k + 1) - 1 = k
      BY <1>1, <1>2, <3>1
    <3> QED
      BY <3>2 DEF x
  <2> HIDE DEF a
  <2>2. SubSeq(s, a, k + 1) = SubSeq(s, a, (k + 1) - 1) \o <<s[k + 1]>>
    BY <2>1, SubSeqRecursiveSecond
  <2>3. ps[m] = SubSeq(s, a, k)
    BY <1>10 DEF a
  <2>4. SubSeq(s, a, k + 1) = e
    BY <1>3, <2>1, <2>2, <2>3
  <2> QED
    BY <2>4 DEF a
<1>12. ASSUME NEW j \in 1 .. m
       PROVE  /\ d[j - 1] < d[j]
              /\ \A x \in d[j - 1] + 1 .. d[j] - 1 : s[x] # sep
              /\ qs[j] = SubSeq(s, d[j - 1] + 1, d[j] - 1)
  <2>1. CASE j = m
    <3>1. d[j - 1] = c[m - 1] /\ d[j] = k + 2 /\ qs[j] = e /\ d[j] - 1 = k + 1
      BY <1>1, <1>7, <1>8, <1>10, <2>1
    <3>2. ASSUME NEW x \in c[m - 1] + 1 .. k + 1
          PROVE  s[x] # sep
      <4>1. x = k + 1 \/ x \in c[m - 1] + 1 .. c[m] - 1
        BY <1>1, <1>5, <1>10
      <4> QED
        BY <1>1, <1>5, <4>1
    <3> QED
      BY <1>1, <1>10, <1>11, <3>1, <3>2
  <2>2. CASE j \in 1 .. m - 1
    <3>1. j - 1 \in 0 .. m - 1 /\ j \in 0 .. m - 1 /\ j # m
      BY <1>1, <2>2
    <3>2. d[j - 1] = c[j - 1] /\ d[j] = c[j] /\ qs[j] = ps[j]
      BY <1>7, <1>8, <3>1
    <3> QED
      BY <1>5, <1>6, <3>2
  <2> QED
    BY <1>1, <2>1, <2>2
<1>13. ASSUME NEW j \in 1 .. m - 1
       PROVE  s[d[j]] = sep
  <2>1. j \in 0 .. m - 1 /\ d[j] = c[j]
    BY <1>1, <1>7
  <2> QED
    BY <1>5, <2>1
<1>14. Cuts(d, m, sep, s, k + 1)
  <2>1. d[m] = (k + 1) + 1
    BY <1>1, <1>7
  <2> QED
    BY <1>7, <1>9, <1>12, <1>13, <2>1 DEF Cuts
<1>15. Between(qs, d, s)
  BY <1>8, <1>12 DEF Between
<1> QED
  BY <1>4, <1>8, <1>14, <1>15

\* Split cuts a string at its separators.
LEMMA SplitCuts ==
  ASSUME NEW C, NEW s \in Seq(C), NEW sep
  PROVE  /\ Split(sep, s) \in Pieces(C)
         /\ \E c : Cuts(c, Len(Split(sep, s)), sep, s, Len(s)) /\ Between(Split(sep, s), c, s)
<1> DEFINE n == Len(s)
<1>0. PICK g \in [0 .. n -> Pieces(C)] : SplitRun(g, sep, s)
  BY SplitSteps
<1>1. /\ g[0] = <<<<>>>>
      /\ \A i \in 1 .. n : g[i] = SplitAt(g[i - 1], sep, s[i])
      /\ Split(sep, s) = g[n]
  BY <1>0 DEF SplitRun
<1>2. n \in Nat
  BY LenProperties
<1> DEFINE Cut(ps, k) == \E c : Cuts(c, Len(ps), sep, s, k) /\ Between(ps, c, s)
           Z == {k \in 0 .. n : Cut(g[k], k)}
<1>3. Cut(<<<<>>>>, 0)
  <2> DEFINE c == [j \in 0 .. 1 |-> j]
             ps == <<<<>>>>
  <2>1. Len(ps) = 1 /\ ps[1] = <<>>
    OBVIOUS
  <2>2. SubSeq(s, 1, 0) = <<>>
    BY SubSeqEmpty
  <2>3. c \in [0 .. 1 -> 0 .. 0 + 1] /\ c[0] = 0 /\ c[1] = 1
    OBVIOUS
  <2> HIDE DEF c, ps
  <2>4. \A j \in 1 .. 1 : j = 1
    OBVIOUS
  <2>5. Cuts(c, 1, sep, s, 0)
    BY <2>3, <2>4 DEF Cuts
  <2>6. Between(ps, c, s)
    <3>1. c[1 - 1] + 1 = 1 /\ c[1] - 1 = 0
      BY <2>3
    <3>2. ps[1] = SubSeq(s, c[1 - 1] + 1, c[1] - 1)
      BY <2>1, <2>2, <3>1
    <3> QED
      BY <2>1, <2>4, <3>2 DEF Between
  <2> QED
    BY <2>1, <2>5, <2>6 DEF ps
<1>4. ASSUME NEW k \in 0 .. n - 1, Cut(g[k], k)
      PROVE  Cut(g[k + 1], k + 1)
  <2>1. g[k + 1] = SplitAt(g[k], sep, s[k + 1]) /\ g[k] \in Pieces(C)
    BY <1>1, <1>2
  <2>2. PICK c : Cuts(c, Len(g[k]), sep, s, k) /\ Between(g[k], c, s)
    BY <1>4
  <2>3. CASE s[k + 1] = sep
    BY <2>1, <2>2, <2>3, CutAtSeparator
  <2>4. CASE s[k + 1] # sep
    BY <2>1, <2>2, <2>4, CutMovesOn
  <2> QED
    BY <2>3, <2>4
<1> HIDE DEF Cut
<1>5. \A k \in 0 .. n : k \in Z
  <2>1. 0 \in Z /\ 0 \in Nat
    BY <1>1, <1>2, <1>3
  <2>2. \A k \in 0 .. n - 1 : k \in Z => k + 1 \in Z
    BY <1>2, <1>4
  <2> HIDE DEF Z, n
  <2> QED
    BY <1>2, <2>1, <2>2, UpTo
<1>6. Cut(Split(sep, s), n)
  BY <1>1, <1>2, <1>5
<1> QED
  BY <1>1, <1>2, <1>6 DEF Cut
-----------------------------------------------------------------------------
(* The items of a string are what stands between two cuts.                  *)

\* The cuts are in order.
LEMMA CutsInOrder ==
  ASSUME NEW s, NEW sep, NEW k \in Nat, NEW m \in Nat, NEW c, Cuts(c, m, sep, s, k)
  PROVE  \A i, j \in 0 .. m : i < j => c[i] < c[j]
<1> SUFFICES ASSUME NEW i \in 0 .. m
             PROVE  \A j \in 0 .. m : i < j => c[i] < c[j]
  OBVIOUS
<1> DEFINE Z == {j \in 0 .. m : i < j => c[i] < c[j]}
<1>1. c \in [0 .. m -> 0 .. k + 1] /\ \A j \in 1 .. m : c[j - 1] < c[j]
  BY DEF Cuts
<1>2. \A j \in 0 .. m : c[j] \in Int
  BY <1>1
<1>3. 0 \in Z /\ 0 \in Nat
  OBVIOUS
<1>4. ASSUME NEW j \in 0 .. m - 1, j \in Z
      PROVE  j + 1 \in Z
  <2>1. j + 1 \in 1 .. m /\ (j + 1) - 1 = j /\ j + 1 \in 0 .. m /\ j \in 0 .. m
    OBVIOUS
  <2>2. c[j] < c[j + 1]
    BY <1>1, <2>1
  <2>3. c[i] \in Int /\ c[j] \in Int /\ c[j + 1] \in Int
    BY <1>2, <2>1
  <2>4. i < j => c[i] < c[j]
    BY <1>4
  <2>5. i < j + 1 => i < j \/ i = j
    BY <2>1
  <2>6. i < j + 1 => c[i] < c[j + 1]
    BY <2>2, <2>3, <2>4, <2>5
  <2> QED
    BY <2>1, <2>6
<1> HIDE DEF Z
<1>5. \A j \in 0 .. m : j \in Z
  BY <1>3, <1>4, UpTo
<1> QED
  BY <1>5 DEF Z

\* Every position is behind one cut and not behind the next.
LEMMA CutsCover ==
  ASSUME NEW s, NEW sep, NEW k \in Nat, NEW m \in Nat, NEW c, Cuts(c, m, sep, s, k),
         NEW x \in 1 .. k + 1
  PROVE  \E j \in 1 .. m : c[j - 1] < x /\ x <= c[j]
<1> DEFINE M == {j \in Nat : j <= m /\ x <= c[j]}
<1>1. c \in [0 .. m -> 0 .. k + 1] /\ c[0] = 0 /\ c[m] = k + 1
  BY DEF Cuts
<1>2. M \in SUBSET Nat /\ m \in M
  BY <1>1
<1>3. \A j \in M : j \in Nat /\ j <= m /\ x <= c[j]
  OBVIOUS
<1>4. \A j \in Nat : j <= m /\ x <= c[j] => j \in M
  OBVIOUS
<1> HIDE DEF M
<1>5. PICK j \in M : \A i \in M : j <= i
  BY <1>2, LeastNat
<1>6. j \in Nat /\ j <= m /\ x <= c[j] /\ j # 0
  BY <1>1, <1>3
<1>7. j - 1 \in Nat /\ j - 1 <= m /\ j \in 1 .. m /\ j - 1 \in 0 .. m
  BY <1>6
<1>8. j - 1 \notin M
  BY <1>5, <1>6, <1>7
<1>9. c[j - 1] \in Int /\ ~(x <= c[j - 1])
  BY <1>1, <1>4, <1>7, <1>8
<1>10. c[j - 1] < x
  BY <1>9
<1> QED
  BY <1>6, <1>7, <1>10

\* The cuts at commas are the separators.
LEMMA SepsAreCuts ==
  ASSUME NEW C, NEW s \in Seq(C), NEW m \in Nat, m # 0, NEW c, Cuts(c, m, Comma, s, Len(s))
  PROVE  \A x : x \in Seps(s) <=> \E j \in 0 .. m : x = c[j]
<1> DEFINE n == Len(s)
<1>1. n \in Nat /\ DOMAIN s = 1 .. n
  BY LenProperties
<1>2. /\ c \in [0 .. m -> 0 .. n + 1] /\ c[0] = 0 /\ c[m] = n + 1
      /\ \A j \in 1 .. m - 1 : s[c[j]] = Comma
      /\ \A j \in 1 .. m : \A x \in c[j - 1] + 1 .. c[j] - 1 : s[x] # Comma
  BY DEF Cuts
<1>3. \A x : x \in Seps(s) <=> x = 0 \/ x = n + 1 \/ (x \in 1 .. n /\ s[x] = Comma)
  BY <1>1 DEF Seps
<1>4. ASSUME NEW x \in 1 .. n, s[x] = Comma
      PROVE  \E j \in 0 .. m : x = c[j]
  <2>1. x \in 1 .. n + 1
    BY <1>1
  <2> HIDE DEF n
  <2>2. PICK j \in 1 .. m : c[j - 1] < x /\ x <= c[j]
    BY <1>1, <2>1, CutsCover DEF n
  <2>3. j \in 0 .. m /\ j - 1 \in 0 .. m
    OBVIOUS
  <2>4. c[j] \in Int /\ c[j - 1] \in Int
    BY <1>2, <2>3
  <2>5. x # c[j] => x \in c[j - 1] + 1 .. c[j] - 1
    BY <1>1, <2>2, <2>4
  <2> QED
    BY <1>2, <1>4, <2>3, <2>5
<1>5. ASSUME NEW j \in 0 .. m
      PROVE  c[j] = 0 \/ c[j] = n + 1 \/ (c[j] \in 1 .. n /\ s[c[j]] = Comma)
  <2>1. CASE j = 0
    BY <1>2, <2>1
  <2>2. CASE j = m
    BY <1>2, <2>2
  <2>3. CASE j \in 1 .. m - 1
    <3> HIDE DEF n
    <3>1. m \in Nat /\ 0 \in 0 .. m /\ m \in 0 .. m /\ 0 < j /\ j < m
      BY <2>3
    <3>2. \A i, l \in 0 .. m : i < l => c[i] < c[l]
      BY <1>1, <3>1, CutsInOrder DEF n
    <3>3. c[0] < c[j] /\ c[j] < c[m]
      BY <3>1, <3>2
    <3>4. c[j] \in 0 .. n + 1
      BY <1>2
    <3>5. c[j] \in 1 .. n
      BY <1>1, <1>2, <3>3, <3>4
    <3> QED
      BY <1>2, <2>3, <3>5
  <2> QED
    BY <2>1, <2>2, <2>3
<1>6. 0 \in 0 .. m /\ m \in 0 .. m
  OBVIOUS
<1> HIDE DEF n
<1> QED
  BY <1>2, <1>3, <1>4, <1>5, <1>6

\* What stands between two cuts that follow each other.
Item(c, j) == <<c[j - 1], c[j]>>

\* The items are the pairs of cuts that follow each other.
LEMMA ItemsAreCuts ==
  ASSUME NEW C, NEW s \in Seq(C), NEW m \in Nat, m # 0, NEW c, Cuts(c, m, Comma, s, Len(s))
  PROVE  \A it : it \in Items(s) <=> \E j \in 1 .. m : it = Item(c, j)
<1> DEFINE n == Len(s)
<1>1. n \in Nat
  BY LenProperties
<1>2. /\ c \in [0 .. m -> 0 .. n + 1]
      /\ \A j \in 1 .. m : c[j - 1] < c[j]
      /\ \A j \in 1 .. m - 1 : s[c[j]] = Comma
      /\ \A j \in 1 .. m : \A x \in c[j - 1] + 1 .. c[j] - 1 : s[x] # Comma
  BY DEF Cuts
<1>3. \A x : x \in Seps(s) <=> \E j \in 0 .. m : x = c[j]
  BY SepsAreCuts
<1>4. \A i, j \in 0 .. m : i < j => c[i] < c[j]
  BY <1>1, CutsInOrder
<1>5. ASSUME NEW it \in Items(s)
      PROVE  \E j \in 1 .. m : it = Item(c, j)
  <2>1. /\ it[1] \in Seps(s) /\ it[2] \in Seps(s) /\ it = <<it[1], it[2]>>
        /\ it[1] < it[2] /\ \A k \in it[1] + 1 .. it[2] - 1 : s[k] # Comma
    BY DEF Items
  <2>2. PICK i \in 0 .. m : it[1] = c[i]
    BY <1>3, <2>1
  <2>3. PICK j \in 0 .. m : it[2] = c[j]
    BY <1>3, <2>1
  <2>4. c[i] \in Int /\ c[j] \in Int /\ c[i] < c[j]
    BY <1>2, <2>1, <2>2, <2>3
  <2>5. i < j
    <3>1. j < i => c[j] < c[i]
      BY <1>4
    <3> QED
      BY <2>4, <3>1
  <2>6. i + 1 < j => FALSE
    <3> SUFFICES ASSUME i + 1 < j PROVE FALSE
      OBVIOUS
    <3>1. i + 1 \in 0 .. m /\ i + 1 \in 1 .. m - 1 /\ i < i + 1
      OBVIOUS
    <3>2. c[i] < c[i + 1] /\ c[i + 1] < c[j] /\ c[i + 1] \in Int /\ s[c[i + 1]] = Comma
      BY <1>2, <1>4, <3>1
    <3>3. c[i + 1] \in c[i] + 1 .. c[j] - 1
      BY <2>4, <3>2
    <3> QED
      BY <2>1, <2>2, <2>3, <3>2, <3>3
  <2>7. i = j - 1 /\ j \in 1 .. m
    BY <2>5, <2>6
  <2> QED
    BY <2>1, <2>2, <2>3, <2>7 DEF Item
<1>6. ASSUME NEW j \in 1 .. m
      PROVE  Item(c, j) \in Items(s)
  <2>1. j \in 0 .. m /\ j - 1 \in 0 .. m
    OBVIOUS
  <2>2. c[j] \in Seps(s) /\ c[j - 1] \in Seps(s)
    BY <1>3, <2>1
  <2>3. Item(c, j) \in Seps(s) \X Seps(s) /\ Item(c, j)[1] = c[j - 1] /\ Item(c, j)[2] = c[j]
    BY <2>2 DEF Item
  <2> QED
    BY <1>2, <2>3 DEF Items
<1> QED
  BY <1>5, <1>6
-----------------------------------------------------------------------------
(* Name and value of an item.                                               *)

\* A piece between two positions.
LEMMA PieceShape ==
  ASSUME NEW C, NEW s \in Seq(C), NEW a \in Nat, NEW e \in Nat, a < e, e <= Len(s) + 1
  PROVE  LET p == SubSeq(s, a + 1, e - 1)
         IN  /\ p \in Seq(C) /\ Len(p) = (e - a) - 1
             /\ \A x \in 1 .. (e - a) - 1 : p[x] = s[a + x]
<1> DEFINE m == a + 1
           n == e - 1
<1>1. Len(s) \in Nat /\ \A i \in 1 .. Len(s) : s[i] \in C
  BY LenProperties, ElementOfSeq
<1>2. m \in Int /\ n \in Int /\ \A i \in m .. n : s[i] \in C
  BY <1>1
<1>3. (n - m) + 1 = (e - a) - 1 /\ (m <= n \/ (e - a) - 1 = 0) /\ \A x \in Int : (m + x) - 1 = a + x
  OBVIOUS
<1>4. n - m + 1 = (e - a) - 1 /\ \A x \in Int : m + x - 1 = a + x
  OBVIOUS
<1> HIDE DEF m, n
<1>5. /\ SubSeq(s, m, n) \in Seq(C)
      /\ Len(SubSeq(s, m, n)) = IF m <= n THEN n - m + 1 ELSE 0
      /\ \A i \in 1 .. n - m + 1 : SubSeq(s, m, n)[i] = s[m + i - 1]
  BY <1>2, SubSeqProperties
<1>6. Len(SubSeq(s, m, n)) = (e - a) - 1
  BY <1>2, <1>3, <1>4, <1>5
<1>7. \A x \in 1 .. (e - a) - 1 : SubSeq(s, m, n)[x] = s[a + x]
  BY <1>4, <1>5
<1> QED
  BY <1>5, <1>6, <1>7 DEF m, n

\* p is what stands in s between a and e.
IsPiece(p, s, a, e) == Len(p) = (e - a) - 1 /\ \A x \in 1 .. (e - a) - 1 : p[x] = s[a + x]

\* The name of an item ends at the first cut at a "=".
LEMMA NameEndIsCut ==
  ASSUME NEW s, NEW a \in Nat, NEW e \in Nat, a < e, NEW p, IsPiece(p, s, a, e),
         NEW q \in Nat, q # 0, NEW d, Cuts(d, q, Equal, p, Len(p))
  PROVE  NameEnd(s, <<a, e>>) = a + d[1]
<1> DEFINE l == (e - a) - 1
           eq == {k \in a + 1 .. e - 1 : s[k] = Equal}
<1>1. l \in Nat
  OBVIOUS
<1>2. Len(p) = l /\ \A x \in 1 .. l : p[x] = s[a + x]
  BY DEF IsPiece
<1>3. /\ d \in [0 .. q -> 0 .. l + 1] /\ d[0] = 0 /\ d[q] = l + 1
      /\ \A j \in 1 .. q : d[j - 1] < d[j]
      /\ \A j \in 1 .. q - 1 : p[d[j]] = Equal
      /\ \A j \in 1 .. q : \A x \in d[j - 1] + 1 .. d[j] - 1 : p[x] # Equal
  BY <1>2 DEF Cuts
<1>4. d[1] \in Nat /\ d[1] >= 1 /\ d[1] <= l + 1
  BY <1>1, <1>3
<1>5. \A x \in 1 .. d[1] - 1 : p[x] # Equal
  <2>1. 1 \in 1 .. q /\ 1 - 1 = 0
    OBVIOUS
  <2>2. \A x \in d[1 - 1] + 1 .. d[1] - 1 : p[x] # Equal
    BY <1>3, <2>1
  <2>3. d[1 - 1] + 1 = 1
    BY <1>3
  <2> QED
    BY <2>2, <2>3
<1>6. \A k \in eq : k \in Int /\ k >= a + d[1]
  <2> SUFFICES ASSUME NEW k \in a + 1 .. e - 1, s[k] = Equal, k < a + d[1]
               PROVE  FALSE
    BY <1>4
  <2>1. k - a \in 1 .. l /\ a + (k - a) = k /\ k - a \in 1 .. d[1] - 1
    BY <1>4
  <2>2. p[k - a] = s[k]
    BY <1>2, <2>1
  <2> QED
    BY <1>5, <2>1, <2>2
<1>7. CASE q = 1
  <2>1. a + d[1] = e
    BY <1>3, <1>7
  <2>2. eq = {}
    BY <1>6, <2>1
  <2>3. NameEnd(s, <<a, e>>) = e
    BY <2>2 DEF NameEnd
  <2> QED
    BY <2>1, <2>3
<1>8. CASE q # 1
  <2>1. 1 \in 1 .. q - 1 /\ q \in 0 .. q /\ 1 \in 0 .. q /\ 1 < q
    BY <1>8
  <2>2. \A i, j \in 0 .. q : i < j => d[i] < d[j]
    BY <1>1, <1>2, CutsInOrder
  <2>3. d[1] \in 1 .. l
    BY <1>3, <1>4, <2>1, <2>2
  <2>4. s[a + d[1]] = Equal
    BY <1>2, <1>3, <2>1, <2>3
  <2>5. a + d[1] \in eq
    BY <2>3, <2>4
  <2>6. NameEnd(s, <<a, e>>) = CHOOSE k \in eq : \A x \in eq : k <= x
    BY <2>5 DEF NameEnd
  <2> HIDE DEF eq
  <2>7. \A x \in eq : a + d[1] <= x
    BY <1>4, <1>6
  <2> DEFINE k == CHOOSE k \in eq : \A x \in eq : k <= x
  <2>8. k \in eq /\ \A x \in eq : k <= x
    BY <2>5, <2>7
  <2> HIDE DEF k
  <2>9. k = a + d[1]
    BY <1>4, <1>6, <2>5, <2>8
  <2> QED
    BY <2>6, <2>9 DEF k
<1> QED
  BY <1>7, <1>8

\* The loop over the pieces behind the first one, step by step.
ValueRun(h, nv) ==
  /\ h[1] = <<>>
  /\ \A i \in 2 .. Len(nv) : h[i] = h[i - 1] \o Append(nv[i], Equal)
  /\ Value(nv) = IF Len(nv) > 1 THEN Front(h[Len(nv)]) ELSE h[Len(nv)]

\* The value is reached step by step.
LEMMA ValueSteps ==
  ASSUME NEW C, Equal \in C, NEW nv \in Pieces(C)
  PROVE  \E h : ValueRun(h, nv)
<1> DEFINE n == Len(nv)
           V == Seq(C)
           F == [i \in 1 .. n - 1 |-> [v \in V |-> v \o Append(nv[i + 1], Equal)]]
           value[i \in 1 .. Len(nv)] == IF i = 1 THEN <<>> ELSE value[i - 1] \o Append(nv[i], Equal)
<1>1. n \in Nat /\ n >= 1 /\ \A i \in 1 .. n : nv[i] \in Seq(C)
  BY EmptySeq, LenProperties, ElementOfSeq DEF Pieces
<1>2. <<>> \in V
  BY EmptySeq
<1>3. \A i \in 1 .. n : \A v \in V : v \o Append(nv[i], Equal) \in V
  BY <1>1, AppendProperties, ConcatProperties
<1>4. \A i \in 1 .. n - 1 : i + 1 \in 1 .. n
  BY <1>1
<1>5. \A i \in 1 .. n - 1 : \A v \in V : F[i][v] = v \o Append(nv[i + 1], Equal)
  OBVIOUS
<1>6. \A i \in 1 .. n - 1 : \A v \in V : F[i][v] \in V
  BY <1>3, <1>4, <1>5
<1>7. Value(nv) = IF Len(nv) > 1 THEN Front(value[Len(nv)]) ELSE value[Len(nv)]
  BY DEF Value
<1> HIDE DEF F, V, n
<1>8. PICK g \in [0 .. n - 1 -> V] : Follows(g, n - 1, <<>>, F)
  <2>1. n - 1 \in Nat
    BY <1>1
  <2> QED
    BY <1>2, <1>6, <2>1, Recursion
<1> DEFINE h == [i \in 1 .. n |-> g[i - 1]]
<1>9. \A i \in 1 .. n : h[i] = IF i = 1 THEN <<>> ELSE h[i - 1] \o Append(nv[i], Equal)
  <2> SUFFICES ASSUME NEW i \in 1 .. n
               PROVE  h[i] = IF i = 1 THEN <<>> ELSE h[i - 1] \o Append(nv[i], Equal)
    OBVIOUS
  <2>1. CASE i = 1
    BY <1>8, <2>1 DEF Follows
  <2>2. CASE i # 1
    <3>1. i - 1 \in 1 .. n - 1 /\ i - 1 \in 1 .. n /\ (i - 1) + 1 = i /\ (i - 1) - 1 \in 0 .. n - 1
      BY <1>1, <2>2
    <3>2. g[i - 1] = F[i - 1][g[(i - 1) - 1]] /\ g[(i - 1) - 1] \in V
      BY <1>8, <3>1 DEF Follows
    <3>3. F[i - 1][g[(i - 1) - 1]] = g[(i - 1) - 1] \o Append(nv[i], Equal)
      BY <1>5, <3>1, <3>2
    <3>4. h[i] = g[i - 1] /\ h[i - 1] = g[(i - 1) - 1]
      BY <3>1
    <3> QED
      BY <2>2, <3>2, <3>3, <3>4
  <2> QED
    BY <2>1, <2>2
<1>10. DOMAIN h = 1 .. n
  OBVIOUS
<1>11. h = [i \in 1 .. n |-> h[i]]
  OBVIOUS
<1> HIDE DEF h
<1>12. h = [i \in 1 .. Len(nv) |-> IF i = 1 THEN <<>> ELSE h[i - 1] \o Append(nv[i], Equal)]
  BY <1>9, <1>11 DEF n
<1>13. value = [i \in 1 .. Len(nv) |-> IF i = 1 THEN <<>> ELSE value[i - 1] \o Append(nv[i], Equal)]
  BY <1>12
<1> HIDE DEF value
<1>14. \A i \in 1 .. n : value[i] = IF i = 1 THEN <<>> ELSE value[i - 1] \o Append(nv[i], Equal)
  BY <1>13 DEF n
<1>15. value[1] = <<>> /\ \A i \in 2 .. n : value[i] = value[i - 1] \o Append(nv[i], Equal)
  <2>1. 1 \in 1 .. n /\ \A i \in 2 .. n : i \in 1 .. n /\ i # 1
    BY <1>1
  <2> QED
    BY <1>14, <2>1
<1>16. ValueRun(value, nv)
  BY <1>7, <1>15 DEF ValueRun, n
<1> QED
  BY <1>16

\* A piece with its "=" behind it is a part of the string with a "=" behind it.
LEMMA PieceWithEqual ==
  ASSUME NEW C, Equal \in C, NEW p \in Seq(C), NEW x \in Nat, NEW y \in Nat, x < y, y <= Len(p) + 1,
         y = Len(p) + 1 \/ p[y] = Equal
  PROVE  Append(SubSeq(p, x + 1, y - 1), Equal) = SubSeq(Append(p, Equal), x + 1, y)
<1> DEFINE w == SubSeq(p, x + 1, y - 1)
           l == (y - x) - 1
           z == Append(p, Equal)
           u == SubSeq(z, x + 1, (y + 1) - 1)
<1>1. Len(p) \in Nat /\ l \in Nat /\ y + 1 \in Nat /\ (y + 1) - 1 = y
  BY LenProperties
<1>2. w \in Seq(C) /\ Len(w) = l /\ \A i \in 1 .. l : w[i] = p[x + i]
  BY PieceShape
<1>3. /\ z \in Seq(C) /\ Len(z) = Len(p) + 1 /\ z[Len(p) + 1] = Equal
      /\ \A i \in 1 .. Len(p) : z[i] = p[i]
  BY AppendProperties
<1>4. u \in Seq(C) /\ Len(u) = ((y + 1) - x) - 1 /\ \A i \in 1 .. ((y + 1) - x) - 1 : u[i] = z[x + i]
  <2> HIDE DEF z
  <2>1. x < y + 1 /\ y + 1 <= Len(z) + 1
    BY <1>1, <1>3
  <2> QED
    BY <1>1, <1>3, <2>1, PieceShape
<1>5. /\ Append(w, Equal) \in Seq(C) /\ Len(Append(w, Equal)) = l + 1 /\ Append(w, Equal)[l + 1] = Equal
      /\ \A i \in 1 .. l : Append(w, Equal)[i] = w[i]
  BY <1>2, AppendProperties
<1> HIDE DEF w, z, u
<1>6. Len(u) = l + 1 /\ ((y + 1) - x) - 1 = l + 1
  BY <1>1, <1>4
<1>7. ASSUME NEW i \in 1 .. l + 1
      PROVE  Append(w, Equal)[i] = u[i]
  <2>1. u[i] = z[x + i]
    BY <1>4, <1>6
  <2>2. CASE i = l + 1
    <3>1. x + i = y
      BY <2>2
    <3>2. z[y] = Equal
      <4>1. y = Len(p) + 1 \/ y \in 1 .. Len(p)
        BY <1>1
      <4> QED
        BY <1>3, <4>1
    <3> QED
      BY <1>5, <2>1, <2>2, <3>1, <3>2
  <2>3. CASE i # l + 1
    <3>1. i \in 1 .. l /\ x + i \in 1 .. Len(p)
      BY <1>1, <2>3
    <3> QED
      BY <1>2, <1>3, <1>5, <2>1, <3>1
  <2> QED
    BY <2>2, <2>3
<1>8. Append(w, Equal) = u
  BY <1>4, <1>5, <1>6, <1>7, SeqEqual
<1> QED
  BY <1>1, <1>8 DEF u, w, z

\* The value is all that stands behind the first "=".
LEMMA ValueIsRest ==
  ASSUME NEW C, Equal \in C, NEW p \in Seq(C), NEW nv \in Pieces(C), NEW d,
         Cuts(d, Len(nv), Equal, p, Len(p)), Between(nv, d, p)
  PROVE  Value(nv) = SubSeq(p, d[1] + 1, Len(p))
<1> DEFINE q == Len(nv)
           l == Len(p)
           z == Append(p, Equal)
           b == d[1] + 1
<1>1. q \in Nat /\ q >= 1 /\ l \in Nat
  BY EmptySeq, LenProperties DEF Pieces
<1>2. /\ d \in [0 .. q -> 0 .. l + 1] /\ d[0] = 0 /\ d[q] = l + 1
      /\ \A j \in 1 .. q - 1 : p[d[j]] = Equal
  BY DEF Cuts
<1>3. \A i, j \in 0 .. q : i < j => d[i] < d[j]
  BY <1>1, CutsInOrder
<1>4. \A j \in 1 .. q : nv[j] = SubSeq(p, d[j - 1] + 1, d[j] - 1)
  BY DEF Between
<1>5. PICK h : ValueRun(h, nv)
  BY ValueSteps
<1>6. z \in Seq(C) /\ Len(z) = l + 1 /\ \A i \in 1 .. l : z[i] = p[i]
  BY AppendProperties
<1> HIDE DEF q, z
<1>7. /\ h[1] = <<>> /\ \A i \in 2 .. q : h[i] = h[i - 1] \o Append(nv[i], Equal)
      /\ Value(nv) = IF q > 1 THEN Front(h[q]) ELSE h[q]
  BY <1>5 DEF ValueRun, q
<1>8. d[1] \in Nat /\ d[1] >= 1 /\ d[1] <= l + 1 /\ b \in Nat
  <2>1. 0 \in 0 .. q /\ 1 \in 0 .. q
    BY <1>1
  <2>2. d[0] < d[1] /\ d[1] \in 0 .. l + 1
    BY <1>2, <1>3, <2>1
  <2> QED
    BY <1>1, <1>2, <2>2
<1> DEFINE Z == {i \in 1 .. q : h[i] = SubSeq(z, b, d[i])}
<1>9. 1 \in Z /\ 1 \in Nat
  <2>1. SubSeq(z, b, d[1]) = <<>>
    BY <1>8, SubSeqEmpty
  <2>2. 1 \in 1 .. q /\ 1 \in Nat
    BY <1>1
  <2> HIDE DEF b
  <2> QED
    BY <1>7, <2>1, <2>2
<1>10. ASSUME NEW i \in 1 .. q - 1, i \in Z
       PROVE  i + 1 \in Z
  <2> DEFINE x == d[i]
             y == d[i + 1]
  <2>1. i \in 0 .. q /\ i + 1 \in 0 .. q /\ 1 \in 0 .. q /\ i + 1 \in 1 .. q /\ i + 1 \in 2 .. q
        /\ (i + 1) - 1 = i /\ i < i + 1 /\ i >= 1
    BY <1>1
  <2>2. x < y /\ x \in 0 .. l + 1 /\ y \in 0 .. l + 1 /\ d[1] <= x
    <3>1. x < y /\ x \in 0 .. l + 1 /\ y \in 0 .. l + 1
      BY <1>2, <1>3, <2>1
    <3>2. 1 < i => d[1] < x
      BY <1>3, <2>1
    <3>3. i = 1 => d[1] = x
      OBVIOUS
    <3>4. i = 1 \/ 1 < i
      BY <2>1
    <3> HIDE DEF x, y
    <3> QED
      BY <1>8, <3>1, <3>2, <3>3, <3>4
  <2>3. y = l + 1 \/ p[y] = Equal
    <3>1. i + 1 = q \/ i + 1 \in 1 .. q - 1
      BY <1>1, <2>1
    <3> QED
      BY <1>2, <3>1
  <2>4. h[i + 1] = h[i] \o Append(nv[i + 1], Equal)
    BY <1>7, <2>1
  <2>5. nv[i + 1] = SubSeq(p, x + 1, y - 1)
    BY <1>4, <2>1
  <2>6. h[i] = SubSeq(z, b, x)
    BY <1>10
  <2> HIDE DEF x, y
  <2>7. Append(nv[i + 1], Equal) = SubSeq(z, x + 1, y)
    <3>1. x \in Nat /\ y \in Nat /\ x < y /\ y <= Len(p) + 1
      BY <1>1, <2>2
    <3> QED
      BY <2>3, <2>5, <3>1, PieceWithEqual DEF z
  <2>8. b \in 1 .. Len(z) + 1 /\ x \in b - 1 .. Len(z) /\ y \in x .. Len(z)
    BY <1>1, <1>6, <1>8, <2>2
  <2> HIDE DEF b
  <2>9. SubSeq(z, b, x) \o SubSeq(z, x + 1, y) = SubSeq(z, b, y)
    BY <1>6, <2>8, ConcatAdjacentSubSeq
  <2>10. h[i + 1] = SubSeq(z, b, y)
    BY <2>4, <2>6, <2>7, <2>9
  <2> QED
    BY <2>1, <2>10 DEF y
<1>11. \A i \in 1 .. q : i \in Z
  <2> HIDE DEF Z
  <2> QED
    BY <1>1, <1>9, <1>10, UpTo
<1>12. h[q] = SubSeq(z, b, l + 1)
  BY <1>1, <1>2, <1>11
<1>13. CASE q = 1
  <2>1. SubSeq(z, b, l + 1) = <<>> /\ SubSeq(p, b, l) = <<>>
    <3>1. b = l + 2
      BY <1>1, <1>2, <1>13
    <3> QED
      BY <1>1, <3>1, SubSeqEmpty
  <2>2. Value(nv) = h[q]
    BY <1>7, <1>13
  <2>3. Value(nv) = SubSeq(p, b, l)
    BY <1>12, <2>1, <2>2
  <2> QED
    BY <2>3
<1>14. CASE q # 1
  <2>1. b <= l + 1
    <3>1. 1 \in 0 .. q /\ q \in 0 .. q /\ 1 < q
      BY <1>1, <1>14
    <3>2. d[1] < d[q]
      BY <1>3, <3>1
    <3> QED
      BY <1>1, <1>2, <1>8, <3>2
  <2> DEFINE u == SubSeq(z, b, l + 1)
             v == SubSeq(p, b, l)
  <2>2. /\ u \in Seq(C) /\ Len(u) = (l + 1) - d[1]
        /\ \A i \in 1 .. (l + 1) - d[1] : u[i] = z[d[1] + i]
    <3>1. d[1] \in Nat /\ l + 2 \in Nat /\ d[1] < l + 2 /\ l + 2 <= Len(z) + 1
      BY <1>1, <1>6, <1>8
    <3>2. (l + 2) - 1 = l + 1 /\ ((l + 2) - d[1]) - 1 = (l + 1) - d[1]
      BY <1>1, <1>8
    <3> DEFINE x == d[1]
               y == l + 2
    <3>3. u = SubSeq(z, x + 1, y - 1)
      BY <3>2
    <3> HIDE DEF x, y, u
    <3>4. x \in Nat /\ y \in Nat /\ x < y /\ y <= Len(z) + 1
      BY <3>1 DEF x, y
    <3>5. u \in Seq(C) /\ Len(u) = (y - x) - 1 /\ \A i \in 1 .. (y - x) - 1 : u[i] = z[x + i]
      BY <1>6, <3>3, <3>4, PieceShape
    <3>6. (y - x) - 1 = (l + 1) - d[1]
      BY <3>2 DEF x, y
    <3> QED
      BY <3>5, <3>6 DEF x
  <2>3. /\ v \in Seq(C) /\ Len(v) = l - d[1]
        /\ \A i \in 1 .. l - d[1] : v[i] = p[d[1] + i]
    <3>1. d[1] \in Nat /\ l + 1 \in Nat /\ d[1] < l + 1 /\ l + 1 <= Len(p) + 1
      BY <1>1, <1>8, <2>1
    <3>2. (l + 1) - 1 = l /\ ((l + 1) - d[1]) - 1 = l - d[1]
      BY <1>1, <1>8
    <3> DEFINE x == d[1]
               y == l + 1
    <3>3. v = SubSeq(p, x + 1, y - 1)
      BY <3>2
    <3> HIDE DEF x, y, v
    <3>4. x \in Nat /\ y \in Nat /\ x < y /\ y <= Len(p) + 1
      BY <3>1 DEF x, y
    <3>5. v \in Seq(C) /\ Len(v) = (y - x) - 1 /\ \A i \in 1 .. (y - x) - 1 : v[i] = p[x + i]
      BY <3>3, <3>4, PieceShape
    <3>6. (y - x) - 1 = l - d[1]
      BY <3>2 DEF x, y
    <3> QED
      BY <3>5, <3>6 DEF x
  <2>4. Front(u) = v
    <3> HIDE DEF u, v
    <3>1. Len(u) - 1 = l - d[1] /\ l - d[1] \in Nat
      BY <1>1, <1>8, <2>1, <2>2
    <3>2. \A i \in 1 .. l - d[1] : u[i] = v[i]
      <4> SUFFICES ASSUME NEW i \in 1 .. l - d[1] PROVE u[i] = v[i]
        OBVIOUS
      <4>1. i \in 1 .. (l + 1) - d[1] /\ d[1] + i \in 1 .. l
        BY <1>1, <1>8
      <4> QED
        BY <1>6, <2>2, <2>3, <4>1
    <3>3. Front(u) = [i \in 1 .. Len(u) - 1 |-> u[i]]
      BY DEF Front
    <3>4. v = [i \in 1 .. l - d[1] |-> v[i]]
      BY <2>3, LenProperties
    <3> QED
      BY <3>1, <3>2, <3>3, <3>4
  <2> QED
    BY <1>1, <1>7, <1>12, <1>14, <2>4
<1> QED
  BY <1>13, <1>14

\* What stands in s between x and y.
Part(s, x, y) == SubSeq(s, x + 1, y - 1)

\* A piece of a piece is a piece of the string.
LEMMA PieceOfPiece ==
  ASSUME NEW C, NEW s \in Seq(C), NEW a \in Nat, NEW e \in Nat, a < e, e <= Len(s) + 1,
         NEW p \in Seq(C), IsPiece(p, s, a, e)
  PROVE  \A x, y \in Nat : x < y /\ y <= Len(p) + 1 => Part(p, x, y) = Part(s, a + x, a + y)
<1> SUFFICES ASSUME NEW x \in Nat, NEW y \in Nat, x < y, y <= Len(p) + 1
             PROVE  Part(p, x, y) = Part(s, a + x, a + y)
  OBVIOUS
<1> DEFINE l == (e - a) - 1
           k == (y - x) - 1
           ax == a + x
           ay == a + y
           u == SubSeq(p, x + 1, y - 1)
           v == SubSeq(s, ax + 1, ay - 1)
<1>1. l \in Nat /\ k \in Nat /\ Len(s) \in Nat
  BY LenProperties
<1>2. p \in Seq(C) /\ Len(p) = l /\ \A i \in 1 .. l : p[i] = s[a + i]
  BY DEF IsPiece
<1>3. u \in Seq(C) /\ Len(u) = k /\ \A i \in 1 .. k : u[i] = p[x + i]
  BY <1>2, PieceShape
<1>4. ax \in Nat /\ ay \in Nat /\ ax < ay /\ ay <= Len(s) + 1 /\ (ay - ax) - 1 = k
  BY <1>1, <1>2
<1>5. v \in Seq(C) /\ Len(v) = k /\ \A i \in 1 .. k : v[i] = s[ax + i]
  <2> HIDE DEF ax, ay, k
  <2>1. v \in Seq(C) /\ Len(v) = (ay - ax) - 1 /\ \A i \in 1 .. (ay - ax) - 1 : v[i] = s[ax + i]
    BY <1>4, PieceShape
  <2> QED
    BY <1>4, <2>1
<1> HIDE DEF u, v
<1>6. ASSUME NEW i \in 1 .. k
      PROVE  u[i] = v[i]
  <2>1. x + i \in 1 .. l /\ a + (x + i) = ax + i
    <3>1. y <= l + 1 /\ i \in Nat /\ i >= 1 /\ i <= (y - x) - 1
      BY <1>1, <1>2
    <3> QED
      BY <1>1, <3>1
  <2> QED
    BY <1>2, <1>3, <1>5, <2>1
<1>7. u = v
  BY <1>3, <1>5, <1>6, SeqEqual
<1> QED
  BY <1>7 DEF u, v, Part

HeaderType(C) == [name : Seq(C), value : Seq(C)]

\* The loop adds the header of an item that has a name, and nothing for one that has none.
LEMMA AddHeaderIs ==
  ASSUME NEW C, Equal \in C, NEW s \in Seq(C), NEW a \in Nat, NEW e \in Nat, a < e, e <= Len(s) + 1,
         NEW p \in Seq(C), IsPiece(p, s, a, e), NEW hs
  PROVE  /\ AddHeader(hs, Split(Equal, p)) =
              IF NameEnd(s, <<a, e>>) > a + 1 THEN Append(hs, Header(s, <<a, e>>)) ELSE hs
         /\ Header(s, <<a, e>>) \in HeaderType(C)
<1>0. \A x, y \in Nat : x < y /\ y <= Len(p) + 1 => Part(p, x, y) = Part(s, a + x, a + y)
  BY PieceOfPiece
<1> DEFINE l == (e - a) - 1
           nv == Split(Equal, p)
           N == NameEnd(s, <<a, e>>)
           name == SubSeq(s, a + 1, N - 1)
           value == SubSeq(s, N + 1, e - 1)
<1>1. l \in Nat /\ Len(p) = l
  BY DEF IsPiece
<1>2. nv \in Pieces(C) /\ \E d : Cuts(d, Len(nv), Equal, p, Len(p)) /\ Between(nv, d, p)
  BY <1>1, SplitCuts
<1>3. PICK d : Cuts(d, Len(nv), Equal, p, Len(p)) /\ Between(nv, d, p)
  BY <1>2
<1>4. Len(nv) \in Nat /\ Len(nv) # 0
  BY <1>2, EmptySeq DEF Pieces
<1> HIDE DEF nv
<1>5. N = a + d[1]
  <2> DEFINE q == Len(nv)
  <2>1. q \in Nat /\ q # 0 /\ Cuts(d, q, Equal, p, Len(p))
    BY <1>3, <1>4
  <2> HIDE DEF q
  <2> QED
    BY <1>1, <2>1, NameEndIsCut
<1>6. d[1] \in Nat /\ d[1] >= 1 /\ d[1] <= l + 1 /\ nv[1] = SubSeq(p, 1, d[1] - 1)
  <2>1. 0 \in 0 .. Len(nv) /\ 1 \in 0 .. Len(nv) /\ 1 \in 1 .. Len(nv) /\ 0 < 1 /\ 1 - 1 = 0
    BY <1>4
  <2>2. \A i, j \in 0 .. Len(nv) : i < j => d[i] < d[j]
    BY <1>1, <1>3, <1>4, CutsInOrder
  <2>3. d \in [0 .. Len(nv) -> 0 .. l + 1] /\ d[0] = 0
    BY <1>1, <1>3 DEF Cuts
  <2>4. d[0] < d[1] /\ d[1] \in 0 .. l + 1
    BY <2>1, <2>2, <2>3
  <2>5. nv[1] = SubSeq(p, d[1 - 1] + 1, d[1] - 1)
    BY <1>3, <2>1 DEF Between
  <2>6. d[1 - 1] + 1 = 1
    BY <2>3
  <2>7. nv[1] = SubSeq(p, 1, d[1] - 1)
    BY <2>5, <2>6
  <2>8. d[1] \in Nat /\ d[1] >= 1 /\ d[1] <= l + 1
    BY <1>1, <2>3, <2>4
  <2> QED
    BY <2>7, <2>8
<1> HIDE DEF N
<1>7. N \in Nat /\ N >= a + 1 /\ N <= e /\ e <= Len(s) + 1
  BY <1>1, <1>5, <1>6
<1>8. nv[1] = name
  <2>1. d[1] <= Len(p) + 1 /\ 0 \in Nat /\ 0 < d[1] /\ 0 + 1 = 1 /\ a + 0 = a
    BY <1>1, <1>6
  <2> DEFINE y == d[1]
             z == 0
  <2>2. y \in Nat /\ z \in Nat /\ z < y /\ y <= Len(p) + 1
    BY <1>6, <2>1
  <2> HIDE DEF y, z
  <2>3. Part(p, z, y) = Part(s, a + z, a + y)
    BY <1>0, <2>2
  <2>4. Part(p, z, y) = nv[1]
    BY <1>6, <2>1 DEF y, z, Part
  <2>5. Part(s, a + z, a + y) = Part(s, a, N)
    BY <1>5, <2>1 DEF y, z
  <2> QED
    BY <2>3, <2>4, <2>5 DEF Part
<1>9. name \in Seq(C) /\ (name = <<>> <=> N = a + 1)
  <2>1. name \in Seq(C) /\ Len(name) = (N - a) - 1
    BY <1>7, PieceShape
  <2> HIDE DEF name
  <2>2. name = <<>> <=> Len(name) = 0
    BY <2>1, EmptySeq
  <2> QED
    BY <1>7, <2>1, <2>2
<1>10. Value(nv) = value /\ value \in Seq(C)
  <2>1. Value(nv) = SubSeq(p, d[1] + 1, Len(p))
    BY <1>1, <1>2, <1>3, ValueIsRest
  <2>2. CASE N = e
    <3>1. value = <<>>
      BY <1>7, <2>2, SubSeqEmpty
    <3>2. SubSeq(p, d[1] + 1, Len(p)) = <<>>
      <4>1. d[1] + 1 \in Int /\ Len(p) \in Int /\ Len(p) < d[1] + 1
        BY <1>1, <1>5, <1>6, <2>2
      <4> QED
        BY <4>1, SubSeqEmpty
    <3> QED
      BY <2>1, <3>1, <3>2, EmptySeq
  <2>3. CASE N # e
    <3> DEFINE x == d[1]
               y == l + 1
    <3>1. x \in Nat /\ y \in Nat /\ x < y /\ y <= Len(p) + 1 /\ y - 1 = Len(p)
          /\ a + x = N /\ (a + y) - 1 = e - 1
      BY <1>1, <1>5, <1>6, <1>7, <2>3
    <3>2. SubSeq(p, d[1] + 1, Len(p)) = Part(p, x, y)
      BY <3>1 DEF Part
    <3>3. Part(p, x, y) = Part(s, N, a + y)
      BY <1>0, <3>1
    <3>5. Part(s, N, a + y) = value
      BY <3>1 DEF Part
    <3> HIDE DEF x, y
    <3>4. value \in Seq(C)
      <4>1. N < e
        BY <1>7, <2>3
      <4> QED
        BY <1>7, <4>1, PieceShape
    <3> QED
      BY <2>1, <3>2, <3>3, <3>4, <3>5
  <2> QED
    BY <2>2, <2>3
<1>11. Header(s, <<a, e>>) = [name |-> name, value |-> value]
  BY DEF Header, N
<1> HIDE DEF name, value
<1>12. Header(s, <<a, e>>) \in HeaderType(C)
  BY <1>9, <1>10, <1>11 DEF HeaderType
<1>13. CASE N = a + 1
  <2>1. AddHeader(hs, nv) = hs
    BY <1>8, <1>9, <1>13 DEF AddHeader
  <2>2. ~(N > a + 1)
    BY <1>7, <1>13
  <2> QED
    BY <1>12, <2>1, <2>2 DEF N, nv
<1>14. CASE N # a + 1
  <2>1. AddHeader(hs, nv) = Append(hs, Header(s, <<a, e>>))
    BY <1>8, <1>9, <1>10, <1>11, <1>14 DEF AddHeader
  <2>2. N > a + 1
    BY <1>7, <1>14
  <2> QED
    BY <1>12, <2>1, <2>2 DEF N, nv
<1> QED
  BY <1>13, <1>14
-----------------------------------------------------------------------------
(* The list of headers.                                                     *)

\* The loop over the items, step by step.
ParseRun(g, s, ps) ==
  /\ g[0] = <<>>
  /\ \A i \in 1 .. Len(ps) : g[i] = AddHeader(g[i - 1], Split(Equal, ps[i]))
  /\ Parse(s) = g[Len(ps)]

\* The list is reached step by step.
LEMMA ParseSteps ==
  ASSUME NEW C, NEW s \in Seq(C), NEW ps, ps = Split(Comma, s), NEW V, <<>> \in V, Len(ps) \in Nat,
         \A i \in 1 .. Len(ps) : \A v \in V : AddHeader(v, Split(Equal, ps[i])) \in V
  PROVE  \E g \in [0 .. Len(ps) -> V] : ParseRun(g, s, ps)
<1> DEFINE n == Len(ps)
           F == [i \in 1 .. n |-> [v \in V |-> AddHeader(v, Split(Equal, ps[i]))]]
           headersList == Split(Comma, s)
           headers[i \in 0 .. Len(headersList)] ==
             IF i = 0 THEN <<>> ELSE AddHeader(headers[i - 1], Split(Equal, headersList[i]))
<1>1. \A i \in 1 .. n : \A v \in V : F[i][v] = AddHeader(v, Split(Equal, ps[i]))
  OBVIOUS
<1>2. \A i \in 1 .. n : \A v \in V : F[i][v] \in V
  BY <1>1
<1>3. Parse(s) = headers[Len(headersList)]
  BY DEF Parse
<1> HIDE DEF F, n
<1>4. PICK g \in [0 .. n -> V] : Follows(g, n, <<>>, F)
  BY <1>2, Recursion DEF n
<1>5. \A i \in 1 .. n : g[i] = AddHeader(g[i - 1], Split(Equal, ps[i]))
  <2> SUFFICES ASSUME NEW i \in 1 .. n
               PROVE  g[i] = AddHeader(g[i - 1], Split(Equal, ps[i]))
    OBVIOUS
  <2>1. i - 1 \in 0 .. n
    BY DEF n
  <2>2. g[i] = F[i][g[i - 1]] /\ g[i - 1] \in V
    BY <1>4, <2>1 DEF Follows
  <2> QED
    BY <1>1, <2>2
<1>6. \A i \in 0 .. n : g[i] = IF i = 0 THEN <<>> ELSE AddHeader(g[i - 1], Split(Equal, ps[i]))
  <2> SUFFICES ASSUME NEW i \in 0 .. n
               PROVE  g[i] = IF i = 0 THEN <<>> ELSE AddHeader(g[i - 1], Split(Equal, ps[i]))
    OBVIOUS
  <2>1. i = 0 \/ i \in 1 .. n
    BY DEF n
  <2> QED
    BY <1>4, <1>5, <2>1 DEF Follows
<1>7. g = [i \in 0 .. n |-> g[i]]
  OBVIOUS
<1>8. g = [i \in 0 .. Len(headersList) |->
             IF i = 0 THEN <<>> ELSE AddHeader(g[i - 1], Split(Equal, headersList[i]))]
  <2>1. g = [i \in 0 .. n |-> IF i = 0 THEN <<>> ELSE AddHeader(g[i - 1], Split(Equal, ps[i]))]
    BY <1>6, <1>7
  <2> QED
    BY <2>1 DEF n
<1>9. headers = [i \in 0 .. Len(headersList) |->
                   IF i = 0 THEN <<>> ELSE AddHeader(headers[i - 1], Split(Equal, headersList[i]))]
  BY <1>8
<1> HIDE DEF headers
<1>10. headers = [i \in 0 .. n |-> IF i = 0 THEN <<>> ELSE AddHeader(headers[i - 1], Split(Equal, ps[i]))]
  BY <1>9 DEF n
<1> HIDE DEF headersList
<1>11. DOMAIN headers = 0 .. n
       /\ \A i \in 0 .. n : headers[i] = IF i = 0 THEN <<>> ELSE AddHeader(headers[i - 1], Split(Equal, ps[i]))
  BY <1>10
<1>12. n \in Nat /\ 0 \in 0 .. n /\ \A i \in 1 .. n : i \in 0 .. n /\ i # 0 /\ i - 1 \in 0 .. n
  BY DEF n
<1>13. headers[0] = <<>> /\ \A i \in 1 .. n : headers[i] = AddHeader(headers[i - 1], Split(Equal, ps[i]))
  BY <1>11, <1>12
<1> DEFINE Z == {i \in 0 .. n : headers[i] \in V}
<1>14. \A i \in 0 .. n : i \in Z
  <2>1. 0 \in Z /\ 0 \in Nat
    BY <1>12, <1>13
  <2>2. ASSUME NEW i \in 0 .. n - 1, i \in Z
        PROVE  i + 1 \in Z
    <3>1. i + 1 \in 1 .. n /\ i + 1 \in 0 .. n /\ (i + 1) - 1 = i
      BY <1>12
    <3>2. headers[i + 1] = AddHeader(headers[i], Split(Equal, ps[i + 1]))
      BY <1>13, <3>1
    <3>3. headers[i] \in V
      BY <2>2
    <3>4. AddHeader(headers[i], Split(Equal, ps[i + 1])) \in V
      BY <3>1, <3>3 DEF n
    <3> QED
      BY <3>1, <3>2, <3>4
  <2> HIDE DEF Z
  <2> QED
    BY <1>12, <2>1, <2>2, UpTo
<1>15. headers = [i \in 0 .. n |-> headers[i]]
  BY <1>10
<1>16. headers \in [0 .. n -> V]
  BY <1>14, <1>15
<1>17. Parse(s) = headers[n]
  BY <1>3 DEF n, headersList
<1> QED
  BY <1>13, <1>16, <1>17 DEF n, ParseRun

\* hs holds the headers of the named items among the first i.
Lists(f, hs, i, c, s) ==
  /\ f \in [1 .. Len(hs) -> 1 .. i]
  /\ \A x, y \in 1 .. Len(hs) : x < y => f[x] < f[y]
  /\ \A j \in 1 .. i : Item(c, j) \in Named(s) => \E x \in 1 .. Len(hs) : f[x] = j
  /\ \A x \in 1 .. Len(hs) : Item(c, f[x]) \in Named(s) /\ hs[x] = Header(s, Item(c, f[x]))

\* A named item is listed behind those before it.
LEMMA ListsNext ==
  ASSUME NEW T, NEW hs \in Seq(T), NEW i \in Nat, NEW c, NEW s, NEW f, Lists(f, hs, i, c, s),
         Item(c, i + 1) \in Named(s), Header(s, Item(c, i + 1)) \in T
  PROVE  \E h : Lists(h, Append(hs, Header(s, Item(c, i + 1))), i + 1, c, s)
<1> DEFINE n == Len(hs)
           H == Header(s, Item(c, i + 1))
           hs2 == Append(hs, H)
           h == [x \in 1 .. n + 1 |-> IF x = n + 1 THEN i + 1 ELSE f[x]]
<1>1. n \in Nat /\ Len(hs2) = n + 1 /\ hs2[n + 1] = H /\ \A x \in 1 .. n : hs2[x] = hs[x]
  BY LenProperties, AppendProperties
<1>2. /\ f \in [1 .. n -> 1 .. i]
      /\ \A x, y \in 1 .. n : x < y => f[x] < f[y]
      /\ \A j \in 1 .. i : Item(c, j) \in Named(s) => \E x \in 1 .. n : f[x] = j
      /\ \A x \in 1 .. n : Item(c, f[x]) \in Named(s) /\ hs[x] = Header(s, Item(c, f[x]))
  BY DEF Lists
<1>3. \A x \in 1 .. n : f[x] \in 1 .. i
  BY <1>2
<1>4. h[n + 1] = i + 1 /\ \A x \in 1 .. n : h[x] = f[x]
  BY <1>1
<1>5. h \in [1 .. n + 1 -> 1 .. i + 1]
  BY <1>1, <1>3
<1>6. \A x \in 1 .. n + 1 : x = n + 1 \/ x \in 1 .. n
  BY <1>1
<1> HIDE DEF h, hs2, n, H
<1>7. ASSUME NEW x \in 1 .. n + 1, NEW y \in 1 .. n + 1, x < y
      PROVE  h[x] < h[y]
  <2>1. x \in 1 .. n /\ (y = n + 1 \/ y \in 1 .. n)
    BY <1>1, <1>7
  <2>2. CASE y = n + 1
    BY <1>3, <1>4, <2>1, <2>2
  <2>3. CASE y \in 1 .. n
    BY <1>2, <1>4, <1>7, <2>1, <2>3
  <2> QED
    BY <2>1, <2>2, <2>3
<1>8. ASSUME NEW j \in 1 .. i + 1, Item(c, j) \in Named(s)
      PROVE  \E x \in 1 .. n + 1 : h[x] = j
  <2>1. j = i + 1 \/ j \in 1 .. i
    OBVIOUS
  <2>2. CASE j = i + 1
    <3>1. n + 1 \in 1 .. n + 1
      BY <1>1
    <3> QED
      BY <1>4, <2>2, <3>1
  <2>3. CASE j \in 1 .. i
    <3>1. PICK x \in 1 .. n : f[x] = j
      BY <1>2, <1>8, <2>3
    <3>2. x \in 1 .. n + 1
      BY <1>1
    <3> QED
      BY <1>4, <3>1, <3>2
  <2> QED
    BY <2>1, <2>2, <2>3
<1>9. ASSUME NEW x \in 1 .. n + 1
      PROVE  Item(c, h[x]) \in Named(s) /\ hs2[x] = Header(s, Item(c, h[x]))
  <2>1. CASE x = n + 1
    BY <1>1, <1>4, <2>1 DEF H
  <2>2. CASE x \in 1 .. n
    BY <1>1, <1>2, <1>4, <2>2
  <2> QED
    BY <1>6, <2>1, <2>2
<1>10. Lists(h, hs2, i + 1, c, s)
  BY <1>1, <1>5, <1>7, <1>8, <1>9 DEF Lists
<1> QED
  BY <1>10 DEF hs2, H

\* An item without a name is not listed.
LEMMA ListsSkip ==
  ASSUME NEW T, NEW hs \in Seq(T), NEW i \in Nat, NEW c, NEW s, NEW f, Lists(f, hs, i, c, s),
         Item(c, i + 1) \notin Named(s)
  PROVE  Lists(f, hs, i + 1, c, s)
<1> DEFINE n == Len(hs)
<1>1. /\ f \in [1 .. n -> 1 .. i]
      /\ \A x, y \in 1 .. n : x < y => f[x] < f[y]
      /\ \A j \in 1 .. i : Item(c, j) \in Named(s) => \E x \in 1 .. n : f[x] = j
      /\ \A x \in 1 .. n : Item(c, f[x]) \in Named(s) /\ hs[x] = Header(s, Item(c, f[x]))
  BY DEF Lists
<1> HIDE DEF n
<1>2. f \in [1 .. n -> 1 .. i + 1]
  BY <1>1
<1>3. \A j \in 1 .. i + 1 : j = i + 1 \/ j \in 1 .. i
  OBVIOUS
<1>4. \A j \in 1 .. i + 1 : Item(c, j) \in Named(s) => \E x \in 1 .. n : f[x] = j
  BY <1>1, <1>3
<1> QED
  BY <1>1, <1>2, <1>4 DEF Lists, n

\* What the loop does with an item.
LEMMA ItemStep ==
  ASSUME NEW C, Equal \in C, NEW s \in Seq(C), NEW ps \in Pieces(C), NEW c,
         Cuts(c, Len(ps), Comma, s, Len(s)), Between(ps, c, s), NEW j \in 1 .. Len(ps)
  PROVE  /\ Header(s, Item(c, j)) \in HeaderType(C)
         /\ \A hs : AddHeader(hs, Split(Equal, ps[j])) =
              IF Item(c, j) \in Named(s) THEN Append(hs, Header(s, Item(c, j))) ELSE hs
<1> DEFINE m == Len(ps)
           a == c[j - 1]
           e == c[j]
<1>1. ps \in Seq(Seq(C)) /\ m \in Nat /\ m # 0 /\ Len(s) \in Nat /\ ps[j] \in Seq(C)
  BY EmptySeq, LenProperties, ElementOfSeq DEF Pieces
<1>2. c \in [0 .. m -> 0 .. Len(s) + 1] /\ a < e
  BY DEF Cuts
<1>3. j \in 0 .. m /\ j - 1 \in 0 .. m
  BY <1>1
<1>4. a \in Nat /\ e \in Nat /\ e <= Len(s) + 1
  <2>1. a \in 0 .. Len(s) + 1 /\ e \in 0 .. Len(s) + 1
    BY <1>2, <1>3
  <2> HIDE DEF a, e
  <2> QED
    BY <1>1, <2>1
<1>5. ps[j] = SubSeq(s, a + 1, e - 1)
  BY DEF Between
<1>6. Item(c, j) = <<a, e>> /\ Item(c, j) \in Items(s)
  <2>1. Item(c, j) = <<a, e>>
    BY DEF Item
  <2>2. \A it : it \in Items(s) <=> \E l \in 1 .. m : it = Item(c, l)
    BY <1>1, ItemsAreCuts
  <2> QED
    BY <2>1, <2>2
<1> HIDE DEF a, e, m
<1>7. IsPiece(ps[j], s, a, e)
  BY <1>2, <1>4, <1>5, PieceShape DEF IsPiece
<1>8. Item(c, j) \in Named(s) <=> NameEnd(s, <<a, e>>) > a + 1
  BY <1>6 DEF Named
<1> DEFINE p == ps[j]
<1>9. p \in Seq(C) /\ IsPiece(p, s, a, e)
  BY <1>1, <1>7
<1> HIDE DEF p
<1>10. Header(s, <<a, e>>) \in HeaderType(C)
  BY <1>2, <1>4, <1>9, AddHeaderIs
<1>11. ASSUME NEW hs
       PROVE  AddHeader(hs, Split(Equal, p)) =
                IF NameEnd(s, <<a, e>>) > a + 1 THEN Append(hs, Header(s, <<a, e>>)) ELSE hs
  BY <1>2, <1>4, <1>9, AddHeaderIs
<1> QED
  BY <1>6, <1>8, <1>10, <1>11 DEF p

\* parseHeaders returns the named items of its string, each once and in their order.
THEOREM ParseFindsItems ==
  ASSUME NEW C, Equal \in C, NEW s \in Seq(C)
  PROVE  AreItems(Parse(s), s)
<1> DEFINE ps == Split(Comma, s)
           m == Len(ps)
           V == Seq(HeaderType(C))
<1>1. ps \in Pieces(C) /\ \E c : Cuts(c, m, Comma, s, Len(s)) /\ Between(ps, c, s)
  BY SplitCuts
<1>2. PICK c : Cuts(c, m, Comma, s, Len(s)) /\ Between(ps, c, s)
  BY <1>1
<1>3. m \in Nat /\ m # 0 /\ Len(s) \in Nat
  BY <1>1, EmptySeq, LenProperties DEF Pieces
<1>4. ps = Split(Comma, s)
  OBVIOUS
<1> HIDE DEF ps
<1>5. \A j \in 1 .. m :
        /\ Header(s, Item(c, j)) \in HeaderType(C)
        /\ \A hs : AddHeader(hs, Split(Equal, ps[j])) =
             IF Item(c, j) \in Named(s) THEN Append(hs, Header(s, Item(c, j))) ELSE hs
  BY <1>1, <1>2, ItemStep
<1>6. \A j \in 1 .. m : \A v \in V : AddHeader(v, Split(Equal, ps[j])) \in V
  <2> SUFFICES ASSUME NEW j \in 1 .. m, NEW v \in V
               PROVE  AddHeader(v, Split(Equal, ps[j])) \in V
    OBVIOUS
  <2> DEFINE H == Header(s, Item(c, j))
  <2>1. AddHeader(v, Split(Equal, ps[j])) = Append(v, H) \/ AddHeader(v, Split(Equal, ps[j])) = v
    BY <1>5
  <2>2. H \in HeaderType(C)
    BY <1>5
  <2> HIDE DEF H
  <2>3. Append(v, H) \in V
    BY <2>2, AppendProperties
  <2> QED
    BY <2>1, <2>3
<1>7. <<>> \in V
  BY EmptySeq
<1> HIDE DEF V
<1>8. PICK g \in [0 .. Len(ps) -> V] : ParseRun(g, s, ps)
  BY <1>3, <1>4, <1>6, <1>7, ParseSteps
<1>9. /\ g[0] = <<>> /\ Parse(s) = g[m]
      /\ \A i \in 1 .. m : g[i] = AddHeader(g[i - 1], Split(Equal, ps[i]))
  BY <1>8 DEF ParseRun
<1>10. \A i \in 0 .. m : g[i] \in Seq(HeaderType(C))
  BY <1>8 DEF V
<1> HIDE DEF m
<1> DEFINE Z == {i \in 0 .. m : \E f : Lists(f, g[i], i, c, s)}
<1>11. 0 \in Z /\ 0 \in Nat
  <2> DEFINE f == [x \in 1 .. 0 |-> 0]
  <2>1. Len(g[0]) = 0
    BY <1>9, EmptySeq
  <2>2. 1 .. 0 = {}
    OBVIOUS
  <2>3. f \in [1 .. 0 -> 1 .. 0]
    BY <2>2
  <2> HIDE DEF f
  <2>4. Lists(f, g[0], 0, c, s)
    BY <2>1, <2>2, <2>3 DEF Lists
  <2> QED
    BY <1>3, <2>4
<1>12. ASSUME NEW i \in 0 .. m - 1, i \in Z
       PROVE  i + 1 \in Z
  <2>1. i \in Nat /\ i + 1 \in 1 .. m /\ i + 1 \in 0 .. m /\ i \in 0 .. m /\ (i + 1) - 1 = i
    BY <1>3
  <2>2. PICK f : Lists(f, g[i], i, c, s)
    BY <1>12
  <2>3. g[i + 1] = AddHeader(g[i], Split(Equal, ps[i + 1]))
    BY <1>9, <2>1
  <2>4. CASE Item(c, i + 1) \in Named(s)
    <3>1. g[i + 1] = Append(g[i], Header(s, Item(c, i + 1)))
      BY <1>5, <2>1, <2>3, <2>4
    <3>2. Header(s, Item(c, i + 1)) \in HeaderType(C) /\ g[i] \in Seq(HeaderType(C))
      BY <1>5, <1>10, <2>1
    <3>3. \E h : Lists(h, g[i + 1], i + 1, c, s)
      BY <2>1, <2>2, <2>4, <3>1, <3>2, ListsNext
    <3> QED
      BY <2>1, <3>3
  <2>5. CASE Item(c, i + 1) \notin Named(s)
    <3>1. g[i + 1] = g[i]
      BY <1>5, <2>1, <2>3, <2>5
    <3>2. Lists(f, g[i], i + 1, c, s)
      BY <1>10, <2>1, <2>2, <2>5, ListsSkip
    <3> QED
      BY <2>1, <3>1, <3>2
  <2> QED
    BY <2>4, <2>5
<1>13. \A i \in 0 .. m : i \in Z
  <2> HIDE DEF Z
  <2> QED
    BY <1>3, <1>11, <1>12, UpTo
<1>14. PICK f : Lists(f, Parse(s), m, c, s)
  <2>1. m \in 0 .. m
    BY <1>3
  <2>2. m \in Z
    BY <1>13, <2>1
  <2> QED
    BY <1>9, <2>2
<1> DEFINE L == Parse(s)
           n == Len(L)
           F == [x \in 1 .. n |-> Item(c, f[x])]
<1>15. /\ f \in [1 .. n -> 1 .. m]
       /\ \A x, y \in 1 .. n : x < y => f[x] < f[y]
       /\ \A j \in 1 .. m : Item(c, j) \in Named(s) => \E x \in 1 .. n : f[x] = j
       /\ \A x \in 1 .. n : Item(c, f[x]) \in Named(s) /\ L[x] = Header(s, Item(c, f[x]))
  BY <1>14 DEF Lists
<1>16. \A i, j \in 0 .. m : i < j => c[i] < c[j]
  BY <1>2, <1>3, CutsInOrder DEF m
<1>17. \A it \in Named(s) : \E j \in 1 .. m : it = Item(c, j)
  <2>1. \A it : it \in Items(s) <=> \E j \in 1 .. m : it = Item(c, j)
    BY <1>2, <1>3, ItemsAreCuts DEF m
  <2> QED
    BY <2>1 DEF Named
<1> HIDE DEF L, n
<1>18. F \in [1 .. n -> Named(s)] /\ \A x \in 1 .. n : F[x] = Item(c, f[x])
  BY <1>15
<1> HIDE DEF F
<1>19. ASSUME NEW x \in 1 .. n, NEW y \in 1 .. n, x < y
       PROVE  F[x][1] < F[y][1]
  <2>1. f[x] \in 1 .. m /\ f[y] \in 1 .. m /\ f[x] < f[y]
    BY <1>15, <1>19
  <2>2. f[x] - 1 \in 0 .. m /\ f[y] - 1 \in 0 .. m /\ f[x] - 1 < f[y] - 1
    BY <1>3, <2>1
  <2>3. c[f[x] - 1] < c[f[y] - 1]
    BY <1>16, <2>2
  <2> QED
    BY <1>18, <2>3 DEF Item
<1>20. ASSUME NEW it \in Named(s)
       PROVE  \E x \in 1 .. n : F[x] = it
  <2>1. PICK j \in 1 .. m : it = Item(c, j)
    BY <1>17
  <2>2. PICK x \in 1 .. n : f[x] = j
    BY <1>15, <2>1
  <2> QED
    BY <1>18, <2>1, <2>2
<1>21. \A x \in 1 .. n : L[x] = Header(s, F[x])
  BY <1>15, <1>18
<1> QED
  BY <1>18, <1>19, <1>20, <1>21 DEF AreItems, L, n
-----------------------------------------------------------------------------
(* The theorems.                                                            *)

\* The client keeps its types; in particular every transaction has a handler that
\* keeps at most two blocks of headers (CurlClient.cpp:298-335).
THEOREM CurlTypeCorrect == Spec => []TypeOK
<1>1. Inv => TypeOK
  BY DEF Inv
<1> QED
  BY <1>1, InvHolds, PTL

\* For every size of file and block and however often egress is paused: the
\* headers, the file in order, and one end of message after the whole file
\* (CurlClient.cpp:192-224, 290-296).
THEOREM RequestSent == Spec => []EgressIsRequest
<1>1. Inv => EgressIsRequest
  <2> SUFFICES ASSUME Inv, egress # <<>>
               PROVE  \E n \in 0 .. MaxFile :
                        \/ egress = Sent(n)
                        \/ /\ egress = Append(Sent(n), EOM)
                           /\ n = (IF inputFile.size > 0 THEN inputFile.size ELSE 0)
    BY DEF EgressIsRequest
  <2>1. inputFile.pos \in 0 .. MaxFile
    BY DEF Inv, TypeOK
  <2>2. \/ egress = Sent(inputFile.pos)
        \/ egress = Append(Sent(inputFile.pos), EOM) /\ inputFile.pos = Whole(inputFile.size)
    BY DEF Inv, Reading
  <2> QED
    BY <2>1, <2>2 DEF Whole
<1> QED
  BY <1>1, InvHolds, PTL

\* For a flag of any length: the request carries a header for every named item of
\* the flag, in their order, until it is sent (CurlClient.cpp:83-106).
THEOREM HeadersParsed == Spec => []HeadersAreItems
<1>1. Init => HeadersAreItems
  BY DEF Init, HeadersAreItems
<1>2. HeadersAreItems /\ [Next]_vars => HeadersAreItems'
  <2> SUFFICES ASSUME HeadersAreItems, [Next]_vars PROVE HeadersAreItems'
    OBVIOUS
  <2>1. ASSUME NEW flag \in Strings(MaxHeader), Start(flag)
        PROVE  HeadersAreItems'
    <3>1. CASE method = "POST" /\ file = -1
      BY <2>1, <3>1 DEF Start, HeadersAreItems
    <3>2. CASE ~(method = "POST" /\ file = -1)
      <4>1. flag \in Seq(Chars)
        BY CurlAssumption DEF Strings
      <4>2. Equal \in Chars
        BY Zenon DEF Chars
      <4>3. AreItems(Parse(flag), flag)
        BY <4>1, <4>2, ParseFindsItems
      <4>4. request' = [flag |-> flag, headers |-> Parse(flag)]
        BY <2>1, <3>2 DEF Start
      <4> QED
        BY <4>3, <4>4 DEF HeadersAreItems
    <3> QED
      BY <3>1, <3>2
  <2>2. ASSUME UNCHANGED <<conn, request>> PROVE HeadersAreItems'
    BY <2>2 DEF HeadersAreItems
  <2>3. ASSUME conn' # "connecting" PROVE HeadersAreItems'
    BY <2>3 DEF HeadersAreItems
  <2>4. CASE MainStarts
    BY <2>1, <2>4 DEF MainStarts
  <2>5. CASE RemoveFile \/ MainReturns \/ SendDone \/ OnEgressResumed \/ Egress
    BY <2>2, <2>5 DEF RemoveFile, MainReturns, SendDone, OnEgressResumed, Egress, SendBlock
  <2>6. CASE ConnectError \/ SessionCloses \/ \E p \in BOOLEAN, n \in 0 .. MaxChunks : ConnectSuccess(p, n)
    BY <2>3, <2>6 DEF ConnectError, SessionCloses, ConnectSuccess
  <2>7. CASE \E t \in DOMAIN txns : Ingress(t) \/ OnError(t)
    BY <2>2, <2>7 DEF Ingress, OnHeadersComplete, OnBody, OnEOM, OnError
  <2>8. CASE \E n \in 0 .. MaxChunks : OnPushedTransaction(n)
    BY <2>2, <2>8 DEF OnPushedTransaction
  <2>9. CASE UNCHANGED vars
    BY <2>2, <2>9 DEF vars
  <2> QED
    BY <2>4, <2>5, <2>6, <2>7, <2>8, <2>9 DEF Next
<1> QED
  BY <1>1, <1>2, PTL DEF Spec
=============================================================================
