---------------------------- MODULE HttpClientProofs ----------------------------
(***************************************************************************)
(* The proxygen client, for every number of sessions, of sends and of chunks. *)
(* The argument follows the response under way piece by piece: what the       *)
(* handle holds, what is on the connection and what the server has still to   *)
(* send are, put together, one response to the last request.                  *)
(***************************************************************************)
EXTENDS HttpClient, SequenceTheorems, TLAPS

\* The handle after k pieces of a response of n chunks to request i.
Got(i, n, k) ==
  [response |-> IF k = 0 THEN None ELSE Headers(i, n),
   output   |-> IF k <= 1 \/ n = 0 THEN <<>> ELSE <<Chunk(i, IF k = n + 2 THEN n ELSE k - 1)>>]

\* k of the n + 2 pieces of the response to req have been handled.
Stage(n, k) ==
  /\ handle = Got(req, n, k)
  /\ Len(net) + Len(todo) = n + 2 - k
  /\ \A i \in 1 .. Len(net) : net[i] = Response(req, n)[k + i]
  /\ \A i \in 1 .. Len(todo) : todo[i] = Response(req, n)[k + Len(net) + i]
  /\ txn = IF (k = n + 2 /\ ~unsent) \/ sesses[1].sess = "gone" THEN 0 ELSE req
  /\ pc \in {"loop1", "loop2"} => k = 0
  /\ pc = "loop1" => net = <<>>
  /\ InLoop => ~late
  /\ pc \in {"idle", "read"} => (late <=> k # n + 2)

\* No request has been sent yet.
Fresh == /\ req = 0 /\ txn = 0 /\ ~unsent /\ ~late /\ todo = <<>> /\ net = <<>>
         /\ pc \in {"ctor", "wait", "idle", "crashed"}

\* The constructor of CliManage has not ended.
Making == pc \in {"ctor", "wait"}

Flight == Fresh \/ (req > 0 /\ ~Making /\ \E n \in 0 .. MaxChunks : \E k \in 0 .. n + 2 : Stage(n, k))

\* The vector is complete once the constructor is, and the first session is gone
\* only when everything that came before the end of its connection has been read.
Sessions ==
  /\ pc = "ctor" => Len(sesses) < num
  /\ pc = "wait" => Len(sesses) > 0
  /\ ~Making => Len(sesses) = num
  /\ sesses # <<>> /\ sesses[1].sess = "gone" => peer = "closed" /\ net = <<>>
  /\ InLoop => sesses[1].sess # "unset"

\* Every send but the one under way has returned.
Returned ==
  /\ Making \/ pc = "idle" => Len(ret) = req
  /\ InLoop \/ pc = "read" => Len(ret) + 1 = req
  /\ AnswerIsOwn /\ BodyIsLastChunk

Inv == TypeOK /\ Sessions /\ Flight /\ Returned /\ CrashIsExplained
-----------------------------------------------------------------------------
(* The pieces of a response.                                                *)

Handles  == [response : Pieces, output : Seq(Pieces)]
SessList == Seq([sess : {"unset", "up", "gone"}, loop : BOOLEAN])

\* The k-th piece of a response.
LEMMA ResponseAt ==
  ASSUME NEW i \in 1 .. MaxSends, NEW n \in 0 .. MaxChunks
  PROVE  /\ Response(i, n) \in Seq(Pieces) /\ Len(Response(i, n)) = n + 2
         /\ Response(i, n)[1] = Headers(i, n)
         /\ Response(i, n)[n + 2] = Eom(i)
         /\ \A k \in 2 .. n + 1 : Response(i, n)[k] = Chunk(i, k - 1)
         /\ \A k \in 1 .. n + 2 : Response(i, n)[k] \in Pieces
<1>1. MaxSends \in Nat /\ MaxChunks \in Nat /\ i \in Nat /\ n \in Nat
  BY HttpClientAssumption
<1>2. /\ Response(i, n)[1] = Headers(i, n)
      /\ Response(i, n)[n + 2] = Eom(i)
      /\ \A k \in 2 .. n + 1 : Response(i, n)[k] = Chunk(i, k - 1)
      /\ DOMAIN Response(i, n) = 1 .. n + 2
  BY <1>1 DEF Response
<1>3. Headers(i, n) \in Pieces /\ Eom(i) \in Pieces /\ \A k \in 2 .. n + 1 : Chunk(i, k - 1) \in Pieces
  BY <1>1 DEF Pieces, Headers, Eom, Chunk
<1>4. \A k \in 1 .. n + 2 : k = 1 \/ k = n + 2 \/ k \in 2 .. n + 1
  BY <1>1
<1>5. \A k \in 1 .. n + 2 : Response(i, n)[k] \in Pieces
  BY <1>2, <1>3, <1>4
<1>6. Response(i, n) = [k \in 1 .. n + 2 |-> Response(i, n)[k]]
  BY <1>2 DEF Response
<1>7. Response(i, n) \in Seq(Pieces)
  BY <1>1, <1>5, <1>6, IsASeq
<1> QED
  BY <1>1, <1>2, <1>5, <1>7, LenProperties

\* The callbacks build the handle up as Got says.
LEMMA OnPieceGot ==
  ASSUME NEW i \in 1 .. MaxSends, NEW n \in 0 .. MaxChunks, NEW k \in 0 .. n + 1
  PROVE  /\ OnPiece(Got(i, n, k), Response(i, n)[k + 1]) = Got(i, n, k + 1)
         /\ Response(i, n)[k + 1].kind = "eom" <=> k + 1 = n + 2
         /\ Response(i, n)[k + 1].req = i
<1>1. MaxSends \in Nat /\ MaxChunks \in Nat /\ i \in Nat /\ n \in Nat /\ k \in Nat
  BY HttpClientAssumption
<1> DEFINE p == Response(i, n)[k + 1]
<1>2. CASE k = 0
  <2>1. p = Headers(i, n)
    BY <1>2, ResponseAt
  <2> QED
    BY <1>1, <1>2, <2>1 DEF OnPiece, Got, Headers
<1>3. CASE k = n + 1
  <2>1. p = Eom(i)
    BY <1>1, <1>3, ResponseAt
  <2>2. Got(i, n, k + 1) = Got(i, n, k)
    BY <1>1, <1>3 DEF Got
  <2> QED
    BY <1>1, <1>3, <2>1, <2>2 DEF OnPiece, Eom
<1>4. CASE k \in 1 .. n
  <2>1. p = Chunk(i, k)
    BY <1>1, <1>4, ResponseAt
  <2>2. Got(i, n, k + 1) = [Got(i, n, k) EXCEPT !.output = <<Chunk(i, k)>>]
    BY <1>1, <1>4 DEF Got
  <2> QED
    BY <1>1, <1>4, <2>1, <2>2 DEF OnPiece, Chunk
<1> QED
  BY <1>1, <1>2, <1>3, <1>4

\* A piece leaves the handle a handle.
LEMMA OnPieceType ==
  ASSUME NEW h \in Handles, NEW p \in Pieces, p.kind # "none"
  PROVE  OnPiece(h, p) \in Handles
<1>1. <<p>> \in Seq(Pieces)
  OBVIOUS
<1> QED
  BY <1>1 DEF OnPiece, Handles, Pieces

\* What is on the connection are pieces of the response to the last request.
LEMMA NetHead ==
  ASSUME TypeOK, NEW n \in 0 .. MaxChunks, NEW k \in 0 .. n + 2, Stage(n, k), net # <<>>, req > 0
  PROVE  /\ req \in 1 .. MaxSends /\ k \in 0 .. n + 1
         /\ Head(net) = Response(req, n)[k + 1]
         /\ Tail(net) \in Seq(Pieces) /\ Len(Tail(net)) = Len(net) - 1
         /\ \A i \in 1 .. Len(net) - 1 : Tail(net)[i] = net[i + 1]
<1>1. /\ net \in Seq(Pieces) /\ todo \in Seq(Pieces) /\ req \in 0 .. MaxSends
      /\ MaxSends \in Nat /\ MaxChunks \in Nat
  BY HttpClientAssumption DEF TypeOK
<1>2. Len(net) \in Nat /\ Len(todo) \in Nat /\ Len(net) # 0
  BY <1>1, EmptySeq, LenProperties
<1>3. Head(net) = net[1] /\ Tail(net) \in Seq(Pieces) /\ Len(Tail(net)) = Len(net) - 1
      /\ \A i \in 1 .. Len(net) - 1 : Tail(net)[i] = net[i + 1]
  BY <1>1, <1>2, HeadTailProperties
<1>4. Len(net) + Len(todo) = n + 2 - k /\ net[1] = Response(req, n)[k + 1]
  BY <1>2 DEF Stage
<1> HIDE DEF Stage
<1> QED
  BY <1>1, <1>2, <1>3, <1>4
-----------------------------------------------------------------------------
(* The steps.                                                               *)

\* The constructor of CliManage.
LEMMA ConnectInv ==
  ASSUME Inv, NEW ok \in BOOLEAN, Connect(ok)
  PROVE  Inv'
<1> DEFINE S == [sess : {"unset", "up", "gone"}, loop : BOOLEAN]
           old == IF Full THEN [i \in DOMAIN sesses |-> Moved(sesses[i])] ELSE sesses
           e == [sess |-> IF ok THEN "up" ELSE "unset", loop |-> TRUE]
<1>1. /\ sesses \in Seq(S) /\ num \in 1 .. MaxNum /\ Len(sesses) < num /\ Fresh /\ ret = <<>>
      /\ pc = "ctor" /\ UNCHANGED <<holds, num, req, handle, txn, unsent, todo, net, peer, ret, late>>
  <2>1. Len(ret) = 0 /\ ret \in Seq(Handles)
    BY DEF Inv, TypeOK, Returned, Flight, Fresh, Connect, Handles, Making
  <2>2. ret = <<>>
    BY <2>1, EmptySeq
  <2> QED
    BY <2>2 DEF Inv, TypeOK, Sessions, Flight, Connect, Making
<1>2. Len(sesses) \in Nat /\ MaxNum \in Nat /\ DOMAIN sesses = 1 .. Len(sesses)
      /\ \A i \in 1 .. Len(sesses) : sesses[i] \in S
  BY <1>1, HttpClientAssumption, LenProperties
<1>3. e \in S /\ e.sess # "gone"
  OBVIOUS
<1>4. /\ old \in Seq(S) /\ Len(old) = Len(sesses)
      /\ \A i \in 1 .. Len(sesses) : old[i].sess = sesses[i].sess
  <2>1. CASE Full
    <3> DEFINE m == [i \in 1 .. Len(sesses) |-> Moved(sesses[i])]
    <3>1. \A i \in 1 .. Len(sesses) : Moved(sesses[i]) \in S /\ Moved(sesses[i]).sess = sesses[i].sess
      BY <1>2 DEF Moved
    <3>2. m \in Seq(S)
      BY <1>2, <3>1, IsASeq
    <3>3. Len(m) = Len(sesses)
      BY <1>2, <3>2, LenProperties
    <3>4. old = m
      BY <1>2, <2>1
    <3> QED
      BY <3>1, <3>2, <3>3, <3>4
  <2>2. CASE ~Full
    BY <1>1, <2>2
  <2> QED
    BY <2>1, <2>2
<1>5. /\ sesses' = Append(old, e) /\ pc' \in {"wait", "idle", "ctor"}
      /\ pc' = "idle" => Len(sesses) + 1 = num
      /\ pc' = "ctor" => Len(sesses) + 1 # num
  BY DEF Connect, Emplaced, Constructed
<1> HIDE DEF old, e
<1>6. /\ sesses' \in Seq(S) /\ Len(sesses') = Len(sesses) + 1
      /\ \A i \in 1 .. Len(sesses) : sesses'[i].sess = sesses[i].sess
      /\ sesses'[Len(sesses) + 1].sess # "gone"
  BY <1>2, <1>3, <1>4, <1>5, AppendProperties
<1>7. DOMAIN sesses' = 1 .. Len(sesses) + 1
  BY <1>6, LenProperties
<1>8. TypeOK'
  BY <1>1, <1>2, <1>5, <1>6 DEF Inv, TypeOK
<1>9. Sessions'
  <2>1. sesses'[1].sess = "gone" => sesses # <<>> /\ sesses[1].sess = "gone"
    <3>1. CASE Len(sesses) = 0
      BY <1>6, <3>1
    <3>2. CASE Len(sesses) # 0
      <4>1. 1 \in 1 .. Len(sesses) /\ sesses # <<>>
        BY <1>1, <1>2, <3>2
      <4> QED
        BY <1>6, <4>1
    <3> QED
      BY <3>1, <3>2
  <2>2. /\ pc' = "ctor" => Len(sesses') < num
        /\ Len(sesses') > 0
        /\ pc' = "idle" => Len(sesses') = num
    BY <1>1, <1>2, <1>5, <1>6
  <2> QED
    BY <1>1, <1>5, <2>1, <2>2 DEF Inv, Sessions, InLoop, Making
<1>10. Flight'
  BY <1>1, <1>5 DEF Flight, Fresh
<1>11. Returned'
  BY <1>1, <1>5 DEF Inv, Returned, InLoop, Making, AnswerIsOwn, BodyIsLastChunk
<1>12. CrashIsExplained'
  BY <1>5 DEF CrashIsExplained
<1> QED
  BY <1>8, <1>9, <1>10, <1>11, <1>12 DEF Inv

\* loop() of the constructor returns, with the session open or deleted.
LEMMA MadeInv ==
  ASSUME Inv, LoopReturns \/ LoopOutlivesSession
  PROVE  Inv'
<1> DEFINE S == [sess : {"unset", "up", "gone"}, loop : BOOLEAN]
           l == Len(sesses)
           e == [sesses[l] EXCEPT !.sess = "gone"]
<1>1. /\ pc = "wait" /\ pc' = (IF l = num THEN "idle" ELSE "ctor")
      /\ UNCHANGED <<holds, num, req, handle, txn, unsent, todo, net, peer, ret, late>>
      /\ sesses' = sesses \/ (sesses' = [sesses EXCEPT ![l] = e] /\ (l = 1 => peer = "closed"))
  BY DEF LoopReturns, LoopOutlivesSession, Constructed
<1>2. /\ sesses \in Seq(S) /\ num \in 1 .. MaxNum /\ l \in Nat /\ l > 0 /\ l <= num /\ MaxNum \in Nat /\ Fresh
  BY <1>1, HttpClientAssumption, LenProperties DEF Inv, TypeOK, Sessions, Flight, Making
<1>3. l \in 1 .. Len(sesses) /\ 1 \in 1 .. Len(sesses)
  BY <1>2
<1>4. e \in S
  <2>1. sesses[l] \in S
    BY <1>2, <1>3, ElementOfSeq
  <2> QED
    BY <2>1
<1> HIDE DEF e
<1>5. /\ sesses' \in Seq(S) /\ Len(sesses') = l
      /\ l # 1 => sesses'[1] = sesses[1]
  <2>1. CASE sesses' = sesses
    BY <1>2, <2>1
  <2>2. CASE sesses' = [sesses EXCEPT ![l] = e]
    <3>1. sesses' \in Seq(S) /\ Len(sesses') = Len(sesses)
      BY <1>2, <1>3, <1>4, <2>2, ExceptSeq
    <3>2. DOMAIN sesses = 1 .. Len(sesses)
      BY <1>2, LenProperties
    <3> QED
      BY <1>3, <2>2, <3>1, <3>2
  <2> QED
    BY <1>1, <2>1, <2>2
<1>6. TypeOK'
  BY <1>1, <1>2, <1>5 DEF Inv, TypeOK
<1>7. Sessions'
  <2>1. sesses # <<>>
    BY <1>2
  <2>2. sesses'[1].sess = "gone" => peer = "closed" /\ net = <<>>
    <3>1. CASE sesses' = sesses
      BY <2>1, <3>1 DEF Inv, Sessions
    <3>2. CASE l = 1 /\ peer = "closed"
      BY <1>2, <3>2 DEF Fresh
    <3>3. CASE l # 1
      BY <1>5, <2>1, <3>3 DEF Inv, Sessions
    <3> QED
      BY <1>1, <3>1, <3>2, <3>3
  <2>3. /\ pc' = "ctor" => Len(sesses') < num
        /\ pc' = "idle" => Len(sesses') = num
    BY <1>1, <1>2, <1>5
  <2> QED
    BY <1>1, <2>2, <2>3 DEF Sessions, InLoop, Making
<1>8. Flight'
  BY <1>1, <1>2 DEF Flight, Fresh
<1>9. Returned' /\ CrashIsExplained'
  BY <1>1 DEF Inv, Returned, InLoop, Making, AnswerIsOwn, BodyIsLastChunk, CrashIsExplained
<1> QED
  BY <1>6, <1>7, <1>8, <1>9 DEF Inv

\* send up to the first loopOnce.  The connection is empty: the response to the
\* request before has been handled to its end.
LEMMA SendMsgInv ==
  ASSUME Inv, NEW large \in BOOLEAN, NEW n \in 0 .. MaxChunks, SendMsg(large, n)
  PROVE  Inv'
<1>1. /\ pc = "idle" /\ req \in Nat /\ req < MaxSends /\ txn = 0 /\ sesses[1].sess = "up" /\ pc' = "loop1"
      /\ req' = req + 1 /\ handle' = NewHandle /\ txn' = req + 1 /\ unsent' = large
      /\ todo' = Response(req + 1, n)
      /\ UNCHANGED <<holds, num, sesses, net, peer, ret, late>>
  BY HttpClientAssumption DEF SendMsg, Usable, Inv, TypeOK
<1>2. net = <<>> /\ ~late
  <2>1. ASSUME NEW m \in 0 .. MaxChunks, NEW k \in 0 .. m + 2, Stage(m, k), req > 0 PROVE net = <<>> /\ ~late
    <3>1. k = m + 2 /\ Len(net) + Len(todo) = m + 2 - k /\ ~late
      BY <1>1, <2>1 DEF Stage
    <3>2. Len(net) \in Nat /\ Len(todo) \in Nat /\ net \in Seq(Pieces)
      BY LenProperties DEF Inv, TypeOK
    <3>3. Len(net) = 0
      BY <3>1, <3>2
    <3> QED
      BY <3>1, <3>2, <3>3, EmptySeq
  <2> QED
    BY <2>1 DEF Inv, Flight, Fresh
<1>3. req + 1 \in 1 .. MaxSends /\ MaxSends \in Nat /\ MaxChunks \in Nat
  BY <1>1, HttpClientAssumption
<1>4. Response(req + 1, n) \in Seq(Pieces) /\ Len(Response(req + 1, n)) = n + 2
  BY <1>3, ResponseAt
<1>5. NewHandle \in Handles /\ NewHandle = Got(req + 1, n, 0)
  BY <1>3 DEF NewHandle, Handles, Got, Pieces, None
<1>6. TypeOK'
  BY <1>1, <1>3, <1>4, <1>5 DEF Inv, TypeOK, Handles
<1>7. Sessions'
  BY <1>1 DEF Inv, Sessions, InLoop, Making
<1>8. Stage(n, 0)'
  BY <1>1, <1>2, <1>3, <1>4, <1>5 DEF Stage, InLoop
<1>9. Flight'
  BY <1>1, <1>8 DEF Flight, Making
<1>10. Returned'
  <2>1. Len(ret) = req
    BY <1>1 DEF Inv, Returned
  <2> QED
    BY <1>1, <2>1 DEF Inv, Returned, InLoop, Making, AnswerIsOwn, BodyIsLastChunk
<1>11. CrashIsExplained'
  BY <1>1 DEF CrashIsExplained
<1> QED
  BY <1>6, <1>7, <1>9, <1>10, <1>11 DEF Inv

\* The server sends the next piece.
LEMMA RespondInv ==
  ASSUME Inv, Respond
  PROVE  Inv'
<1>1. /\ pc # "loop1" /\ todo # <<>> /\ peer = "open"
      /\ net' = Append(net, todo[1]) /\ todo' = Tail(todo)
      /\ UNCHANGED <<holds, num, sesses, pc, req, handle, txn, unsent, peer, ret, late>>
  BY DEF Respond
<1>2. net \in Seq(Pieces) /\ todo \in Seq(Pieces)
  BY DEF Inv, TypeOK
<1>3. Len(todo) \in Nat \ {0} /\ Len(net) \in Nat /\ todo[1] \in Pieces
  BY <1>1, <1>2, EmptySeq, LenProperties
<1>4. /\ todo' \in Seq(Pieces) /\ Len(todo') = Len(todo) - 1
      /\ \A i \in 1 .. Len(todo') : todo'[i] = todo[i + 1]
  BY <1>1, <1>2, HeadTailProperties
<1>5. /\ net' \in Seq(Pieces) /\ Len(net') = Len(net) + 1
      /\ \A i \in 1 .. Len(net) : net'[i] = net[i]
      /\ net'[Len(net) + 1] = todo[1]
  BY <1>1, <1>2, <1>3, AppendProperties
<1>6. TypeOK'
  BY <1>1, <1>4, <1>5 DEF Inv, TypeOK
<1>7. Sessions'
  BY <1>1 DEF Inv, Sessions, InLoop, Making
<1>8. ASSUME NEW n \in 0 .. MaxChunks, NEW k \in 0 .. n + 2, Stage(n, k) PROVE Stage(n, k)'
  <2>1. n \in Nat /\ k \in Nat /\ Len(net) + Len(todo) = n + 2 - k
        /\ (\A i \in 1 .. Len(net) : net[i] = Response(req, n)[k + i])
        /\ (\A i \in 1 .. Len(todo) : todo[i] = Response(req, n)[k + Len(net) + i])
    BY <1>8, HttpClientAssumption DEF Stage
  <2>2. Len(net') + Len(todo') = n + 2 - k
    BY <1>3, <1>4, <1>5, <2>1
  <2>3. \A i \in 1 .. Len(net') : net'[i] = Response(req, n)[k + i]
    <3>1. todo[1] = Response(req, n)[k + (Len(net) + 1)]
      BY <1>3, <2>1
    <3>2. \A i \in 1 .. Len(net') : i \in 1 .. Len(net) \/ i = Len(net) + 1
      BY <1>3, <1>5
    <3> QED
      BY <1>5, <2>1, <3>1, <3>2
  <2>4. \A i \in 1 .. Len(todo') : todo'[i] = Response(req, n)[k + Len(net') + i]
    <3> SUFFICES ASSUME NEW i \in 1 .. Len(todo')
                 PROVE  todo'[i] = Response(req, n)[k + Len(net') + i]
      OBVIOUS
    <3>1. i + 1 \in 1 .. Len(todo) /\ k + Len(net) + (i + 1) = k + Len(net') + i
      BY <1>3, <1>4, <1>5, <2>1
    <3>2. todo[i + 1] = Response(req, n)[k + Len(net) + (i + 1)]
      BY <2>1, <3>1
    <3> QED
      BY <1>4, <3>1, <3>2
  <2> QED
    BY <1>1, <1>8, <2>2, <2>3, <2>4 DEF Stage, InLoop
<1>9. Flight'
  <2>1. ~Fresh
    BY <1>1 DEF Fresh
  <2>2. req > 0 /\ ~Making /\ \E n \in 0 .. MaxChunks : \E k \in 0 .. n + 2 : Stage(n, k)
    BY <2>1 DEF Inv, Flight
  <2>3. req' > 0 /\ ~Making' /\ \E n \in 0 .. MaxChunks : \E k \in 0 .. n + 2 : Stage(n, k)'
    BY <1>1, <1>8, <2>2 DEF Making
  <2> QED
    BY <2>3 DEF Flight
<1>10. Returned' /\ CrashIsExplained'
  BY <1>1 DEF Inv, Returned, InLoop, Making, AnswerIsOwn, BodyIsLastChunk, CrashIsExplained
<1> QED
  BY <1>6, <1>7, <1>9, <1>10 DEF Inv

\* The server closes.
LEMMA CloseInv ==
  ASSUME Inv, CloseConnection
  PROVE  Inv'
<1>1. peer' = "closed" /\ UNCHANGED <<holds, num, sesses, pc, req, handle, txn, unsent, todo, net, ret, late>>
  BY DEF CloseConnection
<1>2. TypeOK' /\ Sessions'
  BY <1>1 DEF Inv, TypeOK, Sessions, InLoop, Making
<1>3. Flight'
  <2>1. \A n, k : Stage(n, k) => Stage(n, k)'
    BY <1>1 DEF Stage, InLoop
  <2> QED
    BY <1>1, <2>1 DEF Inv, Flight, Fresh, Making
<1>4. Returned' /\ CrashIsExplained'
  BY <1>1 DEF Inv, Returned, InLoop, Making, AnswerIsOwn, BodyIsLastChunk, CrashIsExplained
<1> QED
  BY <1>2, <1>3, <1>4 DEF Inv

\* The stage a running or finished send is at.
LEMMA AtStage ==
  ASSUME Inv, InLoop \/ pc = "read"
  PROVE  /\ req \in 1 .. MaxSends
         /\ \E n \in 0 .. MaxChunks : \E k \in 0 .. n + 2 : Stage(n, k)
BY HttpClientAssumption DEF Inv, Flight, Fresh, InLoop, Making, TypeOK

\* The first session exists once the constructor has ended.
LEMMA FirstSession ==
  ASSUME TypeOK, Sessions, ~Making
  PROVE  /\ sesses \in SessList /\ Len(sesses) = num /\ num \in 1 .. MaxNum
         /\ DOMAIN sesses = 1 .. Len(sesses) /\ 1 \in DOMAIN sesses
         /\ sesses[1] \in [sess : {"unset", "up", "gone"}, loop : BOOLEAN]
<1>1. sesses \in SessList /\ num \in 1 .. MaxNum /\ Len(sesses) = num /\ MaxNum \in Nat
  BY HttpClientAssumption DEF TypeOK, Sessions, SessList
<1>2. DOMAIN sesses = 1 .. num
  BY <1>1, LenProperties DEF SessList
<1>3. 1 \in 1 .. num
  BY <1>1
<1>4. sesses[1] \in [sess : {"unset", "up", "gone"}, loop : BOOLEAN]
  BY <1>1, <1>2, <1>3, LenProperties DEF SessList
<1> QED
  BY <1>1, <1>2, <1>3, <1>4

\* One callback of the transaction's handler.
LEMMA CallbackInv ==
  ASSUME Inv, Callback
  PROVE  Inv'
<1>1. /\ InLoop /\ sesses[1].sess = "up" /\ net # <<>>
      /\ handle' = OnPiece(handle, Head(net)) /\ net' = Tail(net)
      /\ txn' = IF Head(net).kind = "eom" /\ ~unsent THEN 0 ELSE txn
      /\ pc' = (IF pc = "loop2" THEN "reading" ELSE pc)
      /\ UNCHANGED <<holds, num, sesses, req, unsent, todo, peer, ret, late>>
  BY DEF Callback, Handled
<1>2. PICK n \in 0 .. MaxChunks : \E k \in 0 .. n + 2 : Stage(n, k)
  BY <1>1, AtStage
<1>3. PICK k \in 0 .. n + 2 : Stage(n, k)
  BY <1>2
<1>4. req \in 1 .. MaxSends /\ TypeOK /\ req > 0
  BY <1>1, AtStage, HttpClientAssumption DEF Inv
<1>5. /\ k \in 0 .. n + 1 /\ Head(net) = Response(req, n)[k + 1]
      /\ net' \in Seq(Pieces) /\ Len(net') = Len(net) - 1
      /\ \A i \in 1 .. Len(net) - 1 : net'[i] = net[i + 1]
  BY <1>1, <1>3, <1>4, NetHead
<1>6. /\ handle' = Got(req, n, k + 1)
      /\ Head(net).kind = "eom" <=> k + 1 = n + 2
  <2>1. handle = Got(req, n, k)
    BY <1>3 DEF Stage
  <2> QED
    BY <1>1, <1>4, <1>5, <2>1, OnPieceGot
<1>7. /\ n \in Nat /\ k \in Nat /\ Len(net) \in Nat /\ Len(todo) \in Nat
      /\ Len(net) + Len(todo) = n + 2 - k
      /\ (\A i \in 1 .. Len(net) : net[i] = Response(req, n)[k + i])
      /\ (\A i \in 1 .. Len(todo) : todo[i] = Response(req, n)[k + Len(net) + i])
  BY <1>3, <1>4, HttpClientAssumption, LenProperties DEF Stage, TypeOK
<1>8. /\ pc' = "reading" /\ txn = req /\ ~late
  BY <1>1, <1>3, <1>5, <1>7 DEF Stage, InLoop
<1>9. Stage(n, k + 1)'
  <2>1. Len(net') + Len(todo') = n + 2 - (k + 1)
    <3>1. Len(net') = Len(net) - 1 /\ Len(todo') = Len(todo)
      BY <1>1, <1>5
    <3> QED
      BY <1>7, <3>1
  <2>2. \A i \in 1 .. Len(net') : net'[i] = Response(req, n)[k + 1 + i]
    <3> SUFFICES ASSUME NEW i \in 1 .. Len(net') PROVE net'[i] = Response(req, n)[k + 1 + i]
      OBVIOUS
    <3>1. i \in 1 .. Len(net) - 1 /\ i + 1 \in 1 .. Len(net) /\ k + (i + 1) = k + 1 + i
      BY <1>5, <1>7
    <3>2. net[i + 1] = Response(req, n)[k + (i + 1)]
      BY <1>7, <3>1
    <3> QED
      BY <1>5, <3>1, <3>2
  <2>3. \A i \in 1 .. Len(todo') : todo'[i] = Response(req, n)[k + 1 + Len(net') + i]
    <3>1. k + 1 + Len(net') = k + Len(net)
      BY <1>5, <1>7
    <3> QED
      BY <1>1, <1>7, <3>1
  <2>4. txn' = IF (k + 1 = n + 2 /\ ~unsent') \/ sesses'[1].sess = "gone" THEN 0 ELSE req'
    BY <1>1, <1>6, <1>8
  <2> QED
    BY <1>1, <1>6, <1>8, <2>1, <2>2, <2>3, <2>4 DEF Stage
<1>10. k + 1 \in 0 .. n + 2
  BY <1>5, <1>7
<1>11. Flight'
  BY <1>1, <1>4, <1>8, <1>9, <1>10 DEF Flight, Making
<1>12. handle' \in Handles
  <2>1. Response(req, n)[k + 1] \in Pieces
    BY <1>4, <1>5, <1>7, ResponseAt
  <2>2. Response(req, n)[k + 1].kind # "none"
    <3>1. k + 1 = 1 \/ k + 1 = n + 2 \/ k + 1 \in 2 .. n + 1
      BY <1>5, <1>7
    <3>2. Headers(req, n).kind # "none" /\ Eom(req).kind # "none" /\ \A i : Chunk(req, i).kind # "none"
      BY DEF Headers, Eom, Chunk
    <3> QED
      BY <1>4, <3>1, <3>2, ResponseAt
  <2> QED
    BY <1>1, <1>4, <1>5, <2>1, <2>2, OnPieceType DEF TypeOK, Handles
<1>13. TypeOK'
  BY <1>1, <1>4, <1>5, <1>8, <1>12, HttpClientAssumption DEF TypeOK, Handles
<1>14. Sessions'
  BY <1>1, <1>8 DEF Inv, Sessions, InLoop, Making
<1>15. Returned' /\ CrashIsExplained'
  BY <1>1, <1>8 DEF Inv, Returned, InLoop, Making, AnswerIsOwn, BodyIsLastChunk, CrashIsExplained
<1> QED
  BY <1>11, <1>13, <1>14, <1>15 DEF Inv

\* The end of the connection.
LEMMA OnClosedInv ==
  ASSUME Inv, OnClosed
  PROVE  Inv'
<1> DEFINE S == [sess : {"unset", "up", "gone"}, loop : BOOLEAN]
           e == [sesses[1] EXCEPT !.sess = "gone"]
<1>1. /\ InLoop /\ net = <<>> /\ peer = "closed"
      /\ sesses' = [sesses EXCEPT ![1] = e]
      /\ txn' = 0 /\ pc' = (IF pc = "loop2" THEN "reading" ELSE pc)
      /\ UNCHANGED <<holds, num, req, handle, unsent, todo, net, peer, ret, late>>
  BY DEF OnClosed, Handled
<1>2. /\ sesses \in Seq(S) /\ Len(sesses) = num /\ num \in 1 .. MaxNum
      /\ 1 \in 1 .. Len(sesses) /\ DOMAIN sesses = 1 .. Len(sesses) /\ sesses[1] \in S
  <2>1. ~Making
    BY <1>1 DEF InLoop, Making
  <2> QED
    BY <2>1, FirstSession DEF Inv, SessList
<1>3. e \in S /\ e.sess = "gone"
  BY <1>2
<1> HIDE DEF e
<1>4. sesses' \in Seq(S) /\ Len(sesses') = Len(sesses) /\ sesses'[1] = e
  BY <1>1, <1>2, <1>3, ExceptSeq
<1>5. TypeOK'
  BY <1>1, <1>2, <1>4 DEF Inv, TypeOK, InLoop
<1>6. Sessions'
  <2>1. ~Making /\ ~Making' /\ (InLoop' => sesses'[1].sess # "unset")
    BY <1>1, <1>3, <1>4 DEF InLoop, Making
  <2> QED
    BY <1>1, <1>2, <1>4, <2>1 DEF Sessions, Making
<1>7. \A n, k : Stage(n, k) => Stage(n, k)'
  BY <1>1, <1>3, <1>4 DEF Stage, InLoop
<1>8. Flight'
  <2>1. req' > 0 /\ ~Making'
    BY <1>1, AtStage, HttpClientAssumption DEF InLoop, Making
  <2>2. \E n \in 0 .. MaxChunks : \E k \in 0 .. n + 2 : Stage(n, k)'
    BY <1>1, <1>7, AtStage
  <2> QED
    BY <2>1, <2>2 DEF Flight
<1>9. Returned' /\ CrashIsExplained'
  BY <1>1 DEF Inv, Returned, InLoop, Making, AnswerIsOwn, BodyIsLastChunk, CrashIsExplained
<1> QED
  BY <1>5, <1>6, <1>8, <1>9 DEF Inv

\* The two iterations.  A send whose second iteration found the server with pieces
\* still to send is late.
LEMMA LoopInv ==
  ASSUME Inv, NEW rest \in BOOLEAN, Loop1 \/ Loop2 \/ Loop2Write(rest)
  PROVE  Inv'
<1>1. /\ InLoop /\ pc' \in {"loop2", "reading", "read"}
      /\ UNCHANGED <<holds, num, sesses, req, handle, txn, todo, net, peer, ret>>
  BY DEF Loop1, Loop2, Loop2Write, InLoop
<1>2. late' \in BOOLEAN /\ unsent' \in BOOLEAN
  <2>1. late \in BOOLEAN /\ unsent \in BOOLEAN
    BY DEF Inv, TypeOK
  <2> QED
    BY <2>1 DEF Loop1, Loop2, Loop2Write
<1>3. TypeOK' /\ Sessions'
  BY <1>1, <1>2 DEF Inv, TypeOK, Sessions, InLoop, Making
<1>4. PICK n \in 0 .. MaxChunks : \E k \in 0 .. n + 2 : Stage(n, k)
  BY <1>1, AtStage
<1>5. PICK k \in 0 .. n + 2 : Stage(n, k)
  BY <1>4
<1>6. ~late /\ n \in Nat /\ k \in Nat
  BY <1>1, <1>5, HttpClientAssumption DEF Stage
<1>7. ~Due => net = <<>> /\ (todo # <<>> <=> k # n + 2)
  <2> SUFFICES ASSUME ~Due PROVE net = <<>> /\ (todo # <<>> <=> k # n + 2)
    OBVIOUS
  <2>1. ~Making
    BY <1>1 DEF InLoop, Making
  <2>2. 1 \in DOMAIN sesses /\ sesses # <<>> /\ sesses[1].sess \in {"up", "gone"}
    BY <1>1, <2>1, FirstSession DEF Inv, Sessions
  <2>3. net = <<>>
    BY <2>2 DEF Due, Inv, Sessions
  <2>4. todo \in Seq(Pieces) /\ Len(todo) = n + 2 - k
    BY <1>5, <1>6, <2>3 DEF Stage, Inv, TypeOK
  <2> QED
    BY <1>6, <2>3, <2>4, EmptySeq
<1>8. Stage(n, k)'
  <2>1. CASE Loop1
    BY <1>5, <2>1 DEF Stage, Loop1, InLoop
  <2>2. CASE Loop2
    BY <1>5, <1>6, <1>7, <2>2 DEF Stage, Loop2, InLoop
  <2>3. CASE Loop2Write(rest)
    <3>1. k = 0 /\ k # n + 2
      BY <1>5, <1>6, <2>3 DEF Stage, Loop2Write
    <3> QED
      BY <1>5, <1>6, <1>7, <2>3, <3>1 DEF Stage, Loop2Write, InLoop
  <2> QED
    BY <2>1, <2>2, <2>3
<1>9. Flight'
  BY <1>1, <1>8, AtStage, HttpClientAssumption DEF Flight, Making
<1>10. Returned' /\ CrashIsExplained'
  BY <1>1, <1>6 DEF Inv, Returned, InLoop, Making, AnswerIsOwn, BodyIsLastChunk, CrashIsExplained
<1> QED
  BY <1>3, <1>9, <1>10 DEF Inv

\* The end of send: what it returns is the handle of its own request.
LEMMA FinishInv ==
  ASSUME Inv, Finish
  PROVE  Inv'
<1>1. /\ pc = "read" /\ handle.response # None /\ ret' = Append(ret, handle) /\ pc' = "idle"
      /\ UNCHANGED <<holds, num, sesses, req, handle, txn, unsent, todo, net, peer, late>>
  BY DEF Finish
<1>2. PICK n \in 0 .. MaxChunks : \E k \in 0 .. n + 2 : Stage(n, k)
  BY <1>1, AtStage
<1>3. PICK k \in 0 .. n + 2 : Stage(n, k)
  BY <1>2
<1>4. req \in 1 .. MaxSends /\ MaxSends \in Nat /\ n \in Nat /\ k \in Nat
  BY <1>1, AtStage, HttpClientAssumption
<1>5. ret \in Seq(Handles) /\ handle \in Handles /\ Len(ret) + 1 = req /\ Len(ret) \in Nat
  BY <1>1, LenProperties DEF Inv, TypeOK, Handles, Returned
<1>6. /\ ret' \in Seq(Handles) /\ Len(ret') = req
      /\ \A i \in 1 .. Len(ret) : ret'[i] = ret[i]
      /\ ret'[req] = handle
  BY <1>1, <1>5, AppendProperties
<1>7. /\ DOMAIN ret = 1 .. Len(ret) /\ DOMAIN ret' = 1 .. req
      /\ \A i \in 1 .. req : i \in 1 .. Len(ret) \/ i = req
  BY <1>4, <1>5, <1>6, LenProperties
<1>8. TypeOK' /\ Sessions'
  BY <1>1, <1>6 DEF Inv, TypeOK, Sessions, InLoop, Making, Handles
<1>9. Flight'
  <2>1. Stage(n, k)'
    BY <1>1, <1>3 DEF Stage, InLoop
  <2> QED
    BY <1>1, <1>4, <2>1 DEF Flight, Making
<1>10. handle = Got(req, n, k) /\ k # 0 /\ (~late => k = n + 2)
  BY <1>1, <1>3 DEF Stage, Got
<1>11. AnswerIsOwn'
  <2>1. handle.response.req = req
    BY <1>10 DEF Got, Headers
  <2>2. \A j \in DOMAIN handle.output : handle.output[j].req = req
    BY <1>10 DEF Got, Chunk
  <2> QED
    BY <1>6, <1>7, <2>1, <2>2 DEF AnswerIsOwn, Inv, Returned
<1>12. BodyIsLastChunk'
  <2>1. handle.response.n = n
    BY <1>10 DEF Got, Headers
  <2>2. ~late => handle.output = IF n = 0 THEN <<>> ELSE <<Chunk(req, n)>>
    BY <1>4, <1>10 DEF Got
  <2> QED
    BY <1>1, <1>6, <1>7, <2>1, <2>2 DEF BodyIsLastChunk, Inv, Returned
<1>13. Returned' /\ CrashIsExplained'
  BY <1>1, <1>6, <1>11, <1>12 DEF Returned, InLoop, Making, CrashIsExplained
<1> QED
  BY <1>8, <1>9, <1>13 DEF Inv

\* The three places where the process may die, each with its reason.
LEMMA CrashInv ==
  ASSUME Inv, SendCrash \/ Loop2Crash \/ FinishCrash
  PROVE  Inv'
<1>1. /\ pc \in {"idle", "loop2", "read"} /\ pc' = "crashed"
      /\ UNCHANGED <<holds, num, sesses, req, handle, txn, unsent, todo, net, peer, ret, late>>
  BY DEF SendCrash, Loop2Crash, FinishCrash
<1>2. TypeOK' /\ Sessions' /\ Returned'
  BY <1>1 DEF Inv, TypeOK, Sessions, Returned, InLoop, Making, AnswerIsOwn, BodyIsLastChunk
<1>3. Flight'
  <2>1. \A n, k : Stage(n, k) => Stage(n, k)'
    BY <1>1 DEF Stage, InLoop
  <2> QED
    BY <1>1, <2>1 DEF Inv, Flight, Fresh, Making
<1>4. 1 \in DOMAIN sesses /\ sesses[1].sess \in {"unset", "up", "gone"}
  BY <1>1, FirstSession DEF Inv, Making
<1>5. CASE SendCrash
  <2>1. pc = "idle" /\ (sesses[1].sess # "up" \/ ~sesses[1].loop \/ txn # 0)
    BY <1>5 DEF SendCrash, Usable
  <2>2. txn # 0 => late \/ unsent
    <3>1. ASSUME NEW n \in 0 .. MaxChunks, NEW k \in 0 .. n + 2, Stage(n, k), txn # 0 PROVE late \/ unsent
      BY <2>1, <3>1 DEF Stage
    <3> QED
      BY <3>1 DEF Inv, Flight, Fresh
  <2>3. CrashIsExplained'
    BY <1>1, <1>4, <2>1, <2>2 DEF CrashIsExplained
  <2> QED
    BY <1>2, <1>3, <2>3 DEF Inv
<1>6. CASE Loop2Crash
  <2>1. CrashIsExplained'
    BY <1>1, <1>6 DEF CrashIsExplained, Loop2Crash
  <2> QED
    BY <1>2, <1>3, <2>1 DEF Inv
<1>7. CASE FinishCrash
  <2>1. pc = "read" /\ handle.response = None
    BY <1>7 DEF FinishCrash
  <2>2. PICK n \in 0 .. MaxChunks : \E k \in 0 .. n + 2 : Stage(n, k)
    BY <2>1, AtStage
  <2>3. PICK k \in 0 .. n + 2 : Stage(n, k)
    BY <2>2
  <2>4. n \in Nat /\ k \in Nat
    BY HttpClientAssumption
  <2>5. Got(req, n, k).response = None => k = 0
    BY <2>4 DEF Got, None, Headers
  <2>6. k # n + 2
    BY <2>1, <2>3, <2>4, <2>5 DEF Stage
  <2>7. late
    BY <2>1, <2>3, <2>6 DEF Stage
  <2>8. CrashIsExplained'
    BY <1>1, <2>7 DEF CrashIsExplained
  <2> QED
    BY <1>2, <1>3, <2>8 DEF Inv
<1> QED
  BY <1>5, <1>6, <1>7

\* The invariant holds of the specification.
LEMMA InvHolds == Spec => []Inv
<1>1. Init => Inv
  <2> SUFFICES ASSUME Init PROVE Inv
    OBVIOUS
  <2>1. TypeOK
    <3>1. <<>> \in SessList /\ Len(<<>>) = 0
      BY DEF SessList
    <3>2. [response |-> None, output |-> <<>>] \in Handles
      BY HttpClientAssumption DEF Handles, Pieces, None
    <3>3. num \in Nat /\ num > 0
      BY HttpClientAssumption DEF Init
    <3> QED
      <4>1. sesses \in SessList /\ holds \in BOOLEAN /\ num \in 1 .. MaxNum /\ Len(sesses) <= num
        BY <3>1, <3>3 DEF Init
      <4>2. todo \in Seq(Pieces) /\ net \in Seq(Pieces) /\ ret \in Seq(Handles) /\ handle \in Handles
        BY <3>2 DEF Init
      <4>3. req \in 0 .. MaxSends /\ txn \in 0 .. req
        BY HttpClientAssumption DEF Init
      <4>4. /\ unsent \in BOOLEAN /\ late \in BOOLEAN /\ peer \in {"open", "closed"} /\ pc = "ctor"
        BY DEF Init
      <4> QED
        BY <4>1, <4>2, <4>3, <4>4 DEF TypeOK, SessList, Handles
  <2>2. Sessions /\ Flight
    BY HttpClientAssumption DEF Init, Sessions, Flight, Fresh, InLoop, Making
  <2>3. Returned /\ CrashIsExplained
    BY DEF Init, Returned, InLoop, Making, AnswerIsOwn, BodyIsLastChunk, CrashIsExplained
  <2> QED
    BY <2>1, <2>2, <2>3 DEF Inv
<1>2. Inv /\ [Next]_vars => Inv'
  <2> SUFFICES ASSUME Inv, [Next]_vars PROVE Inv'
    OBVIOUS
  <2>1. CASE Next
    BY <2>1, ConnectInv, MadeInv, SendMsgInv, RespondInv, CloseInv, CallbackInv, OnClosedInv, LoopInv,
       FinishInv, CrashInv DEF Next
  <2>2. CASE UNCHANGED vars
    <3>1. \A n, k : Stage(n, k) => Stage(n, k)'
      BY <2>2 DEF Stage, InLoop, vars
    <3>2. Flight'
      BY <2>2, <3>1 DEF Inv, Flight, Fresh, Making, vars
    <3> QED
      BY <2>2, <3>2 DEF Inv, vars, TypeOK, Sessions, Returned, InLoop, Making, AnswerIsOwn,
                        BodyIsLastChunk, CrashIsExplained
  <2> QED
    BY <2>1, <2>2
<1> QED
  BY <1>1, <1>2, PTL DEF Spec
-----------------------------------------------------------------------------
(* The theorems.                                                            *)

\* The client keeps its types: pieces, handles and the session vector, which
\* never has more sessions than were asked for (HttpClient.cpp:170-177).
THEOREM ClientTypeCorrect == Spec => []TypeOK
<1>1. Inv => TypeOK
  BY DEF Inv
<1> QED
  BY <1>1, InvHolds, PTL

\* What a send returns belongs to its own request (HttpClient.cpp:183-206).
THEOREM AnswersAreOwn == Spec => []AnswerIsOwn
<1>1. Inv => AnswerIsOwn
  BY DEF Inv, Returned
<1> QED
  BY <1>1, InvHolds, PTL

\* While a loop runs, callbacks reach the handle of the send that runs it
\* (HttpClient.cpp:41-43, 184).
THEOREM HandlesAlive == Spec => []NoDanglingHandle
<1>1. Inv => NoDanglingHandle
  <2> SUFFICES ASSUME Inv, InLoop
               PROVE  txn \in {0, req} /\ \A i \in DOMAIN net : net[i].req = req
    BY DEF NoDanglingHandle
  <2>1. PICK n \in 0 .. MaxChunks : \E k \in 0 .. n + 2 : Stage(n, k)
    BY AtStage
  <2>2. PICK k \in 0 .. n + 2 : Stage(n, k)
    BY <2>1
  <2>3. txn \in {0, req}
    BY <2>2 DEF Stage
  <2>4. /\ req \in 1 .. MaxSends /\ n \in Nat /\ k \in Nat
        /\ Len(net) \in Nat /\ Len(todo) \in Nat /\ DOMAIN net = 1 .. Len(net)
    BY AtStage, HttpClientAssumption, LenProperties DEF Inv, TypeOK
  <2>5. ASSUME NEW i \in DOMAIN net PROVE net[i].req = req
    <3>1. net[i] = Response(req, n)[k + i] /\ Len(net) + Len(todo) = n + 2 - k /\ i \in 1 .. Len(net)
      BY <2>2, <2>4 DEF Stage
    <3>2. k + i - 1 \in 0 .. n + 1 /\ (k + i - 1) + 1 = k + i
      BY <2>4, <3>1
    <3>3. Response(req, n)[k + i].req = req
      BY <2>4, <3>2, OnPieceGot
    <3> QED
      BY <3>1, <3>3
  <2> QED
    BY <2>3, <2>5
<1> QED
  BY <1>1, InvHolds, PTL

\* The client dies only when its first session is not there or has lost its loop, or
\* when the latest send has left its transaction open, with the response not read
\* whole or the request not written (HttpClient.cpp:12-23, 41-43, 136-137, 202).
THEOREM CrashesExplained == Spec => []CrashIsExplained
<1>1. Inv => CrashIsExplained
  BY DEF Inv
<1> QED
  BY <1>1, InvHolds, PTL

\* Of a body in several chunks a send returns exactly the last one
\* (HttpClient.cpp:56-67, 198-201).
THEOREM LastChunkReturned == Spec => []BodyIsLastChunk
<1>1. Inv => BodyIsLastChunk
  BY DEF Inv, Returned
<1> QED
  BY <1>1, InvHolds, PTL
=============================================================================
