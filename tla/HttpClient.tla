------------------------------- MODULE HttpClient -------------------------------
(***************************************************************************)
(* The proxygen client of back-code/client.  A CliManage owns its CliSessions *)
(* (a connection and the event loop it was made on); send builds a CliHandle  *)
(* on the stack, opens a transaction on the first session, sends the request, *)
(* runs two iterations of that session's event loop and reads what the        *)
(* callbacks have left in the handle.  The server answers in pieces (headers, *)
(* body chunks, end of message) whenever it likes, before it has the whole    *)
(* request too, and may close at any time.                                    *)
(*                                                                          *)
(* External, from their use: an HTTP/1.1 session runs one transaction at a    *)
(* time (newTransaction returns null otherwise), ends it when the request is  *)
(* written and the response read, and deletes itself when the connection      *)
(* ends; loopOnce runs what is due, waiting for an event if nothing is; a     *)
(* vector that grows moves its elements.                                      *)
(*                                                                          *)
(* Whether loop(), in the constructor of a session, waits for an open session *)
(* is not settled by the repository: its test uses sessions after that call   *)
(* (HttpClientTest.cpp:53, 72), and CurlClientMain.cpp relies on a loop that  *)
(* runs as long as there is one.  Both are allowed, see holds.                *)
(***************************************************************************)
EXTENDS Integers, Sequences

CONSTANTS MaxNum,     \* sessions of a CliManage
          MaxSends,   \* calls of send
          MaxChunks   \* body chunks of one response

ASSUME HttpClientAssumption == MaxNum \in Nat \ {0} /\ MaxSends \in Nat /\ MaxChunks \in Nat

VARIABLES holds,    \* an open session keeps loop() from returning
          num,      \* sessions the CliManage is to have
          sesses,   \* CliManage::sesses_: sess_ of each, and whether its loop exists
          pc,       \* where the caller is; "crashed" after undefined behaviour
          req,      \* number of the request being sent
          handle,   \* CliHandle of the current send
          txn,      \* the session's open transaction: its request, or 0
          unsent,   \* bytes of the request are still to be written
          todo,     \* pieces of the response the server has still to send
          net,      \* pieces on the connection
          peer,     \* "open", or "closed" once the server has closed
          ret,      \* what each send returned
          late      \* history: the latest send left its loop before the response ended

vars == <<holds, num, sesses, pc, req, handle, txn, unsent, todo, net, peer, ret, late>>

\* The response to request i in pieces; the headers say how long the body is, here
\* in chunks, of which the k-th is numbered k.
None == [kind |-> "none", req |-> 0, n |-> 0]
Headers(i, n) == [kind |-> "headers", req |-> i, n |-> n]
Chunk(i, k)   == [kind |-> "body", req |-> i, n |-> k]
Eom(i)        == [kind |-> "eom", req |-> i, n |-> 0]
Response(i, n) == [k \in 1 .. n + 2 |-> CASE k = 1     -> Headers(i, n)
                                          [] k = n + 2 -> Eom(i)
                                          [] OTHER     -> Chunk(i, k - 1)]

\* Faulty variant: the handle outlives a send.
NewHandle_kept == handle
\* A CliHandle starts without a response.
NewHandle == [response |-> None, output |-> <<>>]

Init == /\ holds \in BOOLEAN
        /\ num \in 1 .. MaxNum /\ sesses = <<>> /\ pc = "ctor" /\ req = 0
        /\ handle = [response |-> None, output |-> <<>>]
        /\ txn = 0 /\ unsent = FALSE /\ todo = <<>> /\ net = <<>>
        /\ peer = "open" /\ ret = <<>> /\ late = FALSE
-----------------------------------------------------------------------------
\* folly::fbvector: the next emplace_back has to move the elements (external).
Full == Len(sesses) \in {1, 2, 4, 8}

\* The move constructor takes the session and leaves its event loop behind, which
\* ends with the object that was moved from.
Moved(s) == [s EXCEPT !.loop = FALSE]

\* What one round of the constructor of CliManage makes of the vector:
\* connectSuccess sets sess_, connectError leaves it as it was, uninitialized.
Emplaced(ok) ==
  LET old == IF Full THEN [i \in DOMAIN sesses |-> Moved(sesses[i])] ELSE sesses
  IN  Append(old, [sess |-> IF ok THEN "up" ELSE "unset", loop |-> TRUE])

\* With n sessions made, the constructor goes on with the next if there is one to make.
Constructed(n) == pc' = IF n = num THEN "idle" ELSE "ctor"

\* Faulty variant: one round too many.
Connect_more(ok) ==
  /\ pc = "ctor"
  /\ sesses' = Emplaced(ok)
  /\ IF ok THEN pc' = "wait" ELSE Constructed(Len(sesses))
  /\ UNCHANGED <<holds, num, req, handle, txn, unsent, todo, net, peer, ret, late>>
\* connectError leaves the loop with nothing to wait for, connectSuccess with a session.
Connect(ok) ==
  /\ pc = "ctor"
  /\ sesses' = Emplaced(ok)
  /\ IF ok THEN pc' = "wait" ELSE Constructed(Len(sesses) + 1)
  /\ UNCHANGED <<holds, num, req, handle, txn, unsent, todo, net, peer, ret, late>>

\* loop() returns although the session is open.
LoopReturns ==
  /\ pc = "wait" /\ ~holds
  /\ Constructed(Len(sesses))
  /\ UNCHANGED <<holds, num, sesses, req, handle, txn, unsent, todo, net, peer, ret, late>>

\* loop() returns because the server has closed the connection it has just accepted
\* (of which peer tells for the first session only): the session has deleted itself.
LoopOutlivesSession ==
  /\ pc = "wait" /\ holds /\ (Len(sesses) = 1 => peer = "closed")
  /\ sesses' = [sesses EXCEPT ![Len(sesses)].sess = "gone"]
  /\ Constructed(Len(sesses))
  /\ UNCHANGED <<holds, num, req, handle, txn, unsent, todo, net, peer, ret, late>>

\* Faulty variant: a second transaction on the session.
Usable_pipelined == sesses[1].sess = "up" /\ sesses[1].loop
\* The constructor of CliHandle gets a transaction.
Usable == sesses[1].sess = "up" /\ sesses[1].loop /\ txn = 0

\* send up to the first loopOnce: every session but the first is left alone.  A
\* request too large for the socket buffer is not written in one go.
SendMsg(large, n) ==
  /\ pc = "idle" /\ req < MaxSends /\ Usable
  /\ req' = req + 1
  /\ handle' = NewHandle
  /\ txn' = req + 1
  /\ unsent' = large
  /\ todo' = Response(req + 1, n)
  /\ pc' = "loop1"
  /\ UNCHANGED <<holds, num, sesses, net, peer, ret, late>>

\* The session pointer is not initialized or freed, its loop is gone, or the
\* transaction is null.
SendCrash ==
  /\ pc = "idle" /\ req < MaxSends /\ ~Usable
  /\ pc' = "crashed"
  /\ UNCHANGED <<holds, num, sesses, req, handle, txn, unsent, todo, net, peer, ret, late>>

\* The server, once it has some of the request.
Respond == /\ pc # "loop1" /\ todo # <<>> /\ peer = "open"
           /\ net' = Append(net, todo[1])
           /\ todo' = Tail(todo)
           /\ UNCHANGED <<holds, num, sesses, pc, req, handle, txn, unsent, peer, ret, late>>

\* The server closes the first session's connection.
CloseConnection ==
  /\ peer = "open" /\ sesses # <<>> /\ sesses[1].sess = "up"
  /\ peer' = "closed"
  /\ UNCHANGED <<holds, num, sesses, pc, req, handle, txn, unsent, todo, net, ret, late>>
-----------------------------------------------------------------------------
\* Faulty variant: the headers are not kept.
OnPiece_drop(h, p) ==
  CASE p.kind = "headers" -> h
    [] p.kind = "body"    -> [h EXCEPT !.output = <<p>>]
    [] p.kind = "eom"     -> h
\* Faulty variant: the first chunk stays.
OnPiece_first(h, p) ==
  CASE p.kind = "headers" -> [h EXCEPT !.response = p]
    [] p.kind = "body"    -> [h EXCEPT !.output = IF @ = <<>> THEN <<p>> ELSE @]
    [] p.kind = "eom"     -> h
\* onHeadersComplete, onBody, which starts a new string for every chunk, and onEOM.
OnPiece(h, p) ==
  CASE p.kind = "headers" -> [h EXCEPT !.response = p]
    [] p.kind = "body"    -> [h EXCEPT !.output = <<p>>]
    [] p.kind = "eom"     -> h

\* A call of loopOnce is running.
InLoop == pc \in {"loop1", "loop2", "reading"}

\* What the session has to handle: pieces to read, or the end of the connection.
Due == sesses[1].sess = "up" /\ (net # <<>> \/ peer = "closed")

\* An event: the second iteration need not wait any longer.
Handled == pc' = IF pc = "loop2" THEN "reading" ELSE pc

\* The session calls the transaction's handler with the next piece; the
\* transaction detaches at the end of the response if the request is written
\* (external).
Callback ==
  /\ InLoop /\ sesses[1].sess = "up" /\ net # <<>>
  /\ handle' = OnPiece(handle, Head(net))
  /\ net' = Tail(net)
  /\ txn' = IF Head(net).kind = "eom" /\ ~unsent THEN 0 ELSE txn
  /\ Handled
  /\ UNCHANGED <<holds, num, sesses, req, unsent, todo, peer, ret, late>>

\* onError and detachTransaction, which change nothing: the connection has ended,
\* everything that came before is read, and the session deletes itself (external).
OnClosed ==
  /\ InLoop /\ sesses[1].sess = "up"
  /\ net = <<>> /\ peer = "closed"
  /\ sesses' = [sesses EXCEPT ![1].sess = "gone"]
  /\ txn' = 0
  /\ Handled
  /\ UNCHANGED <<holds, num, req, handle, unsent, todo, net, peer, ret, late>>

\* loopOnce, "for send": the request is written, as far as the socket takes it,
\* and nothing is waited for.
Loop1 == /\ pc = "loop1" /\ ~Due
         /\ pc' = "loop2"
         /\ UNCHANGED <<holds, num, sesses, req, handle, txn, unsent, todo, net, peer, ret, late>>

\* Faulty variant: loopOnce until the connection has nothing more to give.
Loop2_forever ==
  /\ pc = "reading" /\ ~Due
  /\ late' = (todo # <<>>)
  /\ pc' = IF peer = "closed" \/ unsent THEN "read" ELSE "loop2"
  /\ UNCHANGED <<holds, num, sesses, req, handle, txn, unsent, todo, net, peer, ret>>

\* loopOnce, "for receive", returns: it has had an event and handled what there was.
Loop2 ==
  /\ pc = "reading" /\ ~Due
  /\ late' = (todo # <<>>)
  /\ pc' = "read"
  /\ UNCHANGED <<holds, num, sesses, req, handle, txn, unsent, todo, net, peer, ret>>

\* The event is that the socket takes more of the request, perhaps not all that is
\* left; what there is to read is read after that, in the same iteration (external).
Loop2Write(rest) ==
  /\ pc = "loop2" /\ unsent /\ sesses[1].sess = "up"
  /\ unsent' = rest
  /\ late' = IF Due THEN late ELSE todo # <<>>
  /\ pc' = IF Due THEN "reading" ELSE "read"
  /\ UNCHANGED <<holds, num, sesses, req, handle, txn, todo, net, peer, ret>>

\* The first iteration has ended the session; sess_ is used once more.
Loop2Crash ==
  /\ pc = "loop2" /\ sesses[1].sess = "gone"
  /\ pc' = "crashed"
  /\ UNCHANGED <<holds, num, sesses, req, handle, txn, unsent, todo, net, peer, ret, late>>

\* The rest of send: the body if there is one, then the headers.
Finish ==
  /\ pc = "read" /\ handle.response # None
  /\ ret' = Append(ret, handle)
  /\ pc' = "idle"
  /\ UNCHANGED <<holds, num, sesses, req, handle, txn, unsent, todo, net, peer, late>>

\* getRspHeader() was null.
FinishCrash ==
  /\ pc = "read" /\ handle.response = None
  /\ pc' = "crashed"
  /\ UNCHANGED <<holds, num, sesses, req, handle, txn, unsent, todo, net, peer, ret, late>>

Next == \/ \E ok \in BOOLEAN : Connect(ok)
        \/ LoopReturns \/ LoopOutlivesSession
        \/ \E large \in BOOLEAN, n \in 0 .. MaxChunks : SendMsg(large, n)
        \/ SendCrash \/ Respond \/ CloseConnection
        \/ Callback \/ OnClosed \/ Loop1 \/ Loop2 \/ Loop2Crash
        \/ \E rest \in BOOLEAN : Loop2Write(rest)
        \/ Finish \/ FinishCrash

Spec == Init /\ [][Next]_vars

\* The caller runs, and the server answers what it was sent.
FairSpec == Spec /\ WF_vars(Callback) /\ WF_vars(OnClosed)
                 /\ WF_vars(Loop1) /\ WF_vars(Loop2) /\ WF_vars(Loop2Crash)
                 /\ WF_vars(\E rest \in BOOLEAN : Loop2Write(rest)) /\ WF_vars(Finish) /\ WF_vars(FinishCrash) /\ WF_vars(Respond)
-----------------------------------------------------------------------------
Pieces == [kind : {"none", "headers", "body", "eom"}, req : 0 .. MaxSends, n : 0 .. MaxChunks]

TypeOK == /\ sesses \in Seq([sess : {"unset", "up", "gone"}, loop : BOOLEAN])
          /\ holds \in BOOLEAN /\ num \in 1 .. MaxNum /\ Len(sesses) <= num
          /\ pc \in {"ctor", "wait", "idle", "loop1", "loop2", "reading", "read", "crashed"}
          /\ req \in 0 .. MaxSends /\ txn \in 0 .. req
          /\ handle \in [response : Pieces, output : Seq(Pieces)]
          /\ todo \in Seq(Pieces) /\ net \in Seq(Pieces)
          /\ ret \in Seq([response : Pieces, output : Seq(Pieces)])
          /\ unsent \in BOOLEAN /\ late \in BOOLEAN /\ peer \in {"open", "closed"}

\* What a send returns belongs to its own request, whatever earlier sends left on
\* the connection (HttpClient.cpp:183-206).
AnswerIsOwn ==
  \A i \in DOMAIN ret : /\ ret[i].response.req = i
                        /\ \A k \in DOMAIN ret[i].output : ret[i].output[k].req = i

\* While the loop runs, the transaction's handler is the handle of this send: the
\* handle of an earlier one, which was on the stack of a send that has returned,
\* is never called (HttpClient.cpp:41-43, 184).
NoDanglingHandle == InLoop => txn \in {0, req} /\ \A i \in DOMAIN net : net[i].req = req

\* When the client dies, the first session is at that moment not there (it did not
\* connect, or the server closed it) or without its loop (the vector has moved it),
\* or the send that dies, or the one before it, ended with its transaction open: the
\* response was not whole after two iterations, or the request not written, which a
\* server that answers early brings about (HttpClient.cpp:12-23, 41-43, 136-137, 202).
CrashIsExplained ==
  pc = "crashed" => \/ sesses[1].sess \in {"unset", "gone"} \/ ~sesses[1].loop
                    \/ late \/ unsent

\* A send ends, by returning or with the process, if the server answers
\* (HttpClient.cpp:136-137: there is no timeout).
SendEnds == InLoop ~> pc \in {"idle", "crashed"}

\* As long as every response had ended when its send read it, an empty body is
\* returned as none, a body of one chunk as it was sent, and of a longer one exactly
\* the last chunk (HttpClient.cpp:56-67, 198-201).
BodyIsLastChunk ==
  ~late => \A i \in DOMAIN ret :
             LET n == ret[i].response.n
             IN  ret[i].output = IF n = 0 THEN <<>> ELSE <<Chunk(i, n)>>
=============================================================================
