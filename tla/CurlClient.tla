------------------------------- MODULE CurlClient -------------------------------
(***************************************************************************)
(* proxygen_curl (test-debug/curl): main connects, runs the event loop and  *)
(* returns when the loop has nothing left to wait for.  CurlClient sends the *)
(* request, for a POST with a body read from a file in blocks while the       *)
(* transaction's egress is not paused, and writes the bodies of the response  *)
(* and of pushed responses to one stream.                                     *)
(*                                                                          *)
(* External, from their use: sendHeaders and sendBody may call onEgressPaused *)
(* before they return; onEgressResumed comes later from the loop, and neither *)
(* comes after the end of the request; a session told to closeWhenIdle closes *)
(* after its last transaction; an idle transaction times out.                 *)
(***************************************************************************)
EXTENDS Integers, Sequences, SequencesExt, ParseHeaders

CONSTANTS MaxFile,    \* bytes of the input file
          kReadSize,  \* bytes of one block
          MaxChunks,  \* body chunks of a response
          MaxPushes,  \* pushed transactions
          MaxHeader   \* characters of the flag headers

ASSUME CurlAssumption ==
  /\ MaxFile \in Nat /\ kReadSize \in Nat \ {0} /\ MaxChunks \in Nat /\ MaxPushes \in Nat
  /\ MaxHeader \in Nat

VARIABLES method,     \* "GET" or "POST"
          file,       \* size of the file, or -1 when it does not exist
          request,    \* request_ until it is sent: the flag headers and their list
          conn,       \* "none", "connecting", "up", "failed", "closed"
          running,    \* main has not returned
          inputFile,  \* the open ifstream: size, position and good(); or Closed
          sending,    \* inside sendBodyFromFile
          paused,     \* egressPaused_
          egress,     \* what was given to the transaction
          closing,    \* closeWhenIdle was called
          txns,       \* for each transaction (1: the request), what it still has to
                      \* receive; <<>> once it has ended
          heads,      \* for each transaction, the headers kept: response_, or promise_
                      \* and response_ of a CurlPushHandler
          output,     \* what onBody has written to outputStream_
          failed      \* onError was called for the request

vars == <<method, file, request, conn, running, inputFile, sending, paused, egress, closing,
          txns, heads, output, failed>>
egressVars  == <<inputFile, sending, paused, egress>>
ingressVars == <<txns, heads, output, failed>>

\* A headers block and an end of message among the numbered bytes or chunks.
HEADERS == 0
EOM     == -1

Closed == [size |-> -2, pos |-> 0, good |-> FALSE]
NoRequest == [flag |-> <<>>, headers |-> <<>>]
Min2(a, b) == IF a < b THEN a ELSE b

Init == /\ method \in {"GET", "POST"} /\ file \in -1 .. MaxFile
        /\ request = NoRequest /\ conn = "none" /\ running = TRUE
        /\ inputFile = Closed /\ sending = FALSE /\ paused = FALSE /\ egress = <<>>
        /\ closing = FALSE
        /\ txns = <<>> /\ heads = <<>> /\ output = <<>> /\ failed = FALSE

\* main up to evb.loop() with the flag headers, and the constructor of CurlClient: a
\* POST needs a file that can be opened.
Start(flag) ==
  /\ conn = "none" /\ running
  /\ IF method = "POST" /\ file = -1
     THEN running' = FALSE /\ UNCHANGED <<conn, request>>
     ELSE /\ running' = TRUE /\ conn' = "connecting"
          /\ request' = [flag |-> flag, headers |-> Parse(flag)]
  /\ UNCHANGED <<method, file, closing>> /\ UNCHANGED egressVars /\ UNCHANGED ingressVars

\* Someone removes the file after main has looked at it.
RemoveFile == /\ conn = "connecting" /\ file # -1
              /\ file' = -1
              /\ UNCHANGED <<method, request, conn, running, closing>>
              /\ UNCHANGED egressVars /\ UNCHANGED ingressVars

ConnectError == /\ conn = "connecting"
                /\ conn' = "failed"
                /\ UNCHANGED <<method, file, request, running, closing>>
                /\ UNCHANGED egressVars /\ UNCHANGED ingressVars
-----------------------------------------------------------------------------
\* What a transaction receives: h blocks of headers (a pushed one gets those of the
\* promised request first), n numbered chunks and the end.
Response(h, n) == [i \in 1 .. h + n + 1 |-> IF i <= h THEN HEADERS
                                            ELSE IF i <= h + n THEN i - h ELSE EOM]

\* Faulty variant: the session is not told to close when idle.
ConnectSuccess_keep(p, n) ==
  /\ conn = "connecting"
  /\ conn' = "up"
  /\ txns' = <<Response(1, n)>> /\ heads' = <<<<>>>>
  /\ paused' = p
  /\ inputFile' = IF method = "POST" THEN [size |-> file, pos |-> 0, good |-> file # -1] ELSE Closed
  /\ sending' = (method = "POST")
  /\ egress' = IF method = "POST" THEN <<HEADERS>> ELSE <<HEADERS, EOM>>
  /\ closing' = FALSE /\ request' = NoRequest
  /\ UNCHANGED <<method, file, running, output, failed>>
\* connectSuccess up to the body, and to its end for a GET: newTransaction, the
\* headers (which may pause the transaction and take request_ with them), and the
\* file or the end of message.
ConnectSuccess(p, n) ==
  /\ conn = "connecting"
  /\ conn' = "up"
  /\ txns' = <<Response(1, n)>> /\ heads' = <<<<>>>>
  /\ paused' = p
  /\ inputFile' = IF method = "POST" THEN [size |-> file, pos |-> 0, good |-> file # -1] ELSE Closed
  /\ sending' = (method = "POST")
  /\ egress' = IF method = "POST" THEN <<HEADERS>> ELSE <<HEADERS, EOM>>
  /\ closing' = TRUE /\ request' = NoRequest
  /\ UNCHANGED <<method, file, running, output, failed>>

\* One round of the loop of sendBodyFromFile: a block that is not full ends the
\* file, so a file of whole blocks ends with an empty one.
SendBlock(p) ==
  /\ sending /\ inputFile.good /\ ~paused
  /\ LET end == Min2(inputFile.pos + kReadSize, inputFile.size)
     IN  /\ egress' = egress \o [i \in 1 .. end - inputFile.pos |-> inputFile.pos + i]
         /\ inputFile' = [inputFile EXCEPT !.pos = end, !.good = (end = inputFile.pos + kReadSize)]
  /\ paused' = p
  /\ UNCHANGED <<method, file, request, conn, running, closing, sending>> /\ UNCHANGED ingressVars

\* Faulty variant: the end of message is sent although egress is paused.
SendDone_paused ==
  /\ sending /\ (~inputFile.good \/ paused)
  /\ egress' = Append(egress, EOM)
  /\ sending' = FALSE
  /\ UNCHANGED <<method, file, request, conn, running, closing, inputFile, paused>> /\ UNCHANGED ingressVars
\* The end of sendBodyFromFile.
SendDone ==
  /\ sending /\ (~inputFile.good \/ paused)
  /\ egress' = IF paused THEN egress ELSE Append(egress, EOM)
  /\ sending' = FALSE
  /\ UNCHANGED <<method, file, request, conn, running, closing, inputFile, paused>> /\ UNCHANGED ingressVars

EgressEnded == Contains(egress, EOM)

\* Faulty variant: the flag is cleared and nothing is sent.
OnEgressResumed_idle ==
  /\ conn = "up" /\ ~sending /\ paused /\ ~EgressEnded /\ ~failed
  /\ paused' = FALSE
  /\ UNCHANGED <<method, file, request, conn, running, closing, inputFile, egress, sending>> /\ UNCHANGED ingressVars
OnEgressResumed ==
  /\ conn = "up" /\ ~sending /\ paused /\ ~EgressEnded /\ ~failed
  /\ paused' = FALSE
  /\ sending' = (inputFile # Closed)
  /\ UNCHANGED <<method, file, request, conn, running, closing, inputFile, egress>> /\ UNCHANGED ingressVars
-----------------------------------------------------------------------------
\* The next piece for transaction t arrives: headers, a chunk of its body, or its end.
InLoop == conn = "up" /\ ~sending

OnHeadersComplete(t) ==
  /\ InLoop /\ txns[t] # <<>> /\ txns[t][1] = HEADERS
  /\ heads' = [heads EXCEPT ![t] = Append(@, IF t > 1 /\ @ = <<>> THEN "promise" ELSE "response")]
  /\ txns' = [txns EXCEPT ![t] = Tail(@)]
  /\ UNCHANGED <<method, file, request, conn, running, closing, output, failed>> /\ UNCHANGED egressVars

\* A CurlPushHandler hands its chunks to its parent.
OnBody(t) ==
  /\ InLoop /\ txns[t] # <<>> /\ txns[t][1] \notin {HEADERS, EOM}
  /\ output' = Append(output, <<t, txns[t][1]>>)
  /\ txns' = [txns EXCEPT ![t] = Tail(@)]
  /\ UNCHANGED <<method, file, request, conn, running, closing, heads, failed>> /\ UNCHANGED egressVars

OnEOM(t) ==
  /\ InLoop /\ txns[t] # <<>> /\ txns[t][1] = EOM
  /\ txns' = [txns EXCEPT ![t] = <<>>]
  /\ UNCHANGED <<method, file, request, conn, running, closing, heads, output, failed>> /\ UNCHANGED egressVars

\* Faulty variant: no handler is made for it.
OnPushedTransaction_bare(n) ==
  /\ InLoop /\ txns[1] # <<>> /\ Len(txns) <= MaxPushes
  /\ txns' = Append(txns, Response(2, n))
  /\ UNCHANGED <<method, file, request, conn, running, closing, heads, output, failed>> /\ UNCHANGED egressVars
\* A pushed transaction, announced while the response is awaited.
OnPushedTransaction(n) ==
  /\ InLoop /\ txns[1] # <<>> /\ Len(txns) <= MaxPushes
  /\ txns' = Append(txns, Response(2, n))
  /\ heads' = Append(heads, <<>>)
  /\ UNCHANGED <<method, file, request, conn, running, closing, output, failed>> /\ UNCHANGED egressVars

\* The transaction times out or its connection is lost.
OnError(t) ==
  /\ InLoop /\ (txns[t] # <<>> \/ (t = 1 /\ ~EgressEnded /\ ~failed))
  /\ txns' = [txns EXCEPT ![t] = <<>>]
  /\ failed' = (failed \/ t = 1)
  /\ UNCHANGED <<method, file, request, conn, running, closing, heads, output>> /\ UNCHANGED egressVars

\* The session is idle: every transaction has ended in both directions (external).
SessionCloses ==
  /\ InLoop /\ closing
  /\ \A t \in DOMAIN txns : txns[t] = <<>>
  /\ EgressEnded \/ failed
  /\ conn' = "closed"
  /\ UNCHANGED <<method, file, request, running, closing>> /\ UNCHANGED egressVars /\ UNCHANGED ingressVars

\* evb.loop() has nothing left to wait for.
MainReturns ==
  /\ running /\ conn \in {"failed", "closed"}
  /\ running' = FALSE
  /\ UNCHANGED <<method, file, request, conn, closing>> /\ UNCHANGED egressVars /\ UNCHANGED ingressVars

MainStarts == \E flag \in Strings(MaxHeader) : Start(flag)
Ingress(t) == OnHeadersComplete(t) \/ OnBody(t) \/ OnEOM(t)
Egress == \E p \in BOOLEAN : SendBlock(p)

Next == \/ MainStarts \/ RemoveFile \/ ConnectError
        \/ \E p \in BOOLEAN, n \in 0 .. MaxChunks : ConnectSuccess(p, n)
        \/ Egress \/ SendDone \/ OnEgressResumed
        \/ \E t \in DOMAIN txns : Ingress(t) \/ OnError(t)
        \/ \E n \in 0 .. MaxChunks : OnPushedTransaction(n)
        \/ SessionCloses \/ MainReturns

Spec == Init /\ [][Next]_vars

\* The loop runs; a connection is made or refused; the peer reads what it is sent
\* and answers.  Timeouts and lost connections may happen and need not.  A start with
\* any flag is a start: the fairness of one ends the waiting for all.
FairSpec ==
  /\ Spec
  /\ WF_vars(Start(<<>>))
  /\ WF_vars(ConnectError \/ \E p \in BOOLEAN, n \in 0 .. MaxChunks : ConnectSuccess(p, n))
  /\ WF_vars(Egress) /\ WF_vars(SendDone) /\ WF_vars(OnEgressResumed)
  /\ \A t \in 1 .. MaxPushes + 1 : WF_vars(t \in DOMAIN txns /\ Ingress(t))
  /\ WF_vars(SessionCloses) /\ WF_vars(MainReturns)
-----------------------------------------------------------------------------
TypeOK == /\ method \in {"GET", "POST"} /\ file \in -1 .. MaxFile
          /\ inputFile \in [size : -2 .. MaxFile, pos : 0 .. MaxFile, good : BOOLEAN]
          /\ conn \in {"none", "connecting", "up", "failed", "closed"}
          /\ sending \in BOOLEAN /\ paused \in BOOLEAN /\ failed \in BOOLEAN
          /\ txns \in Seq(Seq(Int)) /\ heads \in Seq(Seq({"promise", "response"}))
          /\ output \in Seq((1 .. MaxPushes + 1) \X (1 .. MaxChunks))
          /\ Len(txns) = Len(heads)
          /\ \A t \in DOMAIN heads : Len(heads[t]) <= 2

\* The headers and the first n bytes of the file.
Sent(n) == [i \in 1 .. n + 1 |-> IF i = 1 THEN HEADERS ELSE i - 1]

\* However often egress is paused and resumed, the transaction is given the headers,
\* the bytes of the file in order, and one end of message, which comes last and
\* after the whole file as it was when it was opened (CurlClient.cpp:192-224,
\* 290-296).
EgressIsRequest ==
  egress # <<>> =>
    \E n \in 0 .. MaxFile :
      \/ egress = Sent(n)
      \/ egress = Append(Sent(n), EOM) /\ n = (IF inputFile.size > 0 THEN inputFile.size ELSE 0)

\* The request gets a header for every item of the flag that has a name, in their
\* order: the name is what stands before the first "=", the value all that stands
\* behind it, further "=" included (CurlClient.cpp:83-106).
HeadersAreItems == conn = "connecting" => AreItems(request.headers, request.flag)

\* Unless there is an error the request is sent to its end: no pause is forgotten
\* (CurlClient.cpp:215-223, 290-296).
RequestIsEnded == conn = "up" ~> EgressEnded \/ failed

\* main returns: no transaction and no session keeps the loop alive
\* (CurlClient.cpp:157-158, CurlClientMain.cpp:133).
MainEnds == <>~running
=============================================================================
