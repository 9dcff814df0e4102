------------------------------- MODULE MCPbChannel -------------------------------
EXTENDS PbChannel

Requests == {"oneInfo", "PushReq", "PullReq", "DelCacheReq"}

\* 2^64-1: ten bytes on the wire, and -1 as an int32.
Largest == <<127, 127, 127, 127, 127, 127, 127, 127, 127, 1>>

\* 0, 11 (a tag of wire type 3 when read as one), 300 (two bytes on the wire) and,
\* for keys in an array and for the replies, the largest.
MCInts == [t \in MessageTypes |->
             CASE t = "PullReq"  -> {<<>>, <<11>>, Largest}
               [] t \in Requests \ {"PullReq"} -> {<<>>, <<11>>, <<44, 2>>}
               [] OTHER          -> {<<>>, <<44, 2>>, Largest}]

\* A text that does not fit into the slop region.
LongText == [i \in 1 .. 18 |-> 8 + i]

\* Nothing, a byte that is a tag, and two bytes of which one is not ASCII; for the
\* other types, two bytes that are a field; a long text for some of them.
MCTexts == [t \in MessageTypes |->
              CASE t \in {"oneInfo", "PushReq"} -> {<<>>, <<10>>, <<97, 200>>, LongText}
                [] t \in {"HelloReply", "TestPb"} -> {<<>>, <<10>>, <<8, 97>>, LongText}
                [] OTHER -> {<<>>, <<10>>, <<8, 97>>}]

\* One request in up to three chunks; two of the others in up to two.
MCMaxSent   == [t \in MessageTypes |-> IF t \in Requests THEN 1 ELSE 2]
MCMaxChunks == [t \in MessageTypes |-> IF t \in Requests THEN 3 ELSE 2]

\* Some bodies go beyond the slop region.
MCMaxBody == [t \in MessageTypes |-> IF t = "PullRsp" THEN SlopBytes + 2 ELSE 28]

\* Where a field of a one-byte tag and a one-byte size is read in place: it starts
\* before the last SlopBytes.
MCInPlace(buf, pos) == pos - 2 <= Len(buf) - SlopBytes
=============================================================================
