---------------------------- MODULE MCFeatureServer ----------------------------
(***************************************************************************)
(* Instances of FeatureServer for TLC.  Keys 1 and 3 are one hash when      *)
(* KeySpace is 2; chunks and bodies are what a client of the server may     *)
(* send, split where the network splits them.                               *)
(***************************************************************************)
EXTENDS FeatureServer

PullOf(ids)     == [i \in DOMAIN ids |-> DataInfo(ids[i], <<>>)]
Pull(ids)       == [url |-> "/pull", body |-> <<PullOf(ids)>>]
PullSplit(i, j) == [url |-> "/pull", body |-> <<PullOf(i), PullOf(j)>>]
Push(k, s)      == [url |-> "/push", body |-> <<<<DataInfo(k, s)>>>>]
PushTwo(k, l, s) == [url |-> "/push", body |-> <<<<DataInfo(k, s), DataInfo(l, s)>>>>]
DelCache(k)     == [url |-> "/delcache", body |-> <<PullOf(<<k>>)>>]
Unknown         == [url |-> "/", body |-> <<<<>>>>]

\* One thread, two connections.
OneThreadOf == [h \in {"h1", "h2"} |-> "t1"]
TwoThreadOf == [h \in {"h1", "h2"} |-> IF h = "h1" THEN "t1" ELSE "t2"]

AllRequests    == {PullSplit(<<1>>, <<3>>), PushTwo(0, 1, <<"a">>), DelCache(1)}
RacingRequests == {Pull(<<1, 2>>), Push(1, <<"a">>), DelCache(1)}
ReadRequests   == {PullSplit(<<1>>, <<3>>), DelCache(1), Unknown}
OneOfEach      == {Pull(<<1>>), Push(1, <<"a">>), DelCache(1)}
LiveRequests   == OneOfEach \cup {Unknown}

ExtStrings == {<<"b">>}
TwoStrings == {<<"a">>, <<"b">>}
=============================================================================
