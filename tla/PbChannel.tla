-------------------------------- MODULE PbChannel --------------------------------
(***************************************************************************)
(* Messages on their way through an HTTP body: a sender builds messages     *)
(* with the accessors, serializes them one after the other (the server's    *)
(* replies to the chunks of one request are sent like that, the client      *)
(* sends one), and the receiver is handed the bytes in chunks, each of      *)
(* which it parses as a message of its own (FsHandler::onBody, InOutMsg).   *)
(***************************************************************************)
EXTENDS ServMsg

CONSTANTS Types,      \* the message types considered
          Ints,       \* for each type, the values of integer fields, as digits
          Texts,      \* for each type, the values of string and bytes fields
          MaxRepeat,  \* elements of a repeated field
          MaxSent,    \* for each type, the messages in one body
          MaxChunks,  \* for each type, the chunks of one body
          MaxBody     \* for each type, a bound on the bytes of one body

ASSUME ChannelAssumption ==
  /\ Types \subseteq MessageTypes /\ MaxRepeat \in Nat
  /\ \A t \in Types : /\ \A v \in Ints[t] : v \in Seq(0 .. 127) /\ v = UInt64(v) /\ Len(v) <= 10
                      /\ \A s \in Texts[t] : s \in Seq(Byte)
                      /\ MaxSent[t] \in Nat /\ MaxChunks[t] \in Nat \ {0}
                      /\ MaxBody[t] \in 1 .. SizeLimit

VARIABLES type,   \* the type of the messages of this body
          msg,    \* the message being built
          sent,   \* history: the messages serialized
          wire,   \* bytes not yet delivered
          body,   \* "open" while messages are added, then "closed" or, with a
                  \* trailing NUL, "nul" (ServiceTest.cpp:30 passes length() + 1)
          got     \* for each chunk, the message parsed and the parser's verdict

vars == <<type, msg, sent, wire, body, got>>

Init == /\ type \in Types
        /\ msg = New(type)
        /\ sent = <<>> /\ wire = <<>> /\ body = "open" /\ got = <<>>

Room(s) == Len(s) < MaxRepeat

\* A string field is given UTF-8, which proto3 asks of its callers; bytes may be anything.
StringValues == {s \in Texts[type] : IsUtf8(s)}

\* What one call of an accessor makes of message m.
oneInfos == {oneInfo_set_data(oneInfo_set_key(oneInfo_New, v), s) : v \in Ints[type], s \in Texts[type]}

Edits(m) ==
  CASE type = "oneInfo" -> {oneInfo_set_key(m, v) : v \in Ints[type]} \cup {oneInfo_set_data(m, s) : s \in Texts[type]}
    [] type = "PushReq" -> (IF Room(m.infos) THEN {PushReq_add_infos(m, o) : o \in oneInfos} ELSE {})
                           \cup {PushReq_mutable_infos(m, i, o) : i \in DOMAIN m.infos, o \in oneInfos}
                           \cup {PushReq_clear_infos(m)}
    [] type = "PushRsp" -> {PushRsp_set_errcode(m, v) : v \in Ints[type]} \cup {PushRsp_set_errdesc(m, s) : s \in StringValues}
    [] type = "PullReq" -> (IF Room(m.keys) THEN {PullReq_add_keys(m, v) : v \in Ints[type]} ELSE {})
                           \cup (IF Room(m.field) THEN {PullReq_add_field(m, v) : v \in Ints[type]} ELSE {})
                           \cup {PullReq_set_keys(m, i, v) : i \in DOMAIN m.keys, v \in Ints[type]}
                           \cup {PullReq_set_field(m, i, v) : i \in DOMAIN m.field, v \in Ints[type]}
                           \cup {PullReq_clear_keys(m), PullReq_clear_field(m)}
    [] type = "PullRsp" -> {PullRsp_set_errcode(m, v) : v \in Ints[type]} \cup {PullRsp_set_errdesc(m, s) : s \in StringValues}
                           \cup (IF Room(m.data) THEN {PullRsp_add_data(m, s) : s \in Texts[type]} ELSE {})
                           \cup {PullRsp_set_data(m, i, s) : i \in DOMAIN m.data, s \in Texts[type]}
                           \cup {PullRsp_clear_data(m)}
    [] type = "DelCacheReq"  -> {DelCacheReq_set_key(m, v) : v \in Ints[type]}
    [] type = "DelCacheRsp"  -> {DelCacheRsp_set_succ(m, v) : v \in Ints[type]}
    [] type = "HelloRequest" -> {HelloRequest_set_name(m, s) : s \in StringValues}
    [] type = "HelloReply"   -> {HelloReply_set_message(m, s) : s \in StringValues}
    [] type = "TestPb"       -> {TestPb_set_sence(m, s) : s \in StringValues} \cup {TestPb_set_page(m, v) : v \in Ints[type]}
                                \cup {TestPb_set_tablename(m, s) : s \in StringValues}

Edit == /\ body = "open"
        /\ msg' \in Edits(msg)
        /\ UNCHANGED <<type, sent, wire, body, got>>

\* The sender starts over from a copy of its last message.
Copy == /\ body = "open" /\ sent # <<>>
        /\ msg' = CopyFrom(type, msg, Last(sent))
        /\ UNCHANGED <<type, sent, wire, body, got>>

\* Clear, by way of a copy of an empty message.
Clear == /\ body = "open"
         /\ msg' = CopyFrom(type, msg, New(type))
         /\ UNCHANGED <<type, sent, wire, body, got>>

\* The body stays short enough for three-digit sizes.
Send == /\ body = "open" /\ Len(sent) < MaxSent[type]
        /\ Len(wire) + ByteSizeLong(type, msg) < MaxBody[type]
        /\ sent' = Append(sent, msg)
        /\ wire' = wire \o SerializeToString(type, msg)
        /\ UNCHANGED <<type, msg, body, got>>

Close(how) == /\ body = "open" /\ sent # <<>>
              /\ body' = how
              /\ msg' = New(type)
              /\ wire' = IF how = "nul" THEN Append(wire, 0) ELSE wire
              /\ UNCHANGED <<type, sent, got>>

\* onBody with the next n bytes; the last chunk takes the rest.
Deliver(n) == /\ body # "open"
              /\ n = Len(wire) \/ Len(got) + 1 < MaxChunks[type]
              /\ got' = Append(got, ParseFromString(type, SubSeq(wire, 1, n)))
              /\ wire' = SubSeq(wire, n + 1, Len(wire))
              /\ UNCHANGED <<type, msg, sent, body>>

Next == \/ Edit \/ Copy \/ Clear \/ Send
        \/ \E how \in {"closed", "nul"} : Close(how)
        \/ \E n \in 1 .. Len(wire) : Deliver(n)

Spec == Init /\ [][Next]_vars
-----------------------------------------------------------------------------
\* What the sender meant, and what the receiver has made of the chunks.
MergeAll(t, ms) ==
  LET all[i \in 0 .. Len(ms)] == IF i = 0 THEN New(t) ELSE MergeFrom(t, all[i - 1], ms[i])
  IN  all[Len(ms)]
Meant == MergeAll(type, sent)
Understood == MergeAll(type, [i \in DOMAIN got |-> got[i].m])

Delivered == body # "open" /\ wire = <<>>

\* The size computed before a message is written is the number of bytes written
\* (serv-msg.pb.cc, ByteSizeLong against _InternalSerialize): for every message
\* built and every one read, from a cut chunk and with unknown fields too.
SizeIsExact ==
  \A m \in {msg} \cup {got[i].m : i \in DOMAIN got} :
    ByteSizeLong(type, m) = Len(SerializeToString(type, m))

\* A body that arrives in one chunk is read as the merge of its messages, so the
\* replies to the chunks of one request are read as one reply; a trailing NUL
\* fails the parse and changes nothing that was read.
WholeBodyIsRead ==
  Delivered /\ Len(got) = 1 => /\ got[1].m = Meant
                               /\ got[1].ok <=> body = "closed"

\* A cut in the middle of a field never goes unnoticed: if the parser accepts
\* every chunk then together they are what was sent.  InOutMsg ignores the
\* verdict (Msg.cpp:48, 63 and 77).
NoSilentCut ==
  Delivered /\ (\A i \in DOMAIN got : got[i].ok) => Understood = Meant

\* Of the infos read from the first chunk only the last can be other than it was
\* sent, and none is made up (Msg.cpp:53-57 stores the infos of a chunk whatever
\* the verdict).
CutKeepsPrefix ==
  got # <<>> /\ type = "PushReq" =>
    LET first == got[1].m.infos
    IN  /\ Len(first) <= Len(Meant.infos)
        /\ first # <<>> => IsPrefix(Front(first), Meant.infos)

\* A message the parser accepted, unknown fields included, is written so that it
\* is read as the same message again.
AcceptedIsStable ==
  \A i \in DOMAIN got :
    got[i].ok => ParseFromString(type, SerializeToString(type, got[i].m)) = got[i]
=============================================================================
