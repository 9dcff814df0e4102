---------------------------------- MODULE Msg ----------------------------------
(***************************************************************************)
(* FsService::InOutMsg (service/Msg.cpp): one body chunk decoded as a       *)
(* request, and the reply to it.  A chunk is the sequence of (key, data)    *)
(* fields the protobuf parser finds in it; the parser's verdict is ignored, *)
(* so a chunk that is no whole message is just another sequence.  A reply   *)
(* is what the reply type's parser reads from the bytes sent.               *)
(***************************************************************************)
EXTENDS Integers, Sequences

MsgTypes == {"Push", "Pull", "DelCache", "Unknow"}

\* The data a key has before setPullData, and an absent data field.
NoData == <<>>

DataInfo(id, d) == [id |-> id, d |-> d]

\* InOutMsg::InOutMsg.  A DelCacheReq has one key: the last one sent, or 0.
Decode(type, chunk) ==
  CASE type = "Push"     -> chunk
    [] type = "Pull"     -> [i \in DOMAIN chunk |-> DataInfo(chunk[i].id, NoData)]
    [] type = "DelCache" -> <<DataInfo(IF chunk = <<>> THEN 0 ELSE chunk[Len(chunk)].id, NoData)>>
    [] OTHER             -> <<>>

NoRsp == [errCode |-> 0, data |-> <<>>, succ |-> FALSE]

\* InOutMsg::EncodeRsp.  The reply to DelCache sets succ but is never serialized.
EncodeRsp(type, infos, errcode) ==
  [errCode |-> IF type \in {"Pull", "Push"} THEN errcode ELSE 0,
   data    |-> IF type = "Pull" /\ errcode = 0
               THEN [i \in DOMAIN infos |-> infos[i].d] ELSE <<>>,
   succ    |-> FALSE]

\* What a parser reads from two encodings sent one after the other.
Merge(r, s) == [errCode |-> IF s.errCode # 0 THEN s.errCode ELSE r.errCode,
                data    |-> r.data \o s.data,
                succ    |-> r.succ \/ s.succ]
=============================================================================
