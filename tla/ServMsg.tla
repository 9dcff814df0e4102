--------------------------------- MODULE ServMsg ---------------------------------
(***************************************************************************)
(* The classes protoc generated from serv-msg.proto and hello.proto: for    *)
(* each message its fields (and, in unk, the fields of other numbers or     *)
(* types), and what Clear, _InternalParse, _InternalSerialize,              *)
(* ByteSizeLong, MergeFrom, CopyFrom and the accessors do with them.        *)
(* Integers are digits and strings are bytes, as in WireFormat.             *)
(*                                                                          *)
(* The set_ operator of a field stands for all its accessors: clear_,        *)
(* release_, mutable_ and set_allocated_ too leave another value, perhaps    *)
(* the default, in the field, and the readers return what is there.          *)
(***************************************************************************)
EXTENDS TestPb

\* The state of a parse after one field: the message with what has been read in
\* it, ok unless CHK_ failed, stop once SetLastTag has ended the loop.
Parsed(r, m) == [ok |-> r.ok, stop |-> FALSE, m |-> m, pos |-> r.pos]

\* Faulty variant: the bytes of an unknown field are kept without its tag.
Unusual_untagged(m, tag, buf, pos) ==
  LET Kept(r) == Parsed(r, [m EXCEPT !.unk = @ \o SubSeq(r.val, 2, Len(r.val))])
  IN  IF tag = <<>> \/ WireType(tag) = 4
      THEN [ok |-> TRUE, stop |-> TRUE, m |-> m, pos |-> pos]
      ELSE Kept(ReadUnknown(tag, buf, pos))

\* handle_unusual: a 0 or end-group tag ends the message, any other unexpected
\* tag starts an unknown field.
Unusual(m, tag, buf, pos) ==
  LET Kept(r) == Parsed(r, [m EXCEPT !.unk = @ \o r.val])
  IN  IF tag = <<>> \/ WireType(tag) = 4
      THEN [ok |-> TRUE, stop |-> TRUE, m |-> m, pos |-> pos]
      ELSE Kept(ReadUnknown(tag, buf, pos))

\* The loop of every _InternalParse, with ParseContext::Done: it ends at the
\* limit, and fails if a field overran the limit or the input ends before it.  A
\* round reads a tag t, of at least one byte, and then the field.
ParseStart(m, pos) == [ok |-> TRUE, stop |-> FALSE, m |-> m, pos |-> pos]
NextField(r, t, field, buf, limit) ==
  IF ~r.ok \/ r.stop \/ r.pos >= limit \/ r.pos > Len(buf) THEN r
  ELSE IF t.ok THEN field ELSE Parsed(t, r.m)
ParseEnd(r, buf, limit) ==
  IF r.ok /\ ~r.stop THEN [r EXCEPT !.ok = (r.pos = limit /\ r.pos <= Len(buf) + 1)] ELSE r
-----------------------------------------------------------------------------
\* message oneInfo { uint64 key = 1; bytes data = 2; }
oneInfo_New == [key |-> <<>>, data |-> <<>>, unk |-> <<>>]
oneInfo_Clear(m) == [m EXCEPT !.key = <<>>, !.data = <<>>, !.unk = <<>>]
oneInfo_set_key(m, v)  == [m EXCEPT !.key = v]
oneInfo_set_data(m, s) == [m EXCEPT !.data = s]

oneInfo_InternalParse(m, tag, buf, pos) ==
  LET v == ReadVarint(buf, pos, 10)
      s == ReadString(buf, pos)
  IN  CASE tag = <<8>>  -> Parsed(v, [m EXCEPT !.key = v.val])
        [] tag = <<18>> -> Parsed(s, [m EXCEPT !.data = s.val])
        [] OTHER        -> Unusual(m, tag, buf, pos)

oneInfo_Round(r, buf, limit) ==
  LET t == ReadTag(buf, r.pos)
  IN  NextField(r, t, oneInfo_InternalParse(r.m, t.val, buf, t.pos), buf, limit)
oneInfo_ParseMessage(buf, pos, limit) ==
  LET read[k \in 0 .. Len(buf)] ==
        IF k = 0 THEN ParseStart(oneInfo_New, pos) ELSE oneInfo_Round(read[k - 1], buf, limit)
  IN  ParseEnd(read[Len(buf)], buf, limit)

oneInfo_InternalSerialize(m) == VarintField(<<8>>, m.key) \o BytesField(<<18>>, m.data) \o m.unk

oneInfo_ByteSizeLong(m) ==
  VarintFieldSize(<<8>>, m.key) + BytesFieldSize(<<18>>, m.data) + Len(m.unk)

oneInfo_MergeFrom(m, from) == [key |-> Newer(m.key, from.key), data |-> Newer(m.data, from.data),
                               unk |-> m.unk \o from.unk]
oneInfo_CopyFrom(m, from) == oneInfo_MergeFrom(oneInfo_Clear(m), from)
-----------------------------------------------------------------------------
\* message PushReq { repeated oneInfo infos = 1; }
PushReq_New == [infos |-> <<>>, unk |-> <<>>]
PushReq_Clear(m) == [m EXCEPT !.infos = <<>>, !.unk = <<>>]
\* Faulty variant: a new info comes first.
PushReq_add_infos_front(m, info) == [m EXCEPT !.infos = <<info>> \o @]
PushReq_add_infos(m, info) == [m EXCEPT !.infos = Append(@, info)]
PushReq_mutable_infos(m, i, info) == [m EXCEPT !.infos[i] = info]
PushReq_clear_infos(m) == [m EXCEPT !.infos = <<>>]

\* Faulty variant: the verdict on an info is ignored.
PushReq_InternalParse_nochk(m, tag, buf, pos) ==
  LET n == ReadSize(buf, pos)
      r == oneInfo_ParseMessage(buf, n.pos, n.pos + n.val)
  IN  CASE tag = <<10>> -> Parsed([r EXCEPT !.ok = TRUE], PushReq_add_infos(m, r.m))
        [] OTHER        -> Unusual(m, tag, buf, pos)

\* ParseContext::ParseMessage limits the nested parse to the size read; the info
\* is already in the message when it is parsed.
PushReq_InternalParse(m, tag, buf, pos) ==
  LET n == ReadSize(buf, pos)
      r == oneInfo_ParseMessage(buf, n.pos, n.pos + n.val)
  IN  CASE tag = <<10>> /\ ~n.ok -> Parsed(n, PushReq_add_infos(m, oneInfo_New))
        [] tag = <<10>> /\ n.ok  ->
             Parsed([r EXCEPT !.ok = @ /\ ~r.stop], PushReq_add_infos(m, r.m))
        [] OTHER                 -> Unusual(m, tag, buf, pos)

\* InternalWriteMessage takes the length from the size ByteSizeLong has cached.
PushReq_InternalSerialize(m) ==
  JoinSeq([i \in DOMAIN m.infos |->
      <<10>> \o WriteVarint(Digits(oneInfo_ByteSizeLong(m.infos[i])))
             \o oneInfo_InternalSerialize(m.infos[i])]) \o m.unk

PushReq_ByteSizeLong(m) ==
  SumSeq([i \in DOMAIN m.infos |-> 1 + LengthSize(oneInfo_ByteSizeLong(m.infos[i]))]) + Len(m.unk)

PushReq_MergeFrom(m, from) == [infos |-> m.infos \o from.infos, unk |-> m.unk \o from.unk]
PushReq_CopyFrom(m, from)  == PushReq_MergeFrom(PushReq_Clear(m), from)
-----------------------------------------------------------------------------
\* message PushRsp { int32 errCode = 1; string errDesc = 2; }
PushRsp_New == [errCode |-> <<>>, errDesc |-> <<>>, unk |-> <<>>]
PushRsp_Clear(m) == [m EXCEPT !.errCode = <<>>, !.errDesc = <<>>, !.unk = <<>>]
PushRsp_set_errcode(m, v) == [m EXCEPT !.errCode = Int32(v)]
PushRsp_set_errdesc(m, s) == [m EXCEPT !.errDesc = s]

PushRsp_InternalParse(m, tag, buf, pos) ==
  LET v == ReadVarint(buf, pos, 10)
      s == ReadString(buf, pos)
  IN  CASE tag = <<8>>  -> Parsed(v, PushRsp_set_errcode(m, v.val))
        [] tag = <<18>> -> Parsed([s EXCEPT !.ok = @ /\ IsUtf8(s.val)], PushRsp_set_errdesc(m, s.val))
        [] OTHER        -> Unusual(m, tag, buf, pos)

PushRsp_InternalSerialize(m) ==
  VarintField(<<8>>, m.errCode) \o BytesField(<<18>>, m.errDesc) \o m.unk
\* Faulty variant: a negative error code is taken for five bytes.
PushRsp_ByteSizeLong_five(m) ==
  VarintFieldSize(<<8>>, UInt32(m.errCode)) + BytesFieldSize(<<18>>, m.errDesc) + Len(m.unk)
PushRsp_ByteSizeLong(m) ==
  VarintFieldSize(<<8>>, m.errCode) + BytesFieldSize(<<18>>, m.errDesc) + Len(m.unk)
PushRsp_MergeFrom(m, from) ==
  [errCode |-> Newer(m.errCode, from.errCode), errDesc |-> Newer(m.errDesc, from.errDesc),
   unk |-> m.unk \o from.unk]
PushRsp_CopyFrom(m, from) == PushRsp_MergeFrom(PushRsp_Clear(m), from)
-----------------------------------------------------------------------------
\* message PullReq { repeated uint64 keys = 1; repeated uint32 field = 2; }
PullReq_New == [keys |-> <<>>, field |-> <<>>, unk |-> <<>>]
PullReq_Clear(m) == [m EXCEPT !.keys = <<>>, !.field = <<>>, !.unk = <<>>]
PullReq_add_keys(m, v)  == [m EXCEPT !.keys = Append(@, v)]
PullReq_add_field(m, v) == [m EXCEPT !.field = Append(@, UInt32(v))]
PullReq_set_keys(m, i, v)  == [m EXCEPT !.keys[i] = v]
PullReq_set_field(m, i, v) == [m EXCEPT !.field[i] = UInt32(v)]
PullReq_clear_keys(m)  == [m EXCEPT !.keys = <<>>]
PullReq_clear_field(m) == [m EXCEPT !.field = <<>>]

\* Both the packed and the unpacked form are accepted.
PullReq_InternalParse(m, tag, buf, pos) ==
  LET p == ReadPacked(buf, pos)
      v == ReadVarint(buf, pos, 10)
  IN  CASE tag = <<10>> -> Parsed(p, [m EXCEPT !.keys = @ \o p.val])
        [] tag = <<8>>  -> Parsed(v, PullReq_add_keys(m, v.val))
        [] tag = <<18>> -> Parsed(p, [m EXCEPT !.field = @ \o [i \in DOMAIN p.val |-> UInt32(p.val[i])]])
        [] tag = <<16>> -> Parsed(v, PullReq_add_field(m, v.val))
        [] OTHER        -> Unusual(m, tag, buf, pos)

\* An array whose cached byte size is 0 is left out.
PullReq_InternalSerialize(m) ==
  (IF PackedSize(m.keys) > 0 THEN WritePacked(<<10>>, m.keys) ELSE <<>>)
  \o (IF PackedSize(m.field) > 0 THEN WritePacked(<<18>>, m.field) ELSE <<>>) \o m.unk

PullReq_ByteSizeLong(m) ==
  LET Size(n) == IF n > 0 THEN 1 + LengthSize(n) ELSE 0
  IN  Size(PackedSize(m.keys)) + Size(PackedSize(m.field)) + Len(m.unk)

PullReq_MergeFrom(m, from) ==
  [keys |-> m.keys \o from.keys, field |-> m.field \o from.field, unk |-> m.unk \o from.unk]
PullReq_CopyFrom(m, from) == PullReq_MergeFrom(PullReq_Clear(m), from)
-----------------------------------------------------------------------------
\* message PullRsp { int32 errCode = 1; string errDesc = 2; repeated bytes data = 3; }
PullRsp_New == [errCode |-> <<>>, errDesc |-> <<>>, data |-> <<>>, unk |-> <<>>]
PullRsp_Clear(m) == [m EXCEPT !.errCode = <<>>, !.errDesc = <<>>, !.data = <<>>, !.unk = <<>>]
PullRsp_set_errcode(m, v) == [m EXCEPT !.errCode = Int32(v)]
PullRsp_set_errdesc(m, s) == [m EXCEPT !.errDesc = s]
PullRsp_add_data(m, s) == [m EXCEPT !.data = Append(@, s)]
PullRsp_set_data(m, i, s) == [m EXCEPT !.data[i] = s]
PullRsp_clear_data(m) == [m EXCEPT !.data = <<>>]

PullRsp_InternalParse(m, tag, buf, pos) ==
  LET v == ReadVarint(buf, pos, 10)
      s == ReadString(buf, pos)
  IN  CASE tag = <<8>>  -> Parsed(v, PullRsp_set_errcode(m, v.val))
        [] tag = <<18>> -> Parsed([s EXCEPT !.ok = @ /\ IsUtf8(s.val)], PullRsp_set_errdesc(m, s.val))
        [] tag = <<26>> -> Parsed(s, PullRsp_add_data(m, s.val))
        [] OTHER        -> Unusual(m, tag, buf, pos)

\* Faulty variant: an empty element is left out like an empty singular field.
PullRsp_InternalSerialize_skip(m) ==
  VarintField(<<8>>, m.errCode) \o BytesField(<<18>>, m.errDesc)
  \o JoinSeq([i \in DOMAIN m.data |-> BytesField(<<26>>, m.data[i])]) \o m.unk

\* Every element of data is written, empty ones too.
PullRsp_InternalSerialize(m) ==
  VarintField(<<8>>, m.errCode) \o BytesField(<<18>>, m.errDesc)
  \o JoinSeq([i \in DOMAIN m.data |-> WriteBytes(<<26>>, m.data[i])]) \o m.unk

PullRsp_ByteSizeLong(m) ==
  SumSeq([i \in DOMAIN m.data |-> 1 + LengthSize(Len(m.data[i]))])
  + BytesFieldSize(<<18>>, m.errDesc) + VarintFieldSize(<<8>>, m.errCode) + Len(m.unk)

PullRsp_MergeFrom(m, from) ==
  [errCode |-> Newer(m.errCode, from.errCode), errDesc |-> Newer(m.errDesc, from.errDesc),
   data |-> m.data \o from.data, unk |-> m.unk \o from.unk]
PullRsp_CopyFrom(m, from) == PullRsp_MergeFrom(PullRsp_Clear(m), from)
-----------------------------------------------------------------------------
\* message DelCacheReq { uint64 key = 1; }
DelCacheReq_New == [key |-> <<>>, unk |-> <<>>]
DelCacheReq_Clear(m) == [m EXCEPT !.key = <<>>, !.unk = <<>>]
DelCacheReq_set_key(m, v) == [m EXCEPT !.key = v]
DelCacheReq_InternalParse(m, tag, buf, pos) ==
  LET v == ReadVarint(buf, pos, 10)
  IN  IF tag = <<8>> THEN Parsed(v, [m EXCEPT !.key = v.val]) ELSE Unusual(m, tag, buf, pos)
DelCacheReq_InternalSerialize(m) == VarintField(<<8>>, m.key) \o m.unk
DelCacheReq_ByteSizeLong(m) == VarintFieldSize(<<8>>, m.key) + Len(m.unk)
DelCacheReq_MergeFrom(m, from) == [key |-> Newer(m.key, from.key), unk |-> m.unk \o from.unk]
DelCacheReq_CopyFrom(m, from) == DelCacheReq_MergeFrom(DelCacheReq_Clear(m), from)

\* message DelCacheRsp { bool succ = 1; }
DelCacheRsp_New == [succ |-> <<>>, unk |-> <<>>]
DelCacheRsp_Clear(m) == [m EXCEPT !.succ = <<>>, !.unk = <<>>]
DelCacheRsp_set_succ(m, v) == [m EXCEPT !.succ = Bool(v)]
DelCacheRsp_InternalParse(m, tag, buf, pos) ==
  LET v == ReadVarint(buf, pos, 10)
  IN  IF tag = <<8>> THEN Parsed(v, DelCacheRsp_set_succ(m, v.val)) ELSE Unusual(m, tag, buf, pos)
DelCacheRsp_InternalSerialize(m) == VarintField(<<8>>, m.succ) \o m.unk
DelCacheRsp_ByteSizeLong(m) == (IF m.succ = <<>> THEN 0 ELSE 1 + 1) + Len(m.unk)
DelCacheRsp_MergeFrom(m, from) == [succ |-> Newer(m.succ, from.succ), unk |-> m.unk \o from.unk]
DelCacheRsp_CopyFrom(m, from) == DelCacheRsp_MergeFrom(DelCacheRsp_Clear(m), from)
-----------------------------------------------------------------------------
\* message HelloRequest { string name = 1; }
HelloRequest_New == [name |-> <<>>, unk |-> <<>>]
HelloRequest_Clear(m) == [m EXCEPT !.name = <<>>, !.unk = <<>>]
HelloRequest_set_name(m, s) == [m EXCEPT !.name = s]
HelloRequest_InternalParse(m, tag, buf, pos) ==
  LET s == ReadString(buf, pos)
  IN  IF tag = <<10>> THEN Parsed([s EXCEPT !.ok = @ /\ IsUtf8(s.val)], HelloRequest_set_name(m, s.val))
      ELSE Unusual(m, tag, buf, pos)
HelloRequest_InternalSerialize(m) == BytesField(<<10>>, m.name) \o m.unk
HelloRequest_ByteSizeLong(m) == BytesFieldSize(<<10>>, m.name) + Len(m.unk)
HelloRequest_MergeFrom(m, from) == [name |-> Newer(m.name, from.name), unk |-> m.unk \o from.unk]
HelloRequest_CopyFrom(m, from) == HelloRequest_MergeFrom(HelloRequest_Clear(m), from)

\* message HelloReply { string message = 1; }
HelloReply_New == [message |-> <<>>, unk |-> <<>>]
HelloReply_Clear(m) == [m EXCEPT !.message = <<>>, !.unk = <<>>]
HelloReply_set_message(m, s) == [m EXCEPT !.message = s]
HelloReply_InternalParse(m, tag, buf, pos) ==
  LET s == ReadString(buf, pos)
  IN  IF tag = <<10>> THEN Parsed([s EXCEPT !.ok = @ /\ IsUtf8(s.val)], HelloReply_set_message(m, s.val))
      ELSE Unusual(m, tag, buf, pos)
HelloReply_InternalSerialize(m) == BytesField(<<10>>, m.message) \o m.unk
HelloReply_ByteSizeLong(m) == BytesFieldSize(<<10>>, m.message) + Len(m.unk)
HelloReply_MergeFrom(m, from) == [message |-> Newer(m.message, from.message), unk |-> m.unk \o from.unk]
HelloReply_CopyFrom(m, from) == HelloReply_MergeFrom(HelloReply_Clear(m), from)
-----------------------------------------------------------------------------
\* The virtual functions of Message.
MessageTypes == {"oneInfo", "PushReq", "PushRsp", "PullReq", "PullRsp", "DelCacheReq",
                 "DelCacheRsp", "HelloRequest", "HelloReply", "TestPb"}

New(type) ==
  CASE type = "oneInfo"      -> oneInfo_New
    [] type = "PushReq"      -> PushReq_New
    [] type = "PushRsp"      -> PushRsp_New
    [] type = "PullReq"      -> PullReq_New
    [] type = "PullRsp"      -> PullRsp_New
    [] type = "DelCacheReq"  -> DelCacheReq_New
    [] type = "DelCacheRsp"  -> DelCacheRsp_New
    [] type = "HelloRequest" -> HelloRequest_New
    [] type = "HelloReply"   -> HelloReply_New
    [] type = "TestPb"       -> TestPb_New

InternalParse(type, m, tag, buf, pos) ==
  CASE type = "oneInfo"      -> oneInfo_InternalParse(m, tag, buf, pos)
    [] type = "PushReq"      -> PushReq_InternalParse(m, tag, buf, pos)
    [] type = "PushRsp"      -> PushRsp_InternalParse(m, tag, buf, pos)
    [] type = "PullReq"      -> PullReq_InternalParse(m, tag, buf, pos)
    [] type = "PullRsp"      -> PullRsp_InternalParse(m, tag, buf, pos)
    [] type = "DelCacheReq"  -> DelCacheReq_InternalParse(m, tag, buf, pos)
    [] type = "DelCacheRsp"  -> DelCacheRsp_InternalParse(m, tag, buf, pos)
    [] type = "HelloRequest" -> HelloRequest_InternalParse(m, tag, buf, pos)
    [] type = "HelloReply"   -> HelloReply_InternalParse(m, tag, buf, pos)

InternalSerialize(type, m) ==
  CASE type = "oneInfo"      -> oneInfo_InternalSerialize(m)
    [] type = "PushReq"      -> PushReq_InternalSerialize(m)
    [] type = "PushRsp"      -> PushRsp_InternalSerialize(m)
    [] type = "PullReq"      -> PullReq_InternalSerialize(m)
    [] type = "PullRsp"      -> PullRsp_InternalSerialize(m)
    [] type = "DelCacheReq"  -> DelCacheReq_InternalSerialize(m)
    [] type = "DelCacheRsp"  -> DelCacheRsp_InternalSerialize(m)
    [] type = "HelloRequest" -> HelloRequest_InternalSerialize(m)
    [] type = "HelloReply"   -> HelloReply_InternalSerialize(m)
    [] type = "TestPb"       -> TestPb_SerializeWithCachedSizes(m)

ByteSizeLong(type, m) ==
  CASE type = "oneInfo"      -> oneInfo_ByteSizeLong(m)
    [] type = "PushReq"      -> PushReq_ByteSizeLong(m)
    [] type = "PushRsp"      -> PushRsp_ByteSizeLong(m)
    [] type = "PullReq"      -> PullReq_ByteSizeLong(m)
    [] type = "PullRsp"      -> PullRsp_ByteSizeLong(m)
    [] type = "DelCacheReq"  -> DelCacheReq_ByteSizeLong(m)
    [] type = "DelCacheRsp"  -> DelCacheRsp_ByteSizeLong(m)
    [] type = "HelloRequest" -> HelloRequest_ByteSizeLong(m)
    [] type = "HelloReply"   -> HelloReply_ByteSizeLong(m)
    [] type = "TestPb"       -> TestPb_ByteSizeLong(m)

MergeFrom(type, m, from) ==
  CASE type = "oneInfo"      -> oneInfo_MergeFrom(m, from)
    [] type = "PushReq"      -> PushReq_MergeFrom(m, from)
    [] type = "PushRsp"      -> PushRsp_MergeFrom(m, from)
    [] type = "PullReq"      -> PullReq_MergeFrom(m, from)
    [] type = "PullRsp"      -> PullRsp_MergeFrom(m, from)
    [] type = "DelCacheReq"  -> DelCacheReq_MergeFrom(m, from)
    [] type = "DelCacheRsp"  -> DelCacheRsp_MergeFrom(m, from)
    [] type = "HelloRequest" -> HelloRequest_MergeFrom(m, from)
    [] type = "HelloReply"   -> HelloReply_MergeFrom(m, from)
    [] type = "TestPb"       -> TestPb_MergeFrom(m, from)

CopyFrom(type, m, from) ==
  CASE type = "oneInfo"      -> oneInfo_CopyFrom(m, from)
    [] type = "PushReq"      -> PushReq_CopyFrom(m, from)
    [] type = "PushRsp"      -> PushRsp_CopyFrom(m, from)
    [] type = "PullReq"      -> PullReq_CopyFrom(m, from)
    [] type = "PullRsp"      -> PullRsp_CopyFrom(m, from)
    [] type = "DelCacheReq"  -> DelCacheReq_CopyFrom(m, from)
    [] type = "DelCacheRsp"  -> DelCacheRsp_CopyFrom(m, from)
    [] type = "HelloRequest" -> HelloRequest_CopyFrom(m, from)
    [] type = "HelloReply"   -> HelloReply_CopyFrom(m, from)
    [] type = "TestPb"       -> TestPb_CopyFrom(m, from)

Round(type, r, buf, limit) ==
  LET t == ReadTag(buf, r.pos)
  IN  NextField(r, t, InternalParse(type, r.m, t.val, buf, t.pos), buf, limit)

\* MessageLite::ParseFromString and SerializeToString (external): parsing clears
\* the message and is false unless it ended at the end of the input.
ParseFromString(type, buf) ==
  LET limit == Len(buf) + 1
      read[k \in 0 .. Len(buf)] ==
        IF k = 0 THEN ParseStart(New(type), 1) ELSE Round(type, read[k - 1], buf, limit)
      Whole(r) == [m |-> r.m, ok |-> r.ok /\ ~r.stop]
  IN  IF type = "TestPb" THEN TestPb_ParseFromString(buf)
      ELSE Whole(ParseEnd(read[Len(buf)], buf, limit))

SerializeToString(type, m) == InternalSerialize(type, m)
=============================================================================
