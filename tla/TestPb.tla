--------------------------------- MODULE TestPb ---------------------------------
(***************************************************************************)
(* The class protoc generated from test.proto (test-debug/pb-test), by an    *)
(* older protoc than the other message classes: it reads through a            *)
(* CodedInputStream, which never looks past the end of the input.             *)
(***************************************************************************)
EXTENDS WireFormat

\* VerifyUtf8String, for strings of one-byte characters (external).
IsUtf8(s) == \A i \in DOMAIN s : s[i] < 128

\* A field of proto3 has no presence: merging takes the other value unless it is
\* the default.
Newer(mine, from) == IF from = <<>> THEN mine ELSE from

\* A CodedInputStream fails where the input ends (external).
Coded(buf, r) == [r EXCEPT !.ok = @ /\ r.pos <= Len(buf) + 1]

\* WireFormatLite::ReadString into a string that was old (external): what there is
\* of a string that is cut off stays in it.
CodedString(old, buf, pos) ==
  LET n        == Coded(buf, ReadVarint(buf, pos, 10))
      size     == UInt32(n.val)
      negative == Len(size) = 5 /\ size[5] >= 8
      end      == n.pos + Number(size)
  IN  IF ~n.ok \/ negative THEN Read(FALSE, old, pos)
      ELSE Read(end <= Len(buf) + 1, SubSeq(buf, n.pos, IF end <= Len(buf) THEN end - 1 ELSE Len(buf)), end)
-----------------------------------------------------------------------------
\* message TestPb { string TableName = 9977; string Sence = 1; int32 Page = 2; }
TableNameTag == <<74, 111, 4>>

TestPb_New == [sence |-> <<>>, tablename |-> <<>>, page |-> <<>>, unk |-> <<>>]
TestPb_Clear(m) == [m EXCEPT !.sence = <<>>, !.tablename = <<>>, !.page = <<>>, !.unk = <<>>]
TestPb_set_tablename(m, s) == [m EXCEPT !.tablename = s]
TestPb_set_sence(m, s)     == [m EXCEPT !.sence = s]
TestPb_set_page(m, v)      == [m EXCEPT !.page = Int32(v)]

\* DO_(ReadString(...)); DO_(VerifyUtf8String(...)).
ReadText(old, buf, pos) ==
  LET s == CodedString(old, buf, pos) IN [s EXCEPT !.ok = @ /\ IsUtf8(s.val)]

\* One round of the loop: a tag that cannot be read is 0, and 0 ends it with success;
\* atEnd tells ParseFromString whether that was the end of the input.
TestPb_Round(r, buf) ==
  LET m == r.m
      t == Coded(buf, ReadVarint(buf, r.pos, 10))
      tag == IF t.ok THEN UInt32(t.val) ELSE <<>>
      Go(x, next)  == [ok |-> x.ok, done |-> ~x.ok, atEnd |-> FALSE, m |-> next, pos |-> x.pos]
      Sence(s)     == Go(s, TestPb_set_sence(m, s.val))
      Page(v)      == Go(v, IF v.ok THEN TestPb_set_page(m, v.val) ELSE m)
      TableName(s) == Go(s, TestPb_set_tablename(m, s.val))
      Other(u)     == Go(u, IF u.ok THEN [m EXCEPT !.unk = @ \o u.val] ELSE m)
  IN  CASE r.done -> r
        [] ~r.done /\ tag = <<>> -> [r EXCEPT !.done = TRUE, !.atEnd = r.pos > Len(buf)]
        [] ~r.done /\ tag = <<10>> -> Sence(ReadText(m.sence, buf, t.pos))
        [] ~r.done /\ tag = <<16>> -> Page(Coded(buf, ReadVarint(buf, t.pos, 10)))
        [] ~r.done /\ tag = TableNameTag -> TableName(ReadText(m.tablename, buf, t.pos))
        [] OTHER -> Other(IF WireType(tag) = 4 THEN Read(FALSE, <<>>, t.pos)
                          ELSE Coded(buf, ReadUnknown(tag, buf, t.pos)))

\* A round reads at least one byte, or is the last.
TestPb_MergePartialFromCodedStream(m, buf) ==
  LET read[k \in 0 .. Len(buf) + 1] ==
        IF k = 0 THEN [ok |-> TRUE, done |-> FALSE, atEnd |-> FALSE, m |-> m, pos |-> 1]
        ELSE TestPb_Round(read[k - 1], buf)
  IN  read[Len(buf) + 1]

TestPb_SerializeWithCachedSizes(m) ==
  BytesField(<<10>>, m.sence) \o VarintField(<<16>>, m.page)
  \o BytesField(TableNameTag, m.tablename) \o m.unk

TestPb_ByteSizeLong(m) ==
  Len(m.unk) + BytesFieldSize(<<10>>, m.sence) + BytesFieldSize(TableNameTag, m.tablename)
  + VarintFieldSize(<<16>>, m.page)

TestPb_MergeFrom(m, from) ==
  [sence |-> Newer(m.sence, from.sence), tablename |-> Newer(m.tablename, from.tablename),
   page |-> Newer(m.page, from.page), unk |-> m.unk \o from.unk]
TestPb_CopyFrom(m, from) == TestPb_MergeFrom(TestPb_Clear(m), from)

\* MessageLite::ParseFromString with ConsumedEntireMessage (external).
TestPb_ParseFromString(buf) ==
  LET Whole(r) == [m |-> r.m, ok |-> r.ok /\ r.atEnd]
  IN  Whole(TestPb_MergePartialFromCodedStream(TestPb_New, buf))
=============================================================================
