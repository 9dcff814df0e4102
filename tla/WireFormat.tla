------------------------------- MODULE WireFormat -------------------------------
(***************************************************************************)
(* The part of the protobuf 3.14 runtime that the generated code of the     *)
(* message classes calls (external to the repository): varints, tags,       *)
(* length-delimited values, packed arrays and unknown fields, read from and *)
(* written to sequences of bytes.                                           *)
(*                                                                          *)
(* TLC's integers have 32 bits, so a 64-bit integer is the sequence of its  *)
(* base-128 digits, lowest first and without leading zeros: 0 is <<>>, 300  *)
(* is <<44, 2>> and 2^64-1 is nine digits 127 and a 1.                      *)
(***************************************************************************)
EXTENDS Integers, Sequences, SequencesExt

\* EpsCopyInputStream parses the last SlopBytes of an input, or all of a shorter one,
\* in a zeroed patch buffer that is SlopBytes longer, and looks for an overrun only
\* after a field.  Fields that start before them are read where they are, and so is
\* their value if it is not longer than the input.
SlopBytes == 16

\* Whether the delimited value at a position of an input is read where it is.  Which
\* it is depends on where the field, the messages it is in and the input before it
\* begin; nothing that is proved rests on it.
CONSTANT InPlace(_, _)

\* The last byte that a value at pos may have.
Readable(buf, pos) == IF InPlace(buf, pos) THEN Len(buf) ELSE Len(buf) + SlopBytes

Byte == 0 .. 255
ByteAt(buf, i) == IF i <= Len(buf) THEN buf[i] ELSE 0

\* A sequence of digits without its leading (here: last) zeros.
Canonical(d) == LET top == {i \in DOMAIN d : d[i] # 0}
                IN  SubSeq(d, 1, IF top = {} THEN 0 ELSE Max(top))

UInt64(d) == Canonical(IF Len(d) = 10 THEN [d EXCEPT ![10] = @ % 2] ELSE d)
UInt32(d) == Canonical(IF Len(d) < 5 THEN d ELSE SubSeq(d, 1, 4) \o <<d[5] % 16>>)

\* A cast to int32.  A negative one is written, and kept here, sign-extended.
Int32(d) == IF Len(d) >= 5 /\ d[5] % 16 >= 8
            THEN SubSeq(d, 1, 4) \o <<112 + (d[5] % 16), 127, 127, 127, 127, 1>>
            ELSE UInt32(d)
Bool(d) == IF d = <<>> THEN <<>> ELSE <<1>>

\* The digits of a number below SizeLimit, and the number a size stands for; no
\* input is as long as Huge.
SizeLimit == 128 * 128 * 128
Digits(n) == Canonical(<<n % 128, (n \div 128) % 128, n \div 16384>>)
Huge      == 2^28
Number(d) == LET Digit(i) == IF i <= Len(d) THEN d[i] ELSE 0
             IN  IF Len(d) > 4 THEN Huge
                 ELSE Digit(1) + 128 * (Digit(2) + 128 * (Digit(3) + 128 * Digit(4)))
-----------------------------------------------------------------------------
\* Writing.
VarintSize(d) == IF d = <<>> THEN 1 ELSE Len(d)
WriteVarint(d) ==
  IF d = <<>> THEN <<0>> ELSE [i \in DOMAIN d |-> IF i < Len(d) THEN d[i] + 128 ELSE d[i]]

LengthSize(n)      == VarintSize(Digits(n)) + n
WriteBytes(tag, s) == WriteVarint(tag) \o WriteVarint(Digits(Len(s))) \o s

\* The elements of a repeated field: their sizes added, their bytes one after the other.
SumSeq(s) ==
  LET sum[i \in 0 .. Len(s)] == IF i = 0 THEN 0 ELSE sum[i - 1] + s[i] IN sum[Len(s)]
JoinSeq(s) ==
  LET join[i \in 0 .. Len(s)] == IF i = 0 THEN <<>> ELSE join[i - 1] \o s[i] IN join[Len(s)]

PackedSize(s) == SumSeq([i \in DOMAIN s |-> VarintSize(s[i])])
WritePacked(tag, s) ==
  WriteBytes(tag, JoinSeq([i \in DOMAIN s |-> WriteVarint(s[i])]))

\* Sizes and bytes of fields that are left out when they have their default.
VarintFieldSize(tag, d) == IF d = <<>> THEN 0 ELSE VarintSize(tag) + VarintSize(d)
BytesFieldSize(tag, s)  == IF s = <<>> THEN 0 ELSE VarintSize(tag) + LengthSize(Len(s))
VarintField(tag, d)     == IF d = <<>> THEN <<>> ELSE WriteVarint(tag) \o WriteVarint(d)
BytesField(tag, s)      == IF s = <<>> THEN <<>> ELSE WriteBytes(tag, s)
-----------------------------------------------------------------------------
\* Reading.  Every reader starts at position pos and returns what it has read
\* (val), the position after it and whether it succeeded; the generated code
\* keeps what was read even when it did not.
Read(ok, val, pos) == [ok |-> ok, val |-> val, pos |-> pos]

\* A varint of at most w bytes.
ReadVarint(buf, pos, w) ==
  LET ends == {n \in 1 .. w : ByteAt(buf, pos + n - 1) < 128}
      n    == Min(ends)
  IN  IF ends = {} THEN Read(FALSE, <<>>, pos)
      ELSE Read(TRUE, UInt64([i \in 1 .. n |-> ByteAt(buf, pos + i - 1) % 128]), pos + n)

ReadTag(buf, pos) == LET r == ReadVarint(buf, pos, 5) IN [r EXCEPT !.val = UInt32(@)]

SizeOf(r) == Read(r.ok /\ (Len(r.val) = 5 => r.val[5] < 8), Number(r.val), r.pos)
ReadSize(buf, pos) == SizeOf(ReadVarint(buf, pos, 5))

\* A string as long as its size says, zeros from the slop region included; of a
\* longer one that is read in place, what there is stays in the field.
StringOf(buf, n) ==
  IF n.ok /\ n.pos + n.val - 1 <= Readable(buf, n.pos)
  THEN Read(TRUE, [i \in 1 .. n.val |-> ByteAt(buf, n.pos + i - 1)], n.pos + n.val)
  ELSE Read(FALSE, IF n.ok /\ InPlace(buf, n.pos) THEN SubSeq(buf, n.pos, Len(buf)) ELSE <<>>, n.pos)
ReadString(buf, pos) == StringOf(buf, ReadSize(buf, pos))

\* The varints from pos up to end, in rounds that each read at least one byte.
NextVarint(r, buf, end) ==
  LET v == ReadVarint(buf, r.pos, 10)
  IN  IF ~r.ok \/ r.pos >= end THEN r
      ELSE IF v.ok THEN Read(TRUE, Append(r.val, v.val), v.pos)
      ELSE Read(FALSE, r.val, r.pos)
ReadVarints(buf, pos, end) ==
  LET read[k \in 0 .. Len(buf) + SlopBytes] ==
        IF k = 0 THEN Read(TRUE, <<>>, pos) ELSE NextVarint(read[k - 1], buf, end)
  IN  read[Len(buf) + SlopBytes]

\* A packed array; one that is too long fails with the elements that begin in the
\* part of the input it was read from.
PackedOf(buf, n) ==
  LET fits == n.pos + n.val - 1 <= Readable(buf, n.pos)
      end  == IF fits THEN n.pos + n.val
              ELSE IF InPlace(buf, n.pos) THEN Len(buf) - SlopBytes + 1 ELSE Len(buf) + 1
      r    == ReadVarints(buf, n.pos, end)
  IN  IF n.ok THEN Read(fits /\ r.ok /\ r.pos = end, r.val, r.pos)
      ELSE Read(FALSE, <<>>, n.pos)
ReadPacked(buf, pos) == PackedOf(buf, ReadSize(buf, pos))

WireType(tag)    == IF tag = <<>> THEN 0 ELSE tag[1] % 8
FieldNumber0(tag) == Len(tag) <= 1 /\ (tag # <<>> => tag[1] < 8)

Fixed(buf, pos, n) == [i \in 1 .. n |-> ByteAt(buf, pos + i - 1)]

\* UnknownFieldParse: the field as it will be written again, but for a group.
ReadUngrouped(tag, buf, pos) ==
  LET Kept(r, bytes) == Read(r.ok, IF r.ok THEN WriteVarint(tag) \o bytes ELSE <<>>, r.pos)
      Varint(r) == Kept(r, WriteVarint(r.val))
      String(r) == Kept(r, WriteVarint(Digits(Len(r.val))) \o r.val)
  IN  IF FieldNumber0(tag) THEN Read(FALSE, <<>>, pos) ELSE
      CASE WireType(tag) = 0 -> Varint(ReadVarint(buf, pos, 10))
        [] WireType(tag) = 1 -> Kept(Read(TRUE, <<>>, pos + 8), Fixed(buf, pos, 8))
        [] WireType(tag) = 2 -> String(ReadString(buf, pos))
        [] WireType(tag) = 5 -> Kept(Read(TRUE, <<>>, pos + 4), Fixed(buf, pos, 4))
        [] OTHER             -> Read(FALSE, <<>>, pos)

\* A group ends at the end-group tag of its number; an end of input inside it is a
\* failure.  g.open holds the tags of the groups that have not ended, and a round
\* reads at least the byte of a tag.
StartsGroup(tag) == WireType(tag) = 3 /\ ~FieldNumber0(tag)
NextInGroup(g, buf) ==
  LET t     == ReadTag(buf, g.pos)
      ended == t.val # <<>> /\ t.val = [Last(g.open) EXCEPT ![1] = @ + 1]
      Took(bytes, pos, open) == [ok |-> TRUE, val |-> g.val \o bytes, pos |-> pos, open |-> open]
      Failed(pos) == [ok |-> FALSE, val |-> <<>>, pos |-> pos, open |-> g.open]
      Field(f) == IF f.ok THEN Took(f.val, f.pos, g.open) ELSE Failed(f.pos)
  IN  IF ~g.ok \/ g.open = <<>> THEN g
      ELSE IF g.pos > Len(buf) \/ ~t.ok THEN Failed(g.pos)
      ELSE IF ended THEN Took(WriteVarint(t.val), t.pos, Front(g.open))
      ELSE IF StartsGroup(t.val) THEN Took(WriteVarint(t.val), t.pos, Append(g.open, t.val))
      ELSE Field(ReadUngrouped(t.val, buf, t.pos))
ReadGroup(start, buf, pos) ==
  LET group[k \in 0 .. Len(buf) + 1] ==
        IF k = 0 THEN [ok |-> TRUE, val |-> WriteVarint(start), pos |-> pos, open |-> <<start>>]
        ELSE NextInGroup(group[k - 1], buf)
      Whole(g) == Read(g.ok, g.val, g.pos)
  IN  Whole(group[Len(buf) + 1])

ReadUnknown(tag, buf, pos) ==
  IF StartsGroup(tag) THEN ReadGroup(tag, buf, pos) ELSE ReadUngrouped(tag, buf, pos)
=============================================================================
