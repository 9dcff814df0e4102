------------------------- MODULE FeatureServerProofs -------------------------
(***************************************************************************)
(* Type correctness of the feature server, what its pushes can and cannot   *)
(* do to Redis, what the cache holds and what a pull answers, for every      *)
(* number of threads, handlers and slots, every set of requests, every       *)
(* failure and every mix-up of replies.                                      *)
(***************************************************************************)
EXTENDS FeatureServer, EvictingCacheMapProofs, WellFoundedInduction

-----------------------------------------------------------------------------
(* The operators.                                                           *)

\* "%d" prints one of the hash keys.
LEMMA FmtKeyType == \A k \in Keys : FmtKey(k) \in HashKeys
BY ServerAssumption, RedisAssumption DEF FmtKey, HashKeys

\* A non-empty set of natural numbers has a least element.
LEMMA SmallestNat ==
  ASSUME NEW Z \in SUBSET Nat, Z # {}
  PROVE  \E i \in Z : \A j \in Z : i <= j
<1> DEFINE R == OpToRel(<, Nat)
<1>1. IsWellFoundedOn(R, Nat)
  BY NatLessThanWellFounded
<1>2. \A i, j \in Nat : <<i, j>> \in R <=> i < j
  BY DEF OpToRel
<1> HIDE DEF R
<1>3. PICK i \in Z : \A j \in Z : ~(<<j, i>> \in R)
  BY <1>1, WFMin
<1>4. \A j \in Z : i \in Nat /\ j \in Nat /\ ~(j < i)
  BY <1>2, <1>3
<1>5. \A j \in Z : i <= j
  BY <1>4
<1> QED
  BY <1>5

\* A C string is a string.
LEMMA CStrType == \A s \in Strings : CStr(s) \in Strings
<1> SUFFICES ASSUME NEW s \in Strings PROVE CStr(s) \in Strings
  OBVIOUS
<1> DEFINE first(i) == s[i] = Nul /\ \A j \in 1..(i - 1) : s[j] # Nul
           p == CHOOSE i \in DOMAIN s : first(i)
<1>1. Len(s) \in Nat /\ DOMAIN s = 1..Len(s) /\ \A i \in 1..Len(s) : s[i] \in Bytes
  BY LenProperties, ElementOfSeq DEF Strings
<1>2. CASE \E i \in DOMAIN s : s[i] = Nul
  <2>1. PICK i0 \in DOMAIN s : s[i0] = Nul
    BY <1>2
  <2> DEFINE Z == {i \in Nat : i \in DOMAIN s /\ s[i] = Nul}
  <2>2. Z # {} /\ Z \subseteq Nat
    BY <1>1, <2>1
  <2>3. \E i \in Z : \A j \in Z : i <= j
    <3> HIDE DEF Z
    <3> QED
      BY <2>2, SmallestNat
  <2>4. \E i \in DOMAIN s : first(i)
    BY <1>1, <2>3
  <2>5. p \in DOMAIN s
    BY <2>4
  <2>6. CStr(s) = SubSeq(s, 1, p - 1)
    BY <1>2 DEF CStr
  <2> HIDE DEF p
  <2>7. p - 1 \in Int /\ \A i \in 1..(p - 1) : s[i] \in Bytes
    BY <1>1, <2>5
  <2> QED
    BY <2>6, <2>7, SubSeqProperties DEF Strings
<1>3. CASE ~ \E i \in DOMAIN s : s[i] = Nul
  BY <1>3 DEF CStr
<1> QED
  BY <1>2, <1>3

\* "%s" reads some string.
LEMMA FmtStrType == \A s \in Strings : FmtStr(s) \subseteq Strings
<1>1. <<>> \in Strings /\ <<Garbage>> \in Strings
  BY DEF Strings, Bytes
<1> QED
  BY <1>1, CStrType DEF FmtStr

\* A hash written by HSETNX is a hash that keeps its fields and may gain one.
LEMMA HSetNXType ==
  ASSUME NEW h \in Hash, NEW ver \in Versions, NEW s \in Strings
  PROVE  /\ HSetNX(h, ver, s) \in Hash
         /\ \A v \in Fields(h) : HSetNX(h, ver, s)[v] = h[v]
         /\ Fields(HSetNX(h, ver, s)) \subseteq Fields(h) \cup {ver}
         /\ ver \in Fields(h) => HSetNX(h, ver, s) = h
BY DEF HSetNX, Hash, Fields

\* What get returns is a string, with the version it carries: a field of the
\* hash, 0, or the caller's own.
LEMMA GetResultsType ==
  ASSUME NEW r \in Replies, NEW cv \in Versions, NEW g \in GetResults(r, cv)
  PROVE  /\ g.ret \in Strings /\ g.currv \in Versions
         /\ \/ g.currv = 0
            \/ g.currv \in Fields(r.hash)
            \/ g.currv = cv /\ g.ret = <<>>
<1>1. CASE r.type = "array" /\ Fields(r.hash) # {}
  <2>1. PICK v \in Latest(r.hash) :
          g = [ret |-> CStr(r.hash[v]), currv |-> IF v > 0 THEN v ELSE 0]
    BY <1>1 DEF GetResults
  <2>2. v \in Fields(r.hash)
    BY DEF Latest
  <2>3. v \in Versions /\ r.hash[v] \in Strings
    BY <2>2 DEF Fields, Replies, Hash
  <2>4. g.ret \in Strings
    BY <2>1, <2>3, CStrType
  <2>5. g.currv \in {v, 0}
    BY <2>1
  <2> QED
    BY <2>2, <2>3, <2>4, <2>5, RedisAssumption
<1>2. CASE ~(r.type = "array" /\ Fields(r.hash) # {})
  <2>1. g = [ret |-> <<>>, currv |-> cv]
    BY <1>2 DEF GetResults
  <2>2. <<>> \in Strings
    BY DEF Strings
  <2> QED
    BY <2>1, <2>2
<1> QED
  BY <1>1, <1>2

\* A decoded chunk is a sequence of infos.
LEMMA DecodeType ==
  ASSUME NEW type \in MsgTypes, NEW c \in Infos
  PROVE  Decode(type, c) \in Infos
<1> DEFINE S == [id : Keys, d : Strings]
<1>1. c \in Seq(S) /\ <<>> \in Strings
  BY DEF Infos, Strings
<1>2. Len(c) \in Nat /\ DOMAIN c = 1..Len(c) /\ \A i \in 1..Len(c) : c[i] \in S
  <2> HIDE DEF S
  <2> QED
    BY <1>1, LenProperties, ElementOfSeq
<1>3. [i \in DOMAIN c |-> DataInfo(c[i].id, NoData)] \in Seq(S)
  <2>1. \A i \in 1..Len(c) : DataInfo(c[i].id, NoData) \in S
    BY <1>1, <1>2 DEF DataInfo, NoData
  <2> HIDE DEF S
  <2> QED
    BY <1>2, <2>1
<1>4. <<DataInfo(IF c = <<>> THEN 0 ELSE c[Len(c)].id, NoData)>> \in Seq(S)
  <2>1. (IF c = <<>> THEN 0 ELSE c[Len(c)].id) \in Keys
    <3>1. CASE c = <<>>
      BY <3>1, ServerAssumption
    <3>2. CASE c # <<>>
      <4>1. Len(c) \in 1..Len(c)
        BY <1>1, <1>2, <3>2, EmptySeq
      <4> QED
        BY <1>2, <3>2, <4>1
    <3> QED
      BY <3>1, <3>2
  <2> QED
    BY <1>1, <2>1 DEF DataInfo, NoData
<1>5. <<>> \in Seq(S)
  OBVIOUS
<1> QED
  BY <1>1, <1>3, <1>4, <1>5 DEF Decode, Infos, MsgTypes

\* What EncodeRsp sends is read as a reply.
LEMMA RspType ==
  ASSUME NEW type \in MsgTypes, NEW infos \in Infos, NEW e \in Int
  PROVE  EncodeRsp(type, infos, e) \in Rsps
<1> DEFINE S == [id : Keys, d : Strings]
<1>1. infos \in Seq(S)
  BY DEF Infos
<1>2. Len(infos) \in Nat /\ DOMAIN infos = 1..Len(infos) /\ \A i \in 1..Len(infos) : infos[i] \in S
  <2> HIDE DEF S
  <2> QED
    BY <1>1, LenProperties, ElementOfSeq
<1>3. [i \in DOMAIN infos |-> infos[i].d] \in Seq(Strings)
  <2>1. \A i \in 1..Len(infos) : infos[i].d \in Strings
    BY <1>2
  <2> HIDE DEF S
  <2> QED
    BY <1>2, <2>1
<1>4. <<>> \in Seq(Strings)
  OBVIOUS
<1>5. PICK n \in Int, ds \in Seq(Strings) :
        EncodeRsp(type, infos, e) = [errCode |-> n, data |-> ds, succ |-> FALSE]
  <2> DEFINE n == IF type \in {"Pull", "Push"} THEN e ELSE 0
             ds == IF type = "Pull" /\ e = 0 THEN [i \in DOMAIN infos |-> infos[i].d] ELSE <<>>
  <2>1. n \in Int /\ ds \in Seq(Strings)
    BY <1>3, <1>4
  <2>2. EncodeRsp(type, infos, e) = [errCode |-> n, data |-> ds, succ |-> FALSE]
    BY DEF EncodeRsp
  <2> QED
    BY <2>1, <2>2
<1> QED
  BY <1>5 DEF Rsps

\* Two replies sent one after the other are read as a reply.
LEMMA MergeType == \A r, s \in Rsps : Merge(r, s) \in Rsps
<1> SUFFICES ASSUME NEW r \in Rsps, NEW s \in Rsps PROVE Merge(r, s) \in Rsps
  OBVIOUS
<1>1. r.data \o s.data \in Seq(Strings)
  BY ConcatProperties DEF Rsps
<1> QED
  BY <1>1 DEF Merge, Rsps
-----------------------------------------------------------------------------
(* One Redis command.                                                       *)

Dbs == [HashKeys -> Hash]

\* E holds every version D holds, unchanged.
Grows(D, E) == \A hk \in HashKeys : \A v \in Fields(D[hk]) : E[hk][v] = D[hk][v]

\* A handler inside get, set or a cache fill stands at one of its infos.
InLoop(f) == f.pc \in {"pullDb", "pullSet", "pushSet"} => More(f)

\* The info a handler stands at.
LEMMA CurType ==
  ASSUME NEW f \in HandlerStates, More(f)
  PROVE  Cur(f) \in [id : Keys, d : Strings] /\ f.idx \in 1..Len(f.infos)
<1> DEFINE S == [id : Keys, d : Strings]
<1>1. f.infos \in Seq(S) /\ f.idx \in Nat \ {0} /\ f.idx <= Len(f.infos)
  BY DEF HandlerStates, Infos, More
<1> HIDE DEF S
<1>2. f.idx \in 1..Len(f.infos)
  BY <1>1, LenProperties
<1>3. Cur(f) \in S
  BY <1>1, <1>2, ElementOfSeq DEF Cur
<1> QED
  BY <1>2, <1>3 DEF S

\* Redis keeps its shape and its data; it gains at most the version of a push,
\* and a reply shows only versions that are there.
LEMMA ExecFacts ==
  ASSUME NEW D \in Dbs, NEW f \in HandlerStates, f.pc \in AtRedis, More(f),
         NEW o \in Exec(D, f)
  PROVE  /\ o.db \in Dbs /\ o.reply \in Replies
         /\ Grows(D, o.db)
         /\ AllVersions(o.db) \subseteq AllVersions(D) \cup {f.currv}
         /\ Fields(o.reply.hash) \subseteq Fields(D[FmtKey(Cur(f).id)])
         /\ f.pc # "pushSet" => o.db = D
         /\ f.currv \in Fields(D[FmtKey(Cur(f).id)]) => o.db = D
<1> DEFINE hk == FmtKey(Cur(f).id)
<1>1. /\ hk \in HashKeys /\ D[hk] \in Hash /\ f.d \in Strings /\ f.currv \in Versions
  <2>1. Cur(f).id \in Keys
    BY CurType
  <2> QED
    BY <2>1, FmtKeyType DEF Dbs, HandlerStates
<1>2. NoHash \in Hash /\ Fields(NoHash) = {}
  BY DEF NoHash, Hash, Fields
<1>3. CASE o = [db |-> D, reply |-> ErrorReply] \/ o = [db |-> D, reply |-> ArrayReply(D[hk])]
  BY <1>1, <1>2, <1>3 DEF ErrorReply, ArrayReply, Replies, Grows
<1>4. CASE f.pc = "pushSet" /\ \E s \in FmtStr(f.d) :
             o = [db |-> [D EXCEPT ![hk] = HSetNX(@, f.currv, s)], reply |-> IntReply]
  <2>1. PICK s \in FmtStr(f.d) :
          o = [db |-> [D EXCEPT ![hk] = HSetNX(D[hk], f.currv, s)], reply |-> IntReply]
    BY <1>4
  <2> DEFINE n == HSetNX(D[hk], f.currv, s)
  <2>2. /\ n \in Hash
        /\ \A v \in Fields(D[hk]) : n[v] = D[hk][v]
        /\ Fields(n) \subseteq Fields(D[hk]) \cup {f.currv}
        /\ f.currv \in Fields(D[hk]) => n = D[hk]
    BY <1>1, FmtStrType, HSetNXType
  <2> HIDE DEF n, hk
  <2>3. o.db \in Dbs /\ o.db[hk] = n /\ \A j \in HashKeys \ {hk} : o.db[j] = D[j]
    BY <1>1, <2>1, <2>2 DEF Dbs, n
  <2>4. o.reply \in Replies /\ Fields(o.reply.hash) = {}
    BY <1>2, <2>1 DEF IntReply, Replies
  <2>5. Grows(D, o.db)
    BY <1>1, <2>2, <2>3 DEF Grows
  <2>6. AllVersions(o.db) \subseteq AllVersions(D) \cup {f.currv}
    BY <1>1, <2>2, <2>3 DEF AllVersions
  <2>7. f.currv \in Fields(D[hk]) => o.db = D
    BY <1>1, <2>1, <2>2 DEF Dbs, n
  <2> QED
    BY <1>4, <2>3, <2>4, <2>5, <2>6, <2>7 DEF hk
<1> QED
  BY <1>3, <1>4 DEF Exec

\* A handler that gets a reply stays a handler; the version it carries is 0, one
\* the reply showed, or the one it had.
LEMMA AfterFacts ==
  ASSUME NEW f \in HandlerStates, f.pc \in AtRedis, More(f),
         NEW r \in Replies, NEW g \in After(f, r)
  PROVE  /\ g \in HandlerStates /\ InLoop(g)
         /\ g.currv = 0 \/ g.currv \in Fields(r.hash) \/ g.currv = f.currv
         /\ g.pc = "pushSet" => /\ Cur(g) = Cur(f)
                                /\ \/ g.currv = 0 \/ g.currv \in Fields(r.hash)
                                   \/ g.d = Cur(g).d
<1>0. /\ f.currv \in Versions /\ Cur(f).d \in Strings /\ f.idx \in Nat \ {0}
      /\ <<>> \in Strings
  BY CurType DEF HandlerStates, Strings
<1>1. CASE f.pc = "pullDb"
  <2>1. PICK t \in GetResults(r, f.currv) : g = [f EXCEPT !.pc = "pullSet", !.d = t.ret]
    BY <1>1 DEF After
  <2>2. t.ret \in Strings
    BY <1>0, GetResultsType
  <2>3. g \in HandlerStates
    BY <2>1, <2>2 DEF HandlerStates, PCs
  <2>4. More(g)
    BY <2>1 DEF More, HandlerStates
  <2> QED
    BY <2>1, <2>3, <2>4 DEF InLoop, HandlerStates
<1>2. CASE f.pc = "pushGet"
  <2>1. PICK t \in GetResults(r, f.currv) :
          g = [f EXCEPT !.pc = "pushSet", !.d = t.ret \o Cur(f).d, !.currv = t.currv]
    BY <1>2 DEF After
  <2>2. /\ t.ret \in Strings /\ t.currv \in Versions
        /\ t.currv = 0 \/ t.currv \in Fields(r.hash) \/ (t.currv = f.currv /\ t.ret = <<>>)
    BY <1>0, GetResultsType
  <2>3. t.ret \o Cur(f).d \in Strings
    BY <1>0, <2>2, ConcatProperties DEF Strings
  <2>4. <<>> \o Cur(f).d = Cur(f).d
    BY <1>0, ConcatEmptySeq DEF Strings
  <2>5. g \in HandlerStates
    BY <2>1, <2>2, <2>3 DEF HandlerStates, PCs, AtRedis
  <2>6. /\ g.pc = "pushSet" /\ g.infos = f.infos /\ g.idx = f.idx
        /\ g.currv = t.currv /\ g.d = t.ret \o Cur(f).d
    BY <2>1 DEF HandlerStates
  <2> QED
    BY <2>2, <2>4, <2>5, <2>6 DEF InLoop, More, Cur
<1>3. CASE f.pc = "pushSet"
  <2>1. g = [f EXCEPT !.pc = "pushGet", !.idx = f.idx + 1, !.d = <<>>]
    BY <1>3 DEF After
  <2>2. g \in HandlerStates
    <3>1. f.idx + 1 \in Nat \ {0}
      BY <1>0
    <3> QED
      BY <1>0, <2>1, <3>1 DEF HandlerStates, PCs, AtRedis
  <2> QED
    BY <2>1, <2>2 DEF InLoop, HandlerStates
<1> QED
  BY <1>1, <1>2, <1>3 DEF AtRedis
-----------------------------------------------------------------------------
(* The inductive invariant.                                                 *)

\* The version a handler carries is 0 or one Redis has.
KnownVersion(f) == f.currv = 0 \/ f.currv \in AllVersions(db)

\* A push about to write a merged value has read its version from the hash it
\* is about to write to, unless replies were mixed up.
ReadVersion(f) ==
  (f.pc = "pushSet" /\ ~mixed /\ f.currv > 0 /\ f.d # Cur(f).d) =>
    f.currv \in Fields(db[FmtKey(Cur(f).id)])

Inv == /\ TypeOK
       /\ \A h \in Handlers : InLoop(fs[h]) /\ KnownVersion(fs[h]) /\ ReadVersion(fs[h])

\* A bigger database has at least the versions of the smaller one.
LEMMA GrowsFields ==
  ASSUME NEW D \in Dbs, NEW E \in Dbs, Grows(D, E)
  PROVE  /\ \A hk \in HashKeys : Fields(D[hk]) \subseteq Fields(E[hk])
         /\ AllVersions(D) \subseteq AllVersions(E)
BY DEF Grows, Fields, AllVersions, Dbs, Hash

\* A handler without a request is a handler.
LEMMA IdleSound == Idle \in HandlerStates /\ Idle.currv = 0 /\ Idle.pc = "idle"
<1>1. SomeSlot \in Slots
  BY ServerAssumption DEF SomeSlot
<1>2. NoRsp \in Rsps
  BY DEF NoRsp, Rsps
<1>3. <<>> \in Seq(Infos) /\ <<>> \in Infos /\ <<>> \in Strings /\ 1 \in Nat \ {0}
  BY DEF Infos, Strings
<1>4. 0 \in Versions /\ "idle" \in PCs /\ "Unknow" \in MsgTypes
  BY RedisAssumption DEF PCs, Waiting, MsgTypes
<1> QED
  BY <1>1, <1>2, <1>3, <1>4 DEF Idle, HandlerStates

\* The invariant of a state whose handlers are sound; used for every step that
\* leaves Redis alone and moves one handler.
LEMMA OneHandlerMoves ==
  ASSUME Inv, NEW h \in Handlers, NEW g \in HandlerStates,
         Goto(h, g), UNCHANGED <<proc, db, mixed>>,
         InLoop(g), g.pc # "pushSet", g.currv \in {0, fs[h].currv},
         cache' \in Seq([key : Keys, val : Strings]),
         ctx' \in [Slots -> {"open", "freed"}],
         suspect' \subseteq Keys
  PROVE  Inv'
<1>1. fs' \in [Handlers -> HandlerStates] /\ fs'[h] = g
      /\ \A j \in Handlers \ {h} : fs'[j] = fs[j]
  BY DEF Goto, Inv, TypeOK
<1>2. TypeOK'
  BY <1>1 DEF Inv, TypeOK
<1>3. ASSUME NEW j \in Handlers
      PROVE  InLoop(fs[j])' /\ KnownVersion(fs[j])' /\ ReadVersion(fs[j])'
  <2>1. CASE j = h
    BY <1>1, <2>1 DEF Inv, InLoop, More, KnownVersion, ReadVersion
  <2>2. CASE j # h
    <3>1. fs'[j] = fs[j] /\ db' = db /\ mixed' = mixed
      BY <1>1, <2>2
    <3> QED
      BY <3>1 DEF Inv, InLoop, More, KnownVersion, ReadVersion, Cur
  <2> QED
    BY <2>1, <2>2
<1> QED
  BY <1>2, <1>3 DEF Inv
-----------------------------------------------------------------------------
(* The callbacks that leave Redis alone.                                    *)

\* A new request (FsHandler::onRequest) keeps the invariant and leaves Redis alone.
LEMMA OnRequestInv ==
  ASSUME Inv, NEW h \in Handlers, NEW r \in Requests, OnRequest(h, r)
  PROVE  Inv'
<1> DEFINE g == [Idle EXCEPT !.pc = "open", !.type = TypeOfUrl(r.url), !.body = r.body]
<1>1. TypeOfUrl(r.url) \in MsgTypes
  BY DEF TypeOfUrl, MsgTypes
<1>2. r.body \in Seq(Infos)
  BY ServerAssumption
<1>3. g \in HandlerStates /\ g.pc = "open" /\ g.currv = 0
  BY <1>1, <1>2, IdleSound DEF HandlerStates, PCs, Waiting
<1>4. Goto(h, g) /\ UNCHANGED <<proc, db, cache, ctx, mixed, suspect>>
  BY DEF OnRequest
<1> HIDE DEF g
<1>5. InLoop(g)
  BY <1>3 DEF InLoop
<1> QED
  BY <1>3, <1>4, <1>5, OneHandlerMoves DEF Inv, TypeOK

\* Decoding a chunk (the start of onBody) keeps the invariant: a push begins with
\* currv = 0, whatever the chunk before it had left.
LEMMA OnBodyInv ==
  ASSUME Inv, NEW h \in Handlers, OnBody(h)
  PROVE  Inv'
<1> DEFINE f == fs[h]
           infos == Decode(f.type, Head(f.body))
           g == [f EXCEPT !.body = Tail(@), !.infos = infos, !.idx = 1, !.d = <<>>,
                          !.currv = 0, !.seen = @ \o infos]
<1>1. f \in HandlerStates /\ f.pc = "open" /\ f.body # <<>> /\ UNCHANGED <<proc, db, cache, ctx, mixed, suspect>>
  BY DEF OnBody, Inv, TypeOK
<1>2. f.body \in Seq(Infos) /\ f.type \in MsgTypes /\ f.seen \in Infos /\ f.rsp \in Rsps
  BY <1>1 DEF HandlerStates
<1> HIDE DEF f
<1>3. Head(f.body) \in Infos /\ Tail(f.body) \in Seq(Infos)
  BY <1>1, <1>2, HeadTailProperties
<1>4. infos \in Infos
  BY <1>2, <1>3, DecodeType
<1> HIDE DEF infos
<1>5. f.seen \o infos \in Infos
  BY <1>2, <1>4, ConcatProperties DEF Infos
<1>6. <<>> \in Strings /\ 0 \in Versions /\ 1 \in Nat \ {0}
  BY RedisAssumption DEF Strings
<1>7. g \in HandlerStates /\ g.pc = "open" /\ g.currv = 0 /\ g.rsp = f.rsp
  BY <1>1, <1>3, <1>4, <1>5, <1>6 DEF HandlerStates
<1>8. Merge(f.rsp, EncodeRsp(f.type, infos, 1)) \in Rsps
  BY <1>2, <1>4, RspType, MergeType
<1>9. PICK n \in HandlerStates : Goto(h, n) /\ n.pc \in {"open", "pull", "del", "pushGet"} /\ n.currv = 0
  <2> DEFINE n1 == [g EXCEPT !.rsp = Merge(@, EncodeRsp(f.type, infos, 1))]
             n2 == [g EXCEPT !.pc = "pull"]
             n3 == [g EXCEPT !.pc = "del"]
             n4(s) == [g EXCEPT !.pc = "pushGet", !.inst = s]
  <2>1. Goto(h, n1) \/ Goto(h, n2) \/ Goto(h, n3) \/ \E s \in Slots : Goto(h, n4(s))
    BY DEF OnBody, f, infos
  <2> HIDE DEF g
  <2>2. n1 \in HandlerStates /\ n1.pc = "open" /\ n1.currv = 0
    BY <1>7, <1>8 DEF HandlerStates
  <2>3. n2 \in HandlerStates /\ n2.pc = "pull" /\ n2.currv = 0
    BY <1>7 DEF HandlerStates, PCs
  <2>4. n3 \in HandlerStates /\ n3.pc = "del" /\ n3.currv = 0
    BY <1>7 DEF HandlerStates, PCs
  <2>5. \A s \in Slots : n4(s) \in HandlerStates /\ n4(s).pc = "pushGet" /\ n4(s).currv = 0
    BY <1>7 DEF HandlerStates, PCs, AtRedis
  <2> HIDE DEF n1, n2, n3, n4
  <2> QED
    BY <2>1, <2>2, <2>3, <2>4, <2>5
<1>10. InLoop(n)
  BY <1>9 DEF InLoop
<1> QED
  BY <1>1, <1>9, <1>10, OneHandlerMoves DEF Inv, TypeOK

\* setPullData keeps a handler a handler.
LEMMA PullDataType ==
  ASSUME NEW f \in HandlerStates, More(f), NEW d \in Strings
  PROVE  /\ PullData(f, d) \in HandlerStates
         /\ PullData(f, d).pc = "pull" /\ PullData(f, d).currv = f.currv
<1> DEFINE S == [id : Keys, d : Strings]
           e == [Cur(f) EXCEPT !.d = d]
           infos == [f.infos EXCEPT ![f.idx] = e]
<1>1. e \in S /\ f.idx \in 1..Len(f.infos) /\ f.infos \in Seq(S)
  BY CurType DEF HandlerStates, Infos
<1> HIDE DEF S, e
<1>2. infos \in Seq(S)
  BY <1>1, ExceptSeq
<1> HIDE DEF infos
<1>3. /\ infos \in Infos /\ f.idx + 1 \in Nat \ {0} /\ <<>> \in Strings /\ SomeSlot \in Slots
  BY <1>2, ServerAssumption DEF S, Infos, HandlerStates, Strings, SomeSlot
<1>4. PullData(f, d) = [f EXCEPT !.infos = infos, !.idx = f.idx + 1, !.pc = "pull",
                                 !.d = <<>>, !.inst = SomeSlot]
  BY DEF PullData, infos, e, Cur, HandlerStates
<1> QED
  BY <1>3, <1>4, ZenonT(60) DEF HandlerStates, PCs

\* The cache lookup of the pull loop keeps the invariant, hit or miss.
LEMMA PullCacheGetInv ==
  ASSUME Inv, NEW h \in Handlers, PullCacheGet(h)
  PROVE  Inv'
<1> DEFINE f == fs[h]
           k == Cur(f).id
           d == CacheGet(cache, k)
<1>1. f \in HandlerStates /\ More(f) /\ cache \in Seq([key : Keys, val : Strings])
  BY DEF PullCacheGet, Inv, TypeOK
<1>2. k \in Keys
  BY <1>1, CurType
<1>3. d \in Strings
  <2>1. <<>> \in Strings /\ cache \in Lists(Keys, Strings)
    BY <1>1 DEF Strings, Lists
  <2>2. k \in KeysOf(cache) => Peek(cache, k) \in Strings
    BY <2>1, PosOfKey
  <2> QED
    BY <2>1, <2>2 DEF CacheGet
<1>4. cache' \in Seq([key : Keys, val : Strings])
  <2>1. <<>> \in Strings /\ cache \in Lists(Keys, Strings)
    BY <1>1 DEF Strings, Lists
  <2>2. Find(cache, k) \in Lists(Keys, Strings)
    BY <1>2, <2>1, OperationTypes
  <2> QED
    BY <2>2 DEF PullCacheGet, Lists
<1>5. PICK n \in HandlerStates : Goto(h, n) /\ n.pc \in {"pull", "pullDb"} /\ n.currv = f.currv
                                 /\ (n.pc = "pullDb" => More(n))
  <2>1. Goto(h, PullData(f, d)) \/ \E s \in Slots : Goto(h, [f EXCEPT !.pc = "pullDb", !.inst = s])
    BY DEF PullCacheGet
  <2> HIDE DEF d
  <2>2. ASSUME NEW s \in Slots
        PROVE  LET n == [f EXCEPT !.pc = "pullDb", !.inst = s]
               IN  n \in HandlerStates /\ n.pc = "pullDb" /\ n.currv = f.currv /\ More(n)
    BY <1>1 DEF HandlerStates, PCs, AtRedis, More
  <2> HIDE DEF f
  <2> QED
    BY <1>1, <1>3, <2>1, <2>2, PullDataType
<1>6. InLoop(n)
  BY <1>5 DEF InLoop
<1>7. UNCHANGED <<proc, db, ctx, mixed, suspect>>
  BY DEF PullCacheGet
<1> QED
  BY <1>4, <1>5, <1>6, <1>7, OneHandlerMoves DEF Inv, TypeOK

\* Storing what Redis returned in the cache keeps the invariant.
LEMMA PullCacheSetInv ==
  ASSUME Inv, NEW h \in Handlers, PullCacheSet(h)
  PROVE  Inv'
<1> DEFINE f == fs[h]
           n == PullData(f, f.d)
<1>1. f \in HandlerStates /\ More(f) /\ f.d \in Strings
  BY DEF PullCacheSet, Inv, TypeOK, InLoop, HandlerStates
<1>2. n \in HandlerStates /\ n.pc = "pull" /\ n.currv = f.currv
  BY <1>1, PullDataType
<1>3. cache' \in Seq([key : Keys, val : Strings])
  <2>1. Cur(f).id \in Keys /\ cache \in Lists(Keys, Strings)
    BY <1>1, CurType DEF Inv, TypeOK, Lists
  <2>2. Put(cache, Cur(f).id, f.d) \in Lists(Keys, Strings)
    BY <1>1, <2>1, OperationTypes
  <2> QED
    BY <2>2 DEF PullCacheSet, CacheSet, Lists
<1>4. Goto(h, n) /\ UNCHANGED <<proc, db, ctx, mixed, suspect>>
  BY DEF PullCacheSet
<1> HIDE DEF n
<1>5. InLoop(n)
  BY <1>2 DEF InLoop
<1> QED
  BY <1>2, <1>3, <1>4, <1>5, OneHandlerMoves DEF Inv, TypeOK

\* Returning from onBody keeps a handler a handler.
LEMMA ReturnType ==
  ASSUME NEW f \in HandlerStates
  PROVE  /\ Reply(f) \in Rsps
         /\ Return(f) \in HandlerStates /\ Return(f).pc = "open" /\ Return(f).currv = 0
<1>1. Reply(f) \in Rsps
  BY RspType, MergeType DEF Reply, HandlerStates
<1>2. f.type \in MsgTypes /\ f.body \in Seq(Infos) /\ f.seen \in Infos /\ "open" \in PCs
  BY DEF HandlerStates, PCs, Waiting
<1>3. Return(f) \in HandlerStates /\ Return(f).pc = "open" /\ Return(f).currv = 0
  BY <1>1, <1>2, IdleSound DEF Return, HandlerStates
<1> QED
  BY <1>1, <1>3

\* PullReply and DelReply.
LEMMA ReplyInv ==
  ASSUME Inv, NEW h \in Handlers, PullReply(h) \/ DelReply(h)
  PROVE  Inv'
<1> DEFINE n == Return(fs[h])
<1>1. n \in HandlerStates /\ n.pc = "open" /\ n.currv = 0
  BY ReturnType DEF Inv, TypeOK
<1>2. Goto(h, n) /\ UNCHANGED <<proc, db, cache, ctx, mixed, suspect>>
  BY DEF PullReply, DelReply
<1> HIDE DEF n
<1>3. InLoop(n)
  BY <1>1 DEF InLoop
<1> QED
  BY <1>1, <1>2, <1>3, OneHandlerMoves DEF Inv, TypeOK

\* The reply of a push, which frees its context and falls through, keeps the
\* invariant.
LEMMA PushReplyInv ==
  ASSUME Inv, NEW h \in Handlers, PushReply(h)
  PROVE  Inv'
<1> DEFINE f == fs[h]
           n == [f EXCEPT !.pc = "del", !.idx = 1, !.currv = 0, !.inst = SomeSlot,
                          !.rsp = Reply(f)]
<1>1. f \in HandlerStates /\ Reply(f) \in Rsps /\ SomeSlot \in Slots /\ 0 \in Versions
      /\ f.inst \in Slots
  BY ReturnType, ServerAssumption, RedisAssumption DEF Inv, TypeOK, SomeSlot, HandlerStates
<1>2. n \in HandlerStates /\ n.pc = "del" /\ n.currv = 0
  <2> HIDE DEF f
  <2>1. 1 \in Nat \ {0} /\ "del" \in PCs
    BY DEF PCs
  <2> QED
    BY <1>1, <2>1 DEF HandlerStates
<1>3. Goto(h, n) /\ UNCHANGED <<proc, db, cache, mixed, suspect>>
      /\ ctx' = [ctx EXCEPT ![f.inst] = "freed"]
  BY DEF PushReply
<1> HIDE DEF n
<1>4. InLoop(n)
  BY <1>2 DEF InLoop
<1>5. ctx' \in [Slots -> {"open", "freed"}]
  BY <1>1, <1>3 DEF Inv, TypeOK
<1> QED
  BY <1>2, <1>3, <1>4, <1>5, OneHandlerMoves DEF Inv, TypeOK

\* One CacheSpace::del keeps the invariant.
LEMMA DelStepInv ==
  ASSUME Inv, NEW h \in Handlers, DelStep(h)
  PROVE  Inv'
<1> DEFINE f == fs[h]
           n == [f EXCEPT !.idx = @ + 1]
<1>1. f \in HandlerStates /\ More(f) /\ f.pc = "del" /\ cache \in Lists(Keys, Strings)
  BY DEF DelStep, Inv, TypeOK, Lists
<1>2. Cur(f).id \in Keys /\ f.idx + 1 \in Nat \ {0} /\ <<>> \in Strings
  BY <1>1, CurType DEF HandlerStates, Strings
<1>3. n \in HandlerStates /\ n.pc = "del" /\ n.currv = f.currv
  BY <1>1, <1>2 DEF HandlerStates
<1>4. Erase(cache, Cur(f).id) \in Lists(Keys, Strings)
  BY <1>1, <1>2, OperationTypes
<1>5. Goto(h, n) /\ UNCHANGED <<proc, db, ctx, mixed>> /\ suspect' \subseteq suspect
      /\ cache' = Erase(cache, Cur(f).id)
  BY DEF DelStep, CacheDel
<1> HIDE DEF n
<1>6. InLoop(n)
  BY <1>3 DEF InLoop
<1>7. cache' \in Seq([key : Keys, val : Strings]) /\ suspect' \subseteq Keys
  BY <1>4, <1>5 DEF Lists, Inv, TypeOK
<1> QED
  BY <1>3, <1>5, <1>6, <1>7, OneHandlerMoves DEF Inv, TypeOK

\* onEOM, requestComplete and onError.
LEMMA CloseInv ==
  ASSUME Inv, NEW h \in Handlers, OnEOM(h) \/ RequestComplete(h) \/ OnError(h)
  PROVE  Inv'
<1> DEFINE n1 == [fs[h] EXCEPT !.pc = "eom"]
<1>1. fs[h] \in HandlerStates
  BY DEF Inv, TypeOK
<1>2. n1 \in HandlerStates /\ n1.pc = "eom" /\ n1.currv = fs[h].currv
  BY <1>1 DEF HandlerStates, PCs, Waiting
<1>3. PICK n \in {n1, Idle} : Goto(h, n) /\ UNCHANGED <<proc, db, cache, ctx, mixed, suspect>>
  BY DEF OnEOM, RequestComplete, OnError
<1> HIDE DEF n1
<1>4. n \in HandlerStates /\ n.pc \in {"eom", "idle"} /\ n.currv \in {0, fs[h].currv}
  BY <1>2, <1>3, IdleSound
<1>5. InLoop(n)
  BY <1>4 DEF InLoop
<1> QED
  BY <1>3, <1>4, <1>5, OneHandlerMoves DEF Inv, TypeOK
-----------------------------------------------------------------------------
(* The steps that reach Redis, and the end of the process.                  *)

\* Keys written or read wrongly are keys.
LEMMA SuspectType == \A D, E, k : Touched(D, E) \subseteq Keys /\ Aliases(k) \subseteq Keys
BY DEF Touched, Aliases

\* A handler that does not move stays as it was while Redis grows.
LEMMA OthersStay ==
  ASSUME Inv, NEW j \in Handlers, fs'[j] = fs[j], (mixed' = mixed) \/ mixed',
         db' \in Dbs, Grows(db, db')
  PROVE  InLoop(fs[j])' /\ KnownVersion(fs[j])' /\ ReadVersion(fs[j])'
<1> DEFINE f == fs[j]
<1>1. InLoop(f) /\ KnownVersion(f) /\ ReadVersion(f) /\ f \in HandlerStates /\ db \in Dbs
  BY DEF Inv, TypeOK, Dbs
<1>2. /\ \A hk \in HashKeys : Fields(db[hk]) \subseteq Fields(db'[hk])
      /\ AllVersions(db) \subseteq AllVersions(db')
  BY <1>1, GrowsFields
<1>3. InLoop(fs[j])'
  BY <1>1 DEF InLoop, More
<1>4. KnownVersion(fs[j])'
  BY <1>1, <1>2 DEF KnownVersion
<1>5. ReadVersion(fs[j])'
  <2> SUFFICES ASSUME f.pc = "pushSet", ~mixed', f.currv > 0, f.d # Cur(f).d
               PROVE  f.currv \in Fields(db'[FmtKey(Cur(f).id)])
    BY DEF ReadVersion, Cur
  <2>1. f.currv \in Fields(db[FmtKey(Cur(f).id)])
    BY <1>1 DEF ReadVersion
  <2>2. FmtKey(Cur(f).id) \in HashKeys
    BY <1>1, CurType, FmtKeyType DEF InLoop
  <2> QED
    BY <1>2, <2>1, <2>2
<1> QED
  BY <1>3, <1>4, <1>5

\* A command answered with its own reply keeps the invariant; Redis only grows,
\* by 0 or by a version it already has (DBInst::get and set).
LEMMA RedisCommandInv ==
  ASSUME Inv, NEW h \in Handlers, NEW pc \in AtRedis, RedisCommand(h, pc)
  PROVE  /\ Inv' /\ Grows(db, db')
         /\ AllVersions(db') \subseteq AllVersions(db) \cup {0}
<1> DEFINE f == fs[h]
           hk == FmtKey(Cur(f).id)
<1>1. f \in HandlerStates /\ f.pc \in AtRedis /\ More(f) /\ db \in Dbs /\ hk \in HashKeys
  <2>1. f \in HandlerStates /\ f.pc \in AtRedis /\ More(f) /\ db \in Dbs
    BY DEF RedisCommand, InRedis, Inv, TypeOK, Dbs, InLoop, AtRedis
  <2> QED
    BY <2>1, CurType, FmtKeyType
<1>2. PICK o \in Exec(db, f) : \E g \in After(f, o.reply) : db' = o.db /\ Goto(h, g)
  BY DEF RedisCommand
<1>3. PICK g \in After(f, o.reply) : db' = o.db /\ Goto(h, g)
  BY <1>2
<1>4. /\ db' \in Dbs /\ o.reply \in Replies /\ Grows(db, db')
      /\ AllVersions(db') \subseteq AllVersions(db) \cup {f.currv}
      /\ Fields(o.reply.hash) \subseteq Fields(db[hk])
  BY <1>1, <1>3, ExecFacts
<1>5. /\ g \in HandlerStates /\ InLoop(g)
      /\ g.currv = 0 \/ g.currv \in Fields(o.reply.hash) \/ g.currv = f.currv
      /\ g.pc = "pushSet" => /\ Cur(g) = Cur(f)
                             /\ \/ g.currv = 0 \/ g.currv \in Fields(o.reply.hash)
                                \/ g.d = Cur(g).d
  BY <1>1, <1>3, <1>4, AfterFacts
<1>6. UNCHANGED <<proc, cache, ctx, mixed>> /\ suspect' \subseteq Keys
  BY SuspectType DEF RedisCommand, Inv, TypeOK
<1>7. /\ fs' \in [Handlers -> HandlerStates] /\ fs'[h] = g
      /\ \A j \in Handlers \ {h} : fs'[j] = fs[j]
  BY <1>3, <1>5 DEF Goto, Inv, TypeOK
<1>8. /\ \A x \in HashKeys : Fields(db[x]) \subseteq Fields(db'[x])
      /\ AllVersions(db) \subseteq AllVersions(db')
  BY <1>1, <1>4, GrowsFields
<1>9. f.currv = 0 \/ f.currv \in AllVersions(db)
  BY DEF Inv, KnownVersion
<1>10. Fields(db[hk]) \subseteq AllVersions(db)
  BY <1>1 DEF AllVersions
<1>11. TypeOK'
  BY <1>4, <1>6, <1>7 DEF Inv, TypeOK, Dbs
<1>12. InLoop(fs[h])' /\ KnownVersion(fs[h])' /\ ReadVersion(fs[h])'
  <2> HIDE DEF f, hk
  <2>1. InLoop(fs[h])'
    BY <1>5, <1>7 DEF InLoop, More
  <2>2. KnownVersion(fs[h])'
    BY <1>4, <1>5, <1>7, <1>8, <1>9, <1>10 DEF KnownVersion
  <2>3. ReadVersion(fs[h])'
    <3> SUFFICES ASSUME g.pc = "pushSet", g.currv > 0, g.d # Cur(g).d
                 PROVE  g.currv \in Fields(db'[FmtKey(Cur(g).id)])
      BY <1>7 DEF ReadVersion, Cur
    <3>1. g.currv \in Fields(o.reply.hash) /\ Cur(g) = Cur(f)
      BY <1>5
    <3> QED
      BY <1>1, <1>4, <1>8, <3>1 DEF hk
  <2> QED
    BY <2>1, <2>2, <2>3
<1>13. ASSUME NEW j \in Handlers \ {h}
       PROVE  InLoop(fs[j])' /\ KnownVersion(fs[j])' /\ ReadVersion(fs[j])'
  BY <1>4, <1>6, <1>7, OthersStay
<1> QED
  BY <1>4, <1>9, <1>11, <1>12, <1>13 DEF Inv

\* Two commands whose replies are exchanged on a shared context keep the
\* invariant; each reply still shows only versions that Redis had.
LEMMA SwapRepliesInv ==
  ASSUME Inv, NEW h1 \in Handlers, NEW h2 \in Handlers, SwapReplies(h1, h2)
  PROVE  /\ Inv' /\ Grows(db, db') /\ mixed'
         /\ AllVersions(db') \subseteq AllVersions(db) \cup {0}
<1> DEFINE f1 == fs[h1]
           f2 == fs[h2]
<1>1. /\ f1 \in HandlerStates /\ f1.pc \in AtRedis /\ More(f1)
      /\ f2 \in HandlerStates /\ f2.pc \in AtRedis /\ More(f2)
      /\ db \in Dbs /\ h1 # h2
  BY DEF SwapReplies, InRedis, Inv, TypeOK, Dbs, InLoop, AtRedis
<1>2. PICK o1 \in Exec(db, f1) : \E o2 \in Exec(o1.db, f2) :
        \E g1 \in After(f1, o2.reply), g2 \in After(f2, o1.reply) :
          db' = o2.db /\ fs' = [fs EXCEPT ![h1] = g1, ![h2] = g2]
  BY DEF SwapReplies
<1>2a. PICK o2 \in Exec(o1.db, f2) :
        \E g1 \in After(f1, o2.reply), g2 \in After(f2, o1.reply) :
          db' = o2.db /\ fs' = [fs EXCEPT ![h1] = g1, ![h2] = g2]
  BY <1>2
<1>3. PICK g1 \in After(f1, o2.reply), g2 \in After(f2, o1.reply) :
        db' = o2.db /\ fs' = [fs EXCEPT ![h1] = g1, ![h2] = g2]
  BY <1>2a
<1> DEFINE D == o1.db
<1>4. /\ D \in Dbs /\ o1.reply \in Replies /\ Grows(db, D)
      /\ AllVersions(D) \subseteq AllVersions(db) \cup {f1.currv}
      /\ Fields(o1.reply.hash) \subseteq AllVersions(db)
  <2>1. FmtKey(Cur(f1).id) \in HashKeys
    BY <1>1, CurType, FmtKeyType
  <2>2. Fields(db[FmtKey(Cur(f1).id)]) \subseteq AllVersions(db)
    BY <2>1 DEF AllVersions
  <2> HIDE DEF f1
  <2> QED
    BY <1>1, <2>2, ExecFacts
<1>5. /\ db' \in Dbs /\ o2.reply \in Replies /\ Grows(D, db')
      /\ AllVersions(db') \subseteq AllVersions(D) \cup {f2.currv}
      /\ Fields(o2.reply.hash) \subseteq AllVersions(D)
  <2>1. FmtKey(Cur(f2).id) \in HashKeys
    BY <1>1, CurType, FmtKeyType
  <2>2. Fields(D[FmtKey(Cur(f2).id)]) \subseteq AllVersions(D)
    BY <2>1 DEF AllVersions
  <2> HIDE DEF f2
  <2> QED
    BY <1>1, <1>3, <1>4, <2>2, ExecFacts
<1>6. /\ g1 \in HandlerStates /\ InLoop(g1)
      /\ g1.currv = 0 \/ g1.currv \in Fields(o2.reply.hash) \/ g1.currv = f1.currv
      /\ g2 \in HandlerStates /\ InLoop(g2)
      /\ g2.currv = 0 \/ g2.currv \in Fields(o1.reply.hash) \/ g2.currv = f2.currv
  BY <1>1, <1>4, <1>5, AfterFacts
<1>7. f1.currv \in {0} \cup AllVersions(db) /\ f2.currv \in {0} \cup AllVersions(db)
  BY DEF Inv, KnownVersion
<1> HIDE DEF f1, f2, D
<1>8. Grows(db, db')
  <2>1. \A hk \in HashKeys : Fields(db[hk]) \subseteq Fields(D[hk])
    BY <1>1, <1>4, GrowsFields
  <2> QED
    BY <1>4, <1>5, <2>1 DEF Grows
<1>9. AllVersions(db) \subseteq AllVersions(D) /\ AllVersions(D) \subseteq AllVersions(db')
  BY <1>1, <1>4, <1>5, GrowsFields
<1>10. /\ fs' \in [Handlers -> HandlerStates] /\ fs'[h1] = g1 /\ fs'[h2] = g2
       /\ \A j \in Handlers \ {h1, h2} : fs'[j] = fs[j]
  BY <1>1, <1>3, <1>6 DEF Inv, TypeOK
<1>11. UNCHANGED <<proc, cache, ctx>> /\ mixed' = TRUE /\ suspect' \subseteq Keys
  BY SuspectType DEF SwapReplies, Inv, TypeOK
<1>12. TypeOK'
  BY <1>5, <1>10, <1>11 DEF Inv, TypeOK, Dbs
<1>13. ASSUME NEW j \in Handlers
       PROVE  InLoop(fs[j])' /\ KnownVersion(fs[j])' /\ ReadVersion(fs[j])'
  <2>1. CASE j = h1 \/ j = h2
    <3>1. fs'[j] \in {g1, g2}
      BY <1>10, <2>1
    <3>2. fs'[j].currv = 0 \/ fs'[j].currv \in AllVersions(db')
      BY <1>4, <1>5, <1>6, <1>7, <1>9, <3>1
    <3>3. InLoop(fs[j])'
      BY <1>6, <3>1 DEF InLoop, More
    <3> QED
      BY <1>11, <3>2, <3>3 DEF KnownVersion, ReadVersion
  <2>2. CASE j \notin {h1, h2}
    BY <1>5, <1>8, <1>10, <1>11, <2>2, OthersStay
  <2> QED
    BY <2>1, <2>2
<1>14. AllVersions(db') \subseteq AllVersions(db) \cup {0}
  BY <1>4, <1>5, <1>7
<1> QED
  BY <1>8, <1>11, <1>12, <1>13, <1>14 DEF Inv

\* A set by another client of Redis keeps the invariant and only adds a version.
LEMMA ExternalSetInv ==
  ASSUME Inv, NEW k \in Keys, NEW v \in ExtValues, NEW ver \in ExtVersions,
         ExternalSet(k, v, ver)
  PROVE  Inv' /\ Grows(db, db')
<1> DEFINE hk == FmtKey(k)
<1>1. hk \in HashKeys /\ db \in Dbs /\ v \in Strings /\ ver \in Versions
  BY FmtKeyType, ServerAssumption DEF Inv, TypeOK, Dbs
<1>2. PICK s \in FmtStr(v) : db' = [db EXCEPT ![hk] = HSetNX(db[hk], ver, s)]
  BY DEF ExternalSet
<1> HIDE DEF hk
<1>3. /\ HSetNX(db[hk], ver, s) \in Hash
      /\ \A w \in Fields(db[hk]) : HSetNX(db[hk], ver, s)[w] = db[hk][w]
  <2>1. db[hk] \in Hash /\ s \in Strings
    BY <1>1, FmtStrType DEF Dbs
  <2> QED
    BY <1>1, <2>1, HSetNXType
<1>4. db' \in Dbs /\ Grows(db, db')
  BY <1>1, <1>2, <1>3 DEF Dbs, Grows
<1>5. UNCHANGED <<proc, fs, cache, ctx, mixed>> /\ suspect' \subseteq Keys
  BY SuspectType DEF ExternalSet, Inv, TypeOK
<1>6. TypeOK'
  BY <1>4, <1>5 DEF Inv, TypeOK, Dbs
<1>7. \A j \in Handlers : InLoop(fs[j])' /\ KnownVersion(fs[j])' /\ ReadVersion(fs[j])'
  BY <1>4, <1>5, OthersStay
<1> QED
  BY <1>4, <1>6, <1>7 DEF Inv

\* The process ends, or nothing happens.
LEMMA EndInv ==
  ASSUME Inv, UNCHANGED <<fs, db, cache, ctx, mixed, suspect>>, proc' \in {"up"} \cup Ends
  PROVE  Inv'
<1>1. TypeOK'
  BY DEF Inv, TypeOK
<1>2. \A h \in Handlers : InLoop(fs[h])' /\ KnownVersion(fs[h])' /\ ReadVersion(fs[h])'
  BY DEF Inv, InLoop, More, KnownVersion, ReadVersion, Cur
<1> QED
  BY <1>1, <1>2 DEF Inv

\* The state of a new process.
Fresh == /\ fs = [h \in Handlers |-> Idle] /\ proc = "up" /\ db \in Dbs /\ cache = <<>>
         /\ ctx = [s \in Slots |-> "open"] /\ mixed = FALSE /\ suspect = {}

\* A new process, over whatever Redis holds, satisfies the invariant.
LEMMA FreshInv == Fresh => Inv
<1> SUFFICES ASSUME Fresh PROVE Inv
  OBVIOUS
<1>1. TypeOK
  <2>1. cache \in Seq([key : Keys, val : Strings])
    BY DEF Fresh
  <2>2. fs \in [Handlers -> HandlerStates] /\ ctx \in [Slots -> {"open", "freed"}]
    BY IdleSound DEF Fresh
  <2> QED
    BY <2>1, <2>2 DEF TypeOK, Dbs, Fresh
<1>2. \A h \in Handlers : InLoop(fs[h]) /\ KnownVersion(fs[h]) /\ ReadVersion(fs[h])
  BY IdleSound DEF InLoop, KnownVersion, ReadVersion, Fresh
<1> QED
  BY <1>1, <1>2 DEF Inv

\* A restart of the server keeps the invariant.
LEMMA RestartInv == Inv /\ Restart => Inv'
<1>1. Inv /\ Restart => Fresh'
  BY DEF Inv, TypeOK, Restart, Fresh, Dbs
<1> QED
  BY <1>1, FreshInv, PTL

\* Every step keeps the invariant and the stored versions, and a step of a
\* handler brings in no version that is neither 0 nor known.
LEMMA NextFacts ==
  ASSUME Inv, [Next]_vars
  PROVE  /\ Inv' /\ Grows(db, db')
         /\ fs' # fs => AllVersions(db') \subseteq AllVersions(db) \cup {0}
<1> DEFINE Goal == /\ Inv' /\ Grows(db, db')
                   /\ fs' # fs => AllVersions(db') \subseteq AllVersions(db) \cup {0}
<1>1. ASSUME Inv', UNCHANGED db PROVE Goal
  BY <1>1 DEF Grows
<1>2. ASSUME NEW h \in Handlers, NEW r \in Requests, OnRequest(h, r) PROVE Goal
  BY <1>1, <1>2, OnRequestInv DEF OnRequest
<1>3. ASSUME NEW h \in Handlers, Step(h) PROVE Goal
  <2>1. CASE OnBody(h)
    BY <1>1, <2>1, OnBodyInv DEF OnBody
  <2>2. CASE OnEOM(h) \/ RequestComplete(h)
    BY <1>1, <2>2, CloseInv DEF OnEOM, RequestComplete
  <2>3. CASE PullCacheGet(h)
    BY <1>1, <2>3, PullCacheGetInv DEF PullCacheGet
  <2>4. CASE PullDbGet(h) \/ PushDbGet(h) \/ PushDbSet(h)
    <3>1. PICK pc \in AtRedis : RedisCommand(h, pc)
      BY <2>4 DEF PullDbGet, PushDbGet, PushDbSet, AtRedis
    <3> QED
      BY <3>1, RedisCommandInv
  <2>5. CASE PullCacheSet(h)
    BY <1>1, <2>5, PullCacheSetInv DEF PullCacheSet
  <2>6. CASE PullReply(h) \/ DelReply(h)
    BY <1>1, <2>6, ReplyInv DEF PullReply, DelReply
  <2>7. CASE PushReply(h)
    BY <1>1, <2>7, PushReplyInv DEF PushReply
  <2>8. CASE DelStep(h)
    BY <1>1, <2>8, DelStepInv DEF DelStep
  <2>9. CASE UseFreed(h)
    BY <1>1, <2>9, EndInv DEF UseFreed, End, Ends
  <2> QED
    BY <1>3, <2>1, <2>2, <2>3, <2>4, <2>5, <2>6, <2>7, <2>8, <2>9 DEF Step
<1>4. ASSUME NEW h \in Handlers, OnError(h) PROVE Goal
  BY <1>1, <1>4, CloseInv DEF OnError
<1>5. ASSUME NEW h \in Handlers, NullReply(h) PROVE Goal
  BY <1>1, <1>5, EndInv DEF NullReply, End, Ends
<1>6. ASSUME NEW h1 \in Handlers, NEW h2 \in Handlers, SwapReplies(h1, h2) PROVE Goal
  BY <1>6, SwapRepliesInv
<1>7. ASSUME NEW h1 \in Handlers, NEW h2 \in Handlers, DataRace(h1, h2) PROVE Goal
  BY <1>1, <1>7, EndInv DEF DataRace, End, Ends
<1>8. ASSUME NEW k \in Keys, NEW v \in ExtValues, NEW ver \in ExtVersions,
             ExternalSet(k, v, ver)
      PROVE  Goal
  BY <1>8, ExternalSetInv DEF ExternalSet
<1>9. CASE Kill
  BY <1>1, <1>9, EndInv DEF Kill, End, Ends
<1>10. CASE Restart
  BY <1>1, <1>10, RestartInv DEF Restart
<1>11. CASE UNCHANGED vars
  BY <1>1, <1>11, EndInv DEF vars, Inv, TypeOK
<1>12. CASE Next
  <2>1. CASE \E h \in Handlers : \/ \E r \in Requests : OnRequest(h, r)
                                \/ Step(h) \/ OnError(h) \/ NullReply(h)
    BY <1>2, <1>3, <1>4, <1>5, <2>1
  <2>2. CASE \E h1, h2 \in Handlers : SwapReplies(h1, h2) \/ DataRace(h1, h2)
    BY <1>6, <1>7, <2>2
  <2>3. CASE \E k \in Keys, v \in ExtValues, ver \in ExtVersions : ExternalSet(k, v, ver)
    BY <1>8, <2>3
  <2> QED
    BY <1>9, <1>10, <1>12, <2>1, <2>2, <2>3 DEF Next
<1> QED
  BY <1>11, <1>12

\* The invariant holds in every state of the server.
LEMMA InvHolds == Spec => []Inv
<1>1. Init => Inv
  <2>1. NoHash \in Hash
    BY DEF NoHash, Hash
  <2>2. Init => Fresh
    BY <2>1 DEF Init, Fresh, Dbs
  <2> QED
    BY <2>2, FreshInv
<1>2. Inv /\ [Next]_vars => Inv'
  BY NextFacts
<1> QED
  BY <1>1, <1>2, PTL DEF Spec

-----------------------------------------------------------------------------
(* The theorems.                                                            *)

\* The server keeps its types: in particular every loop of onBody stays within
\* its infos, every hash key is in range and every cached value is a string,
\* whatever is mixed up, fails or crashes.
THEOREM TypeCorrect == Spec => []TypeOK
<1>1. Inv => TypeOK
  BY DEF Inv
<1> QED
  BY <1>1, InvHolds, PTL

\* No push, other writer, crash or mix-up of replies changes a stored version.
THEOREM VersionsStay == Spec => StoredVersionsStay
<1>1. Inv /\ [Next]_vars =>
        [\A hk \in HashKeys : \A v \in Fields(db[hk]) : db'[hk][v] = db[hk][v]]_vars
  BY NextFacts DEF Grows
<1> QED
  BY <1>1, InvHolds, PTL DEF Spec, StoredVersionsStay

\* The server never invents a version number.
THEOREM VersionsAreKnown == Spec => NoNewVersion
<1>1. Inv /\ [Next]_vars =>
        [fs' # fs => AllVersions(db') \subseteq AllVersions(db) \cup {0}]_vars
  BY NextFacts
<1> QED
  BY <1>1, InvHolds, PTL DEF Spec, NoNewVersion

\* A push that found a value with a version leaves Redis as it is: its HSETNX
\* goes to the field it has read, which is still there.
THEOREM MergesAreLost == Spec => MergedPushIsLost
<1> DEFINE Lost(h) == (/\ fs[h].pc = "pushSet" /\ fs'[h].pc = "pushGet"
                       /\ fs[h].currv > 0 /\ fs[h].d # Cur(fs[h]).d /\ ~mixed') => db' = db
<1>1. ASSUME Inv, Next, NEW h \in Handlers,
             fs[h].pc = "pushSet", fs'[h].pc = "pushGet",
             fs[h].currv > 0, fs[h].d # Cur(fs[h]).d, ~mixed'
      PROVE  db' = db
  <2>1. \A g \in Handlers, pc \in AtRedis : RedisCommand(g, pc) => db' = db
    <3> SUFFICES ASSUME NEW g \in Handlers, NEW pc \in AtRedis, RedisCommand(g, pc)
                 PROVE  db' = db
      OBVIOUS
    <3>1. g = h
      <4>1. PICK n : Goto(g, n)
        BY DEF RedisCommand
      <4> QED
        BY <1>1, <4>1 DEF Goto, Inv, TypeOK
    <3>2. /\ fs[h] \in HandlerStates /\ fs[h].pc \in AtRedis /\ More(fs[h]) /\ db \in Dbs
          /\ mixed' = mixed
      BY <1>1 DEF Inv, TypeOK, InLoop, Dbs, AtRedis, RedisCommand
    <3>3. fs[h].currv \in Fields(db[FmtKey(Cur(fs[h]).id)])
      BY <1>1, <3>2 DEF Inv, ReadVersion
    <3>4. PICK o \in Exec(db, fs[h]) : db' = o.db
      BY <3>1 DEF RedisCommand
    <3> QED
      BY <3>2, <3>3, <3>4, ExecFacts
  <2>2. CASE \E g \in Handlers : \/ \E r \in Requests : OnRequest(g, r)
                                \/ Step(g) \/ OnError(g) \/ NullReply(g)
    BY <2>1, <2>2 DEF OnRequest, Step, OnBody, OnEOM, RequestComplete, PullCacheGet,
                      PullDbGet, PullCacheSet, PullReply, PushDbGet, PushDbSet, PushReply,
                      DelStep, DelReply, UseFreed, End, OnError, NullReply, AtRedis
  <2>3. CASE \E h1, h2 \in Handlers : SwapReplies(h1, h2) \/ DataRace(h1, h2)
    BY <1>1, <2>3 DEF SwapReplies, DataRace, End
  <2>4. CASE \E k \in Keys, v \in ExtValues, ver \in ExtVersions : ExternalSet(k, v, ver)
    BY <1>1, <2>4 DEF ExternalSet
  <2>5. CASE Kill \/ Restart
    BY <2>5 DEF Kill, End, Restart
  <2> QED
    BY <1>1, <2>2, <2>3, <2>4, <2>5 DEF Next
<1>2. Inv /\ [Next]_vars => [\A h \in Handlers : Lost(h)]_vars
  BY <1>1
<1> QED
  BY <1>2, InvHolds, PTL DEF Spec, MergedPushIsLost

\* No push is being served and every context of the pool is connected.
PoolIntact == /\ proc # "freed"
              /\ \A h \in Handlers : /\ fs[h].type # "Push"
                                     /\ fs[h].pc \notin {"pushGet", "pushSet"}
              /\ \A s \in Slots : ctx[s] = "open"

\* A step of one handler that is not a push.
LEMMA QuietMove ==
  ASSUME Inv, PoolIntact, NEW h \in Handlers, NEW n, Goto(h, n), UNCHANGED <<proc, ctx>>,
         n.type # "Push", n.pc \notin {"pushGet", "pushSet"}
  PROVE  PoolIntact'
<1>1. fs'[h] = n /\ \A j \in Handlers \ {h} : fs'[j] = fs[j]
  BY DEF Goto, Inv, TypeOK
<1> QED
  BY <1>1 DEF PoolIntact

\* Without pushes nothing frees a context.
LEMMA PoolIntactStep ==
  ASSUME \A r \in Requests : r.url # "/push", Inv, PoolIntact, [Next]_vars
  PROVE  PoolIntact'
<1>0. ASSUME NEW h \in Handlers
      PROVE  /\ fs[h] \in HandlerStates /\ fs[h].type # "Push"
             /\ fs[h].pc \notin {"pushGet", "pushSet"} /\ ctx[fs[h].inst] = "open"
  BY DEF Inv, TypeOK, PoolIntact, HandlerStates
<1>1. ASSUME NEW h \in Handlers, NEW r \in Requests, OnRequest(h, r) PROVE PoolIntact'
  <2> DEFINE n == [Idle EXCEPT !.pc = "open", !.type = TypeOfUrl(r.url), !.body = r.body]
  <2>1. TypeOfUrl(r.url) # "Push"
    BY DEF TypeOfUrl
  <2>2. n.type # "Push" /\ n.pc = "open"
    BY <2>1 DEF Idle
  <2>3. Goto(h, n) /\ UNCHANGED <<proc, ctx>>
    BY <1>1 DEF OnRequest
  <2> HIDE DEF n
  <2> QED
    BY <2>2, <2>3, QuietMove
<1>2. ASSUME NEW h \in Handlers, OnBody(h) PROVE PoolIntact'
  <2>1. PICK n : Goto(h, n) /\ n.type = fs[h].type /\ n.pc \in {"open", "pull", "del"}
    <3> DEFINE f == fs[h]
               infos == Decode(f.type, Head(f.body))
               g == [f EXCEPT !.body = Tail(@), !.infos = infos, !.idx = 1, !.d = <<>>,
                              !.currv = 0, !.seen = @ \o infos]
               n1 == [g EXCEPT !.rsp = Merge(@, EncodeRsp(f.type, infos, 1))]
               n2 == [g EXCEPT !.pc = "pull"]
               n3 == [g EXCEPT !.pc = "del"]
    <3>1. (f.pc = "open" /\ Goto(h, n1)) \/ Goto(h, n2) \/ Goto(h, n3)
      BY <1>0, <1>2 DEF OnBody
    <3>2. n1.type = f.type /\ n1.pc = f.pc
      BY <1>0 DEF HandlerStates
    <3>3. n2.type = f.type /\ n2.pc = "pull"
      BY <1>0 DEF HandlerStates
    <3>4. n3.type = f.type /\ n3.pc = "del"
      BY <1>0 DEF HandlerStates
    <3> HIDE DEF n1, n2, n3, f
    <3> QED
      BY <3>1, <3>2, <3>3, <3>4 DEF f
  <2> QED
    BY <1>0, <1>2, <2>1, QuietMove DEF OnBody
<1>3. ASSUME NEW h \in Handlers, PullCacheGet(h) \/ PullCacheSet(h) PROVE PoolIntact'
  <2>1. PICK n : Goto(h, n) /\ n.type = fs[h].type /\ n.pc \in {"pull", "pullDb"}
    <3> DEFINE n2(s) == [fs[h] EXCEPT !.pc = "pullDb", !.inst = s]
    <3>1. (\E d : Goto(h, PullData(fs[h], d))) \/ (\E s : Goto(h, n2(s)))
      BY <1>3 DEF PullCacheGet, PullCacheSet
    <3>2. \A d : PullData(fs[h], d).type = fs[h].type /\ PullData(fs[h], d).pc = "pull"
      BY <1>0 DEF PullData, HandlerStates
    <3>3. \A s : n2(s).type = fs[h].type /\ n2(s).pc = "pullDb"
      BY <1>0 DEF HandlerStates
    <3> HIDE DEF n2
    <3> QED
      BY <3>1, <3>2, <3>3
  <2> QED
    BY <1>0, <1>3, <2>1, QuietMove DEF PullCacheGet, PullCacheSet
<1>4. ASSUME NEW h \in Handlers, PullDbGet(h) PROVE PoolIntact'
  <2>1. PICK n : Goto(h, n) /\ n.type = fs[h].type /\ n.pc = "pullSet"
    BY <1>0, <1>4, ZenonT(40) DEF PullDbGet, RedisCommand, After, HandlerStates
  <2> QED
    BY <1>0, <1>4, <2>1, QuietMove DEF PullDbGet, RedisCommand
<1>5. ASSUME NEW h \in Handlers, PullReply(h) \/ DelReply(h) PROVE PoolIntact'
  <2>1. Goto(h, Return(fs[h])) /\ UNCHANGED <<proc, ctx>>
    BY <1>5 DEF PullReply, DelReply
  <2>2. Return(fs[h]).type = fs[h].type /\ Return(fs[h]).pc = "open"
    BY DEF Return, Idle
  <2> QED
    BY <1>0, <2>1, <2>2, QuietMove
<1>6. ASSUME NEW h \in Handlers, DelStep(h) PROVE PoolIntact'
  <2>1. PICK n : Goto(h, n) /\ n.type = fs[h].type /\ n.pc = "del"
    BY <1>0, <1>6 DEF DelStep, HandlerStates
  <2> QED
    BY <1>0, <1>6, <2>1, QuietMove DEF DelStep
<1>7. ASSUME NEW h \in Handlers, OnEOM(h) \/ RequestComplete(h) \/ OnError(h) PROVE PoolIntact'
  <2>1. PICK n : Goto(h, n) /\ n.type \in {fs[h].type, "Unknow"} /\ n.pc \in {"eom", "idle"}
    BY <1>0, <1>7 DEF OnEOM, RequestComplete, OnError, Idle, HandlerStates
  <2> QED
    BY <1>0, <1>7, <2>1, QuietMove DEF OnEOM, RequestComplete, OnError
<1>8. ASSUME NEW h \in Handlers,
             PushDbGet(h) \/ PushDbSet(h) \/ PushReply(h) \/ UseFreed(h)
      PROVE  FALSE
  BY <1>0, <1>8 DEF PushDbGet, PushDbSet, RedisCommand, PushReply, UseFreed
<1>9. ASSUME NEW h1 \in Handlers, NEW h2 \in Handlers, SwapReplies(h1, h2) PROVE PoolIntact'
  <2> DEFINE f1 == fs[h1]
             f2 == fs[h2]
  <2>1. f1.pc = "pullDb" /\ f2.pc = "pullDb"
    BY <1>0, <1>9 DEF SwapReplies, InRedis, AtRedis
  <2>2. PICK n1, n2 : /\ fs' = [fs EXCEPT ![h1] = n1, ![h2] = n2]
                      /\ n1.type = f1.type /\ n1.pc = "pullSet"
                      /\ n2.type = f2.type /\ n2.pc = "pullSet"
    <3>1. \A f \in {f1, f2} : \A r : \A g \in After(f, r) : g.type = f.type /\ g.pc = "pullSet"
      BY <1>0, <2>1, ZenonT(40) DEF After, HandlerStates
    <3>2. PICK o1 \in Exec(db, f1) : \E o2 \in Exec(o1.db, f2) :
            \E g1 \in After(f1, o2.reply), g2 \in After(f2, o1.reply) :
              fs' = [fs EXCEPT ![h1] = g1, ![h2] = g2]
      BY <1>9, ZenonT(40) DEF SwapReplies
    <3>3. PICK o2 \in Exec(o1.db, f2) :
            \E g1 \in After(f1, o2.reply), g2 \in After(f2, o1.reply) :
              fs' = [fs EXCEPT ![h1] = g1, ![h2] = g2]
      BY <3>2
    <3> HIDE DEF f1, f2
    <3> QED
      BY <3>1, <3>3
  <2>3. UNCHANGED <<proc, ctx>>
    BY <1>9 DEF SwapReplies
  <2> QED
    BY <1>0, <2>2, <2>3 DEF PoolIntact, Inv, TypeOK
<1>10. CASE UNCHANGED vars \/ (UNCHANGED <<fs, ctx>> /\ proc' \in {proc, "null", "raced", "killed"})
  BY <1>10 DEF PoolIntact, vars
<1>11. CASE Restart
  BY <1>11 DEF Restart, PoolIntact, Idle
<1>12. ASSUME NEW h \in Handlers, Step(h) PROVE PoolIntact'
  BY <1>2, <1>3, <1>4, <1>5, <1>6, <1>7, <1>8, <1>12 DEF Step
<1>13. CASE Next
  <2>1. CASE \E h \in Handlers : \/ \E r \in Requests : OnRequest(h, r)
                                \/ Step(h) \/ OnError(h) \/ NullReply(h)
    BY <1>1, <1>7, <1>10, <1>12, <2>1 DEF NullReply, End
  <2>2. CASE \E h1, h2 \in Handlers : SwapReplies(h1, h2) \/ DataRace(h1, h2)
    BY <1>9, <1>10, <2>2 DEF DataRace, End
  <2>3. CASE \E k \in Keys, v \in ExtValues, ver \in ExtVersions : ExternalSet(k, v, ver)
    BY <1>10, <2>3 DEF ExternalSet
  <2>4. CASE Kill
    BY <1>10, <2>4 DEF Kill, End
  <2> QED
    BY <1>11, <1>13, <2>1, <2>2, <2>3, <2>4 DEF Next
<1> QED
  BY <1>10, <1>13

\* A server that is sent no push never uses a freed context: only the copy of a
\* pooled DBInst that a push makes frees one (Service.cpp:82).
THEOREM PullsNeverUseFreed ==
  ASSUME \A r \in Requests : r.url # "/push"
  PROVE  Spec => []NeverUsesFreed
<1>1. Init => PoolIntact
  BY DEF Init, PoolIntact, Idle
<1>2. Inv /\ PoolIntact /\ [Next]_vars => PoolIntact'
  BY PoolIntactStep
<1>3. PoolIntact => NeverUsesFreed
  BY DEF PoolIntact, NeverUsesFreed
<1> QED
  BY <1>1, <1>2, <1>3, InvHolds, PTL DEF Spec

-----------------------------------------------------------------------------
(* What the cache holds: each copy of a stored value, cached or on its way    *)
(* into the cache, is followed from the Redis reply it comes from.            *)

\* The strings a get for k may have returned, now or since the hash exists.
Newest(D, k) == {<<>>} \cup {CStr(D[FmtKey(k)][v]) : v \in Latest(D[FmtKey(k)])}
Known(D, k)  == {<<>>} \cup {CStr(D[FmtKey(k)][v]) : v \in Fields(D[FmtKey(k)])}

\* s is empty or a value Redis D has for k, if no replies have been mixed up (mx).
Honest(D, mx, k, s) == ~mx => s \in Known(D, k)

\* s is an honest copy, and the newest one if k is not among the suspects sus.
TrueCopy(D, mx, sus, k, s) == /\ k \notin sus => s \in Newest(D, k)
                              /\ Honest(D, mx, k, s)

\* Every entry of the cache, and every value about to become one, is a true copy.
CopiesTrue ==
  /\ Unique(cache) /\ Len(cache) <= MaxSize
  /\ \A k \in KeysOf(cache) : TrueCopy(db, mixed, suspect, k, Peek(cache, k))
  /\ \A h \in Handlers :
       fs[h].pc = "pullSet" => TrueCopy(db, mixed, suspect, Cur(fs[h]).id, fs[h].d)

PullPCs == {"pull", "pullDb", "pullSet"}

\* A pull: what it has answered and the infos of the chunk it is at are, in order,
\* the infos it was sent, and all their data are honest.
PullSound(D, mx, f) ==
  /\ f.pc \in PullPCs => f.type = "Pull"
  /\ f.type = "Pull" =>
       /\ f.pc \in Waiting \cup PullPCs
       /\ f.pc \in Waiting => f.infos = <<>>
       /\ Len(f.rsp.data) + Len(f.infos) = Len(f.seen)
       /\ \A i \in 1..Len(f.rsp.data) : Honest(D, mx, f.seen[i].id, f.rsp.data[i])
       /\ \A i \in 1..Len(f.infos) : /\ f.seen[Len(f.rsp.data) + i].id = f.infos[i].id
                                     /\ Honest(D, mx, f.infos[i].id, f.infos[i].d)

PullsSound == \A h \in Handlers : PullSound(db, mixed, fs[h])
-----------------------------------------------------------------------------
(* The operators on copies.                                                 *)

\* The newest value is one of the values.
LEMMA NewestIsKnown == \A D, k : Newest(D, k) \subseteq Known(D, k)
BY DEF Newest, Known, Latest

\* Redis keeps every value it has had for a key.
LEMMA KnownGrows ==
  ASSUME NEW D \in Dbs, NEW E \in Dbs, Grows(D, E), NEW k \in Keys
  PROVE  Known(D, k) \subseteq Known(E, k)
<1> DEFINE hk == FmtKey(k)
<1>1. hk \in HashKeys
  BY FmtKeyType
<1> HIDE DEF hk
<1>2. Fields(D[hk]) \subseteq Fields(E[hk]) /\ \A v \in Fields(D[hk]) : E[hk][v] = D[hk][v]
  BY <1>1, GrowsFields DEF Grows
<1> QED
  BY <1>2 DEF Known, hk

\* An honest string stays honest: Redis only grows, and a mix-up is remembered.
LEMMA HonestStays ==
  ASSUME NEW D \in Dbs, NEW E \in Dbs, Grows(D, E), NEW mx, NEW my, mx => my,
         NEW k \in Keys, NEW s, Honest(D, mx, k, s)
  PROVE  Honest(E, my, k, s)
BY KnownGrows DEF Honest

\* The infos of a handler are infos.
LEMMA InfosType ==
  ASSUME NEW f \in HandlerStates
  PROVE  /\ f.infos \in Infos /\ f.seen \in Infos /\ f.rsp.data \in Seq(Strings)
         /\ Len(f.infos) \in Nat /\ Len(f.seen) \in Nat /\ Len(f.rsp.data) \in Nat
         /\ \A i \in 1..Len(f.infos) : f.infos[i].id \in Keys /\ f.infos[i].d \in Strings
         /\ \A i \in 1..Len(f.seen) : f.seen[i].id \in Keys
<1> DEFINE S == [id : Keys, d : Strings]
<1>1. f.infos \in Seq(S) /\ f.seen \in Seq(S) /\ f.rsp.data \in Seq(Strings)
  BY DEF HandlerStates, Infos, Rsps
<1>2. ASSUME NEW q \in Seq(S)
      PROVE  Len(q) \in Nat /\ \A i \in 1..Len(q) : q[i] \in S
  <2> HIDE DEF S
  <2> QED
    BY LenProperties, ElementOfSeq
<1>3. Len(f.rsp.data) \in Nat
  BY <1>1, LenProperties
<1>4. \A e \in S : e.id \in Keys /\ e.d \in Strings
  OBVIOUS
<1> QED
  BY <1>1, <1>2, <1>3, <1>4 DEF Infos

\* A sound pull stays sound while others write to Redis.
LEMMA PullSoundGrows ==
  ASSUME NEW f \in HandlerStates, NEW D \in Dbs, NEW E \in Dbs, Grows(D, E),
         NEW mx, NEW my, mx => my, PullSound(D, mx, f)
  PROVE  PullSound(E, my, f)
<1>1. /\ Len(f.infos) \in Nat /\ Len(f.seen) \in Nat /\ Len(f.rsp.data) \in Nat
      /\ \A i \in 1..Len(f.infos) : f.infos[i].id \in Keys
      /\ \A i \in 1..Len(f.seen) : f.seen[i].id \in Keys
  BY InfosType
<1>2. ASSUME f.type = "Pull", NEW i \in 1..Len(f.rsp.data)
      PROVE  Honest(E, my, f.seen[i].id, f.rsp.data[i])
  <2> DEFINE a == f.seen[i].id
             b == f.rsp.data[i]
  <2>1. Len(f.rsp.data) <= Len(f.seen)
    <3>1. Len(f.rsp.data) + Len(f.infos) = Len(f.seen)
      BY <1>2 DEF PullSound
    <3>2. \A x, y, z \in Nat : x + y = z => x <= z
      OBVIOUS
    <3> QED
      BY <1>1, <3>1, <3>2
  <2>2. a \in Keys
    BY <1>1, <2>1
  <2>3. Honest(D, mx, a, b)
    BY <1>2 DEF PullSound
  <2> HIDE DEF a, b
  <2>4. Honest(E, my, a, b)
    BY <2>2, <2>3, HonestStays
  <2> QED
    BY <2>4 DEF a, b
<1>3. ASSUME f.type = "Pull", NEW i \in 1..Len(f.infos)
      PROVE  Honest(E, my, f.infos[i].id, f.infos[i].d)
  <2> DEFINE a == f.infos[i].id
             b == f.infos[i].d
  <2>1. a \in Keys
    BY <1>1
  <2>2. Honest(D, mx, a, b)
    BY <1>3 DEF PullSound
  <2> HIDE DEF a, b
  <2>3. Honest(E, my, a, b)
    BY <2>1, <2>2, HonestStays
  <2> QED
    BY <2>3 DEF a, b
<1> QED
  BY <1>2, <1>3 DEF PullSound

\* A reply changes only the locals of get and set (Service.cpp:64, 86-88).
LEMMA AfterShape ==
  ASSUME NEW f \in HandlerStates, f.pc \in AtRedis, NEW r, NEW g \in After(f, r)
  PROVE  /\ g.type = f.type /\ g.infos = f.infos /\ g.rsp = f.rsp /\ g.seen = f.seen
         /\ f.pc = "pullDb" => g.pc = "pullSet" /\ g.idx = f.idx
         /\ f.pc # "pullDb" => g.pc \in {"pushSet", "pushGet"}
<1>1. CASE f.pc = "pullDb"
  <2>1. PICK t \in GetResults(r, f.currv) : g = [f EXCEPT !.pc = "pullSet", !.d = t.ret]
    BY <1>1 DEF After
  <2> QED
    BY <1>1, <2>1 DEF HandlerStates
<1>2. CASE f.pc = "pushGet"
  <2>1. PICK t \in GetResults(r, f.currv) :
          g = [f EXCEPT !.pc = "pushSet", !.d = t.ret \o Cur(f).d, !.currv = t.currv]
    BY <1>2 DEF After
  <2> QED
    BY <1>2, <2>1 DEF HandlerStates
<1>3. CASE f.pc = "pushSet"
  <2>1. g = [f EXCEPT !.pc = "pushGet", !.idx = f.idx + 1, !.d = <<>>]
    BY <1>3 DEF After
  <2> QED
    BY <1>3, <2>1 DEF HandlerStates
<1> QED
  BY <1>1, <1>2, <1>3 DEF AtRedis

\* The get of a pull returns the newest value of its key, or the empty string.
LEMMA GetIsNewest ==
  ASSUME NEW D \in Dbs, NEW f \in HandlerStates, f.pc = "pullDb", More(f),
         NEW o \in Exec(D, f), NEW g \in After(f, o.reply)
  PROVE  o.db = D /\ g.d \in Newest(D, Cur(f).id)
<1> DEFINE hk == FmtKey(Cur(f).id)
<1>1. PICK t \in GetResults(o.reply, f.currv) : g = [f EXCEPT !.pc = "pullSet", !.d = t.ret]
  BY DEF After
<1>2. g.d = t.ret
  BY <1>1 DEF HandlerStates
<1>3. o = [db |-> D, reply |-> ErrorReply] \/ o = [db |-> D, reply |-> ArrayReply(D[hk])]
  BY DEF Exec
<1>4. CASE o = [db |-> D, reply |-> ErrorReply]
  <2>1. o.db = D /\ o.reply.type = "error"
    BY <1>4 DEF ErrorReply
  <2>2. t.ret = <<>>
    BY <2>1 DEF GetResults
  <2> QED
    BY <1>2, <2>1, <2>2 DEF Newest
<1>5. CASE o = [db |-> D, reply |-> ArrayReply(D[hk])]
  <2>1. o.db = D /\ o.reply.hash = D[hk]
    BY <1>5 DEF ArrayReply
  <2>2. t.ret = <<>> \/ \E v \in Latest(D[hk]) : t.ret = CStr(D[hk][v])
    BY <2>1 DEF GetResults
  <2> QED
    BY <1>2, <2>1, <2>2 DEF Newest
<1> QED
  BY <1>3, <1>4, <1>5
-----------------------------------------------------------------------------
(* The copies.                                                              *)

\* The values about to be cached, after a step that moves handler h to n.
LEMMA FillsMove ==
  ASSUME Inv, CopiesTrue, NEW h \in Handlers, NEW n, Goto(h, n), NEW D, NEW mx, NEW sus,
         n.pc = "pullSet" => TrueCopy(D, mx, sus, Cur(n).id, n.d),
         \A j \in Handlers \ {h} :
           fs[j].pc = "pullSet" => TrueCopy(D, mx, sus, Cur(fs[j]).id, fs[j].d)
  PROVE  \A j \in Handlers :
           fs'[j].pc = "pullSet" => TrueCopy(D, mx, sus, Cur(fs'[j]).id, fs'[j].d)
<1>1. fs'[h] = n /\ \A j \in Handlers \ {h} : fs'[j] = fs[j]
  BY DEF Goto, Inv, TypeOK
<1> QED
  BY <1>1

\* A step that leaves the cache and Redis alone and fetches nothing.
LEMMA QuietCopies ==
  ASSUME Inv, CopiesTrue, NEW h \in Handlers, NEW n, Goto(h, n), n.pc # "pullSet",
         UNCHANGED <<db, cache, mixed, suspect>>
  PROVE  CopiesTrue'
<1>1. \A j \in Handlers :
        fs'[j].pc = "pullSet" => TrueCopy(db, mixed, suspect, Cur(fs'[j]).id, fs'[j].d)
  BY FillsMove DEF CopiesTrue
<1> QED
  BY <1>1 DEF CopiesTrue, Cur

\* A lookup moves an entry to the front and changes none.
LEMMA PullCacheGetCopies ==
  ASSUME Inv, CopiesTrue, NEW h \in Handlers, PullCacheGet(h)
  PROVE  CopiesTrue'
<1> DEFINE f == fs[h]
           k == Cur(f).id
           d == CacheGet(cache, k)
<1>1. f \in HandlerStates /\ More(f) /\ cache \in Lists(Keys, Strings) /\ k \in Keys
  BY CurType DEF PullCacheGet, Inv, TypeOK, Lists
<1>2. cache' = Find(cache, k) /\ UNCHANGED <<db, mixed, suspect>>
  BY DEF PullCacheGet
<1>3. PICK n : Goto(h, n) /\ n.pc # "pullSet"
  <2>1. Goto(h, PullData(f, d)) \/ \E s \in Slots : Goto(h, [f EXCEPT !.pc = "pullDb", !.inst = s])
    BY DEF PullCacheGet
  <2>2. PullData(f, d).pc = "pull"
    BY <1>1 DEF PullData, HandlerStates
  <2>3. \A s : [f EXCEPT !.pc = "pullDb", !.inst = s].pc = "pullDb"
    BY <1>1 DEF HandlerStates
  <2> QED
    BY <2>1, <2>2, <2>3
<1> HIDE DEF k
<1>4. /\ Unique(cache') /\ Len(cache') <= MaxSize /\ KeysOf(cache') = KeysOf(cache)
      /\ \A j \in KeysOf(cache) : Peek(cache', j) = Peek(cache, j)
  BY <1>1, <1>2, FindUnique DEF CopiesTrue
<1>5. \A j \in Handlers :
        fs'[j].pc = "pullSet" => TrueCopy(db, mixed, suspect, Cur(fs'[j]).id, fs'[j].d)
  BY <1>3, FillsMove DEF CopiesTrue
<1> QED
  BY <1>2, <1>4, <1>5 DEF CopiesTrue, Cur

\* A fill turns a true copy on its way into a true copy in the cache.
LEMMA PullCacheSetCopies ==
  ASSUME Inv, CopiesTrue, NEW h \in Handlers, PullCacheSet(h)
  PROVE  CopiesTrue'
<1> DEFINE f == fs[h]
           k == Cur(f).id
           n == PullData(f, f.d)
<1>1. /\ f \in HandlerStates /\ More(f) /\ cache \in Lists(Keys, Strings) /\ k \in Keys
      /\ f.d \in Strings /\ f.pc = "pullSet"
  BY CurType DEF PullCacheSet, Inv, TypeOK, Lists, InLoop, HandlerStates
<1>2. cache' = Put(cache, k, f.d) /\ Goto(h, n) /\ UNCHANGED <<db, mixed, suspect>>
  BY DEF PullCacheSet, CacheSet
<1>3. n.pc = "pull"
  BY <1>1 DEF PullData, HandlerStates
<1>4. TrueCopy(db, mixed, suspect, k, f.d)
  BY <1>1 DEF CopiesTrue
<1> HIDE DEF k, n, f
<1>5. /\ Unique(cache') /\ Len(cache') <= MaxSize /\ Peek(cache', k) = f.d
      /\ \A j \in KeysOf(cache') \ {k} : j \in KeysOf(cache) /\ Peek(cache', j) = Peek(cache, j)
  BY <1>1, <1>2, PutUnique DEF CopiesTrue
<1>6. \A j \in KeysOf(cache') : TrueCopy(db, mixed, suspect, j, Peek(cache', j))
  <2> SUFFICES ASSUME NEW j \in KeysOf(cache')
               PROVE  TrueCopy(db, mixed, suspect, j, Peek(cache', j))
    OBVIOUS
  <2>1. CASE j = k
    BY <1>4, <1>5, <2>1
  <2>2. CASE j # k
    BY <1>5, <2>2 DEF CopiesTrue
  <2> QED
    BY <2>1, <2>2
<1>7. \A j \in Handlers :
        fs'[j].pc = "pullSet" => TrueCopy(db, mixed, suspect, Cur(fs'[j]).id, fs'[j].d)
  BY <1>2, <1>3, FillsMove DEF CopiesTrue
<1> QED
  BY <1>2, <1>5, <1>6, <1>7 DEF CopiesTrue, Cur

\* A deletion ends the suspicion of its key only if no copy of it is left.
LEMMA DelStepCopies ==
  ASSUME Inv, CopiesTrue, NEW h \in Handlers, DelStep(h)
  PROVE  CopiesTrue'
<1> DEFINE f == fs[h]
           k == Cur(f).id
           n == [f EXCEPT !.idx = @ + 1]
<1>1. /\ f \in HandlerStates /\ More(f) /\ cache \in Lists(Keys, Strings) /\ k \in Keys
      /\ f.pc = "del" /\ Len(cache) \in Nat
  BY CurType, EraseLen DEF DelStep, Inv, TypeOK, Lists
<1>2. /\ cache' = Erase(cache, k) /\ Goto(h, n) /\ UNCHANGED <<db, mixed>>
      /\ suspect' = IF FillInFlight(k) THEN suspect ELSE suspect \ {k}
  BY DEF DelStep, CacheDel
<1>3. n.pc = "del"
  BY <1>1 DEF HandlerStates
<1>4. \A j \in Handlers : fs[j].pc = "pullSet" /\ Cur(fs[j]).id = k => FillInFlight(k)
  BY DEF FillInFlight
<1> HIDE DEF k, n, f
<1>5. \A j, s : (TrueCopy(db, mixed, suspect, j, s) /\ (j # k \/ suspect' = suspect))
                 => TrueCopy(db, mixed, suspect', j, s)
  BY <1>2 DEF TrueCopy
<1>6. /\ Unique(cache') /\ KeysOf(cache') = KeysOf(cache) \ {k}
      /\ \A j \in KeysOf(cache) \ {k} : Peek(cache', j) = Peek(cache, j)
  BY <1>1, <1>2, EraseUnique DEF CopiesTrue
<1>7. Len(cache') <= MaxSize
  BY <1>1, <1>2, EraseLen, SizeAssumption DEF CopiesTrue
<1>8. \A j \in KeysOf(cache') : TrueCopy(db, mixed, suspect', j, Peek(cache', j))
  BY <1>5, <1>6 DEF CopiesTrue
<1>9. \A j \in Handlers :
        fs[j].pc = "pullSet" => TrueCopy(db, mixed, suspect', Cur(fs[j]).id, fs[j].d)
  BY <1>2, <1>4, <1>5 DEF CopiesTrue
<1>10. \A j \in Handlers :
        fs'[j].pc = "pullSet" => TrueCopy(db, mixed, suspect', Cur(fs'[j]).id, fs'[j].d)
  BY <1>2, <1>3, <1>9, FillsMove
<1> QED
  BY <1>2, <1>6, <1>7, <1>8, <1>10 DEF CopiesTrue, Cur

\* A true copy stays one while Redis grows: a key whose hash is written becomes
\* suspect.
LEMMA TrueCopyStays ==
  ASSUME NEW D \in Dbs, NEW E \in Dbs, Grows(D, E), NEW mx, NEW my, mx => my,
         NEW sus, NEW tus, sus \cup Touched(D, E) \subseteq tus,
         NEW k \in Keys, NEW s, TrueCopy(D, mx, sus, k, s)
  PROVE  TrueCopy(E, my, tus, k, s)
<1>1. Honest(E, my, k, s)
  BY HonestStays DEF TrueCopy
<1>2. ASSUME k \notin tus PROVE s \in Newest(E, k)
  <2>1. D[FmtKey(k)] = E[FmtKey(k)] /\ s \in Newest(D, k)
    BY <1>2 DEF Touched, TrueCopy
  <2> QED
    BY <2>1 DEF Newest
<1> QED
  BY <1>1, <1>2 DEF TrueCopy

\* The keys of the cache and of the fills are keys.
LEMMA CopyKeys ==
  ASSUME Inv
  PROVE  /\ KeysOf(cache) \subseteq Keys
         /\ \A j \in Handlers : fs[j].pc = "pullSet" => Cur(fs[j]).id \in Keys
<1>1. cache \in Lists(Keys, Strings)
  BY DEF Inv, TypeOK, Lists
<1>2. ASSUME NEW k \in KeysOf(cache) PROVE k \in Keys
  <2>1. cache[PosOf(cache, k)] \in [key : Keys, val : Strings] /\ cache[PosOf(cache, k)].key = k
    BY <1>1, PosOfKey
  <2> QED
    BY <2>1
<1>3. ASSUME NEW j \in Handlers, fs[j].pc = "pullSet" PROVE Cur(fs[j]).id \in Keys
  <2>1. fs[j] \in HandlerStates /\ More(fs[j])
    BY <1>3 DEF Inv, TypeOK, InLoop
  <2> QED
    BY <2>1, CurType
<1> QED
  BY <1>2, <1>3

\* What the growth of Redis leaves true: the cache and every fill not moved.
LEMMA CopiesStay ==
  ASSUME Inv, CopiesTrue, NEW E \in Dbs, Grows(db, E), NEW my, mixed => my,
         NEW tus, suspect \cup Touched(db, E) \subseteq tus
  PROVE  /\ \A k \in KeysOf(cache) : TrueCopy(E, my, tus, k, Peek(cache, k))
         /\ \A j \in Handlers :
              fs[j].pc = "pullSet" => TrueCopy(E, my, tus, Cur(fs[j]).id, fs[j].d)
<1>1. db \in Dbs
  BY DEF Inv, TypeOK, Dbs
<1>2. ASSUME NEW k \in KeysOf(cache) PROVE TrueCopy(E, my, tus, k, Peek(cache, k))
  <2>1. k \in Keys /\ TrueCopy(db, mixed, suspect, k, Peek(cache, k))
    BY CopyKeys DEF CopiesTrue
  <2> QED
    BY <1>1, <2>1, TrueCopyStays
<1>3. ASSUME NEW j \in Handlers, fs[j].pc = "pullSet"
      PROVE  TrueCopy(E, my, tus, Cur(fs[j]).id, fs[j].d)
  <2> DEFINE a == Cur(fs[j]).id
             b == fs[j].d
  <2>1. a \in Keys /\ TrueCopy(db, mixed, suspect, a, b)
    BY <1>3, CopyKeys DEF CopiesTrue
  <2> HIDE DEF a, b
  <2>2. TrueCopy(E, my, tus, a, b)
    BY <1>1, <2>1, TrueCopyStays
  <2> QED
    BY <2>2 DEF a, b
<1> QED
  BY <1>2, <1>3

\* A command: what a pull gets is a true copy, what a push writes makes its key
\* suspect.
LEMMA RedisCommandCopies ==
  ASSUME Inv, CopiesTrue, NEW h \in Handlers, NEW pc \in AtRedis, RedisCommand(h, pc)
  PROVE  CopiesTrue'
<1> DEFINE f == fs[h]
<1>1. f \in HandlerStates /\ f.pc \in AtRedis /\ More(f) /\ db \in Dbs
  BY DEF RedisCommand, InRedis, Inv, TypeOK, Dbs, InLoop, AtRedis
<1>2. PICK o \in Exec(db, f) : \E g \in After(f, o.reply) : db' = o.db /\ Goto(h, g)
  BY DEF RedisCommand
<1>3. PICK g \in After(f, o.reply) : db' = o.db /\ Goto(h, g)
  BY <1>2
<1>4. db' \in Dbs /\ Grows(db, db')
  BY <1>1, <1>3, ExecFacts
<1>5. suspect' = suspect \cup Touched(db, db') /\ UNCHANGED <<cache, mixed>>
  BY DEF RedisCommand
<1>6. g.pc = "pullSet" => TrueCopy(db', mixed, suspect', Cur(g).id, g.d)
  <2> SUFFICES ASSUME g.pc = "pullSet" PROVE TrueCopy(db', mixed, suspect', Cur(g).id, g.d)
    OBVIOUS
  <2>1. f.pc = "pullDb" /\ Cur(g) = Cur(f)
    BY <1>1, AfterShape DEF Cur
  <2>2. db' = db /\ g.d \in Newest(db, Cur(f).id)
    BY <1>1, <1>3, <2>1, GetIsNewest
  <2> QED
    BY <2>1, <2>2, NewestIsKnown DEF TrueCopy, Honest
<1>7. /\ \A k \in KeysOf(cache) : TrueCopy(db', mixed, suspect', k, Peek(cache, k))
      /\ \A j \in Handlers :
           fs[j].pc = "pullSet" => TrueCopy(db', mixed, suspect', Cur(fs[j]).id, fs[j].d)
  BY <1>4, <1>5, CopiesStay
<1>8. \A j \in Handlers :
        fs'[j].pc = "pullSet" => TrueCopy(db', mixed, suspect', Cur(fs'[j]).id, fs'[j].d)
  BY <1>3, <1>6, <1>7, FillsMove
<1> QED
  BY <1>5, <1>7, <1>8 DEF CopiesTrue, Cur

\* Mixed-up replies: both keys become suspect, and nothing is honest any more.
LEMMA SwapRepliesCopies ==
  ASSUME Inv, CopiesTrue, NEW h1 \in Handlers, NEW h2 \in Handlers, SwapReplies(h1, h2)
  PROVE  CopiesTrue'
<1> DEFINE f1 == fs[h1]
           f2 == fs[h2]
<1>1. /\ f1 \in HandlerStates /\ f1.pc \in AtRedis /\ More(f1)
      /\ f2 \in HandlerStates /\ f2.pc \in AtRedis /\ More(f2)
      /\ h1 # h2 /\ fs \in [Handlers -> HandlerStates]
  BY DEF SwapReplies, InRedis, Inv, TypeOK, Dbs, InLoop, AtRedis
<1>2. db' \in Dbs /\ Grows(db, db') /\ mixed' = TRUE
  BY SwapRepliesInv DEF Inv, TypeOK, Dbs, SwapReplies
<1>3. PICK o1 \in Exec(db, f1) : \E o2 \in Exec(o1.db, f2) :
        \E g1 \in After(f1, o2.reply), g2 \in After(f2, o1.reply) :
          fs' = [fs EXCEPT ![h1] = g1, ![h2] = g2]
  BY DEF SwapReplies
<1>3a. PICK o2 \in Exec(o1.db, f2) :
        \E g1 \in After(f1, o2.reply), g2 \in After(f2, o1.reply) :
          fs' = [fs EXCEPT ![h1] = g1, ![h2] = g2]
  BY <1>3
<1>4. PICK g1 \in After(f1, o2.reply), g2 \in After(f2, o1.reply) :
        fs' = [fs EXCEPT ![h1] = g1, ![h2] = g2]
  BY <1>3a
<1>5. /\ suspect' = suspect \cup Touched(db, db') \cup Aliases(Cur(f1).id) \cup Aliases(Cur(f2).id)
      /\ UNCHANGED cache
  BY DEF SwapReplies
<1>6. Cur(f1).id \in suspect' /\ Cur(f2).id \in suspect'
  BY <1>1, <1>5, CurType DEF Aliases
<1>7. /\ \A k \in KeysOf(cache) : TrueCopy(db', mixed', suspect', k, Peek(cache, k))
      /\ \A j \in Handlers :
           fs[j].pc = "pullSet" => TrueCopy(db', mixed', suspect', Cur(fs[j]).id, fs[j].d)
  BY <1>2, <1>5, CopiesStay
<1>8. ASSUME NEW j \in Handlers, fs'[j].pc = "pullSet"
      PROVE  TrueCopy(db', mixed', suspect', Cur(fs'[j]).id, fs'[j].d)
  <2>1. CASE j = h1
    <3>1. fs'[j] = g1
      BY <1>1, <1>4, <2>1
    <3>2. f1.pc = "pullDb" => Cur(g1) = Cur(f1)
      BY <1>1, AfterShape DEF Cur
    <3>3. f1.pc = "pullDb"
      BY <1>1, <1>8, <3>1, AfterShape
    <3> QED
      BY <1>2, <1>6, <3>1, <3>2, <3>3 DEF TrueCopy, Honest
  <2>2. CASE j = h2
    <3>1. fs'[j] = g2
      BY <1>1, <1>4, <2>2
    <3>2. f2.pc = "pullDb" => Cur(g2) = Cur(f2)
      BY <1>1, AfterShape DEF Cur
    <3>3. f2.pc = "pullDb"
      BY <1>1, <1>8, <3>1, AfterShape
    <3> QED
      BY <1>2, <1>6, <3>1, <3>2, <3>3 DEF TrueCopy, Honest
  <2>3. CASE j \notin {h1, h2}
    <3>1. fs'[j] = fs[j]
      BY <1>1, <1>4, <2>3
    <3> QED
      BY <1>7, <1>8, <3>1
  <2> QED
    BY <2>1, <2>2, <2>3
<1> QED
  BY <1>5, <1>7, <1>8 DEF CopiesTrue, Cur

\* Another client of Redis writes.
LEMMA ExternalSetCopies ==
  ASSUME Inv, CopiesTrue, NEW k \in Keys, NEW v \in ExtValues, NEW ver \in ExtVersions,
         ExternalSet(k, v, ver)
  PROVE  CopiesTrue'
<1>1. db' \in Dbs /\ Grows(db, db')
  BY ExternalSetInv DEF Inv, TypeOK, Dbs
<1>2. suspect' = suspect \cup Touched(db, db') /\ UNCHANGED <<fs, cache, mixed>>
  BY DEF ExternalSet
<1>3. /\ \A j \in KeysOf(cache) : TrueCopy(db', mixed, suspect', j, Peek(cache, j))
      /\ \A j \in Handlers :
           fs[j].pc = "pullSet" => TrueCopy(db', mixed, suspect', Cur(fs[j]).id, fs[j].d)
  BY <1>1, <1>2, CopiesStay
<1> QED
  BY <1>2, <1>3 DEF CopiesTrue, Cur

\* The steps of a handler that touch neither the cache nor Redis.
LEMMA QuietSteps ==
  ASSUME Inv, NEW h \in Handlers,
         \/ \E r \in Requests : OnRequest(h, r)
         \/ OnBody(h) \/ PullReply(h) \/ DelReply(h) \/ PushReply(h)
         \/ OnEOM(h) \/ RequestComplete(h) \/ OnError(h)
  PROVE  /\ UNCHANGED <<db, cache, mixed, suspect>>
         /\ \E n : Goto(h, n) /\ n.pc # "pullSet"
<1>0. fs[h] \in HandlerStates
  BY DEF Inv, TypeOK
<1>1. UNCHANGED <<db, cache, mixed, suspect>>
  BY DEF OnRequest, OnBody, PullReply, DelReply, PushReply, OnEOM, RequestComplete, OnError
<1> SUFFICES \E n : Goto(h, n) /\ n.pc # "pullSet"
  BY <1>1
<1>2. ASSUME NEW r \in Requests, OnRequest(h, r) PROVE \E n : Goto(h, n) /\ n.pc # "pullSet"
  <2> DEFINE n == [Idle EXCEPT !.pc = "open", !.type = TypeOfUrl(r.url), !.body = r.body]
  <2>1. n.pc = "open"
    BY DEF Idle
  <2>2. Goto(h, n)
    BY <1>2 DEF OnRequest
  <2> HIDE DEF n
  <2> QED
    BY <2>1, <2>2
<1>3. CASE OnBody(h)
  <2> DEFINE f == fs[h]
             infos == Decode(f.type, Head(f.body))
             g == [f EXCEPT !.body = Tail(@), !.infos = infos, !.idx = 1, !.d = <<>>,
                            !.currv = 0, !.seen = @ \o infos]
             n1 == [g EXCEPT !.rsp = Merge(@, EncodeRsp(f.type, infos, 1))]
             n2 == [g EXCEPT !.pc = "pull"]
             n3 == [g EXCEPT !.pc = "del"]
             n4(s) == [g EXCEPT !.pc = "pushGet", !.inst = s]
  <2>1. \/ f.pc = "open" /\ Goto(h, n1)
        \/ Goto(h, n2) \/ Goto(h, n3) \/ \E s \in Slots : Goto(h, n4(s))
    BY <1>3 DEF OnBody
  <2>2. n1.pc = f.pc
    BY <1>0 DEF HandlerStates
  <2>3. n2.pc = "pull"
    BY <1>0 DEF HandlerStates
  <2>4. n3.pc = "del"
    BY <1>0 DEF HandlerStates
  <2>5. \A s : n4(s).pc = "pushGet"
    BY <1>0 DEF HandlerStates
  <2> HIDE DEF n1, n2, n3, n4, f
  <2> QED
    BY <2>1, <2>2, <2>3, <2>4, <2>5
<1>4. CASE PullReply(h) \/ DelReply(h)
  <2>1. Goto(h, Return(fs[h])) /\ Return(fs[h]).pc = "open"
    BY <1>0, <1>4, ReturnType DEF PullReply, DelReply
  <2> QED
    BY <2>1
<1>5. CASE PushReply(h)
  <2> DEFINE f == fs[h]
             n == [f EXCEPT !.pc = "del", !.idx = 1, !.currv = 0, !.inst = SomeSlot,
                            !.rsp = Reply(f)]
  <2>1. Goto(h, n)
    BY <1>5 DEF PushReply
  <2>2. n.pc = "del"
    BY <1>0 DEF HandlerStates
  <2> HIDE DEF n
  <2> QED
    BY <2>1, <2>2
<1>6. CASE OnEOM(h)
  BY <1>0, <1>6 DEF OnEOM, HandlerStates
<1>7. CASE RequestComplete(h) \/ OnError(h)
  BY <1>7, IdleSound DEF RequestComplete, OnError
<1> QED
  BY <1>1, <1>2, <1>3, <1>4, <1>5, <1>6, <1>7

\* Every step keeps the copies true.
LEMMA CopiesStep ==
  ASSUME Inv, CopiesTrue, [Next]_vars
  PROVE  CopiesTrue'
<1>1. ASSUME NEW h \in Handlers,
             \/ \E r \in Requests : OnRequest(h, r)
             \/ OnBody(h) \/ PullReply(h) \/ DelReply(h) \/ PushReply(h)
             \/ OnEOM(h) \/ RequestComplete(h) \/ OnError(h)
      PROVE  CopiesTrue'
  BY <1>1, QuietSteps, QuietCopies
<1>2. CASE UNCHANGED <<fs, db, cache, mixed, suspect>>
  BY <1>2 DEF CopiesTrue, Cur
<1>3. ASSUME NEW h \in Handlers, Step(h) PROVE CopiesTrue'
  <2>1. CASE PullDbGet(h) \/ PushDbGet(h) \/ PushDbSet(h)
    <3>1. PICK pc \in AtRedis : RedisCommand(h, pc)
      BY <2>1 DEF PullDbGet, PushDbGet, PushDbSet, AtRedis
    <3> QED
      BY <3>1, RedisCommandCopies
  <2>2. CASE UseFreed(h)
    BY <1>2, <2>2 DEF UseFreed, End
  <2> QED
    BY <1>1, <1>3, <2>1, <2>2, PullCacheGetCopies, PullCacheSetCopies, DelStepCopies DEF Step
<1>4. CASE Restart
  <2>1. cache' = <<>> /\ fs' = [h \in Handlers |-> Idle]
    BY <1>4 DEF Restart
  <2>2. Unique(<<>>) /\ KeysOf(<<>>) = {} /\ Len(<<>>) = 0
    BY DEF Unique, KeysOf
  <2>3. \A h \in Handlers : fs'[h].pc = "idle"
    BY <2>1, IdleSound
  <2> QED
    BY <2>1, <2>2, <2>3, SizeAssumption DEF CopiesTrue
<1>5. CASE Next
  <2>1. CASE \E h \in Handlers : \/ \E r \in Requests : OnRequest(h, r)
                                \/ Step(h) \/ OnError(h) \/ NullReply(h)
    BY <1>1, <1>2, <1>3, <2>1 DEF NullReply, End
  <2>2. CASE \E h1, h2 \in Handlers : SwapReplies(h1, h2) \/ DataRace(h1, h2)
    BY <1>2, <2>2, SwapRepliesCopies DEF DataRace, End
  <2>3. CASE \E k \in Keys, v \in ExtValues, ver \in ExtVersions : ExternalSet(k, v, ver)
    BY <2>3, ExternalSetCopies
  <2>4. CASE Kill
    BY <1>2, <2>4 DEF Kill, End
  <2> QED
    BY <1>4, <1>5, <2>1, <2>2, <2>3, <2>4 DEF Next
<1> QED
  BY <1>2, <1>5 DEF vars

\* The copies are true in every state of the server.
LEMMA CopiesHold == Spec => []CopiesTrue
<1>1. Init => CopiesTrue
  <2>1. Unique(<<>>) /\ KeysOf(<<>>) = {} /\ Len(<<>>) = 0
    BY DEF Unique, KeysOf
  <2> SUFFICES ASSUME Init PROVE CopiesTrue
    OBVIOUS
  <2>2. \A h \in Handlers : fs[h].pc = "idle"
    BY IdleSound DEF Init
  <2> QED
    BY <2>1, <2>2, SizeAssumption DEF Init, CopiesTrue
<1>2. Inv /\ CopiesTrue /\ [Next]_vars => CopiesTrue'
  BY CopiesStep
<1> QED
  BY <1>1, <1>2, InvHolds, PTL DEF Spec

\* A non-empty cached value of a key that is not suspect is the newest value in
\* Redis, for any number of threads filling, deleting and evicting entries
\* (Service.cpp:61-66, 96).
THEOREM CacheCoherent == Spec => []Coherent
<1>1. CopiesTrue => Coherent
  BY DEF CopiesTrue, Coherent, TrueCopy, Newest, CurrentValues
<1> QED
  BY <1>1, CopiesHold, PTL
-----------------------------------------------------------------------------
(* The pulls.                                                               *)

\* A handler of another request is none of a pull's business.
LEMMA NotPull ==
  ASSUME NEW D, NEW mx, NEW n, n.type # "Pull", n.pc \notin PullPCs
  PROVE  PullSound(D, mx, n)
BY DEF PullSound

\* One handler moves, the others see Redis grow.
LEMMA PullsMove ==
  ASSUME Inv, PullsSound, NEW h \in Handlers, NEW n, Goto(h, n),
         PullSound(db', mixed', n), db' \in Dbs, Grows(db, db'), mixed => mixed'
  PROVE  PullsSound'
<1>1. fs'[h] = n /\ \A j \in Handlers \ {h} : fs'[j] = fs[j]
  BY DEF Goto, Inv, TypeOK
<1>2. \A j \in Handlers : PullSound(db', mixed', fs[j])
  BY PullSoundGrows DEF PullsSound, Inv, TypeOK, Dbs
<1>3. \A j \in Handlers : PullSound(db', mixed', fs'[j])
  BY <1>1, <1>2
<1> QED
  BY <1>3 DEF PullsSound

\* The same when Redis is left alone.
LEMMA QuietPulls ==
  ASSUME Inv, PullsSound, NEW h \in Handlers, NEW n, Goto(h, n),
         PullSound(db, mixed, n), UNCHANGED <<db, mixed>>
  PROVE  PullsSound'
<1>1. db' \in Dbs /\ Grows(db, db') /\ (mixed => mixed') /\ PullSound(db', mixed', n)
  BY DEF Grows, Dbs, Inv, TypeOK
<1> QED
  BY <1>1, PullsMove

\* setPullData with honest data (Service.cpp:67).
LEMMA PullDataSound ==
  ASSUME NEW f \in HandlerStates, More(f), f.pc \in PullPCs, NEW d \in Strings,
         NEW D, NEW mx, PullSound(D, mx, f), Honest(D, mx, Cur(f).id, d)
  PROVE  PullSound(D, mx, PullData(f, d))
<1> DEFINE e == [Cur(f) EXCEPT !.d = d]
           infos == [f.infos EXCEPT ![f.idx] = e]
           n == PullData(f, d)
           S == [id : Keys, d : Strings]
<1>1. /\ Cur(f) \in S /\ e \in S /\ e.id = Cur(f).id /\ e.d = d
      /\ f.idx \in 1..Len(f.infos) /\ f.infos \in Seq(S) /\ f.infos[f.idx] = Cur(f)
  BY CurType DEF HandlerStates, Infos, Cur
<1>2. /\ n.type = f.type /\ n.pc = "pull" /\ n.infos = infos /\ n.rsp = f.rsp
      /\ n.seen = f.seen
  BY DEF PullData, HandlerStates, Cur
<1> HIDE DEF S, e, n
<1>3. /\ Len(infos) = Len(f.infos) /\ Len(f.infos) \in Nat
      /\ \A i \in 1..Len(f.infos) : infos[i] = IF i = f.idx THEN e ELSE f.infos[i]
  BY <1>1, LenProperties, ExceptSeq
<1> HIDE DEF infos
<1>4. /\ f.type = "Pull" /\ Len(f.rsp.data) + Len(f.infos) = Len(f.seen)
      /\ \A i \in 1..Len(f.rsp.data) : Honest(D, mx, f.seen[i].id, f.rsp.data[i])
      /\ \A i \in 1..Len(f.infos) : /\ f.seen[Len(f.rsp.data) + i].id = f.infos[i].id
                                    /\ Honest(D, mx, f.infos[i].id, f.infos[i].d)
  BY DEF PullSound
<1>5. \A i \in 1..Len(infos) : /\ f.seen[Len(f.rsp.data) + i].id = infos[i].id
                               /\ Honest(D, mx, infos[i].id, infos[i].d)
  BY <1>1, <1>3, <1>4
<1>6. n.pc \in Waiting \cup PullPCs /\ n.pc \notin Waiting
  BY <1>2 DEF Waiting, PullPCs
<1>7. Len(n.rsp.data) + Len(n.infos) = Len(n.seen)
  BY <1>2, <1>3, <1>4
<1>8. PullSound(D, mx, n)
  BY <1>2, <1>4, <1>5, <1>6, <1>7 DEF PullSound
<1> QED
  BY <1>8 DEF n

\* The reply to a chunk of a pull has the chunk's infos in order (Msg.cpp).
LEMMA ReturnSound ==
  ASSUME NEW f \in HandlerStates, f.pc \notin Waiting, NEW D, NEW mx, PullSound(D, mx, f)
  PROVE  PullSound(D, mx, Return(f))
<1> DEFINE n == Return(f)
           ds == f.rsp.data
           es == [i \in DOMAIN f.infos |-> f.infos[i].d]
<1>1. n.type = f.type /\ n.pc = "open" /\ n.infos = <<>> /\ n.seen = f.seen /\ n.rsp = Reply(f)
  BY DEF Return, Idle
<1>2. n.pc \notin PullPCs /\ n.pc \in Waiting
  BY <1>1 DEF PullPCs, Waiting
<1>3. CASE f.type # "Pull"
  BY <1>1, <1>2, <1>3, NotPull
<1>4. CASE f.type = "Pull"
  <2>1. n.rsp.data = ds \o es
    BY <1>1, <1>4 DEF Reply, Merge, EncodeRsp
  <2>2. /\ ds \in Seq(Strings) /\ Len(ds) \in Nat /\ Len(f.infos) \in Nat
        /\ \A i \in 1..Len(f.infos) : f.infos[i].d \in Strings
        /\ f.infos \in Seq([id : Keys, d : Strings])
    BY InfosType DEF Infos
  <2>3. DOMAIN f.infos = 1..Len(f.infos)
    <3> DEFINE S == [id : Keys, d : Strings]
    <3> HIDE DEF S
    <3>1. f.infos \in Seq(S)
      BY <2>2 DEF S
    <3> QED
      BY <3>1, LenProperties
  <2>4. /\ es \in Seq(Strings) /\ Len(es) = Len(f.infos)
        /\ \A i \in 1..Len(f.infos) : es[i] = f.infos[i].d
    BY <2>2, <2>3
  <2>5. /\ Len(ds) + Len(f.infos) = Len(f.seen)
        /\ \A i \in 1..Len(ds) : Honest(D, mx, f.seen[i].id, ds[i])
        /\ \A i \in 1..Len(f.infos) : /\ f.seen[Len(ds) + i].id = f.infos[i].id
                                      /\ Honest(D, mx, f.infos[i].id, f.infos[i].d)
    BY <1>4 DEF PullSound
  <2> HIDE DEF ds, es, n
  <2>6. /\ Len(ds \o es) = Len(ds) + Len(es)
        /\ \A i \in 1..(Len(ds) + Len(es)) :
             (ds \o es)[i] = IF i <= Len(ds) THEN ds[i] ELSE es[i - Len(ds)]
    BY <2>2, <2>4, ConcatProperties, ZenonT(40)
  <2>7. ASSUME NEW i \in 1..Len(ds \o es)
        PROVE  Honest(D, mx, f.seen[i].id, (ds \o es)[i])
    <3>1. CASE i <= Len(ds)
      <4>1. i \in 1..Len(ds) /\ (ds \o es)[i] = ds[i]
        BY <2>2, <2>4, <2>6, <3>1
      <4> QED
        BY <2>5, <4>1
    <3>2. CASE ~(i <= Len(ds))
      <4> DEFINE j == i - Len(ds)
      <4>1. j \in 1..Len(f.infos) /\ Len(ds) + j = i /\ (ds \o es)[i] = es[j]
        BY <2>2, <2>4, <2>6, <3>2
      <4> HIDE DEF j
      <4>2. es[j] = f.infos[j].d /\ f.seen[i].id = f.infos[j].id
        BY <2>4, <2>5, <4>1
      <4>3. Honest(D, mx, f.infos[j].id, f.infos[j].d)
        BY <2>5, <4>1
      <4> QED
        BY <4>1, <4>2, <4>3
    <3> QED
      BY <3>1, <3>2
  <2>8. Len(n.rsp.data) + Len(n.infos) = Len(n.seen)
    <3>1. Len(n.rsp.data) = Len(f.seen) /\ Len(n.infos) = 0 /\ n.seen = f.seen
      BY <1>1, <2>1, <2>4, <2>5, <2>6
    <3>2. Len(f.seen) \in Nat
      BY InfosType
    <3> QED
      BY <3>1, <3>2
  <2>9. \A i \in 1..Len(n.infos) : FALSE
    BY <1>1
  <2> QED
    BY <1>1, <1>2, <2>1, <2>7, <2>8, <2>9 DEF PullSound, n
<1> QED
  BY <1>3, <1>4

\* A new request has answered nothing and been asked nothing.
LEMMA OnRequestPulls ==
  ASSUME Inv, PullsSound, NEW h \in Handlers, NEW r \in Requests, OnRequest(h, r)
  PROVE  PullsSound'
<1> DEFINE n == [Idle EXCEPT !.pc = "open", !.type = TypeOfUrl(r.url), !.body = r.body]
<1>1. Goto(h, n) /\ UNCHANGED <<db, mixed>>
  BY DEF OnRequest
<1>2. n.pc = "open" /\ n.infos = <<>> /\ n.seen = <<>> /\ n.rsp.data = <<>>
  BY DEF Idle, NoRsp
<1> HIDE DEF n
<1>3. n.pc \in Waiting /\ n.pc \notin PullPCs
  BY <1>2 DEF Waiting, PullPCs
<1>4. PullSound(db, mixed, n)
  BY <1>2, <1>3 DEF PullSound
<1> QED
  BY <1>1, <1>4, QuietPulls

\* A chunk of a pull is decoded: its infos have no data yet and follow those
\* answered (Service.cpp:54-60).
LEMMA OnBodyPulls ==
  ASSUME Inv, PullsSound, NEW h \in Handlers, OnBody(h)
  PROVE  PullsSound'
<1> DEFINE f == fs[h]
           infos == Decode(f.type, Head(f.body))
           g == [f EXCEPT !.body = Tail(@), !.infos = infos, !.idx = 1, !.d = <<>>,
                          !.currv = 0, !.seen = @ \o infos]
           n1 == [g EXCEPT !.rsp = Merge(@, EncodeRsp(f.type, infos, 1))]
           n2 == [g EXCEPT !.pc = "pull"]
           n3 == [g EXCEPT !.pc = "del"]
           n4(s) == [g EXCEPT !.pc = "pushGet", !.inst = s]
<1>1. /\ f \in HandlerStates /\ f.pc = "open" /\ f.body # <<>> /\ UNCHANGED <<db, mixed>>
      /\ PullSound(db, mixed, f)
  BY DEF OnBody, Inv, TypeOK, PullsSound
<1>2. \/ f.type = "Unknow" /\ Goto(h, n1)
      \/ f.type = "Pull" /\ Goto(h, n2)
      \/ f.type = "DelCache" /\ Goto(h, n3)
      \/ f.type = "Push" /\ \E s \in Slots : Goto(h, n4(s))
  BY DEF OnBody
<1>3. n1.type = f.type /\ n1.pc = "open"
  BY <1>1 DEF HandlerStates
<1>4. n3.type = f.type /\ n3.pc = "del"
  BY <1>1 DEF HandlerStates
<1>5. \A s : n4(s).type = f.type /\ n4(s).pc = "pushGet"
  BY <1>1 DEF HandlerStates
<1>6. /\ n2.type = f.type /\ n2.pc = "pull" /\ n2.infos = infos /\ n2.rsp = f.rsp
      /\ n2.seen = f.seen \o infos
  BY <1>1 DEF HandlerStates
<1> HIDE DEF n1, n2, n3, n4, g
<1>7. CASE f.type = "Pull" /\ Goto(h, n2)
  <2> DEFINE c == Head(f.body)
             S == [id : Keys, d : Strings]
             m == Len(f.rsp.data)
  <2>1. c \in Infos
    BY <1>1, HeadTailProperties DEF HandlerStates
  <2>2. infos = [i \in DOMAIN c |-> [id |-> c[i].id, d |-> <<>>]]
    BY <1>7 DEF Decode, DataInfo, NoData
  <2>3. infos \in Seq(S) /\ f.seen \in Seq(S)
    BY <1>1, <1>7, <2>1, DecodeType, InfosType DEF Infos, MsgTypes
  <2>4. DOMAIN c = 1..Len(c) /\ Len(c) \in Nat
    BY <2>1, LenProperties DEF Infos
  <2> HIDE DEF infos, S, c
  <2>5. Len(infos) = Len(c) /\ \A i \in 1..Len(c) : infos[i].d = <<>>
    BY <2>2, <2>4
  <2>6. /\ f.infos = <<>> /\ m + Len(f.infos) = Len(f.seen)
        /\ \A i \in 1..m : Honest(db, mixed, f.seen[i].id, f.rsp.data[i])
    BY <1>1, <1>7 DEF PullSound, Waiting
  <2>7. m \in Nat /\ Len(f.seen) \in Nat /\ m = Len(f.seen)
    <3>1. m \in Nat /\ Len(f.seen) \in Nat
      BY <1>1, InfosType
    <3> QED
      BY <2>6, <3>1
  <2> HIDE DEF m, f
  <2>8. /\ Len(f.seen \o infos) = m + Len(infos)
        /\ \A i \in 1..m : (f.seen \o infos)[i] = f.seen[i]
        /\ \A i \in 1..Len(infos) : (f.seen \o infos)[m + i] = infos[i]
    <3>1. /\ Len(f.seen \o infos) = Len(f.seen) + Len(infos)
          /\ \A i \in 1..(Len(f.seen) + Len(infos)) :
               (f.seen \o infos)[i] = IF i <= Len(f.seen) THEN f.seen[i] ELSE infos[i - Len(f.seen)]
      BY <2>3, ConcatProperties
    <3>2. Len(infos) \in Nat
      BY <2>4, <2>5
    <3>3. ASSUME NEW i \in 1..Len(infos) PROVE (f.seen \o infos)[m + i] = infos[i]
      <4>1. m + i \in 1..(Len(f.seen) + Len(infos)) /\ ~(m + i <= Len(f.seen))
            /\ (m + i) - Len(f.seen) = i
        BY <2>7, <3>2
      <4> QED
        BY <3>1, <4>1
    <3>4. ASSUME NEW i \in 1..m PROVE (f.seen \o infos)[i] = f.seen[i]
      BY <2>7, <3>1, <3>2
    <3> QED
      BY <2>7, <3>1, <3>3, <3>4
  <2>9. \A k : Honest(db, mixed, k, <<>>)
    BY DEF Honest, Known
  <2>10. n2.pc \in Waiting \cup PullPCs /\ n2.pc \notin Waiting
    BY <1>6 DEF Waiting, PullPCs
  <2>11. Len(n2.rsp.data) = m
    BY <1>6 DEF m
  <2>12. Len(n2.rsp.data) + Len(n2.infos) = Len(n2.seen)
    BY <1>6, <2>8, <2>11
  <2>13. \A i \in 1..m : Honest(db, mixed, n2.seen[i].id, n2.rsp.data[i])
    BY <1>6, <2>6, <2>8
  <2>14. \A i \in 1..Len(n2.infos) : /\ n2.seen[m + i].id = n2.infos[i].id
                                     /\ Honest(db, mixed, n2.infos[i].id, n2.infos[i].d)
    BY <1>6, <2>5, <2>8, <2>9
  <2>15. PullSound(db, mixed, n2)
    BY <1>6, <1>7, <2>10, <2>11, <2>12, <2>13, <2>14 DEF PullSound
  <2> QED
    BY <1>1, <1>7, <2>15, QuietPulls
<1>8. CASE ~(f.type = "Pull" /\ Goto(h, n2))
  <2>1. PICK n : Goto(h, n) /\ n.type = f.type /\ f.type # "Pull" /\ n.pc \in {"open", "del", "pushGet"}
    BY <1>2, <1>3, <1>4, <1>5, <1>8
  <2>2. n.pc \notin PullPCs
    BY <2>1 DEF PullPCs
  <2> QED
    BY <1>1, <2>1, <2>2, NotPull, QuietPulls
<1> QED
  BY <1>7, <1>8

\* A hit answers with an honest copy; a miss answers nothing yet.
LEMMA PullCacheGetPulls ==
  ASSUME Inv, CopiesTrue, PullsSound, NEW h \in Handlers, PullCacheGet(h)
  PROVE  PullsSound'
<1> DEFINE f == fs[h]
           k == Cur(f).id
           d == CacheGet(cache, k)
           n(s) == [f EXCEPT !.pc = "pullDb", !.inst = s]
<1>1. /\ f \in HandlerStates /\ More(f) /\ f.pc = "pull" /\ cache \in Lists(Keys, Strings)
      /\ PullSound(db, mixed, f) /\ UNCHANGED <<db, mixed>>
  BY DEF PullCacheGet, Inv, TypeOK, Lists, PullsSound
<1>2. \/ d # <<>> /\ Goto(h, PullData(f, d))
      \/ \E s \in Slots : Goto(h, n(s))
  BY DEF PullCacheGet
<1>3. CASE d # <<>> /\ Goto(h, PullData(f, d))
  <2>1. k \in KeysOf(cache) /\ d = Peek(cache, k)
    BY <1>3 DEF CacheGet
  <2>2. d \in Strings /\ Honest(db, mixed, k, d)
    BY <1>1, <2>1, PosOfKey DEF CopiesTrue, TrueCopy
  <2> HIDE DEF d, f
  <2>3. PullSound(db, mixed, PullData(f, d))
    BY <1>1, <2>2, PullDataSound DEF PullPCs
  <2> QED
    BY <1>1, <1>3, <2>3, QuietPulls
<1>4. ASSUME NEW s \in Slots, Goto(h, n(s)) PROVE PullsSound'
  <2>1. /\ n(s).type = f.type /\ n(s).pc = "pullDb" /\ n(s).infos = f.infos
        /\ n(s).rsp = f.rsp /\ n(s).seen = f.seen
    BY <1>1 DEF HandlerStates
  <2> HIDE DEF n, f
  <2>2. n(s).pc \in PullPCs /\ n(s).pc \notin Waiting /\ f.pc \in PullPCs
    BY <1>1, <2>1 DEF PullPCs, Waiting
  <2>3. PullSound(db, mixed, n(s))
    BY <1>1, <2>1, <2>2 DEF PullSound
  <2> QED
    BY <1>1, <1>4, <2>3, QuietPulls
<1> QED
  BY <1>2, <1>3, <1>4

\* What Redis returned is the answer.
LEMMA PullCacheSetPulls ==
  ASSUME Inv, CopiesTrue, PullsSound, NEW h \in Handlers, PullCacheSet(h)
  PROVE  PullsSound'
<1> DEFINE f == fs[h]
<1>1. /\ f \in HandlerStates /\ More(f) /\ f.pc = "pullSet" /\ f.d \in Strings
      /\ PullSound(db, mixed, f) /\ UNCHANGED <<db, mixed>> /\ Goto(h, PullData(f, f.d))
  BY DEF PullCacheSet, Inv, TypeOK, PullsSound, InLoop, HandlerStates
<1>2. Honest(db, mixed, Cur(f).id, f.d)
  BY <1>1 DEF CopiesTrue, TrueCopy
<1> HIDE DEF f
<1>3. PullSound(db, mixed, PullData(f, f.d))
  BY <1>1, <1>2, PullDataSound DEF PullPCs
<1> QED
  BY <1>1, <1>3, QuietPulls

\* A reply from Redis leaves a sound pull sound.
LEMMA AfterSound ==
  ASSUME NEW f \in HandlerStates, f.pc \in AtRedis, NEW r, NEW g \in After(f, r),
         NEW D, NEW mx, PullSound(D, mx, f)
  PROVE  PullSound(D, mx, g)
<1>1. /\ g.type = f.type /\ g.infos = f.infos /\ g.rsp = f.rsp /\ g.seen = f.seen
      /\ f.pc = "pullDb" => g.pc = "pullSet"
      /\ f.pc # "pullDb" => g.pc \in {"pushSet", "pushGet"}
  BY AfterShape
<1>2. CASE f.pc = "pullDb"
  <2>1. f.pc \in PullPCs /\ g.pc \in PullPCs /\ g.pc \notin Waiting
    BY <1>1, <1>2 DEF PullPCs, Waiting
  <2> QED
    BY <1>1, <2>1 DEF PullSound
<1>3. CASE f.pc # "pullDb"
  <2>1. f.pc \notin Waiting \cup PullPCs /\ g.pc \notin PullPCs
    BY <1>1, <1>3 DEF PullPCs, Waiting, AtRedis
  <2>2. g.type # "Pull"
    BY <1>1, <2>1 DEF PullSound
  <2> QED
    BY <2>1, <2>2, NotPull
<1> QED
  BY <1>2, <1>3

\* A command answered with its own reply.
LEMMA RedisCommandPulls ==
  ASSUME Inv, PullsSound, NEW h \in Handlers, NEW pc \in AtRedis, RedisCommand(h, pc)
  PROVE  PullsSound'
<1> DEFINE f == fs[h]
<1>1. f \in HandlerStates /\ f.pc \in AtRedis /\ db \in Dbs /\ UNCHANGED mixed
  BY DEF RedisCommand, Inv, TypeOK, Dbs
<1>2. PICK o \in Exec(db, f) : \E g \in After(f, o.reply) : Goto(h, g)
  BY DEF RedisCommand
<1>3. PICK g \in After(f, o.reply) : Goto(h, g)
  BY <1>2
<1>4. db' \in Dbs /\ Grows(db, db')
  BY RedisCommandInv DEF Inv, TypeOK, Dbs
<1>5. PullSound(db', mixed', f)
  BY <1>1, <1>4, PullSoundGrows DEF PullsSound
<1> HIDE DEF f
<1>6. PullSound(db', mixed', g)
  BY <1>1, <1>5, AfterSound
<1> QED
  BY <1>1, <1>3, <1>4, <1>6, PullsMove

\* Mixed-up replies leave the order and the number of the answers alone.
LEMMA SwapRepliesPulls ==
  ASSUME Inv, PullsSound, NEW h1 \in Handlers, NEW h2 \in Handlers, SwapReplies(h1, h2)
  PROVE  PullsSound'
<1> DEFINE f1 == fs[h1]
           f2 == fs[h2]
<1>1. /\ f1 \in HandlerStates /\ f1.pc \in AtRedis /\ f2 \in HandlerStates /\ f2.pc \in AtRedis
      /\ h1 # h2 /\ fs \in [Handlers -> HandlerStates] /\ db \in Dbs
  BY DEF SwapReplies, InRedis, Inv, TypeOK, Dbs
<1>2. db' \in Dbs /\ Grows(db, db') /\ mixed' = TRUE
  BY SwapRepliesInv DEF Inv, TypeOK, Dbs, SwapReplies
<1>3. PICK o1 \in Exec(db, f1) : \E o2 \in Exec(o1.db, f2) :
        \E g1 \in After(f1, o2.reply), g2 \in After(f2, o1.reply) :
          fs' = [fs EXCEPT ![h1] = g1, ![h2] = g2]
  BY DEF SwapReplies
<1>4. PICK o2 \in Exec(o1.db, f2) :
        \E g1 \in After(f1, o2.reply), g2 \in After(f2, o1.reply) :
          fs' = [fs EXCEPT ![h1] = g1, ![h2] = g2]
  BY <1>3
<1>5. PICK g1 \in After(f1, o2.reply), g2 \in After(f2, o1.reply) :
        fs' = [fs EXCEPT ![h1] = g1, ![h2] = g2]
  BY <1>4
<1>6. \A j \in Handlers : PullSound(db', mixed', fs[j])
  BY <1>1, <1>2, PullSoundGrows DEF PullsSound
<1>7. PullSound(db', mixed', g1) /\ PullSound(db', mixed', g2)
  <2>1. PullSound(db', mixed', f1) /\ PullSound(db', mixed', f2)
    BY <1>6
  <2> HIDE DEF f1, f2
  <2> QED
    BY <1>1, <2>1, AfterSound
<1>8. /\ fs'[h1] = g1 /\ fs'[h2] = g2
      /\ \A j \in Handlers \ {h1, h2} : fs'[j] = fs[j]
  BY <1>1, <1>5
<1>9. \A j \in Handlers : PullSound(db', mixed', fs'[j])
  BY <1>6, <1>7, <1>8
<1> QED
  BY <1>9 DEF PullsSound

\* The steps of pushes and cache deletions, and the ends of requests.
LEMMA OtherPulls ==
  ASSUME Inv, PullsSound, NEW h \in Handlers,
         \/ PullReply(h) \/ DelReply(h) \/ PushReply(h) \/ DelStep(h)
         \/ OnEOM(h) \/ RequestComplete(h) \/ OnError(h)
  PROVE  PullsSound'
<1> DEFINE f == fs[h]
<1>1. f \in HandlerStates /\ PullSound(db, mixed, f) /\ UNCHANGED <<db, mixed>>
  BY DEF Inv, TypeOK, PullsSound, PullReply, DelReply, PushReply, DelStep, OnEOM,
         RequestComplete, OnError
<1>2. CASE PullReply(h) \/ DelReply(h)
  <2>1. f.pc \notin Waiting /\ Goto(h, Return(f))
    BY <1>2 DEF PullReply, DelReply, Waiting
  <2> HIDE DEF f
  <2>2. PullSound(db, mixed, Return(f))
    BY <1>1, <2>1, ReturnSound
  <2> QED
    BY <1>1, <2>1, <2>2, QuietPulls
<1>3. CASE PushReply(h)
  <2> DEFINE n == [f EXCEPT !.pc = "del", !.idx = 1, !.currv = 0, !.inst = SomeSlot,
                            !.rsp = Reply(f)]
  <2>1. Goto(h, n) /\ f.pc = "pushGet"
    BY <1>3 DEF PushReply
  <2>2. n.type = f.type /\ n.pc = "del"
    BY <1>1 DEF HandlerStates
  <2> HIDE DEF n, f
  <2>3. f.pc \notin Waiting \cup PullPCs /\ n.pc \notin PullPCs
    BY <2>1, <2>2 DEF Waiting, PullPCs
  <2>4. n.type # "Pull"
    BY <1>1, <2>2, <2>3 DEF PullSound
  <2>5. PullSound(db, mixed, n)
    BY <2>3, <2>4, NotPull
  <2> QED
    BY <1>1, <2>1, <2>5, QuietPulls
<1>6. CASE DelStep(h)
  <2> DEFINE n == [f EXCEPT !.idx = @ + 1]
  <2>1. Goto(h, n) /\ f.pc = "del"
    BY <1>6 DEF DelStep
  <2>2. n.type = f.type /\ n.pc = "del"
    BY <1>1, <2>1 DEF HandlerStates
  <2> HIDE DEF n, f
  <2>3. f.pc \notin Waiting \cup PullPCs /\ n.pc \notin PullPCs
    BY <2>1, <2>2 DEF Waiting, PullPCs
  <2>4. n.type # "Pull"
    BY <1>1, <2>2, <2>3 DEF PullSound
  <2>5. PullSound(db, mixed, n)
    BY <2>3, <2>4, NotPull
  <2> QED
    BY <1>1, <2>1, <2>5, QuietPulls
<1>4. CASE OnEOM(h)
  <2> DEFINE n == [f EXCEPT !.pc = "eom"]
  <2>1. Goto(h, n) /\ f.pc = "open"
    BY <1>4 DEF OnEOM
  <2>2. /\ n.type = f.type /\ n.pc = "eom" /\ n.infos = f.infos /\ n.rsp = f.rsp
        /\ n.seen = f.seen
    BY <1>1 DEF HandlerStates
  <2> HIDE DEF n, f
  <2>3. n.pc \in Waiting /\ f.pc \in Waiting /\ n.pc \notin PullPCs
    BY <2>1, <2>2 DEF Waiting, PullPCs
  <2>4. PullSound(db, mixed, n)
    BY <1>1, <2>2, <2>3 DEF PullSound
  <2> QED
    BY <1>1, <2>1, <2>4, QuietPulls
<1>5. CASE RequestComplete(h) \/ OnError(h)
  <2>1. Goto(h, Idle) /\ PullSound(db, mixed, Idle)
    BY <1>5 DEF RequestComplete, OnError, PullSound, Idle, PullPCs
  <2> QED
    BY <1>1, <2>1, QuietPulls
<1> QED
  BY <1>2, <1>3, <1>4, <1>5, <1>6

\* Every step keeps the pulls sound.
LEMMA PullsStep ==
  ASSUME Inv, CopiesTrue, PullsSound, [Next]_vars
  PROVE  PullsSound'
<1>1. CASE UNCHANGED <<fs, db, mixed>>
  BY <1>1 DEF PullsSound
<1>2. ASSUME NEW h \in Handlers, Step(h) PROVE PullsSound'
  <2>1. CASE PullDbGet(h) \/ PushDbGet(h) \/ PushDbSet(h)
    <3>1. PICK pc \in AtRedis : RedisCommand(h, pc)
      BY <2>1 DEF PullDbGet, PushDbGet, PushDbSet, AtRedis
    <3> QED
      BY <3>1, RedisCommandPulls
  <2>2. CASE UseFreed(h)
    BY <1>1, <2>2 DEF UseFreed, End
  <2> QED
    BY <1>2, <2>1, <2>2, OnBodyPulls, PullCacheGetPulls, PullCacheSetPulls, OtherPulls DEF Step
<1>3. CASE Restart
  <2>1. \A h \in Handlers : fs'[h] = Idle
    BY <1>3 DEF Restart
  <2>2. \A D, mx : PullSound(D, mx, Idle)
    BY DEF PullSound, Idle, PullPCs
  <2> QED
    BY <2>1, <2>2 DEF PullsSound
<1>4. ASSUME NEW k \in Keys, NEW v \in ExtValues, NEW ver \in ExtVersions,
             ExternalSet(k, v, ver)
      PROVE  PullsSound'
  <2>1. db' \in Dbs /\ Grows(db, db') /\ UNCHANGED <<fs, mixed>> /\ db \in Dbs
        /\ \A j \in Handlers : fs[j] \in HandlerStates
    BY <1>4, ExternalSetInv DEF Inv, TypeOK, Dbs, ExternalSet
  <2>2. \A j \in Handlers : PullSound(db', mixed, fs[j])
    BY <2>1, PullSoundGrows DEF PullsSound
  <2> QED
    BY <2>1, <2>2 DEF PullsSound
<1>5. CASE Next
  <2>1. CASE \E h \in Handlers : \/ \E r \in Requests : OnRequest(h, r)
                                \/ Step(h) \/ OnError(h) \/ NullReply(h)
    BY <1>1, <1>2, <2>1, OnRequestPulls, OtherPulls DEF NullReply, End
  <2>2. CASE \E h1, h2 \in Handlers : SwapReplies(h1, h2) \/ DataRace(h1, h2)
    BY <1>1, <2>2, SwapRepliesPulls DEF DataRace, End
  <2>3. CASE \E k \in Keys, v \in ExtValues, ver \in ExtVersions : ExternalSet(k, v, ver)
    BY <1>4, <2>3
  <2>4. CASE Kill
    BY <1>1, <2>4 DEF Kill, End
  <2> QED
    BY <1>3, <1>5, <2>1, <2>2, <2>3, <2>4 DEF Next
<1> QED
  BY <1>1, <1>5 DEF vars

\* Pulls are always sound.
LEMMA PullsHold == Spec => []PullsSound
<1>1. Init => PullsSound
  BY DEF Init, PullsSound, PullSound, Idle, PullPCs
<1>2. Inv /\ CopiesTrue /\ PullsSound /\ [Next]_vars => PullsSound'
  BY PullsStep
<1> QED
  BY <1>1, <1>2, InvHolds, CopiesHold, PTL DEF Spec

\* A finished pull has answered every key it was asked for, in order, each with
\* nothing or a value Redis holds for that key unless replies were mixed up
\* (Service.cpp:54-74).
THEOREM PullsAnswered == Spec => []PullAnswersEveryKey
<1>1. Inv /\ PullsSound => PullAnswersEveryKey
  <2> SUFFICES ASSUME Inv, PullsSound, NEW h \in Handlers, fs[h].pc = "eom", fs[h].type = "Pull"
               PROVE  /\ Len(fs[h].rsp.data) = Len(fs[h].seen)
                      /\ ~mixed => \A i \in DOMAIN fs[h].rsp.data :
                           fs[h].rsp.data[i] \in {<<>>} \cup StoredValues(fs[h].seen[i].id)
    BY DEF PullAnswersEveryKey
  <2> DEFINE f == fs[h]
  <2>1. /\ f.infos = <<>> /\ Len(f.rsp.data) + Len(f.infos) = Len(f.seen)
        /\ \A i \in 1..Len(f.rsp.data) : Honest(db, mixed, f.seen[i].id, f.rsp.data[i])
    BY DEF PullsSound, PullSound, Waiting
  <2>2. Len(f.rsp.data) \in Nat /\ DOMAIN f.rsp.data = 1..Len(f.rsp.data)
    BY InfosType, LenProperties DEF Inv, TypeOK
  <2>3. \A k : {<<>>} \cup StoredValues(k) = Known(db, k)
    BY DEF StoredValues, Known
  <2> HIDE DEF f
  <2>4. Len(f.rsp.data) = Len(f.seen)
    BY <2>1, <2>2
  <2>5. ASSUME ~mixed, NEW i \in DOMAIN f.rsp.data
        PROVE  f.rsp.data[i] \in {<<>>} \cup StoredValues(f.seen[i].id)
    BY <2>1, <2>2, <2>3, <2>5 DEF Honest
  <2> QED
    BY <2>4, <2>5 DEF f
<1> QED
  BY <1>1, InvHolds, PullsHold, PTL
-----------------------------------------------------------------------------
(* Pushes, when all handlers are on one thread.                             *)

OneThread == \A g, h \in Handlers : ThreadOf[g] = ThreadOf[h]

\* The keys before the one the deletion loop of f is at are not in the cache m.
Deleted(m, f) ==
  f.pc = "del" => \A i \in 1..Len(f.infos) : i < f.idx => f.infos[i].id \notin KeysOf(m)

\* One callback runs at a time, and nothing has put back what it has deleted.
Exclusive == \A g, h \in Handlers : fs[g].pc \notin Waiting /\ fs[h].pc \notin Waiting => g = h
Clearing  == \A h \in Handlers : Deleted(cache, fs[h])

\* A callback that runs on, that ends, or that a free loop calls, runs alone.
LEMMA MoveExclusive ==
  ASSUME OneThread, Inv, Exclusive, NEW h \in Handlers, NEW n, Goto(h, n),
         fs[h].pc \notin Waiting \/ n.pc \in Waiting \/ LoopFree(h)
  PROVE  Exclusive'
<1>1. fs'[h] = n /\ \A j \in Handlers \ {h} : fs'[j] = fs[j]
  BY DEF Goto, Inv, TypeOK
<1>2. SUFFICES ASSUME NEW j \in Handlers \ {h}, fs'[j].pc \notin Waiting, fs'[h].pc \notin Waiting
               PROVE  FALSE
  BY <1>1 DEF Exclusive
<1>3. fs[j].pc \notin Waiting /\ fs[h].pc \in Waiting
  BY <1>1, <1>2 DEF Exclusive
<1>4. ~LoopFree(h)
  BY <1>3 DEF LoopFree, OneThread
<1> QED
  BY <1>1, <1>2, <1>3, <1>4

\* A step after which the cache has no new key leaves the loops as clear as before.
LEMMA MoveClearing ==
  ASSUME Inv, Clearing, NEW h \in Handlers, NEW n, Goto(h, n),
         KeysOf(cache') \subseteq KeysOf(cache), Deleted(cache', n)
  PROVE  Clearing'
<1>1. fs'[h] = n /\ \A j \in Handlers \ {h} : fs'[j] = fs[j]
  BY DEF Goto, Inv, TypeOK
<1>2. \A j \in Handlers : Deleted(cache', fs[j])
  BY DEF Clearing, Deleted
<1>3. \A j \in Handlers : Deleted(cache', fs'[j])
  BY <1>1, <1>2
<1> QED
  BY <1>3 DEF Clearing

\* The callbacks the loop calls: onRequest, onBody, onEOM, requestComplete, onError.
LEMMA CallbacksClearing ==
  ASSUME OneThread, Inv, Exclusive, Clearing, NEW h \in Handlers,
         \/ \E r \in Requests : OnRequest(h, r)
         \/ OnBody(h) \/ OnEOM(h) \/ RequestComplete(h) \/ OnError(h)
  PROVE  Exclusive' /\ Clearing'
<1> DEFINE f == fs[h]
<1>1. f \in HandlerStates /\ LoopFree(h) /\ UNCHANGED cache
  BY DEF Inv, TypeOK, OnRequest, OnBody, OnEOM, RequestComplete, OnError
<1>2. PICK n : Goto(h, n) /\ (n.pc = "del" => n.idx = 1)
  <2>1. ASSUME NEW r \in Requests, OnRequest(h, r)
        PROVE  \E n : Goto(h, n) /\ (n.pc = "del" => n.idx = 1)
    <3> DEFINE n == [Idle EXCEPT !.pc = "open", !.type = TypeOfUrl(r.url), !.body = r.body]
    <3>1. n.pc = "open"
      BY DEF Idle
    <3> QED
      BY <2>1, <3>1 DEF OnRequest
  <2>2. CASE OnBody(h)
    <3> DEFINE infos == Decode(f.type, Head(f.body))
               g == [f EXCEPT !.body = Tail(@), !.infos = infos, !.idx = 1, !.d = <<>>,
                              !.currv = 0, !.seen = @ \o infos]
               n1 == [g EXCEPT !.rsp = Merge(@, EncodeRsp(f.type, infos, 1))]
               n2 == [g EXCEPT !.pc = "pull"]
               n3 == [g EXCEPT !.pc = "del"]
               n4(s) == [g EXCEPT !.pc = "pushGet", !.inst = s]
    <3>1. Goto(h, n1) \/ Goto(h, n2) \/ Goto(h, n3) \/ \E s \in Slots : Goto(h, n4(s))
      BY <2>2 DEF OnBody
    <3>2. n1.idx = 1 /\ n2.idx = 1 /\ n3.idx = 1 /\ \A s \in Slots : n4(s).idx = 1
      BY <1>1 DEF HandlerStates
    <3> HIDE DEF n1, n2, n3, n4
    <3> QED
      BY <3>1, <3>2
  <2>3. CASE OnEOM(h)
    <3> DEFINE n == [f EXCEPT !.pc = "eom"]
    <3>1. n.pc = "eom"
      BY <1>1 DEF HandlerStates
    <3> QED
      BY <2>3, <3>1 DEF OnEOM
  <2>4. CASE RequestComplete(h) \/ OnError(h)
    BY <2>4 DEF RequestComplete, OnError, Idle
  <2> QED
    BY <2>1, <2>2, <2>3, <2>4
<1>3. Deleted(cache', n)
  BY <1>2 DEF Deleted
<1> QED
  BY <1>1, <1>2, <1>3, MoveExclusive, MoveClearing

\* The steps of a callback that is running.
LEMMA StepsClearing ==
  ASSUME OneThread, Inv, CopiesTrue, Exclusive, Clearing, NEW h \in Handlers,
         \/ PullCacheGet(h) \/ PullCacheSet(h) \/ PullReply(h) \/ PushReply(h)
         \/ DelStep(h) \/ DelReply(h) \/ \E pc \in AtRedis : RedisCommand(h, pc)
  PROVE  Exclusive' /\ Clearing'
<1> DEFINE f == fs[h]
<1>1. f \in HandlerStates /\ f.pc \notin Waiting /\ cache \in Lists(Keys, Strings) /\ Unique(cache)
      /\ Len(cache) <= MaxSize /\ InLoop(f)
  BY DEF Inv, TypeOK, CopiesTrue, Lists, Waiting, AtRedis, PullCacheGet, PullCacheSet, PullReply,
         PushReply, DelStep, DelReply, RedisCommand
<1>2. SUFFICES \E n : Goto(h, n) /\ Clearing'
  BY <1>1, MoveExclusive
<1>3. SUFFICES \/ Clearing' /\ \E n : Goto(h, n)
               \/ KeysOf(cache') \subseteq KeysOf(cache) /\ \E n : Goto(h, n) /\ Deleted(cache', n)
  BY MoveClearing
<1>4. CASE PullCacheGet(h)
  <2>1. More(f) /\ cache' = Find(cache, Cur(f).id)
    BY <1>4 DEF PullCacheGet
  <2>2. PICK n : Goto(h, n) /\ n.pc # "del"
    <3> DEFINE d == CacheGet(cache, Cur(f).id)
    <3>1. PullData(f, d).pc = "pull" /\ \A s \in Slots : [f EXCEPT !.pc = "pullDb", !.inst = s].pc = "pullDb"
      BY <1>1 DEF PullData, HandlerStates
    <3> QED
      BY <1>4, <3>1 DEF PullCacheGet
  <2> HIDE DEF f
  <2>3. KeysOf(cache') = KeysOf(cache)
    BY <1>1, <2>1, CurType, FindUnique
  <2> QED
    BY <2>2, <2>3 DEF Deleted
<1>5. CASE PullCacheSet(h)
  <2>1. Goto(h, PullData(f, f.d)) /\ f.pc = "pullSet" /\ PullData(f, f.d).pc = "pull"
    BY <1>1, <1>5 DEF PullCacheSet, PullData, HandlerStates
  <2>2. fs'[h].pc = "pull" /\ \A j \in Handlers \ {h} : fs'[j] = fs[j]
    BY <2>1 DEF Goto, Inv, TypeOK
  <2>3. \A j \in Handlers : fs'[j].pc # "del"
    BY <1>1, <2>2 DEF Exclusive, Waiting
  <2> QED
    BY <2>1, <2>3 DEF Clearing, Deleted
<1>6. CASE PullReply(h) \/ DelReply(h)
  <2>1. Goto(h, Return(f)) /\ UNCHANGED cache /\ Return(f).pc = "open"
    BY <1>6 DEF PullReply, DelReply, Return, Idle
  <2> QED
    BY <2>1 DEF Deleted
<1>7. CASE PushReply(h)
  <2> DEFINE n == [f EXCEPT !.pc = "del", !.idx = 1, !.currv = 0, !.inst = SomeSlot,
                            !.rsp = Reply(f)]
  <2>1. Goto(h, n) /\ UNCHANGED cache
    BY <1>7 DEF PushReply
  <2>2. n.idx = 1
    BY <1>1 DEF HandlerStates
  <2> HIDE DEF n
  <2> QED
    BY <2>1, <2>2 DEF Deleted
<1>8. CASE DelStep(h)
  <2> DEFINE n == [f EXCEPT !.idx = @ + 1]
             k == Cur(f).id
  <2>1. Goto(h, n) /\ cache' = Erase(cache, k) /\ f.pc = "del" /\ More(f)
    BY <1>8 DEF DelStep, CacheDel
  <2>2. n.infos = f.infos /\ n.idx = f.idx + 1 /\ f.idx \in Nat
    BY <1>1 DEF HandlerStates
  <2>3. Deleted(cache, f)
    BY DEF Clearing
  <2> HIDE DEF n, f
  <2>4. KeysOf(cache') = KeysOf(cache) \ {k}
    BY <1>1, <2>1, CurType, EraseUnique
  <2>5. Deleted(cache', n)
    <3> SUFFICES ASSUME NEW i \in 1..Len(f.infos), i < f.idx + 1
                 PROVE  f.infos[i].id \notin KeysOf(cache')
      BY <2>2 DEF Deleted
    <3>1. i < f.idx \/ i = f.idx
      BY <2>2, <1>1, InfosType
    <3> QED
      BY <2>1, <2>3, <2>4, <3>1 DEF Deleted, Cur
  <2> QED
    BY <2>1, <2>4, <2>5
<1>9. ASSUME NEW pc \in AtRedis, RedisCommand(h, pc)
      PROVE  \E n : Goto(h, n) /\ Deleted(cache', n) /\ KeysOf(cache') \subseteq KeysOf(cache)
  <2>1. f.pc \in AtRedis /\ UNCHANGED cache
    BY <1>9 DEF RedisCommand
  <2>2. PICK o \in Exec(db, f) : \E g \in After(f, o.reply) : Goto(h, g)
    BY <1>9 DEF RedisCommand
  <2>3. PICK g \in After(f, o.reply) : Goto(h, g)
    BY <2>2
  <2> HIDE DEF f
  <2>4. g.pc # "del"
    BY <1>1, <2>1, <2>3, AfterShape
  <2> QED
    BY <2>1, <2>3, <2>4 DEF Deleted
<1> QED
  BY <1>4, <1>5, <1>6, <1>7, <1>8, <1>9

\* Every step keeps callbacks apart and the deletion loops clear.
LEMMA ClearingStep ==
  ASSUME OneThread, Inv, CopiesTrue, Exclusive, Clearing, [Next]_vars
  PROVE  Exclusive' /\ Clearing'
<1>1. CASE UNCHANGED <<fs, cache>>
  BY <1>1 DEF Exclusive, Clearing
<1>2. ASSUME NEW h \in Handlers, Step(h) PROVE Exclusive' /\ Clearing'
  <2>1. CASE PullDbGet(h) \/ PushDbGet(h) \/ PushDbSet(h)
    <3>1. \E pc \in AtRedis : RedisCommand(h, pc)
      BY <2>1 DEF PullDbGet, PushDbGet, PushDbSet, AtRedis
    <3> QED
      BY <3>1, StepsClearing
  <2>2. CASE UseFreed(h)
    BY <1>1, <2>2 DEF UseFreed, End
  <2> QED
    BY <1>2, <2>1, <2>2, CallbacksClearing, StepsClearing DEF Step
<1>3. CASE Restart
  <2>1. \A h \in Handlers : fs'[h].pc = "idle"
    BY <1>3 DEF Restart, Idle
  <2> QED
    BY <2>1 DEF Exclusive, Clearing, Deleted, Waiting
<1>4. CASE Next
  <2>1. CASE \E h \in Handlers : \/ \E r \in Requests : OnRequest(h, r)
                                \/ Step(h) \/ OnError(h) \/ NullReply(h)
    BY <1>1, <1>2, <2>1, CallbacksClearing DEF NullReply, End
  <2>2. CASE \E h1, h2 \in Handlers : SwapReplies(h1, h2) \/ DataRace(h1, h2)
    BY <2>2 DEF DataRace, SwapReplies, OneThread
  <2>3. CASE \E k \in Keys, v \in ExtValues, ver \in ExtVersions : ExternalSet(k, v, ver)
    BY <1>1, <2>3 DEF ExternalSet
  <2>4. CASE Kill
    BY <1>1, <2>4 DEF Kill, End
  <2> QED
    BY <1>3, <1>4, <2>1, <2>2, <2>3, <2>4 DEF Next
<1> QED
  BY <1>1, <1>4 DEF vars

\* A push's callback ends in the deletion loop, and that loop only at its end.
LEMMA PushEnds ==
  ASSUME Inv, CopiesTrue, PullsSound, Clearing, [Next]_vars, NEW h \in Handlers,
         fs[h].type = "Push", fs[h].pc \notin Waiting, fs'[h].pc = "open"
  PROVE  \A i \in DOMAIN fs[h].infos : fs[h].infos[i].id \notin KeysOf(cache')
<1> DEFINE f == fs[h]
<1>1. f \in HandlerStates /\ f.pc \notin PullPCs /\ fs'[h] # f
  BY DEF Inv, TypeOK, PullsSound, PullSound, Waiting
<1>2. ASSUME NEW g \in Handlers, NEW n, Goto(g, n), n.pc # "open" PROVE FALSE
  BY <1>1, <1>2 DEF Goto, Inv, TypeOK
<1>3. ASSUME NEW g \in Handlers, NEW n, Goto(g, n), g # h PROVE FALSE
  BY <1>1, <1>3 DEF Goto, Inv, TypeOK
<1>4. ~UNCHANGED fs
  BY <1>1
<1>5. DelReply(h)
  <2>1. CASE Next
    <3>1. PICK g \in Handlers : (\E r \in Requests : OnRequest(g, r)) \/ Step(g) \/ OnError(g)
      <4>1. ASSUME NEW h1 \in Handlers, NEW h2 \in Handlers, SwapReplies(h1, h2)
            PROVE  FALSE
        <5>1. fs[h1] \in HandlerStates /\ fs[h2] \in HandlerStates
              /\ fs[h1].pc \in AtRedis /\ fs[h2].pc \in AtRedis
          BY <4>1 DEF Inv, TypeOK, SwapReplies, InRedis
        <5>2. PICK o1 \in Exec(db, fs[h1]) : \E o2 \in Exec(o1.db, fs[h2]) :
                \E g1 \in After(fs[h1], o2.reply), g2 \in After(fs[h2], o1.reply) :
                  fs' = [fs EXCEPT ![h1] = g1, ![h2] = g2]
          BY <4>1 DEF SwapReplies
        <5>3. PICK o2 \in Exec(o1.db, fs[h2]) :
                \E g1 \in After(fs[h1], o2.reply), g2 \in After(fs[h2], o1.reply) :
                  fs' = [fs EXCEPT ![h1] = g1, ![h2] = g2]
          BY <5>2
        <5>4. PICK g1 \in After(fs[h1], o2.reply), g2 \in After(fs[h2], o1.reply) :
                fs' = [fs EXCEPT ![h1] = g1, ![h2] = g2]
          BY <5>3
        <5>5. g1.pc # "open" /\ g2.pc # "open"
          BY <5>1, AfterShape
        <5>6. fs'[h] \in {g1, g2, fs[h]}
          BY <5>4 DEF Inv, TypeOK
        <5> QED
          BY <1>1, <5>5, <5>6
      <4>2. ~Restart
        BY DEF Restart, Idle
      <4> QED
        BY <1>4, <2>1, <4>1, <4>2 DEF Next, NullReply, DataRace, ExternalSet, Kill, End
    <3>2. g = h
      <4>1. \E n : Goto(g, n)
        BY <1>4, <3>1 DEF OnRequest, Step, OnError, OnBody, OnEOM, RequestComplete, PullCacheGet,
           PullDbGet, PullCacheSet, PullReply, PushDbGet, PushDbSet, PushReply, DelStep, DelReply,
           UseFreed, End, RedisCommand
      <4> QED
        BY <1>3, <4>1
    <3>3. \/ PushDbGet(h) \/ PushDbSet(h) \/ PushReply(h) \/ DelStep(h) \/ DelReply(h)
      BY <1>1, <1>4, <3>1, <3>2 DEF OnRequest, Step, OnError, OnBody, OnEOM, RequestComplete,
         PullCacheGet, PullDbGet, PullCacheSet, PullReply, RedisCommand, UseFreed, End, Waiting, PullPCs
    <3>4. ~PushReply(h)
      <4> DEFINE n == [f EXCEPT !.pc = "del", !.idx = 1, !.currv = 0, !.inst = SomeSlot,
                                !.rsp = Reply(f)]
      <4>1. n.pc = "del"
        BY <1>1 DEF HandlerStates
      <4>2. ~Goto(h, n)
        BY <1>2, <4>1
      <4> QED
        BY <4>2 DEF PushReply
    <3>5. ~DelStep(h)
      <4> DEFINE n == [f EXCEPT !.idx = @ + 1]
      <4>1. f.pc = "del" => n.pc = "del"
        BY <1>1 DEF HandlerStates
      <4>2. f.pc = "del" => ~Goto(h, n)
        BY <1>2, <4>1
      <4> QED
        BY <4>2 DEF DelStep
    <3>6. ASSUME NEW pc \in AtRedis, RedisCommand(h, pc) PROVE FALSE
      <4>1. f.pc \in AtRedis
        BY <3>6 DEF RedisCommand
      <4>2. PICK o \in Exec(db, f) : \E n \in After(f, o.reply) : Goto(h, n)
        BY <3>6 DEF RedisCommand
      <4>3. PICK n \in After(f, o.reply) : Goto(h, n)
        BY <4>2
      <4> HIDE DEF f
      <4>4. n.pc # "open"
        BY <1>1, <4>1, AfterShape
      <4> QED
        BY <1>2, <4>3, <4>4
    <3> QED
      BY <3>3, <3>4, <3>5, <3>6 DEF PushDbGet, PushDbSet, AtRedis
  <2> QED
    BY <1>4, <2>1 DEF vars
<1>6. f.pc = "del" /\ ~More(f) /\ UNCHANGED cache /\ Deleted(cache, f)
  BY <1>5 DEF DelReply, Clearing
<1>7. Len(f.infos) \in Nat /\ DOMAIN f.infos = 1..Len(f.infos) /\ f.idx \in Nat
  BY <1>1, InfosType, LenProperties DEF HandlerStates
<1> HIDE DEF f
<1>8. \A i \in 1..Len(f.infos) : i < f.idx
  BY <1>6, <1>7 DEF More
<1>9. \A i \in DOMAIN f.infos : f.infos[i].id \notin KeysOf(cache')
  BY <1>6, <1>7, <1>8 DEF Deleted
<1> QED
  BY <1>9 DEF f

\* With all handlers on one thread, when a push gives control back to the event
\* loop no key it carried is cached (Service.cpp:92-97).
THEOREM PushesInvalidate ==
  ASSUME OneThread
  PROVE  Spec => PushInvalidates
<1>1. Init => Exclusive /\ Clearing
  BY DEF Init, Exclusive, Clearing, Deleted, Idle, Waiting
<1>2. Inv /\ CopiesTrue /\ Exclusive /\ Clearing /\ [Next]_vars => (Exclusive /\ Clearing)'
  BY ClearingStep
<1>3. Inv /\ CopiesTrue /\ PullsSound /\ Clearing /\ [Next]_vars =>
        [\A h \in Handlers :
           (fs[h].type = "Push" /\ fs[h].pc \notin Waiting /\ fs'[h].pc = "open") =>
             \A i \in DOMAIN fs[h].infos : fs[h].infos[i].id \notin KeysOf(cache')]_vars
  BY PushEnds
<1> QED
  BY <1>1, <1>2, <1>3, InvHolds, CopiesHold, PullsHold, PTL DEF Spec, PushInvalidates
=============================================================================
