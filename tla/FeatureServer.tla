----------------------------- MODULE FeatureServer -----------------------------
(***************************************************************************)
(* The feature server (main.cpp, service/, cache/, db/): HTTP worker        *)
(* threads run the callbacks of FsHandler objects; the handlers share the   *)
(* cache, the pool of Redis contexts and, through Redis, the stored         *)
(* features.  A callback blocks its thread until it returns, so handlers of *)
(* one thread interleave only between callbacks, handlers of two threads at *)
(* every access to the cache or to Redis.                                   *)
(***************************************************************************)
EXTENDS EvictingCacheMap, RedisDB, Msg

CONSTANTS Handlers,   \* FsHandler objects; one is reused when its request is over
          Threads,    \* HTTP worker threads (main.cpp:18-25)
          ThreadOf,   \* the thread whose event loop owns a handler's connection
          Slots,      \* indexes of G_DBInsts (10 of them)
          Keys,       \* uint64_t feature keys
          Requests,   \* what clients send: a url and the body, chunk by chunk
          ExtValues,  \* strings other clients of Redis store ...
          ExtVersions,\* ... and the versions they store them at
          Faults      \* failures considered: "error" and "null" replies, "kill", "abort"

Infos == Seq([id : Keys, d : Strings])

ASSUME ServerAssumption ==
  /\ ThreadOf \in [Handlers -> Threads]
  /\ Slots # {}
  /\ Keys \subseteq Nat /\ 0 \in Keys
  /\ Requests \subseteq [url : STRING, body : Seq(Infos)]
  /\ ExtValues \subseteq Strings
  /\ ExtVersions \subseteq Versions

VARIABLES
  proc,     \* "up", or why the process is gone (or its behaviour undefined)
  fs,       \* the FsHandler objects and the locals of their running callback
  db,       \* Redis: the hash of every hash key
  cache,    \* the LRU list of CacheSpace
  ctx,      \* the redisContext of every pool slot: "open" or "freed"
  mixed,    \* history: two threads on one context have got each other's reply
  suspect   \* history: keys whose cached value may differ from the stored one

vars == <<proc, fs, db, cache, ctx, mixed, suspect>>

\* Why the process has ended: a freed context used, a data race, a NULL reply
\* dereferenced, or killed from outside.
Ends == {"freed", "raced", "null", "killed"}

Waiting == {"idle", "open", "eom"}
AtRedis == {"pullDb", "pushGet", "pushSet"}
PCs     == Waiting \cup AtRedis \cup {"pull", "pullSet", "del"}

\* What a client reads of the replies sent so far.
Rsps == [errCode : Int, data : Seq(Strings), succ : BOOLEAN]

HandlerStates ==
  [pc : PCs, type : MsgTypes, body : Seq(Infos), infos : Infos, idx : Nat \ {0},
   d : Strings, currv : Versions, inst : Slots, rsp : Rsps,
   seen : Infos]   \* history: every info decoded since onRequest

SomeSlot == CHOOSE s \in Slots : TRUE

Idle == [pc |-> "idle", type |-> "Unknow", body |-> <<>>, infos |-> <<>>, idx |-> 1,
         d |-> <<>>, currv |-> 0, inst |-> SomeSlot, rsp |-> NoRsp, seen |-> <<>>]

\* The state of a new process: static initialisation connects the pool.
Init == /\ proc = "up"
        /\ fs = [h \in Handlers |-> Idle]
        /\ db = [hk \in HashKeys |-> NoHash]
        /\ cache = <<>>
        /\ ctx = [s \in Slots |-> "open"]
        /\ mixed = FALSE
        /\ suspect = {}
-----------------------------------------------------------------------------
\* FsHandlerFactory::onRequest.
TypeOfUrl(url) == CASE url = "/pull"     -> "Pull"
                    [] url = "/push"     -> "Push"
                    [] url = "/delcache" -> "DelCache"
                    [] OTHER             -> "Unknow"

\* No callback is running on the thread of h: its event loop may call one.
LoopFree(h) == \A g \in Handlers : ThreadOf[g] = ThreadOf[h] => fs[g].pc \in Waiting

\* The info the loops of onBody are at.
Cur(f)  == f.infos[f.idx]
More(f) == f.idx <= Len(f.infos)

Goto(h, f) == fs' = [fs EXCEPT ![h] = f]

\* The keys that are one hash in Redis.
Aliases(k) == {j \in Keys : FmtKey(j) = FmtKey(k)}

\* The response headers go out at once; the handler waits for body chunks.
OnRequest(h, r) ==
  /\ proc = "up" /\ LoopFree(h) /\ fs[h].pc = "idle"
  /\ Goto(h, [Idle EXCEPT !.pc = "open", !.type = TypeOfUrl(r.url), !.body = r.body])
  /\ UNCHANGED <<proc, db, cache, ctx, mixed, suspect>>

\* onBody up to the first access to shared state.  Each chunk is decoded as a
\* message of its own.  A push picks its pool slot here.
OnBody(h) ==
  LET f     == fs[h]
      infos == Decode(f.type, Head(f.body))
      g     == [f EXCEPT !.body = Tail(@), !.infos = infos, !.idx = 1, !.d = <<>>,
                         !.currv = 0, !.seen = @ \o infos]
  IN  /\ proc = "up" /\ LoopFree(h) /\ f.pc = "open" /\ f.body # <<>>
      /\ \/ /\ f.type = "Unknow"
            /\ Goto(h, [g EXCEPT !.rsp = Merge(@, EncodeRsp(f.type, infos, 1))])
         \/ f.type = "Pull"     /\ Goto(h, [g EXCEPT !.pc = "pull"])
         \/ f.type = "DelCache" /\ Goto(h, [g EXCEPT !.pc = "del"])
         \/ /\ f.type = "Push"
            /\ \E s \in Slots : Goto(h, [g EXCEPT !.pc = "pushGet", !.inst = s])
      /\ UNCHANGED <<proc, db, cache, ctx, mixed, suspect>>

\* CacheSpace::get, set and del.  get also moves the entry (Find).
CacheGet(m, k)    == IF k \in KeysOf(m) THEN Peek(m, k) ELSE <<>>
CacheSet(m, k, v) == Put(m, k, v)
CacheDel_noop(m, k) == m   \* faulty variant: del finds nothing to erase
CacheDel(m, k)    == Erase(m, k)

\* Faulty variants: the data goes to the first key; an empty answer is retried.
PullData_first(f, d) == [f EXCEPT !.infos[1].d = d, !.idx = @ + 1, !.pc = "pull",
                                  !.d = <<>>, !.inst = SomeSlot]
PullData_retry(f, d) == [f EXCEPT !.infos[f.idx].d = d, !.pc = "pull", !.d = <<>>,
                                  !.idx = IF d = <<>> THEN @ ELSE @ + 1, !.inst = SomeSlot]

\* setPullData and the loop's i++; d and the slot are not read again.
PullData(f, d) == [f EXCEPT !.infos[f.idx].d = d, !.idx = @ + 1, !.pc = "pull",
                            !.d = <<>>, !.inst = SomeSlot]

\* The pull loop asks the cache; an empty string counts as a miss.
PullCacheGet(h) ==
  LET f == fs[h]
      k == Cur(f).id
      d == CacheGet(cache, k)
  IN  /\ proc = "up" /\ f.pc = "pull" /\ More(f)
      /\ cache' = Find(cache, k)
      /\ \/ d # <<>> /\ Goto(h, PullData(f, d))
         \/ d = <<>> /\ \E s \in Slots : Goto(h, [f EXCEPT !.pc = "pullDb", !.inst = s])
      /\ UNCHANGED <<proc, db, ctx, mixed, suspect>>

\* The pull loop stores what Redis returned in the cache, empty or not.
PullCacheSet(h) ==
  LET f == fs[h]
  IN  /\ proc = "up" /\ f.pc = "pullSet"
      /\ cache' = CacheSet(cache, Cur(f).id, f.d)
      /\ Goto(h, PullData(f, f.d))
      /\ UNCHANGED <<proc, db, ctx, mixed, suspect>>

Reply_last(f) == EncodeRsp(f.type, f.infos, 0)   \* faulty variant: one chunk's reply only
Reply(f) == Merge(f.rsp, EncodeRsp(f.type, f.infos, 0))

\* onBody sends its reply and returns; msg and the other locals are gone.
Return(f) == [Idle EXCEPT !.pc = "open", !.type = f.type, !.body = f.body,
                          !.rsp = Reply(f), !.seen = f.seen]

PullReply(h) ==
  LET f == fs[h]
  IN  /\ proc = "up" /\ f.pc = "pull" /\ ~More(f)
      /\ Goto(h, Return(f))
      /\ UNCHANGED <<proc, db, cache, ctx, mixed, suspect>>
-----------------------------------------------------------------------------
\* The handler is inside redisCommand.
InRedis(f) == f.pc \in AtRedis /\ (f.pc = "pushGet" => More(f))

\* What the Redis server may do with the command of f when its data is D.
Exec(D, f) ==
  LET hk == FmtKey(Cur(f).id)
  IN  (IF f.pc = "pushSet"
       THEN {[db |-> [D EXCEPT ![hk] = HSetNX(@, f.currv, s)], reply |-> IntReply] :
               s \in FmtStr(f.d)}
       ELSE {[db |-> D, reply |-> ArrayReply(D[hk])]})
      \cup (IF "error" \in Faults THEN {[db |-> D, reply |-> ErrorReply]} ELSE {})

\* What the handler makes of reply r: DBInst::get or set returns, and the
\* handler goes on to its next access to shared state.
After(f, r) ==
  CASE f.pc = "pullDb"  -> {[f EXCEPT !.pc = "pullSet", !.d = g.ret] :
                              g \in GetResults(r, f.currv)}
    [] f.pc = "pushGet" -> {[f EXCEPT !.pc = "pushSet", !.d = g.ret \o Cur(f).d,
                                      !.currv = g.currv] : g \in GetResults(r, f.currv)}
    [] f.pc = "pushSet" -> {[f EXCEPT !.pc = "pushGet", !.idx = @ + 1, !.d = <<>>]}

\* History: the keys whose stored value differs between D and E.
Touched(D, E) == {k \in Keys : D[FmtKey(k)] # E[FmtKey(k)]}

\* One command on an open context, answered with its own reply.
RedisCommand(h, pc) ==
  LET f == fs[h]
  IN  /\ proc = "up" /\ f.pc = pc /\ InRedis(f) /\ ctx[f.inst] = "open"
      /\ \E o \in Exec(db, f) : \E g \in After(f, o.reply) :
           /\ db' = o.db
           /\ Goto(h, g)
      /\ suspect' = suspect \cup Touched(db, db')
      /\ UNCHANGED <<proc, cache, ctx, mixed>>

\* Faulty variant: the pull, too, works on a copy of the pooled DBInst.
PullDbGet_copy(h) ==
  LET f == fs[h]
  IN  /\ proc = "up" /\ f.pc = "pullDb" /\ ctx[f.inst] = "open"
      /\ \E g \in After(f, ArrayReply(db[FmtKey(Cur(f).id)])) : Goto(h, g)
      /\ ctx' = [ctx EXCEPT ![f.inst] = "freed"]
      /\ UNCHANGED <<proc, db, cache, mixed, suspect>>

PullDbGet(h) == RedisCommand(h, "pullDb")
PushDbGet(h) == RedisCommand(h, "pushGet")
PushDbSet(h) == RedisCommand(h, "pushSet")

\* Two threads on one context, which hiredis does not lock: each may read the
\* reply to the other's command.
SwapReplies(h1, h2) ==
  LET f1 == fs[h1]
      f2 == fs[h2]
  IN  /\ proc = "up" /\ ThreadOf[h1] # ThreadOf[h2]
      /\ InRedis(f1) /\ InRedis(f2) /\ f1.inst = f2.inst /\ ctx[f1.inst] = "open"
      /\ \E o1 \in Exec(db, f1) : \E o2 \in Exec(o1.db, f2) :
         \E g1 \in After(f1, o2.reply), g2 \in After(f2, o1.reply) :
           /\ db' = o2.db
           /\ fs' = [fs EXCEPT ![h1] = g1, ![h2] = g2]
      /\ mixed' = TRUE
      /\ suspect' = suspect \cup Touched(db, db')
                            \cup Aliases(Cur(f1).id) \cup Aliases(Cur(f2).id)
      /\ UNCHANGED <<proc, cache, ctx>>

\* Faulty variant: with the break that keeps a push from falling through.
PushReply_break(h) ==
  LET f == fs[h]
  IN  /\ proc = "up" /\ f.pc = "pushGet" /\ ~More(f) /\ ctx[f.inst] = "open"
      /\ ctx' = [ctx EXCEPT ![f.inst] = "freed"]
      /\ Goto(h, Return(f))
      /\ UNCHANGED <<proc, db, cache, mixed, suspect>>

\* The loop of a push is over.  It replies, and the destructor of its copy of
\* the pooled DBInst frees the context the pool still points to.  There is no
\* break: control falls through to the deletion of the keys' cache entries.
PushReply(h) ==
  LET f == fs[h]
  IN  /\ proc = "up" /\ f.pc = "pushGet" /\ ~More(f) /\ ctx[f.inst] = "open"
      /\ ctx' = [ctx EXCEPT ![f.inst] = "freed"]
      /\ Goto(h, [f EXCEPT !.pc = "del", !.idx = 1, !.currv = 0,
                         !.inst = SomeSlot, !.rsp = Reply(f)])
      /\ UNCHANGED <<proc, db, cache, mixed, suspect>>

\* History: another handler has read k from Redis and not yet cached it.
FillInFlight(k) == \E g \in Handlers : fs[g].pc = "pullSet" /\ Cur(fs[g]).id = k

\* The loop of DelCache, and of a push that has fallen through.
DelStep(h) ==
  LET f == fs[h]
      k == Cur(f).id
  IN  /\ proc = "up" /\ f.pc = "del" /\ More(f)
      /\ cache' = CacheDel(cache, k)
      /\ Goto(h, [f EXCEPT !.idx = @ + 1])
      /\ suspect' = IF FillInFlight(k) THEN suspect ELSE suspect \ {k}
      /\ UNCHANGED <<proc, db, ctx, mixed>>

DelReply(h) ==
  LET f == fs[h]
  IN  /\ proc = "up" /\ f.pc = "del" /\ ~More(f)
      /\ Goto(h, Return(f))
      /\ UNCHANGED <<proc, db, cache, ctx, mixed, suspect>>

\* onEOM: the whole body has been seen; the response is closed.
OnEOM(h) ==
  /\ proc = "up" /\ LoopFree(h) /\ fs[h].pc = "open" /\ fs[h].body = <<>>
  /\ Goto(h, [fs[h] EXCEPT !.pc = "eom"])
  /\ UNCHANGED <<proc, db, cache, ctx, mixed, suspect>>

\* requestComplete: delete this.
RequestComplete(h) ==
  /\ proc = "up" /\ LoopFree(h) /\ fs[h].pc = "eom"
  /\ Goto(h, Idle)
  /\ UNCHANGED <<proc, db, cache, ctx, mixed, suspect>>

\* onError: the connection broke; delete this.
OnError(h) ==
  /\ "abort" \in Faults
  /\ proc = "up" /\ LoopFree(h) /\ fs[h].pc \in {"open", "eom"}
  /\ Goto(h, Idle)
  /\ UNCHANGED <<proc, db, cache, ctx, mixed, suspect>>
-----------------------------------------------------------------------------
\* Another client of Redis calls DBInst::set (db/test/RedisDBTest.cpp does).
ExternalSet(k, v, ver) ==
  /\ \E s \in FmtStr(v) : db' = [db EXCEPT ![FmtKey(k)] = HSetNX(@, ver, s)]
  /\ suspect' = suspect \cup Touched(db, db')
  /\ UNCHANGED <<proc, fs, cache, ctx, mixed>>

\* The process is gone, or what it does is undefined: nothing is claimed of it
\* before it is started again.
End(why) == /\ proc = "up" /\ proc' = why
            /\ UNCHANGED <<fs, db, cache, ctx, mixed, suspect>>

\* A command on a freed context, or its second redisFree.
UseFreed(h) ==
  /\ ctx[fs[h].inst] = "freed"
  /\ InRedis(fs[h]) \/ fs[h].pc = "pushGet"
  /\ End("freed")

\* redisCommand returns NULL (connection lost): get and set dereference it.
NullReply(h) == "null" \in Faults /\ InRedis(fs[h]) /\ End("null")

\* The next step of f reads or writes the LRU list.
InCache(f) == f.pc = "pullSet" \/ (f.pc \in {"pull", "del"} /\ More(f))

\* Two threads in the unlocked LRU list or in one redisContext: besides the
\* orders the other actions allow, the outcome may be anything.
DataRace(h1, h2) ==
  /\ ThreadOf[h1] # ThreadOf[h2]
  /\ \/ InCache(fs[h1]) /\ InCache(fs[h2])
     \/ InRedis(fs[h1]) /\ InRedis(fs[h2]) /\ fs[h1].inst = fs[h2].inst
  /\ End("raced")

Kill == "kill" \in Faults /\ End("killed")

\* A new process: the cache and the pool are new, Redis has kept its data.
Restart ==
  /\ proc \in Ends
  /\ proc' = "up"
  /\ fs' = [h \in Handlers |-> Idle]
  /\ cache' = <<>>
  /\ ctx' = [s \in Slots |-> "open"]
  /\ mixed' = FALSE
  /\ suspect' = {}
  /\ UNCHANGED db

\* What the event loop of h's thread runs once the request has been received.
Step(h) == \/ OnBody(h) \/ OnEOM(h) \/ RequestComplete(h)
           \/ PullCacheGet(h) \/ PullDbGet(h) \/ PullCacheSet(h) \/ PullReply(h)
           \/ PushDbGet(h) \/ PushDbSet(h) \/ PushReply(h)
           \/ DelStep(h) \/ DelReply(h)
           \/ UseFreed(h)

Next == \/ \E h \in Handlers : \/ \E r \in Requests : OnRequest(h, r)
                               \/ Step(h)
                               \/ OnError(h)
                               \/ NullReply(h)
        \/ \E h1, h2 \in Handlers : SwapReplies(h1, h2) \/ DataRace(h1, h2)
        \/ \E k \in Keys, v \in ExtValues, ver \in ExtVersions : ExternalSet(k, v, ver)
        \/ Kill
        \/ Restart

Spec == Init /\ [][Next]_vars

\* The event loop serves every ready connection in turn and a callback that has
\* begun runs on; a Redis that accepts a command answers it.
FairSpec == Spec /\ \A h \in Handlers : SF_vars(Step(h))
-----------------------------------------------------------------------------
\* Every variable keeps its type; in particular the versions handlers carry are
\* versions, and what is cached, stored and answered are strings of bytes.
TypeOK == /\ proc \in {"up"} \cup Ends
          /\ fs \in [Handlers -> HandlerStates]
          /\ db \in [HashKeys -> Hash]
          /\ cache \in Seq([key : Keys, val : Strings])
          /\ ctx \in [Slots -> {"open", "freed"}]
          /\ mixed \in BOOLEAN
          /\ suspect \subseteq Keys

\* What a reader of the hash of k may get for one of its fields.
StoredValues(k)  == {CStr(db[FmtKey(k)][v]) : v \in Fields(db[FmtKey(k)])}
CurrentValues(k) == {CStr(db[FmtKey(k)][v]) : v \in Latest(db[FmtKey(k)])}

\* A finished pull has one answer for every key it was asked for, in order over
\* all chunks of its body (Service.cpp:61-74), and unless replies were mixed up
\* each answer is empty or a value Redis holds for that key, whichever threads,
\* evictions, failed commands and other writers came between.
PullAnswersEveryKey ==
  proc = "up" =>
    \A h \in Handlers : fs[h].pc = "eom" /\ fs[h].type = "Pull" =>
      /\ Len(fs[h].rsp.data) = Len(fs[h].seen)
      /\ ~mixed => \A i \in DOMAIN fs[h].rsp.data :
                     fs[h].rsp.data[i] \in {<<>>} \cup StoredValues(fs[h].seen[i].id)

\* A non-empty cached value is the newest stored one, unless since the last
\* deletion of the key's entry Redis was written, replies were mixed up or the
\* deletion overlapped a fill of the entry (Service.cpp:63-66 against 96).
Coherent ==
  proc = "up" =>
    \A k \in KeysOf(cache) \ suspect :
      Peek(cache, k) \in {<<>>} \cup CurrentValues(k)

\* Redis is append-only: no interleaving of pushes, crashes and other writers
\* changes or removes a stored version (HSETNX, RedisDB.cpp:50).
StoredVersionsStay ==
  [][\A hk \in HashKeys : \A v \in Fields(db[hk]) : db'[hk][v] = db[hk][v]]_vars

\* Every version in Redis.
AllVersions(D) == UNION {Fields(D[hk]) : hk \in HashKeys}

\* The server never makes a version number of its own: whatever it stores, it
\* stores at 0 or at a version some hash already has, though possibly another
\* key's (the currv carried over from key to key, Service.cpp:79-88).
NoNewVersion == [][fs' # fs => AllVersions(db') \subseteq AllVersions(db) \cup {0}]_vars

\* A push that finds a stored value with a version never changes Redis: it
\* writes the merged value at the very version it has just read, where HSETNX
\* refuses it (Service.cpp:86-88, RedisDB.cpp:35 and 50).
MergedPushIsLost ==
  [][\A h \in Handlers :
       (/\ fs[h].pc = "pushSet" /\ fs'[h].pc = "pushGet"
        /\ fs[h].currv > 0 /\ fs[h].d # Cur(fs[h]).d /\ ~mixed') => db' = db]_vars

\* With one worker thread, when a push gives control back to the event loop no
\* key it carried is cached: the missing break (Service.cpp:92) is what makes
\* the next pull see the pushed value.
PushInvalidates ==
  [][\A h \in Handlers :
       (fs[h].type = "Push" /\ fs[h].pc \notin Waiting /\ fs'[h].pc = "open") =>
         \A i \in DOMAIN fs[h].infos : fs[h].infos[i].id \notin KeysOf(cache')]_vars

\* A process that gets only pulls and cache deletions never touches a freed context.
NeverUsesFreed == proc # "freed"

\* Every accepted request is answered and its handler deleted, or the process ends.
RequestsFinish ==
  \A h \in Handlers : fs[h].pc # "idle" ~> (fs[h].pc = "idle" \/ proc # "up")
-----------------------------------------------------------------------------
(* What the repository says of the server and the code does not do.         *)

\* "cas", "merge(d, kv.d)" (Service.cpp:85-87): an acknowledged push is in
\* Redis, merged with what was there.
AckedPushIsStored ==
  \A h \in Handlers :
    (fs[h].pc = "eom" /\ fs[h].type = "Push" /\ fs[h].rsp.errCode = 0) =>
      \A i \in DOMAIN fs[h].seen : \E s \in StoredValues(fs[h].seen[i].id) :
        IsSuffix(fs[h].seen[i].d, s)

\* "chose context do redis get" (RedisDB.h:20): a get may choose any pooled context.
PooledContextsOpen == \A s \in Slots : ctx[s] = "open"
=============================================================================
