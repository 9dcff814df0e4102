# leon-c: a TLA+ model of the feature server and its clients

The repository is a set of C++ programs. The one with logic of its own is the
**feature server** (`src/feature-server`): an HTTP service that stores features
in Redis and serves them through an in-process LRU cache. The other directories
hold earlier HTTP clients (`feature-server/back-code`), an echo server
(`httpserver`), experiments with libraries (`test-debug`, `test-1`), some of which
are programs with state of their own (an HTTP client, a Kafka consumer), and
container builds. This project models the feature server, the bytes
it exchanges with its clients, those clients and the programs with state; file
names below are relative to `src/feature-server` unless they say otherwise.

## The system

| Part | State | Operations | Talks to |
|---|---|---|---|
| `FsHandlerFactory`, `FsHandler` (`service/Service.cpp`) | request type; locals of the running callback | `onRequest`, `onBody` per chunk, `onEOM`, `requestComplete`, `onError` | calls the codec, the cache and the Redis pool; called by proxygen's event loop |
| `InOutMsg` (`service/Msg.cpp`) | `infos_`, the (key, data) pairs of one chunk | decode, `getPullIds`, `setPullData`, `EncodeRsp` | generated protobuf code |
| `DBInst`, `G_DBInsts` (`db/RedisDB.cpp`) | ten `redisContext*` shared by all threads | `get` (HGETALL), `set` (HSETNX), destructor (`redisFree`) | Redis |
| `CacheSpace` (`cache/Cache.cpp`) | one `EvictingCacheMap` of 100 entries, shared by all threads, no lock | `get`, `set`, `del` | folly |
| process (`main.cpp`) | worker threads, one event loop each | start, run until signalled | proxygen |
| message classes (`util/pbdata/serv-msg.pb.*`; `hello.pb.*` and `test.pb.*` of `src/test-debug`) | the fields of a message and its unknown fields | accessors, `Clear`, parse, `ByteSizeLong`, serialize, `MergeFrom`, `CopyFrom` | protobuf runtime; called by `InOutMsg` and the clients |
| `CliManage`, `CliSession`, `CliHandle` (`back-code/client/HttpClient.cpp`) | sessions with an event loop each; response and body of the send under way | connect, `send` (blocking), transaction callbacks | proxygen; an HTTP server such as the feature server |
| `CurlClient` (`src/test-debug/curl`) | input file, pause flag, responses, push handlers | `connectSuccess`, `sendBodyFromFile`, transaction callbacks, pushed transactions | proxygen |
| Kafka consumer (`src/test-debug/kafka-test/kafka-test-1.cpp`) | `run`, `eof_cnt`, `partition_cnt`, rounds | `msg_consume`, `rebalance_cb`, `sigterm`, shutdown | librdkafka |
| `parseHeaders` (in both clients) | none | a pure function | |
| echo server (`src/test-debug/echo`) | a request counter per thread | callbacks of a request | proxygen; not modelled |

A **pull** asks the cache for every key, on a miss asks Redis for the newest
version and caches what came back. A **push** reads every key from Redis,
appends the pushed data and writes the result with HSETNX at the version it has
read; the missing `break` after it then deletes the keys from the cache. A
**delcache** deletes one key from the cache. A feature is a Redis hash whose
fields are version numbers.

What is hard here: callbacks of one thread interleave between chunks, callbacks
of two threads at every access to shared state; a context used by two threads
may hand each the other's reply; a cache fill may land after the deletion that
should have removed it; a push destroys a pooled context that later requests
use; Redis errors look like absent keys; the process can die between a write and
the deletion that belongs to it. A body may be cut into chunks anywhere, and the
server parses every chunk as a message and ignores the parser's verdict. The
blocking client runs exactly two iterations of an event loop whatever the server
does; the curl client is paused and resumed while it sends; the consumer's
partitions come and go while it counts their ends. `PROJECT.json` lists these
hazards by line.

## Modules

| Module | Models |
|---|---|
| `EvictingCacheMap` | folly's LRU map as `Cache.cpp` uses it (external): the list itself, most recent first |
| `CacheSpace` | the cache as a component: one action per method; `call` records the last call with its argument or result |
| `ForgetfulMap` | what a cache promises: a key is bound to its latest value or to nothing, and `get` returns that |
| `RedisDB` | `DBInst::get` and `set`: the formats `%d` and `%s`, HSETNX, the choice of the newest version, the reply switch |
| `Msg` | decoding one chunk and what a client reads from the replies |
| `FeatureServer` | the composition: handlers, threads, cache, pool and Redis |
| `MCFeatureServer` | requests and threads of the instances TLC checks |
| `EvictingCacheMapProofs`, `CacheSpaceProofs` | lemmas about the LRU list; theorems about the cache |
| `FeatureServerProofs` | theorems about the server: types, storage and the pool; the cache, the answers and the pushes |
| `WireFormat` | the protobuf runtime the generated classes call (external): varints, tags, strings, packed arrays, unknown fields, on bytes |
| `TestPb`, `ServMsg` | the generated classes, one operator per method: `TestPb` by an older protoc with its own parser, `ServMsg` the nine others |
| `PbChannel`, `MCPbChannel` | messages built, serialized into one body, cut into chunks and parsed chunk by chunk; the values of the instances |
| `PbChannelProofs` | what every reader and writer of `WireFormat`, `TestPb` and `ServMsg` returns; sizes are exact; values are read as they were written |
| `PbRoundTripProofs` | what was written is read again: a whole body is the merge of its messages, and a body cut anywhere is so or is refused |
| `HttpClient` | the proxygen client and a server that answers when it likes, before it has all of the request too |
| `CurlClient` | proxygen_curl from `main` to its return |
| `KafkaConsumer` | the consume loop, rebalances and the group's doings |
| `HttpClientProofs`, `CurlClientProofs`, `KafkaConsumerProofs` | the theorems about these three programs; `CurlClientProofs` also those about `parseHeaders` |
| `ParseHeaders` | `parseHeaders` and what its result should be, without state; `CurlClient` calls it on every value of the flag |

`FeatureServer` extends `EvictingCacheMap`, `RedisDB` and `Msg` and uses their
operators on its own variables. `PbChannel` extends `ServMsg`, which extends
`TestPb` and that `WireFormat`; it is the detailed view of what `Msg` (`Decode`,
`Merge`) takes for granted: that concatenated replies read as their merge, and
what a chunk that ends inside a field yields. Definitions whose name ends in an underscore and
a word (`Put_twice`, `CacheDel_noop`, ...) and `HSet` are faulty variants of the
definition that follows them, kept to show that the properties notice the fault;
no specification uses them.

### How state and actions correspond to the code

`fs[h]` is an `FsHandler` together with the locals of the callback it is in; `pc`
says where `onBody` stands: `open` and `eom` are between callbacks, `pull`,
`pullDb`, `pullSet` the pull loop before the cache lookup, inside `redisCommand`
and before the cache fill, `pushGet` and `pushSet` the two commands of a push,
`del` the deletion loop. `body` holds the chunks still to come. `db` is Redis,
`cache` the LRU list, `ctx` whether the context of each pool slot is open or was
freed. A handler object stands for one connection's current request and is used
again when `requestComplete` or `onError` has deleted it.

`onBody` is cut at its accesses to shared state and nowhere else. `LoopFree`
says that a thread runs one callback at a time. A push takes its slot when
`onBody` starts, a pull takes a new one for every miss (`rand() % DBInstNum`).

Three variables are history. `seen` (in `fs[h]`) holds the keys decoded since
`onRequest`. `mixed` records that replies were exchanged. `suspect` holds the
keys whose entry may differ from Redis: a key enters when its hash changes or
its reply was exchanged, and leaves when its entry is deleted while nobody is
about to fill it.

Undefined behaviour ends the process: after a use of a freed context, a data
race or a NULL dereference, nothing is claimed until `Restart`. Exchanged replies on
a shared context are modelled besides, because that is an outcome hiredis
produces without any visible failure (`SwapReplies`), and so are all the orders
in which two threads may go through the cache one after the other.

Values are sequences of bytes over a small alphabet. `%d` reads the low 32 bits
of a key (`FmtKey`); `%s` with an `fbstring` argument reads the object itself,
which under the usual ABI gives the text of a string kept inside the object (up
to 23 bytes) and the bytes of a heap pointer for a longer one (`FmtStr`, the
pointer's first byte being zero or not). Both are modelled as what they do.

**Messages.** A message is a record of its fields and `unk`, the bytes of unknown
fields. TLC's integers have 32 bits, so a 64-bit integer is the sequence of its
base-128 digits; casts to `int32`, `uint32` and `bool` are operators on digits. A
reader returns what it has read together with its verdict, because the generated
code leaves what was read in the message when it fails, and `InOutMsg` uses it.
The newer parser reads the last `SlopBytes` of its input, or all of a shorter one, in
a patch buffer with zeros behind them and notices an overrun only after a field; what
begins before them it reads in place, and it refuses a value that ends behind the
input. Which of the two a value meets depends on where its field and the messages
around it begin; `InPlace` is therefore a parameter, given for the run by the distance
from the end and left arbitrary in the proofs. The older parser stops at the end of the input.
A body is shorter than `MaxBody`, which is at most `SizeLimit`, 2 MiB, so that a size
has at most three digits. The loops of the
readers are recursive functions of the number of rounds, with as many rounds as the
input has bytes: a round reads at least one byte or leaves a loop that has ended
where it stands. A group inside a group is a stack of open tags instead of a
recursive call.

**HttpClient.** `pc` is where the calling thread stands: in the constructor (`ctor`),
there in `loop()` with an open session (`wait`),
`idle`, in the first `loopOnce` (`loop1`), in the second one before its first event
(`loop2`) and after it (`reading`), after both (`read`), or `crashed`, which stands
for every undefined behaviour (a null or freed pointer, a loop that is gone).
`net` holds the pieces of the response that have arrived. An iteration of the loop
hands them to the handle, one callback per action (`Callback`, `OnClosed`), and
ends when none is left; a piece that comes while it ends counts as one that comes
after it. A request larger than the socket buffer is not written in the first
iteration; the event of the second may be that more of it can be written
(`Loop2Write`), a piece of an early answer or the end of the connection. The
transaction ends when the response is read and the request written, and HTTP/1.1
sessions run one transaction at a time, so a send after one that left either undone
gets no transaction (`SendCrash`); a server that answers a large request before it has
all of it brings this about with a whole response in hand.

Whether `evb_.loop()` in the constructor of a session (`HttpClient.cpp:16`) returns
while the session is open is not settled by the repository: `HttpClientTest.cpp:53`
and `:72` use sessions after it, and the curl client's `main` relies on a loop that
runs as long as there is a session (see `ConnectSuccess_keep` of `CurlClient`). `holds`
chooses once: if it is true the constructor waits until the server closes, and every
session it leaves behind is gone (`LoopOutlivesSession`); otherwise it goes on at once
(`LoopReturns`). A constructor that waits for ever is a behaviour of the model, and no
property of progress is claimed of it.

**CurlClient.** `egress` is what was given to the transaction, `txns` what each
transaction has still to receive. `sendHeaders` and `sendBody` may pause the
transaction before they return, so the parameter `p` of `ConnectSuccess` and
`SendBlock` is the flag after `onEgressPaused`. `request` holds the flag `headers` and
what `parseHeaders` made of it until the request is sent and `egress` stands for it. A block of the file is read as
`ifstream::read` does: a short one clears `good()`.

**KafkaConsumer.** `busy` is a round of the loop, in which `rebalance_cb` may run
any number of times before `consume` returns. Partitions are taken away all at
once and given anew (the program refuses the cooperative strategy). `atEof` is
librdkafka's: the end of a partition is reported once until the next message.

## Runs

| Run | Instance | Shows |
|---|---|---|
| `cache_space` | 5 keys, 4 entries, 2 dropped per overflow | type, `OneEntryPerKey`, `WithinMaxSize`, `RecentSurvive`, refinement of `ForgetfulMap` |
| `one_thread` | 2 connections on one thread, keys 1 and 3 in one hash, cache of one entry, Redis errors, another writer at version 4 | answers complete and stored (`PullAnswersEveryKey`), `Coherent`, Redis append-only (`StoredVersionsStay`), `NoNewVersion`, `MergedPushIsLost`, `PushInvalidates` |
| `two_threads` | 2 threads with a connection each, 2 slots | `PullAnswersEveryKey` and `Coherent` under exchanged replies, freed contexts, races and restarts; the other properties of `one_thread`, except `PushInvalidates`, are proved for any number of threads |
| `reads_only` | 2 threads, no push, keys 0, 1, 3 in one hash, two values and two versions of another writer, every failure, restarts | `NeverUsesFreed`, and the answers and the cache stay right |
| `liveness` | 2 connections, one thread, every failure | `RequestsFinish` |
| `acked_push`, `pool_open` | one thread | counterexamples, see below |
| `messages` | every class: a request of up to two elements in up to three chunks; two of the other messages in a body of two chunks, with integers up to 2^64-1 and negative; bodies of up to 27 bytes, within the patch buffer and beyond it | `SizeIsExact`, `WholeBodyIsRead`, `NoSilentCut`, `CutKeepsPrefix`, `AcceptedIsStable` |
| `http_client` | up to 2 sessions, 3 sends, 2 chunks | `AnswerIsOwn`, `NoDanglingHandle`, `CrashIsExplained`, `BodyIsLastChunk`, `SendEnds` |
| `curl_client` | a file of up to 5 bytes in blocks of 2, 2 chunks, a pushed response, every flag of up to 5 characters over `a b , =` | `EgressIsRequest`, `HeadersAreItems`, `RequestIsEnded`, `MainEnds` |
| `kafka_consumer` | 2 partitions of up to 2 messages | `AllEofStops`, `EofNeverOvershoots`, `ProgramEnds` |
| `kafka_eof` | the same | counterexample |

`NoSilentCut` is about the parser: if it accepts every chunk, the chunks add up to
what was sent. The server never asks it, so `CutKeepsPrefix` says what it may
store: of a cut push, infos as they were sent, except the last of the chunk.
`CrashIsExplained` bounds the ways in which the blocking client dies: in the state in
which it dies, its first session is not there or without its loop, or the send that
dies, or the one before it, ended with a response that was not whole or a request that
was not written. `BodyIsLastChunk` says exactly what a send returns of
a response that had ended when it was read.

`PushInvalidates` is stated for one thread only: with two, another thread can
fill the entry between the deletion and the return, which is the race `suspect`
accounts for in `Coherent`.

**What the properties of the server excuse.** `Coherent` and `PullAnswersEveryKey`
delimit some of the hazards rather than rule them out, because the code is exposed to
them and a property that ruled them out would be false. An empty datum is always allowed, as an
error of Redis is answered and cached like an absent key. A key in `suspect` may have a
stale entry: a fill that overtakes a deletion leaves one. After an exchange of
replies (`mixed`) a datum may be another key's. Keys that share a hash answer for each
other. What the two properties say is that nothing else goes wrong: an
entry that differs from Redis outside these cases is a fault. The same
holds of `NoNewVersion`, which allows the version another key was read at, and of
`RequestsFinish`, for which a request whose process dies has finished. The hazards
in `PROJECT.json` say so one by one.

**Bounds.** The cache of the server runs holds one entry, so that every second
key evicts; the eviction of several entries is `cache_space`'s. `KeySpace` is 2,
so that two of the keys collide as keys 2^32 apart do (1 in `reads_only`, where
all do and the state left over goes into a second value and version). Two connections and two
threads are enough for every pairwise interleaving, two slots for sharing one
and not sharing one. `Versions` are 0 (what a push writes to an absent hash), 4
(what `db/test/RedisDBTest.cpp` writes) and 1, which only a faulty server would
use. No counter of the model grows without bound: handlers are reused
and a hash has at most one value per version; values stay short because a push
appends to a stored value only to have the result refused, or stores it at an
absent version of another hash, and the versions run out.

The integers of `messages` are 0 (left out on the wire), 11 (a start of a
group if read as a tag), 300 (two bytes) and 2^64-1 (ten bytes, -1 as an int32);
the texts are empty, a byte that is a tag, a pair that reads as a field and a pair
that is not UTF-8, and a text of 18 bytes, which makes a field begin before the patch
buffer and another end behind it when it is cut. Two sessions are enough for one move of the vector, three sends
for one that finds a transaction left open; a file of 5 bytes in blocks of 2 has
no, whole and short blocks. The rounds of the consumer are bounded by the code
(`count++ > 10`). Five characters have room for two items, an item without a name,
a value with `=` in it and a name without one.

**Fairness.** `FairSpec` adds strong fairness of `Step(h)`, the callbacks and
their steps, for every handler. The event loop serves every ready connection in
turn, so a connection that is ready again and again, whenever the thread is free,
is served; a callback that has begun is never suspended; a Redis that takes a
command answers it. Nothing is assumed of clients, of failures or of `Restart`.

`HttpClient`: the caller's own steps, and a server that sends what it owes for a
request it has; a server that closes satisfies it. `CurlClient`: the loop's steps, the start of `main`, a
connection attempt that ends (it has a timeout), a peer that reads what it is sent
and answers (it resumes egress and the pieces arrive); errors may happen and need
not. `KafkaConsumer`: the program's own steps and a `consume` that returns, which
its timeout of a second guarantees whatever the group does, and a `close` that ends
or is ended by the alarm.

Deadlock is checked in every run of the server and the cache. The other programs
end, or their histories are bounded, so their runs do not check it.

## Disagreements with the repository's own words

- `acked_push`: `// cas` and `// merge(d, kv.d);` (`service/Service.cpp:85`, `:87`).
  A push to a key with a positive version is acknowledged and never stored:
  HSETNX goes to the version just read. `MergedPushIsLost` states what happens
  instead, and it is proved.
- `pool_open`: `// chose context do redis get` (`db/RedisDB.h:20`). The copy
  `DBInst dbinst = G_DBInsts[...]` (`service/Service.cpp:82`) frees the pooled
  context when it goes out of scope.
- `kafka_eof`: `%% EOF reached for all`
  (`src/test-debug/kafka-test/kafka-test-1.cpp:141`). A partition that reports its
  end twice is counted twice.

The models also contain these, which no run singles out:

- `EncodeRsp` never serializes the reply to `/delcache` (`service/Msg.cpp:139`), so
  its `bool succ = 1;` (`util/pbdata/serv-msg.proto:37`) always reads as false
  (`EncodeRsp` of `Msg`).
- `uint64 key = 1;` (`serv-msg.proto:6`): keys with equal low 32 bits share a hash
  (`db/RedisDB.cpp:50`; `FmtKey`).
- `bytes data = 2;` (`serv-msg.proto:7`): a value too long for the `fbstring` object
  is stored as the bytes of a pointer (`db/RedisDB.cpp:50`; `FmtStr`).
- `// for receive` (`back-code/client/HttpClient.cpp:137`): with a large request the
  second iteration writes, and `send` reads a response that is not there
  (`Loop2Write`, `FinishCrash`; one of the causes in `CrashIsExplained`).
- `rsp.ParseFromString(rspMsgData);` (`back-code/client/test/HttpClientTest.cpp:76`)
  takes what `send` returns for the whole reply; `onBody` starts a new string for
  every chunk (`OnPiece`, `BodyIsLastChunk`).

## Proofs

All theorems hold for every value of the constants that satisfies the named
assumptions (`SizeAssumption`, `CacheAssumption`, `RedisAssumption`,
`ServerAssumption`, `HttpClientAssumption`, `CurlAssumption`, `KafkaAssumption`,
`ChannelAssumption`): sizes and bounds are natural numbers, a cache has room for an
entry, the partitions of a topic are finitely many, every handler has a thread, an
integer field is given 64-bit integers, a text sequences of bytes, and a body is
shorter than 2 MiB; `InPlace` is any predicate of an input and a position. They are proved of `Spec`,
so they hold of `FairSpec` too. Two theorems have a hypothesis besides, stated with
them.

**Cache** (`CacheSpaceProofs`): `CacheTypeCorrect`, `CacheInvariant`,
`CacheBounded`, `EvictionSparesRecent`, `CacheRefines`. The inductive invariant is
type, one entry per key and size together: with two entries for a key, `Erase`
would leave one behind and the refinement would fail. The lemmas in
`EvictingCacheMapProofs` say what `RemoveAt`, `Cons` and `SubSeq` do to a
duplicate-free list, and which entries a `Put` spares; the refinement maps the list
to the function from keys to values.

**Server, storage** (`FeatureServerProofs`): `TypeCorrect`, `VersionsStay`,
`VersionsAreKnown`, `MergesAreLost` rest on one invariant: types; a handler inside a
loop stands at an info (`InLoop`); the version it carries is 0 or in Redis
(`KnownVersion`); and unless replies were exchanged, a push about to write what it
merged with a versioned value finds that version in the hash it writes to
(`ReadVersion`). The last one is stable because Redis only grows, whoever writes
it. One lemma per action shows that it is kept. `PullsNeverUseFreed`, assuming that
no request is a push: every context stays open (`PoolIntact`).

**Server, cache and answers** (also `FeatureServerProofs`), on top of that invariant:

- `CacheCoherent`. `Coherent` speaks of entries only and is not inductive, because
  a value read from Redis becomes an entry several steps later. `CopiesTrue` says of
  entries and of values on their way (`pullSet`) alike that they are empty or the
  newest value unless the key is suspect, and a value Redis has held unless replies
  were exchanged.
- `PullsAnswered`. `PullsSound` follows a pull over its chunks: the answers given
  and the infos of the current chunk are, put end to end, the infos it was sent, and
  each datum is an honest copy. It needs `CopiesTrue`, since answers come from the
  cache, and that a hash never loses a version (`KnownGrows`).
- `PushesInvalidate`, assuming that all handlers are on one thread (`OneThread`;
  with two, the property is false, see above): one callback runs at a time
  (`Exclusive`), and what the deletion loop has passed is not in the cache
  (`Clearing`).

So every safety property of the server that a passing run checks is proved.

**Proxygen client** (`HttpClientProofs`): `ClientTypeCorrect`, `AnswersAreOwn`,
`HandlesAlive`, `CrashesExplained`, `LastChunkReturned`. `Flight` says where the
response under way stands: for some number of chunks n and of handled pieces k, the
handle is what k pieces make of it (`Got`), the connection and the server's rest
continue with piece k + 1, and the transaction is open until all were handled and the request is written, or
the session is gone (`Stage`). `Sessions` (the first session is gone only when everything
before the end of its connection was read) keeps a piece from outliving its
transaction, and `Returned` counts the sends.

**Curl client** (`CurlClientProofs`): `CurlTypeCorrect`, `RequestSent`,
`HeadersParsed`. `Reading` ties what was sent to the position in the file and the
end of message to `good()`; a resumed request therefore continues where it stopped
and never ends twice. `Writing` says for every transaction how many pieces it has
handled (`Stage`), so that a handler keeps no more blocks of headers than its
transaction has.
`HeadersParsed` is about `parseHeaders` on a string of any length: the pieces of a
split lie between consecutive separators, put together again with the separator they
give the string, and so every item with a name is found once, in its order, with the
value as it stands behind the first `=`. The loops are recursive functions, and the
induction is over the set of rounds for which a fact holds, since the library's
induction theorems take an operator.

**Consumer** (`KafkaConsumerProofs`): `ConsumerTypeCorrect`, `EofBounded`,
`EofStops`. While the loop goes on, fewer ends are counted than there are partitions
(`Counters`), and every partition at its end has been counted; without the first,
the test for equality could be passed over.

**Messages** (`PbChannelProofs`): `SizesAreExact`, `MessagesStayTyped`,
`SizeStaysExact`. The invariant `MessagesTyped` says that what is built, what is read
from any chunk and what a failed parse leaves behind are messages of their class:
integers are canonical digits of at most 64 bits, texts are bytes. It needs a lemma
for every reader, nested ones and groups included, over arbitrary input. For a
message so typed, one lemma per class shows that the size and the bytes agree field
by field; `SizesAreExact` is their sum, and `SizeStaysExact` the property.

**Messages read again** (`PbRoundTripProofs`): `WholeBodiesAreRead`. A *piece* is the
bytes of one field; a lemma per field says that its parser, at a place where the
piece stands, sets that field of the message and goes on behind it. `Reaches` says
that the parse loop gets to a message and a position, `ReadsAs` that some bytes,
wherever they stand in a body shorter than `SizeLimit`, take it from any message to its merge
with a given one. Fields add up to messages (`ReadsWhole`) and messages to bodies
(`ReadsMore`). The invariant `BodyKept` keeps, besides types, that the bytes not yet
delivered are read as the merge of what was sent (`Unread`) and that messages being
built are `Plain`: without unknown fields, and UTF-8 where the class asks for it.
`ReadsAs` quantifies over all buffers, so TLC cannot evaluate this invariant; it
checks `WholeBodyIsRead` itself. Bodies with a trailing NUL are covered: the NUL is
read as a tag that fails and leaves the message as it was (`ReadsNul`). Sizes are
written in one to three bytes (`SizeDigits`), and a value that is there in full is read
the same in place or in the patch buffer (`ReadStringAt`, `ReadPackedAt`).

**Bodies cut into chunks** (`PbRoundTripProofs`): `CutsAreNoticed` (`NoSilentCut`) and
`CutsKeepPrefixes` (`CutKeepsPrefix`). `Cut` says that a buffer ends inside given bytes.
For every field of every class, a buffer that ends inside it is refused
(`OtherRefuses`, `TestPbRefuses`); for the infos of a push, whatever the parser then
leaves behind is at most one info more than were complete. `Fields` is the least
relation between bytes and the message they merge to that holds of no bytes and is
closed under one field more; every message built with accessors is written so
(`WrittenAsFields`, one lemma per class), and such bytes can be split anywhere: the
first part is refused, or both parts are again fields and their messages merge to the
whole (`FieldsSplit`, by the induction that a least relation gives). Merging is
associative with the new message as neutral element (`MergeSums`). The invariant
`CutKept` adds to `BodyKept` that, as long as every chunk was accepted, the bytes still
on the wire complete what is understood to what was meant (`Ahead`). Without it
`NoSilentCut` is not inductive: it says nothing before the last chunk. A chunk that
holds the trailing NUL is refused, so nothing need be said after it. `Fields` is
defined by a quantifier over all relations, so here too TLC checks the two properties
and not the invariant.

Model-checked only:

- liveness, as fairness is out of the prover's reach: `RequestsFinish`, `SendEnds`,
  `RequestIsEnded`, `MainEnds`, `ProgramEnds`;
- `AcceptedIsStable`: after a refused chunk the next one begins inside a field, so it
  speaks of whatever bytes the parser may accept, unknown fields and groups included,
  and needs the inverse of every reader and not only of the writers;
- the three counterexamples, which are behaviours and not theorems.

## Not modelled

Headers and logging, flow control, shutdown by signal other than as the end of
the process; the `field` list of a pull, which the code only logs; the AUTH
command; hash fields that are not numbers (`folly::to` would throw out of a
`noexcept` callback); a Redis that never answers (there is no command timeout,
and its thread would hang). `grpcser`, `service/Grpcser.*` and `back-code/curl/HttpCli`
do not compile, and the `CurlClient` beside the last is used by nothing else;
`client/Httpcli.*` is empty; `util/Yaml` is a wrapper around one library call.

Of the generated classes: reflection, descriptors, arenas and `Swap`, and bodies
of 2 MiB and more. Of the proxygen client: the map of names to
clients; `onEgressPaused` and `onEgressResumed`, because `sendMsg` sends the end of
message before the loop first runs and proxygen calls neither after it. Of the curl
client: TLS, `saveResponseToFile` (not called) and the flag that silences the
output. Of the consumer: configuration and printing; `kafka-test.cpp`, a loop that
prints what it polls. `httpserver` keeps no state, and the counter of
`src/test-debug/echo` belongs to one thread, which increments and reads it in one
callback. `quickSort` of `src/test-debug/file-test` is called by nothing. The
remaining experiments call a library once and print. `PROJECT.json` lists every part and its status.

## Plan

1. (done) cache, Redis access, codec, handlers, the composed server; type,
   storage and refinement proofs.
2. (done) the message classes on bytes; the proxygen client, the curl client, the
   Kafka consumer and `parseHeaders`.
3. (done) proofs of every safety property of the server, the cache, the proxygen
   client and the consumer, and of the curl client except `HeadersAreItems`.
4. (done) the loops of `WireFormat`, `ServMsg`, `TestPb` and `ParseHeaders` without
   RECURSIVE operators; proofs of `HeadersAreItems`, `SizeIsExact` and
   `WholeBodyIsRead`.
5. (done) proofs about bodies cut anywhere: `NoSilentCut`, `CutKeepsPrefix`.
6. `AcceptedIsStable`; the refinement of an abstract request (sent once, answered
   once) by the proxygen client.
