------------------------------- MODULE CacheSpace -------------------------------
(***************************************************************************)
(* Cache::CacheSpace (cache/Cache.cpp): the process-wide LRU cache between  *)
(* the request handlers and Redis, used by one thread.                      *)
(***************************************************************************)
EXTENDS EvictingCacheMap

CONSTANTS Keys,     \* uint64_t keys
          Values,   \* cached strings
          EmptyStr, \* the empty fbstring, which get also returns for a miss
          Nothing   \* "no entry" in the abstract map

ASSUME CacheAssumption == /\ EmptyStr \in Values
                          /\ Nothing \notin Values

VARIABLES cacheMap,  \* cacheMap_
          call       \* history: the last call, with the value passed in or returned

vars == <<cacheMap, call>>

Init == cacheMap = <<>> /\ call = [op |-> "none"]

\* Faulty variant: the line commented out in get (Cache.cpp:24), which throws for a
\* key that is not there and returns nothing.
GetRet_throw(m, k) == IF k \in KeysOf(m) THEN Peek(m, k) ELSE Nothing
\* The string CacheSpace::get returns.
GetRet(m, k) == IF k \in KeysOf(m) THEN Peek(m, k) ELSE EmptyStr

Get(k) == /\ cacheMap' = Find(cacheMap, k)
          /\ call' = [op |-> "get", key |-> k, val |-> GetRet(cacheMap, k)]

Set(k, v) == /\ cacheMap' = Put(cacheMap, k, v)
             /\ call' = [op |-> "set", key |-> k, val |-> v]

Del(k) == /\ cacheMap' = Erase(cacheMap, k)
          /\ call' = [op |-> "del", key |-> k]

Next == \E k \in Keys : \/ Get(k)
                        \/ Del(k)
                        \/ \E v \in Values : Set(k, v)

Spec == Init /\ [][Next]_vars
-----------------------------------------------------------------------------
Calls == [op : {"none"}] \cup [op : {"del"}, key : Keys]
           \cup [op : {"get", "set"}, key : Keys, val : Values]

\* The list holds entries only, and get always returns a string, for a miss too
\* (Cache.cpp:17-23).
TypeOK == /\ cacheMap \in Seq([key : Keys, val : Values])
          /\ call \in Calls

\* The cache never holds two entries for one key: a key found twice would make
\* del leave a stale copy behind (Cache.cpp:26) and set overwrite only one.
OneEntryPerKey ==
  \A i, j \in DOMAIN cacheMap : cacheMap[i].key = cacheMap[j].key => i = j

\* However many keys are set, the map never outgrows the size Cache.cpp:6 gives it.
WithinMaxSize == Len(cacheMap) <= MaxSize

\* Eviction spares what is in use: a set drops only entries that were beyond
\* the MaxSize - ClearSize most recently used ones, and a get drops nothing.
RecentSurvive ==
  [][call'.op \in {"get", "set"} =>
       \A i \in DOMAIN cacheMap :
         (call'.op = "get" \/ i <= MaxSize - ClearSize)
           => cacheMap[i].key \in KeysOf(cacheMap')]_vars

\* The map a caller of the cache sees.
Binding == [k \in Keys |-> IF k \in KeysOf(cacheMap) THEN Peek(cacheMap, k) ELSE Nothing]

Abstract == INSTANCE ForgetfulMap WITH bound <- Binding

\* The LRU cache implements the forgetful map: get returns the latest value set
\* for its key or the empty string, never anything older, and a deleted key
\* misses until it is set again.
ImplementsForgetfulMap == Abstract!Spec
=============================================================================
