--------------------------- MODULE CacheSpaceProofs ---------------------------
(***************************************************************************)
(* CacheSpace keeps one entry per key, stays within its size and implements *)
(* the forgetful map, for every size, key set and value set.                *)
(***************************************************************************)
EXTENDS CacheSpace, EvictingCacheMapProofs

\* The inductive invariant: each conjunct needs the other two (an eviction is
\* enough only if the list was within its bound, and a key put in front is new
\* only if erase has removed its one entry).
Inv == /\ TypeOK
       /\ OneEntryPerKey
       /\ WithinMaxSize

\* The invariant in the vocabulary of the lemmas about LRU lists.
LEMMA InvMeaning == Inv <=> /\ call \in Calls
                            /\ cacheMap \in Lists(Keys, Values)
                            /\ Unique(cacheMap)
                            /\ Len(cacheMap) <= MaxSize
BY DEF Inv, TypeOK, OneEntryPerKey, WithinMaxSize, Lists, Unique

\* What get returns: the bound value, or the empty string if there is none
\* (Cache.cpp:17-23).
LEMMA GetRetMeaning ==
  ASSUME Inv, NEW k \in Keys
  PROVE  /\ GetRet(cacheMap, k) \in Values
         /\ GetRet(cacheMap, k) = IF Binding[k] = Nothing THEN EmptyStr ELSE Binding[k]
<1>1. cacheMap \in Lists(Keys, Values)
  BY InvMeaning
<1>2. CASE k \in KeysOf(cacheMap)
  <2>1. Peek(cacheMap, k) \in Values
    BY <1>1, <1>2, PosOfKey
  <2> QED
    BY <1>2, <2>1, CacheAssumption DEF GetRet, Binding
<1>3. CASE k \notin KeysOf(cacheMap)
  BY <1>3, CacheAssumption DEF GetRet, Binding
<1> QED
  BY <1>2, <1>3

\* What the three operations do to a good cache (Cache.cpp:12-26).
LEMMA NextPreservesInv == Inv /\ [Next]_vars => Inv'
<1> SUFFICES ASSUME Inv, [Next]_vars PROVE Inv'
  OBVIOUS
<1> DEFINE good(m) == m \in Lists(Keys, Values) /\ Unique(m) /\ Len(m) <= MaxSize
<1>0. good(cacheMap) /\ call \in Calls
  BY InvMeaning
<1>1. Inv' <=> good(cacheMap') /\ call' \in Calls
  BY DEF Inv, TypeOK, OneEntryPerKey, WithinMaxSize, Lists, Unique
<1>2. ASSUME NEW k \in Keys, Get(k) PROVE Inv'
  <2>1. good(Find(cacheMap, k))
    BY <1>0, CacheAssumption, OperationTypes, FindUnique
  <2>2. call' \in Calls
    BY <1>2, GetRetMeaning DEF Get, Calls
  <2> QED
    BY <1>1, <1>2, <2>1, <2>2 DEF Get
<1>3. ASSUME NEW k \in Keys, Del(k) PROVE Inv'
  <2>1. Erase(cacheMap, k) \in Lists(Keys, Values) /\ Unique(Erase(cacheMap, k))
    BY <1>0, CacheAssumption, OperationTypes, EraseUnique
  <2>2. Len(Erase(cacheMap, k)) <= MaxSize
    BY <1>0, SizeAssumption, EraseLen
  <2>3. call' \in Calls
    BY <1>3 DEF Del, Calls
  <2> QED
    BY <1>1, <1>3, <2>1, <2>2, <2>3 DEF Del
<1>4. ASSUME NEW k \in Keys, NEW v \in Values, Set(k, v) PROVE Inv'
  <2>1. good(Put(cacheMap, k, v))
    BY <1>0, OperationTypes, PutUnique
  <2>2. call' \in Calls
    BY <1>4 DEF Set, Calls
  <2> QED
    BY <1>1, <1>4, <2>1, <2>2 DEF Set
<1>5. CASE UNCHANGED vars
  BY <1>0, <1>1, <1>5 DEF vars
<1> QED
  BY <1>2, <1>3, <1>4, <1>5 DEF Next

\* The invariant holds in every state of the cache.
LEMMA InvHolds == Spec => []Inv
<1>1. Init => Inv
  <2> SUFFICES ASSUME cacheMap = <<>>, call = [op |-> "none"] PROVE Inv
    BY DEF Init
  <2>1. <<>> \in Lists(Keys, Values) /\ Unique(<<>>) /\ Len(<<>>) = 0
    BY DEF Lists, Unique
  <2> QED
    BY <2>1, InvMeaning, SizeAssumption DEF Calls
<1> QED
  BY <1>1, NextPreservesInv, PTL DEF Spec

\* The LRU list stays a list of entries and get returns strings, whatever sequence
\* of calls is made (Cache.cpp:12-26).
THEOREM CacheTypeCorrect == Spec => []TypeOK
<1>1. Inv => TypeOK
  BY DEF Inv
<1> QED
  BY <1>1, InvHolds, PTL

\* No sequence of calls leaves a second entry for a key, which del would miss
\* (Cache.cpp:26).
THEOREM CacheInvariant == Spec => []OneEntryPerKey
<1>1. Inv => OneEntryPerKey
  BY DEF Inv
<1> QED
  BY <1>1, InvHolds, PTL

\* The cache never outgrows the size it is built with (Cache.cpp:6).
THEOREM CacheBounded == Spec => []WithinMaxSize
<1>1. Inv => WithinMaxSize
  BY DEF Inv
<1> QED
  BY <1>1, InvHolds, PTL

\* Eviction spares the most recently used entries, and a get drops none
\* (Cache.cpp:6, 17-23).
THEOREM EvictionSparesRecent == Spec => RecentSurvive
<1> DEFINE Spared == call'.op \in {"get", "set"} =>
                       \A i \in DOMAIN cacheMap :
                         (call'.op = "get" \/ i <= MaxSize - ClearSize)
                           => cacheMap[i].key \in KeysOf(cacheMap')
<1>1. ASSUME Inv, Next PROVE Spared
  <2>0. cacheMap \in Lists(Keys, Values) /\ Unique(cacheMap) /\ Len(cacheMap) <= MaxSize
    BY <1>1, InvMeaning
  <2>1. ASSUME NEW k \in Keys, Get(k) PROVE Spared
    <3>1. KeysOf(cacheMap') = KeysOf(cacheMap)
      BY <2>0, <2>1, FindUnique DEF Get
    <3> QED
      BY <3>1 DEF KeysOf
  <2>2. ASSUME NEW k \in Keys, Del(k) PROVE Spared
    BY <2>2 DEF Del
  <2>3. ASSUME NEW k \in Keys, NEW v \in Values, Set(k, v) PROVE Spared
    BY <2>0, <2>3, PutSpares DEF Set
  <2> QED
    BY <1>1, <2>1, <2>2, <2>3 DEF Next
<1>2. Inv /\ [Next]_vars => [Spared]_vars
  BY <1>1
<1> QED
  BY <1>2, InvHolds, PTL DEF Spec, RecentSurvive

\* Each call of get, set or del is the same call on the forgetful map.
LEMMA StepIsAbstract ==
  ASSUME Inv, [Next]_vars
  PROVE  [Abstract!Next]_<<Binding, call>>
<1> DEFINE good(m) == m \in Lists(Keys, Values) /\ Unique(m) /\ Len(m) <= MaxSize
<1>0. good(cacheMap)
  BY InvMeaning
<1>1. ASSUME NEW k \in Keys, Get(k) PROVE Abstract!Get(k)
  <2>1. Binding' = Binding
    BY <1>0, <1>1, FindUnique DEF Get, Binding
  <2>2. call' = [op |-> "get", key |-> k,
                 val |-> IF Binding[k] = Nothing THEN EmptyStr ELSE Binding[k]]
    BY <1>1, GetRetMeaning DEF Get
  <2> QED
    BY <2>1, <2>2 DEF Abstract!Get
<1>2. ASSUME NEW k \in Keys, Del(k) PROVE Abstract!Del(k)
  <2> DEFINE n == Erase(cacheMap, k)
  <2>1. /\ KeysOf(n) = KeysOf(cacheMap) \ {k}
        /\ \A j \in KeysOf(cacheMap) \ {k} : Peek(n, j) = Peek(cacheMap, j)
    BY <1>0, EraseUnique
  <2>2. cacheMap' = n
    BY <1>2 DEF Del
  <2> HIDE DEF n
  <2>3. Binding' = [Binding EXCEPT ![k] = Nothing]
    BY <2>1, <2>2 DEF Binding
  <2> QED
    BY <1>2, <2>3 DEF Abstract!Del, Del
<1>3. ASSUME NEW k \in Keys, NEW v \in Values, Set(k, v) PROVE Abstract!Set(k, v)
  <2> DEFINE n == Put(cacheMap, k, v)
             lost == {j \in Keys \ {k} : j \notin KeysOf(n)}
  <2>1. /\ k \in KeysOf(n) /\ Peek(n, k) = v
        /\ \A j \in KeysOf(n) \ {k} : j \in KeysOf(cacheMap) /\ Peek(n, j) = Peek(cacheMap, j)
    BY <1>0, PutUnique
  <2>2. cacheMap' = n
    BY <1>3 DEF Set
  <2> HIDE DEF n
  <2>3. Binding' = [j \in Keys |-> IF j = k THEN v
                                   ELSE IF j \in lost THEN Nothing ELSE Binding[j]]
    BY <2>1, <2>2 DEF Binding
  <2>4. lost \in SUBSET (Keys \ {k})
    OBVIOUS
  <2> QED
    BY <1>3, <2>3, <2>4 DEF Abstract!Set, Set
<1>4. CASE UNCHANGED vars
  BY <1>4 DEF Binding, vars
<1> QED
  BY <1>1, <1>2, <1>3, <1>4 DEF Next, Abstract!Next

\* The cache implements the map its callers assume: get returns the value of the
\* key's latest set or the empty string, and a deleted key misses until it is
\* set again.
THEOREM CacheRefines == Spec => ImplementsForgetfulMap
<1>1. Init => Abstract!Init
  BY DEF Init, Abstract!Init, Binding, KeysOf
<1>2. Inv /\ [Next]_vars => [Abstract!Next]_<<Binding, call>>
  BY StepIsAbstract
<1> QED
  BY <1>1, <1>2, InvHolds, PTL DEF Spec, ImplementsForgetfulMap, Abstract!Spec, Abstract!vars
=============================================================================
