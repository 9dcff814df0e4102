---------------------------- MODULE EvictingCacheMap ----------------------------
(***************************************************************************)
(* folly::EvictingCacheMap as cache/Cache.cpp uses it (external: folly is   *)
(* not part of the repository).  A map is the LRU list itself, a sequence   *)
(* of entries with the most recently used entry first.  The repository      *)
(* builds the map with (maxSize, clearSize) = (100, 10): Cache.cpp:6.       *)
(***************************************************************************)
EXTENDS SequencesExt

CONSTANTS MaxSize,   \* 100: entries the map may hold
          ClearSize  \* 10: entries dropped, least recently used first, when it overflows

ASSUME SizeAssumption == /\ MaxSize \in Nat \ {0}
                         /\ ClearSize \in 1..MaxSize

Entry(k, v) == [key |-> k, val |-> v]

KeysOf(m) == {m[i].key : i \in DOMAIN m}

\* the position of key k, which is in the map
PosOf(m, k) == CHOOSE i \in DOMAIN m : m[i].key = k

\* erase(k): drops k's entry if there is one.
Erase(m, k) == IF k \in KeysOf(m) THEN RemoveAt(m, PosOf(m, k)) ELSE m

\* The value of k without touching the order.
Peek(m, k) == m[PosOf(m, k)].val

Find_erase(m, k) == Erase(m, k)   \* faulty variant: taken out and not put back

\* find(k): a hit moves the entry to the front of the LRU list.
Find(m, k) == IF k \in KeysOf(m) THEN Cons(m[PosOf(m, k)], Erase(m, k)) ELSE m

Prune_front(m, n) == SubSeq(m, n + 1, Len(m))   \* faulty variant: the wrong end

\* prune(n): drops the n least recently used entries.
Prune(m, n) == SubSeq(m, 1, Len(m) - n)

\* Faulty variants: inserts a key that is there; prunes one entry too late.
Put_twice(m, k, v) == LET n == Cons(Entry(k, v), m)
                      IN  IF Len(n) > MaxSize THEN Prune(n, ClearSize) ELSE n
Put_late(m, k, v)  == LET n == Cons(Entry(k, v), Erase(m, k))
                      IN  IF Len(n) > MaxSize + 1 THEN Prune(n, ClearSize) ELSE n

\* set(k, v): overwrites and promotes, or inserts and then prunes an overflow.
Put(m, k, v) == LET n == Cons(Entry(k, v), Erase(m, k))
                IN  IF Len(n) > MaxSize THEN Prune(n, ClearSize) ELSE n
=============================================================================
