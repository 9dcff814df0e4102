-------------------------------- MODULE RedisDB --------------------------------
(***************************************************************************)
(* RedisDB::DBInst (db/RedisDB.cpp): what the commands of get and set do to *)
(* a Redis hash, and what get makes of a reply.  A feature is one hash; its *)
(* fields are version numbers, its values strings of bytes.                 *)
(***************************************************************************)
EXTENDS Integers, Sequences

CONSTANTS KeySpace,  \* 2^32: keys that "%d" tells apart
          Versions,  \* hash fields; each was printed by "%d" and so fits in an int
          Chars,     \* bytes of a payload other than NUL
          Nul,       \* the byte 0
          Garbage,   \* bytes of a pointer taken for text
          SmallMax,  \* 23: the longest fbstring kept inside the object itself
          None       \* "no such field"

Bytes   == Chars \cup {Nul, Garbage}
Strings == Seq(Bytes)

ASSUME RedisAssumption == /\ KeySpace \in Nat \ {0}
                          /\ Versions \subseteq Int /\ 0 \in Versions
                          /\ SmallMax \in Nat
                          /\ None \notin Strings

HashKeys == 0 .. KeySpace - 1
Hash     == [Versions -> Strings \cup {None}]
NoHash   == [v \in Versions |-> None]

\* "%d" reads the low 32 bits of the uint64_t it is given.
FmtKey(k) == k % KeySpace

\* A char* ends at the first NUL.
CStr(s) == IF \E i \in DOMAIN s : s[i] = Nul
           THEN SubSeq(s, 1, (CHOOSE i \in DOMAIN s : /\ s[i] = Nul
                                                      /\ \A j \in 1..(i - 1) : s[j] # Nul) - 1)
           ELSE s

\* "%s" given an fbstring reads the object itself: a small string lies there and
\* is read as text; a longer one begins with a heap pointer, whose first byte
\* may be 0.
FmtStr(s) == IF Len(s) <= SmallMax THEN {CStr(s)} ELSE {<<>>, <<Garbage>>}

Fields(h) == {v \in Versions : h[v] # None}

\* Faulty variant: HSET.
HSet(h, ver, s) == [h EXCEPT ![ver] = s]

\* HSETNX: writes only a field that does not exist.
HSetNX(h, ver, s) == IF h[ver] = None THEN [h EXCEPT ![ver] = s] ELSE h

\* The fields get may take for the newest: the largest positive version, or
\* whichever HGETALL lists first if none is positive (maxv and maxi start at 0).
Latest(h) ==
  LET pos == {v \in Fields(h) : v > 0}
  IN  IF pos = {} THEN Fields(h) ELSE {v \in pos : \A w \in pos : w <= v}

ArrayReply(h) == [type |-> "array", hash |-> h]
IntReply      == [type |-> "integer", hash |-> NoHash]
ErrorReply    == [type |-> "error", hash |-> NoHash]
Replies       == [type : {"array", "integer", "error"}, hash : Hash]

\* Faulty variants: an absent key gets version 1; an absent key is marked by -1.
GetResults_one(r, currv) ==
  IF r.type = "array" /\ Fields(r.hash) # {}
  THEN {[ret |-> CStr(r.hash[v]), currv |-> IF v > 0 THEN v ELSE 0] : v \in Latest(r.hash)}
  ELSE {[ret |-> <<>>, currv |-> 1]}
GetResults_minus(r, currv) ==
  IF r.type = "array" /\ Fields(r.hash) # {}
  THEN {[ret |-> CStr(r.hash[v]), currv |-> IF v > 0 THEN v ELSE 0] : v \in Latest(r.hash)}
  ELSE {[ret |-> <<>>, currv |-> -1]}

\* What get returns, and leaves in the caller's currv, for reply r: any reply
\* but a non-empty array gives the empty string and leaves currv as it was.
GetResults(r, currv) ==
  IF r.type = "array" /\ Fields(r.hash) # {}
  THEN {[ret |-> CStr(r.hash[v]), currv |-> IF v > 0 THEN v ELSE 0] : v \in Latest(r.hash)}
  ELSE {[ret |-> <<>>, currv |-> currv]}
=============================================================================
