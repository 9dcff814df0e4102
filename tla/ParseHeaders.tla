------------------------------ MODULE ParseHeaders ------------------------------
(***************************************************************************)
(* parseHeaders of the HTTP clients (the same code in HttpClient.cpp and in  *)
(* both copies of CurlClient.cpp): a string such as "a=b,c=d" as a list of   *)
(* names and values, against what the grammar of such a string says.         *)
(***************************************************************************)
EXTENDS Integers, Sequences, SequencesExt

\* Two letters and the two separators.
Comma == ","
Equal == "="
Chars == {"a", "b", Comma, Equal}
Strings(n) == UNION {[1 .. k -> Chars] : k \in 0 .. n}

\* folly::split: the pieces between separators, empty ones too (external).
SplitAt(pieces, sep, c) ==
  IF c = sep THEN Append(pieces, <<>>)
  ELSE [pieces EXCEPT ![Len(pieces)] = Append(@, c)]
Split(sep, s) ==
  LET pieces[i \in 0 .. Len(s)] == IF i = 0 THEN <<<<>>>> ELSE SplitAt(pieces[i - 1], sep, s[i])
  IN  pieces[Len(s)]

\* Faulty variant: the last "=" stays.
Value_untrimmed(nv) ==
  LET value[i \in 1 .. Len(nv)] == IF i = 1 THEN <<>> ELSE value[i - 1] \o Append(nv[i], Equal)
  IN  value[Len(nv)]
\* Every piece after the first is added with a "=" behind it, and the last "=" is
\* taken away.
Value(nv) ==
  LET value[i \in 1 .. Len(nv)] == IF i = 1 THEN <<>> ELSE value[i - 1] \o Append(nv[i], Equal)
  IN  IF Len(nv) > 1 THEN Front(value[Len(nv)]) ELSE value[Len(nv)]

\* What the loop makes of a piece between commas: one without a name is skipped.
AddHeader(headers, nv) ==
  IF nv[1] = <<>> THEN headers ELSE Append(headers, [name |-> nv[1], value |-> Value(nv)])
Parse(s) ==
  LET headersList == Split(Comma, s)
      headers[i \in 0 .. Len(headersList)] ==
        IF i = 0 THEN <<>> ELSE AddHeader(headers[i - 1], Split(Equal, headersList[i]))
  IN  headers[Len(headersList)]
-----------------------------------------------------------------------------
\* The positions of a character, with the ends of the string as separators.
Seps(s) == {0, Len(s) + 1} \cup {i \in DOMAIN s : s[i] = Comma}
Items(s) == {it \in Seps(s) \X Seps(s) :
               it[1] < it[2] /\ \A k \in it[1] + 1 .. it[2] - 1 : s[k] # Comma}
NameEnd(s, item) ==
  LET eq == {k \in item[1] + 1 .. item[2] - 1 : s[k] = Equal}
  IN  IF eq = {} THEN item[2] ELSE CHOOSE k \in eq : \A l \in eq : k <= l

\* The items that have a name; the name is what stands before the first "=", the
\* value all that stands behind it.
Named(s) == {it \in Items(s) : NameEnd(s, it) > it[1] + 1}
Header(s, it) == [name  |-> SubSeq(s, it[1] + 1, NameEnd(s, it) - 1),
                  value |-> SubSeq(s, NameEnd(s, it) + 1, it[2] - 1)]

\* list holds the named items of s, each once and in their order.
AreItems(list, s) ==
  \E f \in [1 .. Len(list) -> Named(s)] :
    /\ \A i, j \in 1 .. Len(list) : i < j => f[i][1] < f[j][1]
    /\ \A it \in Named(s) : \E i \in 1 .. Len(list) : f[i] = it
    /\ \A i \in 1 .. Len(list) : list[i] = Header(s, f[i])
=============================================================================
