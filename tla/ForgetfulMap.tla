------------------------------ MODULE ForgetfulMap ------------------------------
(***************************************************************************)
(* What a cache promises its caller: a key is bound to the value of its     *)
(* latest set, or to nothing.  A set may forget any OTHER keys; nothing     *)
(* else changes a binding, and a deleted key stays unbound until it is set. *)
(***************************************************************************)
CONSTANTS Keys, Values, EmptyStr, Nothing

VARIABLES bound,   \* bound[k]: the value of k, or Nothing
          call     \* the last call, with the value passed in or returned

vars == <<bound, call>>

Init == bound = [k \in Keys |-> Nothing] /\ call = [op |-> "none"]

\* A key that is not bound reads as the empty string.
Get(k) ==
  /\ call' = [op |-> "get", key |-> k,
              val |-> IF bound[k] = Nothing THEN EmptyStr ELSE bound[k]]
  /\ UNCHANGED bound

Set(k, v) ==
  /\ call' = [op |-> "set", key |-> k, val |-> v]
  /\ \E lost \in SUBSET (Keys \ {k}) :
       bound' = [j \in Keys |-> IF j = k THEN v
                                ELSE IF j \in lost THEN Nothing ELSE bound[j]]

Del(k) ==
  /\ call' = [op |-> "del", key |-> k]
  /\ bound' = [bound EXCEPT ![k] = Nothing]

Next == \E k \in Keys : Get(k) \/ Del(k) \/ \E v \in Values : Set(k, v)

Spec == Init /\ [][Next]_vars
=============================================================================
