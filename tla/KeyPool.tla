------------------------------ MODULE KeyPool ------------------------------
(* What the credential pool promises: a key is lent to so many requests for  *)
(* a model at a time, and to no request twice.                               *)
EXTENDS Naturals, FiniteSets

CONSTANTS Requests, Keys, None, ModelOf, MaxConcurrent

VARIABLES
  lent,  \* the key each request has
  had    \* the keys each request has been lent

Users(k, m) == {r \in Requests : lent[r] = k /\ ModelOf[r] = m}

Init ==
  /\ lent = [r \in Requests |-> None]
  /\ had = [r \in Requests |-> {}]

Lend(r, k) ==
  /\ lent[r] = None /\ k \notin had[r]
  /\ Cardinality(Users(k, ModelOf[r])) < MaxConcurrent
  /\ lent' = [lent EXCEPT ![r] = k]
  /\ had' = [had EXCEPT ![r] = @ \union {k}]

(* The request tries another key, or it ends.                                *)
Return(r) ==
  /\ lent[r] # None
  /\ lent' = [lent EXCEPT ![r] = None]
  /\ had' \in {had, [had EXCEPT ![r] = {}]}

(* A request that holds no key ends.                                         *)
Leave(r) ==
  /\ lent[r] = None
  /\ had' = [had EXCEPT ![r] = {}]
  /\ UNCHANGED lent

Next == \E r \in Requests : Return(r) \/ Leave(r) \/ \E k \in Keys : Lend(r, k)

Spec == Init /\ [][Next]_<<lent, had>>
=============================================================================
