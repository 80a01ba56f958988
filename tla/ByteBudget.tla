------------------------------ MODULE ByteBudget ------------------------------
(***************************************************************************)
(* What "cached within a byte budget" means, independent of how a cache    *)
(* finds its victims.  `len' gives the byte length of the value of each    *)
(* key, `budget' the bytes the cache may hold.                             *)
(***************************************************************************)
EXTENDS Integers, FiniteSets

(* The individual bytes a set of cached keys occupies.                      *)
Bytes(len, S) == UNION {{k} \X (1 .. len[k]) : k \in S}

(* k can be added to the cached keys S without exceeding the budget.        *)
Fits(len, budget, S, k) == Cardinality(Bytes(len, S)) + len[k] <= budget

(* k is refused outright: nothing can make room for it, or it is there.     *)
Refused(len, budget, S, k) == budget = 0 \/ len[k] > budget \/ k \in S

(***************************************************************************)
(* The sets of cached keys an insertion of k into S may leave: S itself    *)
(* when k is refused; otherwise k and what survives the eviction of a set  *)
(* of victims that stops as soon as there is room, so that some victim was *)
(* the last one and was needed.                                            *)
(***************************************************************************)
AfterInsert(len, budget, S, k) ==
  IF Refused(len, budget, S, k)
  THEN {S}
  ELSE {R \union {k} : R \in
          {R \in SUBSET S :
             /\ Fits(len, budget, R, k)
             /\ R # S => \E v \in S \ R : ~Fits(len, budget, R \union {v}, k)}}
===============================================================================
