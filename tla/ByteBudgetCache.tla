--------------------------- MODULE ByteBudgetCache ---------------------------
(***************************************************************************)
(* What the runtime expects of each of its caches, as a state machine.  An *)
(* insertion that can fit always ends with its key cached; a key leaves    *)
(* only while an insertion needs room, or because the cache is cleared.    *)
(***************************************************************************)
EXTENDS ByteBudget

CONSTANTS Keys, NoKey, ValueLen, Budget

VARIABLES
  cached,   \* the keys a lookup would find
  pending   \* the key being inserted, or NoKey

vars == <<cached, pending>>

Init == cached = {} /\ pending = NoKey

Begin(k) ==
  /\ pending = NoKey
  /\ ~Refused(ValueLen, Budget, cached, k)
  /\ pending' = k
  /\ UNCHANGED cached

Evict(v) ==
  /\ pending # NoKey
  /\ ~Fits(ValueLen, Budget, cached, pending)
  /\ v \in cached
  /\ cached' = cached \ {v}
  /\ UNCHANGED pending

Admit ==
  /\ pending # NoKey
  /\ Fits(ValueLen, Budget, cached, pending)
  /\ cached' = cached \union {pending}
  /\ pending' = NoKey

Clear ==
  /\ pending = NoKey
  /\ cached' = {}
  /\ UNCHANGED pending

Next ==
  \/ \E k \in Keys : Begin(k) \/ Evict(k)
  \/ Admit
  \/ Clear

(* An insertion holds the cache exclusively and runs to its end.            *)
Fairness == WF_vars(Admit \/ \E v \in Keys : Evict(v))

Spec == Init /\ [][Next]_vars /\ Fairness
===============================================================================
