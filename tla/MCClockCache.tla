----------------------------- MODULE MCClockCache -----------------------------
(* The second-chance cache with five keys whose values differ in length, and *)
(* a budget that holds several small values or one large one.               *)
EXTENDS ClockCache, TLC

CONSTANTS k1, k2, k3, k4, k5

MCKeys == {k1, k2, k3, k4, k5}
MCValueLen ==
  (k1 :> 1) @@ (k2 :> 2) @@ (k3 :> 2) @@ (k4 :> 3) @@ (k5 :> 6)
===============================================================================
