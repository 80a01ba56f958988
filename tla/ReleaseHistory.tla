---------------------------- MODULE ReleaseHistory ----------------------------
(***************************************************************************)
(* What the publisher promises to a player's runtime: whoever opens the    *)
(* output directory finds either nothing or one complete release, and the  *)
(* release it finds is only ever replaced, in one step, by a complete      *)
(* release with a larger sequence number.                                  *)
(***************************************************************************)
EXTENDS Integers

CONSTANTS
  Trees,      \* the resource trees a release can hold
  MaxSeq,     \* the largest sequence number
  NoRelease   \* the output directory holds no release

VARIABLE active   \* the release a runtime would open

Releases == [seq : 1 .. MaxSeq, tree : Trees]

Init == active = NoRelease

Publish(r) ==
  /\ active # NoRelease => r.seq > active.seq
  /\ active' = r

Next == \E r \in Releases : Publish(r)

Spec == Init /\ [][Next]_active
===============================================================================
