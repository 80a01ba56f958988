----------------------------- MODULE SeekableFile -----------------------------
(***************************************************************************)
(* What an open asset promises its user (the traits Read and Seek, and     *)
(* reads at an offset): a request is answered by the bytes of the file at  *)
(* its place or refused; only a successful read or seek of the cursor      *)
(* moves its position.                                                     *)
(***************************************************************************)
EXTENDS Integers, Sequences

CONSTANTS
  Contents,   \* the files there may be, as sequences of bytes
  Requests,   \* [kind, from, want]; read and seek are made at the position
  Quiet,      \* there is no request
  Pending,    \* the request has no answer yet
  Refused,    \* the answer of a request that failed
  Done        \* the answer of a request that succeeds without bytes

VARIABLES content, position, request, answer

Least(a, b) == IF a < b THEN a ELSE b
BytesAt(from, want) == SubSeq(content, from + 1, Least(from + want, Len(content)))

Init ==
  /\ content \in Contents /\ position = 0
  /\ request = Quiet /\ answer = Done

Open ==
  /\ request = Quiet
  /\ content' \in Contents /\ position' = 0
  /\ request' = Quiet /\ answer' = Done

Ask ==
  /\ request = Quiet
  /\ request' \in Requests /\ answer' = Pending
  /\ request'.kind = "read" => request'.from = position
  /\ UNCHANGED <<content, position>>

ReplyBytes ==
  /\ request.kind \in {"read", "readAt"} /\ request.from <= Len(content)
  /\ answer' = [bytes |-> BytesAt(request.from, request.want)]
  /\ position' = IF request.kind = "read" THEN request.from + Len(answer'.bytes) ELSE position

ReplySeek ==
  /\ request.kind = "seek" /\ request.from \in 0 .. Len(content)
  /\ answer' = Done /\ position' = request.from

ReplyPrefetch ==
  /\ request.kind = "prefetch" /\ request.from <= Len(content)
  /\ answer' = Done /\ UNCHANGED position

Refuse ==
  /\ request.kind = "seek" => request.from \notin 0 .. Len(content)
  /\ answer' = Refused /\ UNCHANGED position

Reply ==
  /\ answer = Pending
  /\ ReplyBytes \/ ReplySeek \/ ReplyPrefetch \/ Refuse
  /\ UNCHANGED <<content, request>>

Return ==
  /\ answer # Pending
  /\ request' = Quiet /\ answer' = Done
  /\ UNCHANGED <<content, position>>

vars == <<content, position, request, answer>>
Spec == Init /\ [][Open \/ Ask \/ Reply \/ Return]_vars
===============================================================================
