------------------------------ MODULE Compaction ------------------------------
(***************************************************************************)
(* Which segments of a release the next incremental build rewrites         *)
(* (pack/src/packer.rs, compaction_segments): all small ones when there    *)
(* are many, and those most of whose blocks no file refers to any more.    *)
(*                                                                         *)
(* A segment is a record with the sequence of its blocks; a reference to a *)
(* block names a segment and an ordinal in it.  The length of a segment's *)
(* file is that of its payload: the header is of constant size.            *)
(***************************************************************************)
EXTENDS ByteBudget, SequencesExt, FiniteSetsExt

CONSTANTS
  PlainLen,       \* the plaintext length of each chunk
  StoredLen,      \* the encrypted length of each chunk under each codec
  Small,          \* a segment of at most this payload is a fragment
  MinFragments,   \* as many fragments are worth rewriting
  DeadBytes,      \* as many unreferenced bytes make a segment worth it
  RewriteBudget   \* the live plaintext bytes of the segments a build rewrites

PlainOf(block) == PlainLen[block.chunk]
StoredOf(block) == StoredLen[block.codec][block.chunk]

(* The bytes of the blocks of a segment with the given ordinals, each once.  *)
Plain(segment, ordinals) ==
  Cardinality(Bytes([o \in ordinals |-> PlainOf(segment.blocks[o])], ordinals))
Stored(segment, ordinals) ==
  Cardinality(Bytes([o \in ordinals |-> StoredOf(segment.blocks[o])], ordinals))

Payload(segment) == Stored(segment, DOMAIN segment.blocks)
Referenced(refs, id) == {r.ordinal : r \in {q \in refs : q.segment = id}}

Fragments(segments) == {id \in DOMAIN segments : Payload(segments[id]) <= Small}

MostlyDead(segment, live) ==
  LET stored == Stored(segment, live) IN
  Payload(segment) - stored >= DeadBytes /\ stored <= Payload(segment) \div 2

Candidates(segments, refs) ==
  (IF Cardinality(Fragments(segments)) >= MinFragments THEN Fragments(segments) ELSE {})
  \union {id \in DOMAIN segments : MostlyDead(segments[id], Referenced(refs, id))}

(* Mutant: what is taken is not subtracted from the budget.                  *)
TakenAsIfFree(acc, id, plain) ==
  [acc EXCEPT !.left = @ \ {id}, !.selected = IF plain[id] <= acc.remaining THEN @ \union {id} ELSE @]

Taken(acc, id, plain) ==
  IF plain[id] <= acc.remaining
  THEN [left |-> acc.left \ {id}, selected |-> acc.selected \union {id},
        remaining |-> acc.remaining - plain[id]]
  ELSE [acc EXCEPT !.left = @ \ {id}]

(* Of some candidates, the one with the least to rewrite; the next is taken.  *)
Cheapest(ids, plain) == Min({id \in ids : plain[id] = Min({plain[other] : other \in ids})})
TakeCheapest(acc, plain) == Taken(acc, Cheapest(acc.left, plain), plain)

(* From the candidate with the least to rewrite on, while the budget lasts.  *)
Selected(candidates, plain) ==
  LET after[n \in 0 .. Cardinality(candidates)] ==
        IF n = 0 THEN [left |-> candidates, selected |-> {}, remaining |-> RewriteBudget]
        ELSE TakeCheapest(after[n - 1], plain)
  IN after[Cardinality(candidates)].selected

CompactionSegments(segments, refs) ==
  Selected(Candidates(segments, refs),
           [id \in DOMAIN segments |-> Plain(segments[id], Referenced(refs, id))])
===============================================================================
