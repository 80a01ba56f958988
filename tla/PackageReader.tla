---------------------------- MODULE PackageReader ----------------------------
(***************************************************************************)
(* A Package shared by the threads of a game (core/src/package.rs): reads, *)
(* prefetches and trims that interleave between the caches' locks.         *)
(*                                                                         *)
(* A request is for one block, by way of the block-map page that holds its *)
(* reference.  What an insertion evicts is any choice of victims that      *)
(* ByteBudget allows, which covers the clock of ClockCache.  A cached      *)
(* value is a function of its key and is left out.  Every lock is held for *)
(* one step, except the prefetch cache's, whose guard outlives the change   *)
(* of the cache until the flag about it is set, and is explicit.           *)
(***************************************************************************)
EXTENDS ByteBudget, SequencesExt

CONSTANTS
  Readers,       \* the threads that read and prefetch
  Trimmer,       \* the thread that trims
  NoThread,      \* no thread: the owner of the lock when it is free
  Keys,          \* blocks: segment ordinal and ordinal in the segment
  Pages,         \* block-map pages
  Segments,
  PageOf,        \* the page with the reference of each block
  SegmentOf,     \* the segment of each block
  BlockLen,      \* the plaintext length of each block
  PageLen,       \* the length of each page
  PageBudget, BlockBudget, PrefetchBudget,
  HandleCapacity, ProbationCapacity,
  Installed,     \* the segments that are there from the start
  Requests,      \* what readers may ask for
  MaxRequests    \* bound: the number of requests and of trims

Classes == {"Hot", "Normal", "Streaming", "Transient"}

ASSUME ConstantsAssumption ==
  /\ IsFiniteSet(Readers) /\ Trimmer \notin Readers
  /\ NoThread \notin Readers \union {Trimmer}
  /\ IsFiniteSet(Keys) /\ IsFiniteSet(Pages) /\ IsFiniteSet(Segments)
  /\ PageOf \in [Keys -> Pages] /\ SegmentOf \in [Keys -> Segments]
  /\ BlockLen \in [Keys -> Nat] /\ PageLen \in [Pages -> Nat]
  /\ {PageBudget, BlockBudget, PrefetchBudget} \subseteq Nat
  /\ {HandleCapacity, ProbationCapacity} \subseteq Nat
  /\ Installed \subseteq Segments
  /\ Requests \subseteq [key : Keys, access : Classes, prefetch : BOOLEAN]
  /\ MaxRequests \in Nat

VARIABLES
  pages,        \* page_cache: the pages in it
  blocks,       \* block_cache: the blocks in it
  prefetched,   \* prefetch_cache: the blocks in it
  populated,    \* prefetch_populated
  probation,    \* the queue of blocks that were read once
  values,       \* HandleCache.values: the segments in it
  order,        \* HandleCache.order: a queue of segments
  owner,        \* the thread that holds the prefetch cache's lock
  installed,    \* the segments the host can open
  pc,           \* where each thread is
  request,      \* the request each reader is working on
  issued,       \* how many requests and trims have begun
  reads,        \* auxiliary: decoded Normal reads of each block
  admitted,     \* auxiliary: Normal admissions of each block
  since         \* auxiliary: what was cached since the trim in progress began

caches == <<pages, blocks, prefetched, populated, probation, values, order>>
counts == <<issued, reads, admitted>>
vars == <<caches, owner, installed, pc, request, counts, since>>

Threads == Readers \union {Trimmer}
Init ==
  /\ pages = {} /\ blocks = {} /\ prefetched = {} /\ populated = FALSE
  /\ probation = <<>> /\ values = {} /\ order = <<>>
  /\ owner = NoThread
  /\ installed = Installed
  /\ pc = [t \in Threads |-> "idle"]
  /\ request \in [Readers -> {CHOOSE q \in Requests : TRUE}]
  /\ issued = 0
  /\ reads = [k \in Keys |-> 0] /\ admitted = [k \in Keys |-> 0]
  /\ since = {}

-------------------------------------------------------------------------------
(* Shorthands.                                                               *)

At(t, p) == pc[t] = p
Goto(t, p) == pc' = [pc EXCEPT ![t] = p]
Free == owner = NoThread
Take(t) == owner' = t
Release == owner' = NoThread
Key(t) == request[t].key
Access(t) == request[t].access
Cacheable(t) == Access(t) \in {"Hot", "Normal"}
Record(entries) == since' = IF pc[Trimmer] = "idle" THEN since ELSE since \union entries

(* A prefetch goes on when its block has been loaded.                        *)
Loaded(t) == Goto(t, IF request[t].prefetch THEN "recheck" ELSE "idle")

Begin(t, q) ==
  /\ At(t, "idle") /\ issued < MaxRequests
  /\ request' = [request EXCEPT ![t] = q]
  /\ issued' = issued + 1
  /\ Goto(t, "page")
  /\ UNCHANGED <<caches, owner, installed, reads, admitted, since>>

-------------------------------------------------------------------------------
(* Finding the reference of the block: load_page.                            *)

AfterReference(t) == Goto(t, IF request[t].prefetch THEN "check" ELSE "lookup")

FindPage(t) ==
  /\ At(t, "page")
  /\ IF PageOf[Key(t)] \in pages THEN AfterReference(t) ELSE Goto(t, "loadPage")
  /\ UNCHANGED <<caches, owner, installed, request, counts, since>>

LoadPage(t) ==
  /\ At(t, "loadPage")
  /\ pages' \in AfterInsert(PageLen, PageBudget, pages, PageOf[Key(t)])
  /\ AfterReference(t)
  /\ Record({<<"page", PageOf[Key(t)]>>})
  /\ UNCHANGED <<blocks, prefetched, populated, probation, values, order,
                 owner, installed, request, counts>>

-------------------------------------------------------------------------------
(* Loading the block: load_block_buffered.                                   *)

FindBlock(t) ==
  /\ At(t, "lookup")
  /\ IF Cacheable(t) /\ Key(t) \in blocks THEN Loaded(t) ELSE Goto(t, "hint")
  /\ UNCHANGED <<caches, owner, installed, request, counts, since>>

(* The flag is read without the lock of the cache it is about.               *)
ReadHint(t) ==
  /\ At(t, "hint")
  /\ Goto(t, IF populated THEN "findPrefetched" ELSE "open")
  /\ UNCHANGED <<caches, owner, installed, request, counts, since>>

FindPrefetched(t) ==
  /\ At(t, "findPrefetched") /\ Free
  /\ IF Key(t) \in prefetched THEN Loaded(t) ELSE Goto(t, "open")
  /\ UNCHANGED <<caches, owner, installed, request, counts, since>>

(* HandleCache::get makes the segment the most recent one.                   *)
FindHandle(t) ==
  /\ At(t, "open")
  /\ LET s == SegmentOf[Key(t)] IN
     IF s \in values
     THEN /\ order' = Append(RemoveFirst(order, s), s)
          /\ Goto(t, "decode")
     ELSE /\ order' = order
          /\ Goto(t, "openFile")
  /\ UNCHANGED <<pages, blocks, prefetched, populated, probation, values,
                 owner, installed, request, counts, since>>

OpenFile(t) ==
  /\ At(t, "openFile")
  /\ Goto(t, IF SegmentOf[Key(t)] \in installed THEN "insertHandle" ELSE "idle")
  /\ UNCHANGED <<caches, owner, installed, request, counts, since>>

(* The oldest handles are dropped until there is room for one more.          *)
Dropped == IF HandleCapacity <= Cardinality(values)
           THEN Cardinality(values) - HandleCapacity + 1 ELSE 0

(* Mutant: the segment may have been opened by another thread meanwhile.     *)
InsertHandleAgain(t) ==
  /\ At(t, "insertHandle")
  /\ LET s == SegmentOf[Key(t)]
         kept == SubSeq(order, Dropped + 1, Len(order)) IN
     IF HandleCapacity = 0 THEN UNCHANGED <<values, order, since>>
     ELSE /\ order' = Append(kept, s)
          /\ values' = Range(kept) \union {s}
          /\ Record({<<"handle", s>>})
  /\ Goto(t, "decode")
  /\ UNCHANGED <<pages, blocks, prefetched, populated, probation,
                 owner, installed, request, counts>>

InsertHandle(t) ==
  /\ At(t, "insertHandle")
  /\ LET s == SegmentOf[Key(t)]
         kept == SubSeq(order, Dropped + 1, Len(order)) IN
     IF HandleCapacity = 0 \/ s \in values THEN UNCHANGED <<values, order, since>>
     ELSE /\ order' = Append(kept, s)
          /\ values' = (values \ Range(SubSeq(order, 1, Dropped))) \union {s}
          /\ Record({<<"handle", s>>})
  /\ Goto(t, "decode")
  /\ UNCHANGED <<pages, blocks, prefetched, populated, probation,
                 owner, installed, request, counts>>

(* The block is read, authenticated and decompressed, and nobody waits for   *)
(* that: what it is cached under may have changed when it is done.           *)
Decode(t) ==
  /\ At(t, "decode")
  /\ IF Access(t) = "Normal" THEN Goto(t, "probation")
     ELSE IF Access(t) = "Hot" THEN Goto(t, "admit")
     ELSE Loaded(t)
  /\ reads' = [reads EXCEPT ![Key(t)] = @ + (IF Access(t) = "Normal" THEN 1 ELSE 0)]
  /\ UNCHANGED <<caches, owner, installed, request, issued, admitted, since>>

(* second_normal_access: a block that is on probation is admitted; one that  *)
(* is not begins its probation, at the expense of the oldest.                *)
Probing(k) ==
  IF ProbationCapacity = 0 THEN probation
  ELSE Append(SubSeq(probation, Len(probation) - Min({Len(probation), ProbationCapacity - 1}) + 1,
                     Len(probation)), k)

(* Mutant: a block that is admitted stays on probation.                      *)
SecondAccessKept(t) ==
  /\ At(t, "probation")
  /\ IF Key(t) \in Range(probation)
     THEN /\ admitted' = [admitted EXCEPT ![Key(t)] = @ + 1]
          /\ Goto(t, "admit")
          /\ UNCHANGED <<probation, since>>
     ELSE /\ probation' = Probing(Key(t))
          /\ Loaded(t)
          /\ Record({<<"probation", Key(t)>>})
          /\ UNCHANGED admitted
  /\ UNCHANGED <<pages, blocks, prefetched, populated, values, order,
                 owner, installed, request, issued, reads>>

SecondAccess(t) ==
  /\ At(t, "probation")
  /\ IF Key(t) \in Range(probation)
     THEN /\ probation' = RemoveFirst(probation, Key(t))
          /\ admitted' = [admitted EXCEPT ![Key(t)] = @ + 1]
          /\ Goto(t, "admit")
          /\ UNCHANGED since
     ELSE /\ probation' = Probing(Key(t))
          /\ Loaded(t)
          /\ Record({<<"probation", Key(t)>>})
          /\ UNCHANGED admitted
  /\ UNCHANGED <<pages, blocks, prefetched, populated, values, order,
                 owner, installed, request, issued, reads>>

Admit(t) ==
  /\ At(t, "admit")
  /\ blocks' \in AfterInsert(BlockLen, BlockBudget, blocks, Key(t))
  /\ Loaded(t)
  /\ Record({<<"block", Key(t)>>})
  /\ UNCHANGED <<pages, prefetched, populated, probation, values, order,
                 owner, installed, request, counts>>

-------------------------------------------------------------------------------
(* Prefetching the block: prefetch_block.                                    *)

(* The condition looks up both caches.  The guard of each operand of || and  *)
(* && is dropped with the operand: no lock is held while another is taken.   *)
CheckBlock(t) ==
  /\ At(t, "check")
  /\ Goto(t, IF \/ PrefetchBudget = 0 \/ BlockLen[Key(t)] > PrefetchBudget
                \/ Key(t) \in blocks
             THEN "idle" ELSE "checkHint")
  /\ UNCHANGED <<caches, owner, installed, request, counts, since>>

CheckHint(t) ==
  /\ At(t, "checkHint")
  /\ Goto(t, IF populated THEN "checkPrefetched" ELSE "lookup")
  /\ UNCHANGED <<caches, owner, installed, request, counts, since>>

(* Mutant: the guard lives on while the block is loaded, as in a match.      *)
CheckPrefetchedHeld(t) ==
  /\ At(t, "checkPrefetched") /\ Free
  /\ IF Key(t) \in prefetched THEN Goto(t, "idle") /\ UNCHANGED owner
     ELSE Goto(t, "lookup") /\ Take(t)
  /\ UNCHANGED <<caches, installed, request, counts, since>>

CheckPrefetched(t) ==
  /\ At(t, "checkPrefetched") /\ Free
  /\ Goto(t, IF Key(t) \in prefetched THEN "idle" ELSE "lookup")
  /\ UNCHANGED <<caches, owner, installed, request, counts, since>>

Recheck(t) ==
  /\ At(t, "recheck")
  /\ Goto(t, IF Key(t) \in blocks THEN "idle" ELSE "insertPrefetched")
  /\ UNCHANGED <<caches, owner, installed, request, counts, since>>

InsertPrefetched(t) ==
  /\ At(t, "insertPrefetched") /\ Free
  /\ prefetched' \in AfterInsert(BlockLen, PrefetchBudget, prefetched, Key(t))
  /\ Take(t)
  /\ Goto(t, "setPopulated")
  /\ Record({<<"prefetched", Key(t)>>})
  /\ UNCHANGED <<pages, blocks, populated, probation, values, order,
                 installed, request, counts>>

SetPopulated(t) ==
  /\ At(t, "setPopulated")
  /\ populated' = TRUE
  /\ Release
  /\ Goto(t, "idle")
  /\ UNCHANGED <<pages, blocks, prefetched, probation, values, order,
                 installed, request, counts, since>>

-------------------------------------------------------------------------------
(* Package::trim, one cache after another.                                   *)

BeginTrim ==
  /\ At(Trimmer, "idle") /\ issued < MaxRequests
  /\ issued' = issued + 1
  /\ since' = {}
  /\ Goto(Trimmer, "trimPages")
  /\ UNCHANGED <<caches, owner, installed, request, reads, admitted>>

TrimPages ==
  /\ At(Trimmer, "trimPages")
  /\ pages' = {}
  /\ Goto(Trimmer, "trimBlocks")
  /\ UNCHANGED <<blocks, prefetched, populated, probation, values, order,
                 owner, installed, request, counts, since>>

TrimBlocks ==
  /\ At(Trimmer, "trimBlocks")
  /\ blocks' = {}
  /\ Goto(Trimmer, "trimPrefetched")
  /\ UNCHANGED <<pages, prefetched, populated, probation, values, order,
                 owner, installed, request, counts, since>>

TrimPrefetched ==
  /\ At(Trimmer, "trimPrefetched") /\ Free
  /\ prefetched' = {}
  /\ Take(Trimmer)
  /\ Goto(Trimmer, "clearPopulated")
  /\ UNCHANGED <<pages, blocks, populated, probation, values, order,
                 installed, request, counts, since>>

(* Mutant: the lock is dropped before the flag is cleared.                   *)
ClearPopulatedUnlocked ==
  /\ At(Trimmer, "clearPopulated")
  /\ IF owner = Trimmer THEN Release /\ UNCHANGED <<populated, pc>>
     ELSE populated' = FALSE /\ Goto(Trimmer, "trimProbation") /\ UNCHANGED owner
  /\ UNCHANGED <<pages, blocks, prefetched, probation, values, order,
                 installed, request, counts, since>>

ClearPopulated ==
  /\ At(Trimmer, "clearPopulated")
  /\ populated' = FALSE
  /\ Release
  /\ Goto(Trimmer, "trimProbation")
  /\ UNCHANGED <<pages, blocks, prefetched, probation, values, order,
                 installed, request, counts, since>>

TrimProbation ==
  /\ At(Trimmer, "trimProbation")
  /\ probation' = <<>>
  /\ Goto(Trimmer, "trimHandles")
  /\ UNCHANGED <<pages, blocks, prefetched, populated, values, order,
                 owner, installed, request, counts, since>>

(* Mutant: the queue is cleared, the handles are not.                        *)
TrimHandleOrder ==
  /\ At(Trimmer, "trimHandles")
  /\ order' = <<>>
  /\ Goto(Trimmer, "trimmed")
  /\ UNCHANGED <<pages, blocks, prefetched, populated, probation, values,
                 owner, installed, request, counts, since>>

TrimHandles ==
  /\ At(Trimmer, "trimHandles")
  /\ values' = {} /\ order' = <<>>
  /\ Goto(Trimmer, "trimmed")
  /\ UNCHANGED <<pages, blocks, prefetched, populated, probation,
                 owner, installed, request, counts, since>>

EndTrim ==
  /\ At(Trimmer, "trimmed")
  /\ since' = {}
  /\ Goto(Trimmer, "idle")
  /\ UNCHANGED <<caches, owner, installed, request, counts>>

-------------------------------------------------------------------------------
(* The launcher installs a deferred segment.                                 *)
Install(s) ==
  /\ s \notin installed
  /\ installed' = installed \union {s}
  /\ UNCHANGED <<caches, owner, pc, request, counts, since>>

Work(t) ==
  \/ FindPage(t) \/ LoadPage(t)
  \/ FindBlock(t) \/ ReadHint(t) \/ FindPrefetched(t)
  \/ FindHandle(t) \/ OpenFile(t) \/ InsertHandle(t)
  \/ Decode(t) \/ SecondAccess(t) \/ Admit(t)
  \/ CheckBlock(t) \/ CheckHint(t) \/ CheckPrefetched(t)
  \/ Recheck(t) \/ InsertPrefetched(t) \/ SetPopulated(t)

Trim ==
  \/ TrimPages \/ TrimBlocks \/ TrimPrefetched \/ ClearPopulated
  \/ TrimProbation \/ TrimHandles \/ EndTrim

(* Everything that was begun has ended, and no more is begun.                *)
Finished == issued = MaxRequests /\ (\A t \in Threads : At(t, "idle")) /\ UNCHANGED vars

Next ==
  \/ \E t \in Readers : (\E q \in Requests : Begin(t, q)) \/ Work(t)
  \/ BeginTrim \/ Trim
  \/ \E s \in Segments : Install(s)
  \/ Finished

Spec == Init /\ [][Next]_vars

(* A thread that has begun a request and can go on does go on.               *)
FairSpec == Spec /\ (\A t \in Readers : WF_vars(Work(t))) /\ WF_vars(Trim)

-------------------------------------------------------------------------------
(* Properties.                                                               *)

(* The handles and the order of their use name the same segments, each once, *)
(* and no more than the capacity, although threads that open a segment at    *)
(* the same time each insert their own handle (package.rs:785).              *)
HandlesInOrder ==
  /\ Range(order) = values
  /\ Len(order) = Cardinality(values)
  /\ Len(order) <= HandleCapacity

(* No thread can find the flag clear while the prefetch cache has entries:   *)
(* the hint never hides them (PERFORMANCE.md:148, package.rs:531 and 761).   *)
PrefetchedNotHidden == Free /\ prefetched # {} => populated

(* Each admission of a Normal block took two reads that decoded it, whoever  *)
(* read it, so that a single pass over the assets does not displace what is  *)
(* cached (package.rs:768).                                                  *)
AdmittedAfterTwoReads == \A k \in Keys : 2 * admitted[k] <= reads[k]

(* When trim returns, all that is cached or on probation was put there since *)
(* it was called; with no other request, nothing is (package.rs:531).        *)
TrimReleasesWhatItFound ==
  At(Trimmer, "trimmed") =>
    ({"page"} \X pages) \union ({"block"} \X blocks) \union ({"prefetched"} \X prefetched)
      \union ({"probation"} \X Range(probation)) \union ({"handle"} \X values) \subseteq since

(* Nobody waits for ever: every request and every trim ends, whatever the    *)
(* others do, since no guard is alive where its lock is taken again          *)
(* (package.rs:753, guards that are temporaries of conditions).              *)
EverythingReturns == \A t \in Threads : []<>(At(t, "idle"))
===============================================================================
