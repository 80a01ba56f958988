---------------------------- MODULE BlockPlacement ----------------------------
(***************************************************************************)
(* Where a build puts the blocks of the files (pack/src/packer.rs,         *)
(* BuildContext): in which segment each chunk is written, which blocks are *)
(* shared within the build or reused from the release before, and what the *)
(* development cache may answer without reading a file.                    *)
(*                                                                         *)
(* Builds follow each other and the sources are edited in between; what    *)
(* happens during a build, on disk and to the sources, is in Publisher.    *)
(* A floor for the release sequence is left out too.                       *)
(* The chunks of a file are given: cutting it (fixed blocks or FastCDC) is *)
(* a function of its bytes.  Its compression policy depends on its path,   *)
(* its access class also on its length, its availability is the build's    *)
(* choice.                                                                 *)
(***************************************************************************)
EXTENDS Compaction

CONSTANTS
  N,             \* the number of files, named 1 .. N in the order of their paths
  Chunks,
  History,       \* the sequences of chunks each file consists of, as it is edited
  AccessOf,      \* the access class of each file at each version
  PolicyOf,      \* the compression policy of each file: "Auto" or "Raw"
  Compressible,  \* the chunks that zstd makes smaller
  Target,        \* the payload at which segments of an access class are full
  Options,       \* the options builds are started with
  SegmentIds,    \* bound: the identifiers of the segments of two releases
  MaxSeq,        \* bound: the last release
  MaxQuiet       \* the releases in a row that compaction may make of the same files

Files == 1 .. N
Accesses == UNION {Range(AccessOf[f]) : f \in Files}
Availabilities == {"Required", "Deferred"}
Classes == Availabilities \X Accesses
Codecs == {"Raw", "Zstd"}

ASSUME ConstantsAssumption ==
  /\ N \in Nat \ {0}
  /\ \A f \in Files : History[f] # <<>> /\ History[f] \in Seq(Seq(Chunks))
  /\ \A f \in Files : DOMAIN AccessOf[f] = DOMAIN History[f]
  /\ PolicyOf \in [Files -> {"Auto", "Raw"}] /\ Compressible \subseteq Chunks
  /\ PlainLen \in [Chunks -> Nat \ {0}] /\ StoredLen \in [Codecs -> [Chunks -> Nat \ {0}]]
  /\ Target \in [Accesses -> Nat]
  /\ Options \subseteq [incremental : BOOLEAN, dev : BOOLEAN, deferred : SUBSET Files]
  /\ IsFiniteSet(SegmentIds) /\ SegmentIds \subseteq Nat \ {0}
  /\ MaxSeq \in Nat /\ RewriteBudget \in Nat
  \* More fragments than one build leaves open segments: 64 and 8 in the code.
  /\ MinFragments > Cardinality(Classes) \/ MinFragments > N

VARIABLES
  source,    \* the version of each file
  release,   \* the active release; its seq is 0 when there is none
  cache,     \* the development cache file
  phase,     \* where the running build is, or "idle"
  build,     \* BuildContext and the local variables of the build
  quiet      \* auxiliary: the last releases in a row that changed no file and
             \* only rewrote all that was worth it

vars == <<source, release, cache, phase, build, quiet>>

NoRef == [segment |-> 0, ordinal |-> 0, offset |-> 0]
NoSegments == <<>>

NoRelease == [seq |-> 0, segments |-> NoSegments, files |-> [f \in Files |-> <<>>],
              fingerprint |-> <<>>]
NoEntry == [stamp |-> 0, availability |-> "Required", chunks |-> <<>>]
NoCache == [seq |-> 0, entries |-> [f \in Files |-> NoEntry]]

Idle ==
  [options  |-> [incremental |-> FALSE, dev |-> FALSE, deferred |-> {}],
   cached   |-> NoCache.entries,   \* the entries of the cache it loaded
   excluded |-> {},                \* segments chosen for compaction
   reuse    |-> [key \in Chunks \X Availabilities |-> NoRef],
   current  |-> [key \in Chunks \X Classes |-> NoRef],
   segments |-> NoSegments,        \* the segments it has written
   active   |-> [class \in Classes |-> 0],   \* the open one of each class
   files    |-> <<>>,              \* references of the files handled so far
   chunks   |-> <<>>,              \* chunks of the last of them still to come
   vouched  |-> FALSE]             \* that file's chunks are the cache's word

Init ==
  /\ source = [f \in Files |-> 1]
  /\ release = NoRelease /\ cache = NoCache
  /\ phase = "idle" /\ build = Idle /\ quiet = 0

Content(f) == History[f][source[f]]
ChunksOf(refs) == [i \in DOMAIN refs |-> refs[i].chunk]
Availability(f) == IF f \in build.options.deferred THEN "Deferred" ELSE "Required"
Access(f) == AccessOf[f][source[f]]
Class(f) == <<Availability(f), Access(f)>>
AllRefs(files) == UNION {Range(files[f]) : f \in DOMAIN files}

(* Of some references, the one that comes first in the files.                *)
First(files, refs) ==
  LET f == Min({g \in DOMAIN files : Range(files[g]) \cap refs # {}})
  IN files[f][Min({i \in DOMAIN files[f] : files[f][i] \in refs})]

Goto(p) == phase' = p

-------------------------------------------------------------------------------
(* What a build may take from the release before.                            *)

(* Mutant: the segments that are to be compacted are reused all the same.    *)
ReusableOfAny(old, excluded, key) ==
  {r \in AllRefs(old.files) :
     r.chunk = key[1] /\ old.segments[r.segment].class[1] = key[2]}

(* Mutant: a block is reused whichever availability it was placed for.       *)
ReusableAsAny(old, excluded, key) ==
  {r \in AllRefs(old.files) : r.segment \notin excluded /\ r.chunk = key[1]}

Reusable(old, excluded, key) ==
  {r \in AllRefs(old.files) :
     /\ r.segment \notin excluded
     /\ r.chunk = key[1] /\ old.segments[r.segment].class[1] = key[2]}

(* Of the blocks that hold a chunk, the first one some file refers to.       *)
ReuseIndex(old, excluded) ==
  [key \in Chunks \X Availabilities |->
    LET refs == Reusable(old, excluded, key)
    IN IF refs = {} THEN NoRef ELSE First(old.files, refs)]

StartBuild(o) ==
  /\ phase = "idle" /\ release.seq < MaxSeq
  /\ LET excluded == IF o.incremental
                     THEN CompactionSegments(release.segments, AllRefs(release.files)) ELSE {}
     IN build' = [Idle EXCEPT
          !.options  = o,
          !.excluded = excluded,
          !.reuse    = IF o.incremental THEN ReuseIndex(release, excluded) ELSE @,
          !.cached   = IF o.dev /\ release.seq > 0 /\ cache.seq = release.seq
                       THEN cache.entries ELSE @]
  /\ Goto("files")
  /\ UNCHANGED <<source, release, cache, quiet>>

-------------------------------------------------------------------------------
(* The chunks of the files, one after the other.                             *)

Accepts(f, ref) == ref # NoRef /\ (PolicyOf[f] = "Auto" \/ ref.codec = "Raw")

(* A block this build has placed for the same class; a block of the release  *)
(* before, in whatever access class it was placed then.                      *)
Current(f, c) == build.current[<<c, Class(f)>>]
Existing(f, c) == build.reuse[<<c, Availability(f)>>]

(* Mutant: that the policy of the file may refuse the codec is forgotten.    *)
CachedEntryUsableUnderAnyCodec(f) ==
  LET entry == build.cached[f] IN
  /\ entry.stamp = source[f] /\ entry.availability = Availability(f)
  /\ \A c \in Range(entry.chunks) : Current(f, c) # NoRef \/ Existing(f, c) # NoRef

CachedEntryUsable(f) ==
  LET entry == build.cached[f] IN
  /\ entry.stamp = source[f] /\ entry.availability = Availability(f)
  /\ \A c \in Range(entry.chunks) : Accepts(f, Current(f, c)) \/ Accepts(f, Existing(f, c))

BeginFile ==
  /\ phase = "files" /\ build.chunks = <<>> /\ Len(build.files) < N
  /\ LET f == Len(build.files) + 1 IN
     build' = [build EXCEPT
       !.files   = Append(@, <<>>),
       !.vouched = CachedEntryUsable(f),
       !.chunks  = IF CachedEntryUsable(f) THEN build.cached[f].chunks ELSE Content(f)]
  /\ UNCHANGED <<source, release, cache, phase, quiet>>

File == Len(build.files)
Chunk == Head(build.chunks)
Key == <<Chunk, Class(File)>>
AtChunk == phase = "files" /\ build.chunks # <<>>

(* Mutant: a block that is used again keeps the offset it had.               *)
AtItsOldOffset(ref) == ref

AtNextOffset(ref) ==
  LET refs == build.files[File] IN
  [ref EXCEPT !.offset = IF refs = <<>> THEN 0 ELSE Last(refs).offset + PlainLen[Last(refs).chunk]]

(* Mutant: the block just placed is not offered to the next files.      *)
Forgotten(ref) == build.current

Remembered(ref) == [build.current EXCEPT ![Key] = ref]

ShareBlock ==
  /\ AtChunk /\ Accepts(File, Current(File, Chunk))
  /\ build' = [build EXCEPT
       !.chunks = Tail(@),
       !.files[File] = Append(@, AtNextOffset(Current(File, Chunk)))]
  /\ UNCHANGED <<source, release, cache, phase, quiet>>

ReuseBlock ==
  /\ AtChunk /\ ~Accepts(File, Current(File, Chunk)) /\ Accepts(File, Existing(File, Chunk))
  /\ build' = [build EXCEPT
       !.chunks = Tail(@),
       !.files[File] = Append(@, AtNextOffset(Existing(File, Chunk))),
       !.current[Key] = AtNextOffset(Existing(File, Chunk))]
  /\ UNCHANGED <<source, release, cache, phase, quiet>>

Encoded(f, c) ==
  [chunk |-> c, codec |-> IF PolicyOf[f] = "Auto" /\ c \in Compressible THEN "Zstd" ELSE "Raw"]

Written(id, segment) ==
  [i \in DOMAIN build.segments \union {id} |-> IF i = id THEN segment ELSE build.segments[i]]

FreshIds == SegmentIds \ (DOMAIN build.segments \union DOMAIN release.segments)

(* Mutant: a segment is full when it has reached the target, not before.     *)
HasRoomUntilFull(id, block) == Payload(build.segments[id]) < Target[build.segments[id].class[2]]

HasRoom(id, block) ==
  Payload(build.segments[id]) + StoredOf(block) <= Target[build.segments[id].class[2]]

(* Blocks are compressed and written to the open segment of their class,     *)
(* which is finished first if it has blocks and would pass its target; but a *)
(* chunk the cache vouched for has not been read and cannot be written:      *)
(* "development cache lost a reusable block".                                 *)
WriteBlock ==
  /\ AtChunk /\ ~Accepts(File, Current(File, Chunk)) /\ ~Accepts(File, Existing(File, Chunk))
  /\ LET block  == Encoded(File, Chunk)
         open   == build.active[Class(File)]
         stays  == open # 0 /\ HasRoom(open, block)
         id     == IF stays THEN open ELSE Min(FreshIds)
         blocks == IF stays THEN build.segments[id].blocks ELSE <<>>
         ref    == AtNextOffset([segment |-> id, ordinal |-> Len(blocks) + 1, offset |-> 0,
                                 chunk |-> Chunk, codec |-> block.codec])
     IN IF build.vouched
        THEN Goto("lost") /\ UNCHANGED build
        ELSE /\ stays \/ FreshIds # {}
             /\ build' = [build EXCEPT
                  !.chunks = Tail(@),
                  !.segments = Written(id, [class |-> Class(File), blocks |-> Append(blocks, block)]),
                  !.active[Class(File)] = id,
                  !.files[File] = Append(@, ref),
                  !.current = Remembered(ref)]
             /\ UNCHANGED phase
  /\ UNCHANGED <<source, release, cache, quiet>>

-------------------------------------------------------------------------------
(* The end of a build.                                                       *)

Fingerprint == [f \in DOMAIN build.files |-> <<Class(f), ChunksOf(build.files[f])>>]
SameSource == release.seq > 0 /\ Fingerprint = release.fingerprint
Unchanged == build.options.incremental /\ build.excluded = {} /\ SameSource
Handled == phase = "files" /\ build.chunks = <<>> /\ Len(build.files) = N

NewCache(seq) ==
  [seq |-> seq,
   entries |-> [f \in Files |-> [stamp |-> source[f], availability |-> Availability(f),
                                 chunks |-> ChunksOf(build.files[f])]]]

KeepRelease ==
  /\ Handled /\ Unchanged
  /\ cache' = IF build.options.dev THEN NewCache(release.seq) ELSE cache
  /\ Goto("report")
  /\ UNCHANGED <<source, release, build, quiet>>

Stage ==
  /\ Handled /\ ~Unchanged
  /\ Goto(IF build.options.dev THEN "saveCache" ELSE "commit")
  /\ UNCHANGED <<source, release, cache, build, quiet>>

SaveCache ==
  /\ phase = "saveCache"
  /\ cache' = NewCache(release.seq + 1)
  /\ Goto("commit")
  /\ UNCHANGED <<source, release, build, quiet>>

(* Mutant: the segments a release inherits are not listed in it.             *)
NewOnly == build.segments

Segment(id) ==
  IF id \in DOMAIN build.segments THEN build.segments[id] ELSE release.segments[id]

Retained ==
  LET used == {r.segment : r \in AllRefs(build.files)}
  IN [id \in used \union DOMAIN build.segments |-> Segment(id)]

AllCompacted == build.excluded = Candidates(release.segments, AllRefs(release.files))

Commit ==
  /\ phase = "commit"
  /\ release' = [seq |-> release.seq + 1, segments |-> Retained,
                 files |-> build.files, fingerprint |-> Fingerprint]
  /\ quiet' = IF build.options.incremental /\ SameSource /\ AllCompacted THEN quiet + 1 ELSE 0
  /\ Goto("report")
  /\ UNCHANGED <<source, cache, build>>

Report ==
  /\ phase = "report"
  /\ build' = Idle /\ Goto("idle")
  /\ UNCHANGED <<source, release, cache, quiet>>

(* The build fails; when this is after the cache was saved, the cache stays. *)
Fail ==
  /\ phase \in {"files", "lost", "saveCache", "commit"}
  /\ build' = Idle /\ Goto("idle")
  /\ UNCHANGED <<source, release, cache, quiet>>

Edit(f) ==
  /\ phase = "idle" /\ source[f] < Len(History[f])
  /\ source' = [source EXCEPT ![f] = @ + 1]
  /\ UNCHANGED <<release, cache, phase, build, quiet>>

Done == phase = "idle" /\ release.seq = MaxSeq /\ UNCHANGED vars

Next ==
  \/ \E o \in Options : StartBuild(o)
  \/ BeginFile \/ ShareBlock \/ ReuseBlock \/ WriteBlock
  \/ KeepRelease \/ Stage \/ SaveCache \/ Commit \/ Report \/ Fail
  \/ \E f \in Files : Edit(f)
  \/ Done

Spec == Init /\ [][Next]_vars

-------------------------------------------------------------------------------
(* Properties.                                                               *)

(* A release holds every file's chunks at contiguous offsets, in a codec the *)
(* file's policy accepts, whichever of reading, sharing, reuse and cache     *)
(* produced each of them (packer.rs:439); and each reference leads to a       *)
(* segment that the snapshot lists, and there to a block with that chunk      *)
(* (packer.rs:836).                                                          *)
ReleaseHoldsSources ==
  phase = "report" =>
    \A f \in Files : LET refs == release.files[f] IN
      /\ \A i \in DOMAIN refs :
           /\ refs[i].segment \in DOMAIN release.segments
           /\ refs[i].ordinal \in DOMAIN release.segments[refs[i].segment].blocks
           /\ release.segments[refs[i].segment].blocks[refs[i].ordinal]
                = [chunk |-> refs[i].chunk, codec |-> refs[i].codec]
      /\ ChunksOf(refs) = Content(f)
      /\ \A i \in DOMAIN refs :
           /\ Accepts(f, refs[i])
           /\ refs[i].offset =
                IF i = 1 THEN 0 ELSE refs[i - 1].offset + PlainLen[refs[i - 1].chunk]

(* A required file never needs a deferred segment, and neither the other     *)
(* way round, however the options changed from build to build; after a full  *)
(* build the access classes are apart too (README.md:90, FORMAT.md:365).      *)
PlacedByClass ==
  phase = "report" =>
    \A f \in Files : \A r \in Range(release.files[f]) :
      LET class == release.segments[r.segment].class IN
      /\ class[1] = Availability(f)
      /\ ~build.options.incremental => class[2] = Access(f)

(* No segment passes the target of its class, unless by its only block       *)
(* (packer.rs:670).                                                          *)
SegmentsWithinTarget ==
  \A id \in DOMAIN build.segments : LET s == build.segments[id] IN
    Payload(s) <= Target[s.class[2]] \/ Len(s.blocks) = 1

(* A build writes no chunk twice for one class and codec (packer.rs:698).    *)
NewBlocksShared ==
  \A a, b \in DOMAIN build.segments :
    \A i \in DOMAIN build.segments[a].blocks, j \in DOMAIN build.segments[b].blocks :
      (/\ build.segments[a].class = build.segments[b].class
       /\ build.segments[a].blocks[i] = build.segments[b].blocks[j]) => a = b /\ i = j

(* What the cache was found to vouch for when the file was begun can be      *)
(* reused when its turn comes, whatever release and build wrote the cache    *)
(* (packer.rs:480).                                                          *)
CacheNeverLosesABlock == phase # "lost"

(* The blocks that files refer to in some segments, each once however often,  *)
(* and their plaintext bytes.                                                *)
BlocksIn(refs, ids) == {[r EXCEPT !.offset = 0] : r \in {q \in refs : q.segment \in ids}}
Rewritten(refs, ids) ==
  Cardinality(Bytes([block \in BlocksIn(refs, ids) |-> PlainOf(block)], BlocksIn(refs, ids)))

(* What is live in the segments that compaction selects, each block counted  *)
(* once however many files share it, stays within the rewrite budget; and no *)
(* segment that is worth it and would still fit is left out (packer.rs:1249).*)
(* A block whose files differ in class or codec by now is written once for   *)
(* each of them, which the code does not count, nor does the property.       *)
CompactionFillsBudget ==
  LET refs == AllRefs(release.files) IN
  build.options.incremental /\ phase = "files" /\ build.files = <<>> =>
    /\ Rewritten(refs, build.excluded) <= RewriteBudget
    /\ \A id \in Candidates(release.segments, refs) \ build.excluded :
         Rewritten(refs, build.excluded \union {id}) > RewriteBudget

(* Where the budget lasts for every candidate, compaction comes to rest:     *)
(* what it rewrites does not call for compaction again, so that builds of    *)
(* files that do not change stop making releases.  One build can leave       *)
(* another one its leavings, such as one fragment more; how many can follow  *)
(* each other depends on the instance (packer.rs:1249).                      *)
CompactionSettles == quiet <= MaxQuiet

(* "Identical chunks in the same placement class are also deduplicated",     *)
(* "encrypted and stored only once" (README.md:79-81).                        *)
StoredOnlyOnce ==
  \A a, b \in DOMAIN build.segments :
    \A i \in DOMAIN build.segments[a].blocks, j \in DOMAIN build.segments[b].blocks :
      (/\ build.segments[a].class = build.segments[b].class
       /\ build.segments[a].blocks[i].chunk = build.segments[b].blocks[j].chunk) => a = b /\ i = j
===============================================================================
