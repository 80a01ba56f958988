----------------------------- MODULE AssetReader -----------------------------
(***************************************************************************)
(* A published release is opened, a path is looked up in it, and the asset *)
(* is read through an AssetCursor or an AssetReadSession (core/package.rs):*)
(* reads and prefetches that go from block to block, seeks, failures       *)
(* between two blocks.                                                     *)
(*                                                                         *)
(* What the caches shared with other threads hold, which is PackageReader, *)
(* and which segments can be opened, is left to chance at each load.       *)
(***************************************************************************)
EXTENDS Catalog

CONSTANTS
  Trees,      \* the source trees that may have been published
  Lengths,    \* the lengths of the buffers that are read into
  Steps       \* the distances of relative seeks

ASSUME ConstantsAssumption ==
  /\ \A t \in Trees : SourceTree(t) /\ Indexable(t)
  /\ Lengths \subseteq Nat /\ Steps \subseteq Int

VARIABLES
  tree,      \* the source tree of the release
  catalog,   \* its snapshot, and what its segments hold
  opened,    \* Package::open has returned the package
  asset,     \* the open asset, and what of it the cursor or session keeps
  request,   \* the request being handled, [kind, from, want], or Quiet
  answer,    \* Pending, or how that request ended
  done,      \* the bytes it has been given so far, or prefetch's blocks
  recent     \* auxiliary: the last two blocks used, since a failure

vars == <<tree, catalog, opened, asset, request, answer, done, recent>>

NoAsset == [mode |-> "none"]
NoBlock == NoReference
Quiet == [kind |-> "quiet"]
Pending == [pending |-> TRUE]
Refused == [refused |-> TRUE]
Done == [done |-> TRUE]

Record == catalog.files[asset.file]
Length == Record.len
Streaming == Record.access = "Streaming"

Init ==
  /\ tree \in Trees /\ catalog = WriteSnapshot(tree) /\ opened = FALSE
  /\ asset = NoAsset /\ request = Quiet /\ answer = Done
  /\ done = <<>> /\ recent = <<>>

(* Package::open; what it opened, stays opened.                              *)
OpenPackage ==
  /\ ~opened /\ Accepted(catalog)
  /\ opened' = TRUE
  /\ UNCHANGED <<tree, catalog, asset, request, answer, done, recent>>

(* The catalog does not change: what reference_for_offset finds for a file is *)
(* put down once, when the file is opened.                                   *)
Located(file) ==
  [offset \in 0 .. file.len - 1 |-> ReferenceForOffset(catalog, file, offset)]

(* Package::asset, and a cursor or a session of it, which begin with nothing; *)
(* any other path is Error::AssetNotFound, and nothing changes.              *)
OpenAsset(path, mode) ==
  /\ opened /\ request = Quiet
  /\ FindFile(catalog, path) \in DOMAIN catalog.files
  /\ LET file == FindFile(catalog, path) IN
     asset' = [mode |-> mode, file |-> file, position |-> 0,
               current |-> NoBlock, previous |-> NoBlock, segment |-> 0,
               at |-> Located(catalog.files[file])]
  /\ recent' = <<>>
  /\ UNCHANGED <<tree, catalog, opened, request, answer, done>>

-------------------------------------------------------------------------------
(* Requests.                                                                *)

Ask(r) ==
  /\ asset # NoAsset /\ request = Quiet
  /\ request' = r /\ answer' = Pending /\ done' = <<>>
  /\ UNCHANGED <<tree, catalog, opened, asset, recent>>

AskRead(want) ==
  asset.mode = "cursor" /\ Ask([kind |-> "read", from |-> asset.position, want |-> want])

AskReadAt(from, want) ==
  asset.mode = "session" /\ Ask([kind |-> "readAt", from |-> from, want |-> want])

AskPrefetch(from, want) == Ask([kind |-> "prefetch", from |-> from, want |-> want])

(* SeekFrom::Start, ::Current and ::End.                                     *)
AskSeek(base, step) ==
  /\ asset.mode = "cursor"
  /\ Ask([kind |-> "seek", want |-> 0,
          from |-> step + (CASE base = "start" -> 0 [] base = "end" -> Length
                             [] OTHER -> asset.position)])

Answer(a) == answer' = a /\ UNCHANGED <<tree, catalog, opened, request, done>>

(* Mutant: a failed read leaves the cursor where the failure was.            *)
FailWhereItStopped(kept) ==
  /\ Answer(Refused) /\ recent' = <<>>
  /\ asset' = [kept EXCEPT !.position =
       IF request.kind = "read" THEN request.from + Len(done) ELSE @]

(* A request is refused, and this is what its cursor or session still has.   *)
Fail(kept) == Answer(Refused) /\ recent' = <<>> /\ asset' = kept

Seek ==
  /\ answer = Pending /\ request.kind = "seek"
  /\ IF request.from \in 0 .. Length
     THEN Answer(Done) /\ asset' = [asset EXCEPT !.position = request.from]
     ELSE Answer(Refused) /\ UNCHANGED asset
  /\ UNCHANGED recent

BeyondTheEnd ==
  /\ answer = Pending /\ request.kind # "seek" /\ request.from > Length
  /\ Fail(asset)

-------------------------------------------------------------------------------
(* Reading, one block at a time.                                            *)

Requested == Min({Length - request.from, request.want})
Reading ==
  /\ answer = Pending /\ request.kind \in {"read", "readAt"}
  /\ request.from <= Length /\ Len(done) < Requested
Logical == request.from + Len(done)
Covered(block) == block # NoBlock /\ Covers(block, Logical)
Missed == Reading /\ ~Covered(asset.current) /\ ~Covered(asset.previous)
Reference == asset.at[Logical]

Use(ref) == recent' = IF recent = <<>> THEN <<ref>> ELSE <<Last(recent), ref>>

Serve ==
  /\ Reading /\ Covered(asset.current)
  /\ LET within == Logical - asset.current.logical
         bytes  == BlockBytes(catalog, asset.current)
         amount == Min({Len(bytes) - within, Requested - Len(done)})
     IN /\ within < Len(bytes)
        /\ done' = done \o SubSeq(bytes, within + 1, within + amount)
  /\ UNCHANGED <<tree, catalog, opened, asset, request, answer, recent>>

(* Mutant: the block that was current is dropped.                            *)
ExchangeDropping ==
  /\ Reading /\ ~Covered(asset.current) /\ Covered(asset.previous)
  /\ asset' = [asset EXCEPT !.current = asset.previous, !.previous = NoBlock]
  /\ Use(asset.previous)
  /\ UNCHANGED <<tree, catalog, opened, request, answer, done>>

Exchange ==
  /\ Reading /\ ~Covered(asset.current) /\ Covered(asset.previous)
  /\ asset' = [asset EXCEPT !.current = asset.previous, !.previous = asset.current]
  /\ Use(asset.previous)
  /\ UNCHANGED <<tree, catalog, opened, request, answer, done>>

(* The blocks are given up before the load, and stay so when it fails.       *)
GiveUp == IF Streaming THEN [asset EXCEPT !.previous = asset.current, !.current = NoBlock]
          ELSE [asset EXCEPT !.current = NoBlock]

(* From a cache, or from its segment, whose handle the reader then keeps.    *)
Load ==
  /\ Missed /\ Reference # NoReference /\ InSegment(catalog, Reference)
  /\ \E segment \in {asset.segment, Reference.segment} :
       asset' = [GiveUp EXCEPT !.current = Reference, !.segment = segment]
  /\ Use(Reference)
  /\ UNCHANGED <<tree, catalog, opened, request, answer, done>>

(* A page of the snapshot or a segment cannot be read, or does not            *)
(* authenticate.                                                             *)
LocateFails == Missed /\ Fail(asset)
LoadFails ==
  /\ Missed /\ Reference # NoReference
  /\ \E segment \in {asset.segment, Reference.segment} : Fail([GiveUp EXCEPT !.segment = segment])

(* Mutant: a read ends when the buffer is full.                              *)
ReadEndsFull ==
  /\ answer = Pending /\ request.kind \in {"read", "readAt"}
  /\ request.from <= Length /\ Len(done) = request.want
  /\ answer' = [bytes |-> done]
  /\ asset' = IF request.kind = "read" THEN [asset EXCEPT !.position = @ + Len(done)] ELSE asset
  /\ UNCHANGED <<tree, catalog, opened, request, done, recent>>

ReadEnds ==
  /\ answer = Pending /\ request.kind \in {"read", "readAt"}
  /\ request.from <= Length /\ Len(done) = Requested
  /\ answer' = [bytes |-> done]
  /\ asset' = IF request.kind = "read" THEN [asset EXCEPT !.position = @ + Len(done)] ELSE asset
  /\ UNCHANGED <<tree, catalog, opened, request, done, recent>>

-------------------------------------------------------------------------------
(* Prefetching, with a reader of its own.                                   *)

Prefetching == answer = Pending /\ request.kind = "prefetch" /\ request.from <= Length

(* Mutant: the last byte of the range is left out.                           *)
PrefetchEndEarly == request.from + Requested - 1

PrefetchEnd == request.from + Requested

PrefetchAt == IF done = <<>> THEN request.from ELSE Last(done).logical + Last(done).plain

PrefetchBlock ==
  /\ Prefetching /\ PrefetchAt < PrefetchEnd
  /\ LET ref == asset.at[PrefetchAt] IN
       /\ ref # NoReference /\ InSegment(catalog, ref)
       /\ done' = Append(done, ref)
  /\ UNCHANGED <<tree, catalog, opened, asset, request, answer, recent>>

PrefetchFails ==
  /\ Prefetching /\ PrefetchAt < PrefetchEnd
  /\ Answer(Refused) /\ UNCHANGED <<asset, recent>>

PrefetchEnds ==
  /\ Prefetching /\ PrefetchAt >= PrefetchEnd
  /\ Answer(Done) /\ UNCHANGED <<asset, recent>>

(* The caller has the answer.                                                *)
Return ==
  /\ request # Quiet /\ answer # Pending
  /\ request' = Quiet /\ answer' = Done /\ done' = <<>>
  /\ UNCHANGED <<tree, catalog, opened, asset, recent>>

Work ==
  \/ Seek \/ BeyondTheEnd \/ Serve \/ Exchange \/ Load \/ LocateFails \/ LoadFails \/ ReadEnds
  \/ PrefetchBlock \/ PrefetchFails \/ PrefetchEnds \/ Return

Asking ==
  \/ \E want \in Lengths : AskRead(want)
  \/ \E want \in Lengths, from \in 0 .. Length + 1 : AskReadAt(from, want) \/ AskPrefetch(from, want)
  \/ \E base \in {"start", "end", "here"}, step \in Steps : AskSeek(base, step)

Next ==
  \/ OpenPackage
  \/ \E path \in Paths, mode \in {"cursor", "session"} : OpenAsset(path, mode)
  \/ (asset # NoAsset /\ Asking) \/ Work

Spec == Init /\ [][Next]_vars /\ WF_vars(Work)

-------------------------------------------------------------------------------
(* Properties.                                                              *)

(* Every path of the tree is found at its file and no other path is found;    *)
(* the search always comes to an end at an empty slot, however the hashes     *)
(* collide and wrap around (packer.rs:1431, format.rs:1075).                  *)
EveryPathIsFound ==
  asset = NoAsset => \A path \in Paths :
    LET packed == {f \in DOMAIN tree : tree[f].path = path} IN
    FindFile(catalog, path) = IF packed = {} THEN 0 ELSE CHOOSE f \in packed : TRUE

(* What the source file of the open asset held.                              *)
FileBytes == tree[asset.file].bytes

(* Every offset of a file is in a block that the runtime finds, whether by    *)
(* division or by search, and that holds the file's bytes from where it says  *)
(* to where it says (package.rs:982, packer.rs:607).                          *)
EveryOffsetIsFound ==
  asset # NoAsset =>
    /\ asset.file \in DOMAIN tree /\ Length = Len(FileBytes)
    /\ \A offset \in 0 .. Length - 1 :
         LET ref == asset.at[offset] IN
         /\ ref # NoReference /\ InSegment(catalog, ref)
         /\ ref.logical \in Nat /\ ref.plain \in 1 .. Length - ref.logical /\ Covers(ref, offset)
         /\ BlockBytes(catalog, ref) = SubSeq(FileBytes, ref.logical + 1, ref.logical + ref.plain)

(* What the publisher writes, the runtime accepts, and the publisher's next   *)
(* build finds each chunk with the block that holds it, across pages of       *)
(* different capacities (format.rs:870, package.rs:574).                      *)
ReusePairsChunksWithBlocks ==
  LET records == ReuseRecords(catalog) IN asset = NoAsset =>
  /\ Accepted(catalog)
  /\ Len(records) = catalog.blocks
  /\ \A r \in DOMAIN records :
       /\ InSegment(catalog, records[r].block)
       /\ BlockBytes(catalog, records[r].block) = records[r].chunk

(* A cursor of a streaming asset keeps the last two blocks it read from, as   *)
(* long as no read fails, so that going back and forth between them loads     *)
(* nothing; one of any other asset keeps one (docs/PERFORMANCE.md:55).  All   *)
(* are blocks of its own file.                                               *)
StreamingWindow ==
  asset # NoAsset =>
    /\ \A ref \in {asset.current, asset.previous} \ {NoBlock} :
         ref \in Range(asset.at)
    /\ IF Streaming THEN ToSet(recent) \subseteq {asset.current, asset.previous}
       ELSE asset.previous = NoBlock

(* A prefetch that succeeds has gone through exactly the blocks that hold a   *)
(* byte of its range, which follow one another, in order and each once        *)
(* (package.rs:933).                                                         *)
PrefetchedRange ==
  asset # NoAsset /\ request.kind = "prefetch" /\ answer = Done =>
    LET Block(i) == BlockRef(catalog, Record.first - 1 + i)
        needed == {i \in 1 .. Record.count :
                     /\ Requested > 0
                     /\ Block(i).logical < request.from + Requested
                     /\ Block(i).logical + Block(i).plain > request.from}
    IN \E first \in 1 .. Record.count + 1 :
         /\ needed = first .. first - 1 + Len(done)
         /\ \A i \in 1 .. Len(done) : done[i] = Block(first - 1 + i)

(* Every request is answered: no read or prefetch goes round without getting  *)
(* further (package.rs:886, 959).                                            *)
RequestsAreAnswered == request # Quiet ~> request = Quiet

(* Readers keep the promise of SeekableFile for the bytes of the source file: *)
(* a read that succeeds returns the right bytes whatever was read, sought or  *)
(* failed before, and only success moves the position.                        *)
Bytes == IF asset = NoAsset THEN <<>> ELSE FileBytes
File == INSTANCE SeekableFile WITH
  Contents <- Seq(Nat),
  Requests <- [kind : {"read", "readAt", "prefetch", "seek"}, from : Int, want : Int],
  content <- Bytes, position <- IF asset = NoAsset THEN 0 ELSE asset.position
ImplementsSeekableFile == File!Spec
===============================================================================
