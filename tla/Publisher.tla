------------------------------ MODULE Publisher ------------------------------
(***************************************************************************)
(* The publisher (pack/src/packer.rs): builds that scan a source tree and  *)
(* replace the release in an output directory, while the sources are being *)
(* edited and builds fail, are killed or lose power.                       *)
(*                                                                         *)
(* A file is one block and a segment holds one block, so that every file   *)
(* has its own place to be read from, reused from or lost.  A stamp (size, *)
(* time, inode) is the number of the version of the file it was taken of.  *)
(* Which segments compaction rewrites depends on byte counts, which the    *)
(* model leaves out: it may be any set of them.                            *)
(***************************************************************************)
EXTENDS Integers, SequencesExt

CONSTANTS
  Files,        \* the logical paths, numbers in the order of the sorted paths
  History,      \* the contents each file goes through, as it is edited
  Absent,       \* the content of a file that does not exist
  SegmentIds,   \* bound: the identifiers of segments on disk at one time
  MaxSeq,       \* the last sequence number (u64::MAX in the code)
  Options,      \* the options builds are started with
  Legacy,       \* an old publisher may have left its backup of a release
  Faults,       \* what may go wrong, a subset of FaultKinds
  MaxFaults     \* bound: how often something goes wrong

FaultKinds == {"error", "sync_error", "kill", "power", "loss"}
Contents == UNION {{History[f][v] : v \in DOMAIN History[f]} : f \in Files}
NoBlock == [id |-> 0, content |-> Absent]
None == [seq |-> 0]

ASSUME ConstantsAssumption ==
  /\ IsFiniteSet(Files) /\ Files # {} /\ Files \subseteq SegmentIds
  /\ \A f \in Files : History[f] \in Seq(Contents) /\ Len(History[f]) # 0
  /\ SegmentIds \subseteq Nat \ {0} /\ IsFiniteSet(SegmentIds)
  /\ MaxSeq \in Nat \ {0}
  /\ Options \subseteq [incremental : BOOLEAN, dev : BOOLEAN, floor : 1 .. MaxSeq]
  /\ Legacy \in BOOLEAN
  /\ Faults \subseteq FaultKinds /\ MaxFaults \in Nat

VARIABLES
  source,    \* the version of each file in the source tree
  haku,      \* game.haku: the active release, or None
  previous,  \* game.haku.previous: the backup of an old publisher, or None
  data,      \* the finished segments in data/, [id, content]
  litter,    \* kinds of temporary files left: "staged" and "partial"
  lock,      \* .hakutaku.lock exists
  cache,     \* the development cache file, None when missing or unreadable
  durable,   \* what a loss of power may leave of the above, and (auxiliary)
             \* in durable.lost the segments that were deleted by hand
  phase,     \* where the running build is, or "idle"
  build,     \* the local state of the running build
  acked,     \* the release of the last build that returned success
  faults     \* how many faults there have been

disk == <<haku, previous, data, litter, lock, cache, durable>>
vars == <<source, disk, phase, build, acked, faults>>

NoEntry == [stamp |-> 0, content |-> Absent]
NoEntries == [f \in Files |-> NoEntry]

SegmentsOf(r) == IF r = None THEN {} ELSE Range(r.blocks) \ {NoBlock}
TreeOf(blocks) == [f \in Files |-> blocks[f].content]

Idle ==
  [options  |-> [incremental |-> FALSE, dev |-> FALSE, floor |-> 1],
   todo     |-> {},                        \* files still to be handled
   scanned  |-> [f \in Files |-> 1],       \* the stamps collect_files took
   atScan   |-> [f \in Files |-> 1],       \* auxiliary: versions when it ended
   old      |-> None,                      \* the release opened by the build
   cached   |-> NoEntries,                 \* the development cache it loaded
   excluded |-> {},                        \* segments chosen for compaction
   blocks   |-> [f \in Files |-> NoBlock], \* where each file's block is
   open     |-> {},                        \* segments still being written
   release  |-> None,                      \* the release to be reported
   removed  |-> FALSE]                     \* collected a segment

Durable(h, p, d, c) ==
  [out |-> {<<h, p>>}, sure |-> d, maybe |-> {}, cache |-> {c}, lost |-> {}]

(* The release an old publisher moved aside: one segment per content.        *)
LegacyRelease ==
  [seq    |-> 1,
   blocks |-> [f \in Files |->
     IF History[f][1] = Absent THEN NoBlock
     ELSE [id |-> Min({g \in Files : History[g][1] = History[f][1]}),
           content |-> History[f][1]]]]

Init ==
  /\ source = [f \in Files |-> 1]
  /\ haku = None
  /\ previous \in {None} \union (IF Legacy THEN {LegacyRelease} ELSE {})
  /\ data = SegmentsOf(previous)
  /\ litter = {} /\ lock = FALSE /\ cache = None
  /\ durable = Durable(haku, previous, data, cache)
  /\ phase = "idle" /\ build = Idle /\ acked = None /\ faults = 0

-------------------------------------------------------------------------------
(* Names: a file whose contents are synchronized has a durable name only    *)
(* once its directory is synchronized; until then a loss of power may keep  *)
(* any of the names written since.                                          *)

ReplaceOut(h, p) ==
  /\ haku' = h /\ previous' = p
  /\ durable' = [durable EXCEPT !.out = @ \union {<<h, p>>}]

SyncOut == durable' = [durable EXCEPT !.out = {<<haku, previous>>}, !.cache = {cache, None}]

AddName(s) ==
  /\ data' = data \union {s}
  /\ durable' = [durable EXCEPT !.maybe = @ \union {s}]

RemoveName(s) ==
  /\ data' = data \ {s}
  /\ durable' = [durable EXCEPT !.sure = @ \ {s}, !.maybe = @ \union {s}]

SyncData == durable' = [durable EXCEPT !.sure = data, !.maybe = {}]

IdsInUse ==
  {s.id : s \in data \union durable.sure \union durable.maybe \union durable.lost
                \union Range(build.blocks)
                \union UNION {SegmentsOf(p[1]) \union SegmentsOf(p[2]) : p \in durable.out}}
FreshId == CHOOSE n \in SegmentIds : n \notin IdsInUse
RoomForABuild == Cardinality(SegmentIds \ IdsInUse) >= Cardinality(Files)

Goto(p) == phase' = p

-------------------------------------------------------------------------------
(* Taking the lock and cleaning up after an interrupted build.              *)

(* A lock that is there, of a running or of a killed build, refuses.        *)
StartBuild(o) ==
  /\ phase = "idle" /\ ~lock /\ RoomForABuild
  /\ lock' = TRUE
  /\ build' = [Idle EXCEPT !.options = o]
  /\ Goto("recover")
  /\ UNCHANGED <<source, haku, previous, data, litter, cache, durable, acked, faults>>

RestoresBackup == haku = None /\ previous # None

(* Mutant: the staged snapshot of an interrupted build is kept.             *)
RecoverOutputKeepingStaged ==
  /\ phase = "recover"
  /\ IF RestoresBackup THEN ReplaceOut(previous, None)
     ELSE UNCHANGED <<haku, previous, durable>>
  /\ Goto(IF RestoresBackup THEN "syncRecovered" ELSE "recoverData")
  /\ UNCHANGED <<source, data, litter, lock, cache, build, acked, faults>>

RecoverOutput ==
  /\ phase = "recover"
  /\ IF RestoresBackup THEN ReplaceOut(previous, None)
     ELSE UNCHANGED <<haku, previous, durable>>
  /\ litter' = litter \ {"staged"}
  /\ Goto(IF RestoresBackup \/ "staged" \in litter
          THEN "syncRecovered" ELSE "recoverData")
  /\ UNCHANGED <<source, data, lock, cache, build, acked, faults>>

SyncRecovered ==
  /\ phase = "syncRecovered"
  /\ SyncOut
  /\ Goto("recoverData")
  /\ UNCHANGED <<source, haku, previous, data, litter, lock, cache, build, acked, faults>>

RecoverData ==
  /\ phase = "recoverData"
  /\ litter' = litter \ {"partial"}
  /\ IF "partial" \in litter THEN SyncData ELSE UNCHANGED durable
  /\ build' = [build EXCEPT !.todo = Files]
  /\ Goto("scan")
  /\ UNCHANGED <<source, haku, previous, data, lock, cache, acked, faults>>

-------------------------------------------------------------------------------
(* Scanning the sources and opening what the last build left.               *)

(* Directory order is arbitrary, and the tree may change between two files. *)
ScanFile(f) ==
  /\ phase = "scan" /\ f \in build.todo
  /\ build' = [build EXCEPT !.todo = @ \ {f}, !.scanned[f] = source[f], !.atScan = source]
  /\ Goto(IF build.todo = {f} THEN "open" ELSE "scan")
  /\ UNCHANGED <<source, disk, acked, faults>>

LoadedCache ==
  IF /\ build.options.dev /\ haku # None
     /\ cache # None /\ cache.seq = haku.seq
  THEN cache.entries ELSE NoEntries

(* Mutant: a sequence number that cannot be advanced is not noticed.        *)
OpenActiveUnchecked(compact) ==
  /\ phase = "open"
  /\ compact \subseteq (IF build.options.incremental THEN SegmentsOf(haku) ELSE {})
  /\ build' = [build EXCEPT !.todo = Files, !.old = haku,
                            !.cached = LoadedCache, !.excluded = compact]
  /\ Goto("add")
  /\ UNCHANGED <<source, disk, acked, faults>>

OpenActive(compact) ==
  /\ phase = "open" /\ haku.seq < MaxSeq
  /\ compact \subseteq (IF build.options.incremental THEN SegmentsOf(haku) ELSE {})
  /\ build' = [build EXCEPT !.todo = Files, !.old = haku,
                            !.cached = LoadedCache, !.excluded = compact]
  /\ Goto("add")
  /\ UNCHANGED <<source, disk, acked, faults>>

-------------------------------------------------------------------------------
(* Handling the files, in the order of their paths.                         *)

(* Blocks this build has placed, and those it may take from the old release. *)
Reusable ==
  (Range(build.blocks) \ {NoBlock}) \union
  (IF build.options.incremental THEN SegmentsOf(build.old) \ build.excluded ELSE {})
Reused(c) == {s \in Reusable : s.content = c}
Pick(S) == CHOOSE s \in S : TRUE

ScannedContent(f) == History[f][build.scanned[f]]
CurrentContent(f) == History[f][source[f]]

(* Mutant: only that there still is a file is compared with the stamp.       *)
UneditedIfPresent(f) == CurrentContent(f) # Absent

Unedited(f) == source[f] = build.scanned[f]
NextFile(f) == f \in build.todo /\ \A g \in build.todo : f <= g

(* Mutant: an entry is used whatever its stamp.                              *)
EntryUsableIgnoringStamp(f) ==
  build.cached[f].stamp # 0 /\ Reused(build.cached[f].content) # {}

EntryUsable(f) ==
  /\ build.cached[f].stamp = build.scanned[f]
  /\ Reused(build.cached[f].content) # {}

PlaceFile(f, s) ==
  /\ build' = [build EXCEPT !.todo = @ \ {f}, !.blocks[f] = s,
                            !.open = IF s \in Reusable \union {NoBlock} THEN @ ELSE @ \union {s}]
  /\ litter' = IF s \in Reusable \union {NoBlock} THEN litter ELSE litter \union {"partial"}
  /\ Goto(IF build.todo = {f} THEN "finish" ELSE "add")
  /\ UNCHANGED <<source, haku, previous, data, lock, cache, durable, acked, faults>>

(* collect_files did not list the file.                                      *)
SkipAbsent(f) ==
  /\ phase = "add" /\ NextFile(f) /\ ScannedContent(f) = Absent
  /\ PlaceFile(f, NoBlock)

(* The cache vouches for the file, which is not opened.                      *)
AddCached(f) ==
  /\ phase = "add" /\ NextFile(f) /\ ScannedContent(f) # Absent
  /\ EntryUsable(f)
  /\ PlaceFile(f, Pick(Reused(build.cached[f].content)))

(* The file is read between two comparisons with its stamp.                  *)
AddRead(f) ==
  /\ phase = "add" /\ NextFile(f) /\ ScannedContent(f) # Absent
  /\ ~EntryUsable(f) /\ Unedited(f)
  /\ LET c == CurrentContent(f) IN
     PlaceFile(f, IF Reused(c) # {} THEN Pick(Reused(c)) ELSE [id |-> FreshId, content |-> c])

(* A segment is full, or the last file has been handled: its file is         *)
(* synchronized, hashed and renamed into data/.                              *)
FinishSegment(s) ==
  /\ phase \in {"add", "finish"} /\ s \in build.open
  /\ AddName(s)
  /\ build' = [build EXCEPT !.open = @ \ {s}]
  /\ litter' = IF build.open = {s} THEN litter \ {"partial"} ELSE litter
  /\ UNCHANGED <<source, haku, previous, lock, cache, phase, acked, faults>>

(* Mutant: the names of new segments are not synchronized.                   *)
FinishedWithoutSync ==
  /\ phase = "finish" /\ build.open = {}
  /\ Goto("compare")
  /\ UNCHANGED <<source, disk, build, acked, faults>>

Finished ==
  /\ phase = "finish" /\ build.open = {}
  /\ IF Range(build.blocks) \subseteq SegmentsOf(build.old) \union {NoBlock}
     THEN UNCHANGED durable ELSE SyncData
  /\ Goto("compare")
  /\ UNCHANGED <<source, haku, previous, data, litter, lock, cache, build, acked, faults>>

-------------------------------------------------------------------------------
(* The unchanged-source shortcut, or a new release.                          *)

Unchanged ==
  /\ build.options.incremental /\ build.excluded = {} /\ build.old # None
  /\ TreeOf(build.blocks) = TreeOf(build.old.blocks)
  /\ build.old.seq >= build.options.floor

(* Mutant: an unchanged build does not collect what failed builds left.      *)
KeepActiveWithoutCollecting ==
  /\ phase = "compare" /\ Unchanged
  /\ build' = [build EXCEPT !.release = build.old]
  /\ Goto("report")
  /\ UNCHANGED <<source, disk, acked, faults>>

KeepActive ==
  /\ phase = "compare" /\ Unchanged
  /\ build' = [build EXCEPT !.release = build.old]
  /\ Goto(IF build.options.dev THEN "saveCache" ELSE "cleanup")
  /\ UNCHANGED <<source, disk, acked, faults>>

(* Mutant: a new release keeps the sequence number of the one it replaces.   *)
NextSequenceRepeated == Max({1, build.old.seq, build.options.floor})

NextSequence == Max({build.old.seq + 1, build.options.floor})

WriteSnapshot ==
  /\ phase = "compare" /\ ~Unchanged
  /\ build' = [build EXCEPT !.release = [seq |-> NextSequence, blocks |-> build.blocks]]
  /\ litter' = litter \union {"staged"}
  /\ Goto("verifySegments")
  /\ UNCHANGED <<source, haku, previous, data, lock, cache, durable, acked, faults>>

(* Mutant: the staged release is not checked against data/.                  *)
VerifySegmentsOmitted ==
  /\ phase = "verifySegments"
  /\ build' = [build EXCEPT !.todo =
                 IF build.options.dev THEN {} ELSE {f \in Files : ScannedContent(f) # Absent}]
  /\ Goto("verify")
  /\ UNCHANGED <<source, disk, acked, faults>>

VerifySegments ==
  /\ phase = "verifySegments" /\ SegmentsOf(build.release) \subseteq data
  /\ build' = [build EXCEPT !.todo =
                 IF build.options.dev THEN {} ELSE {f \in Files : ScannedContent(f) # Absent}]
  /\ Goto("verify")
  /\ UNCHANGED <<source, disk, acked, faults>>

VerifySource(f) ==
  /\ phase = "verify" /\ NextFile(f)
  /\ Unedited(f) /\ CurrentContent(f) = build.release.blocks[f].content
  /\ build' = [build EXCEPT !.todo = @ \ {f}]
  /\ UNCHANGED <<source, disk, phase, acked, faults>>

Verified ==
  /\ phase = "verify" /\ build.todo = {}
  /\ Goto(IF build.options.dev THEN "saveCache" ELSE "commit")
  /\ UNCHANGED <<source, disk, build, acked, faults>>

(* The cache is written before the release it describes is committed, and    *)
(* is never synchronized.                                                    *)
SaveCache ==
  /\ phase = "saveCache"
  /\ cache' = [seq |-> build.release.seq,
               entries |-> [f \in Files |->
                  IF ScannedContent(f) = Absent THEN NoEntry
                  ELSE [stamp |-> build.scanned[f], content |-> build.blocks[f].content]]]
  /\ durable' = [durable EXCEPT !.cache = @ \union {cache', None}]
  /\ Goto(IF build.release = build.old THEN "cleanup" ELSE "commit")
  /\ UNCHANGED <<source, haku, previous, data, litter, lock, build, acked, faults>>

Commit ==
  /\ phase = "commit"
  /\ ReplaceOut(build.release, previous)
  /\ litter' = litter \ {"staged"}
  /\ Goto("syncCommit")
  /\ UNCHANGED <<source, data, lock, cache, build, acked, faults>>

(* Mutant: the output directory is not synchronized after the rename.        *)
SyncCommitOmitted ==
  /\ phase = "syncCommit"
  /\ Goto("cleanup")
  /\ UNCHANGED <<source, disk, build, acked, faults>>

SyncCommit ==
  /\ phase = "syncCommit"
  /\ SyncOut
  /\ Goto("cleanup")
  /\ UNCHANGED <<source, haku, previous, data, litter, lock, cache, build, acked, faults>>

(* Mutant: the segments of the release that was replaced are kept instead.   *)
GarbageBesidesOld == data \ SegmentsOf(build.old)

Garbage == data \ SegmentsOf(build.release)

(* Mutant: segments are collected as soon as they are not needed any more.   *)
CollectSegmentEarly(s) ==
  /\ phase \in {"commit", "cleanup"} /\ s \in Garbage
  /\ RemoveName(s)
  /\ build' = [build EXCEPT !.removed = TRUE]
  /\ UNCHANGED <<source, haku, previous, litter, lock, cache, phase, acked, faults>>

CollectSegment(s) ==
  /\ phase = "cleanup" /\ s \in Garbage
  /\ RemoveName(s)
  /\ build' = [build EXCEPT !.removed = TRUE]
  /\ UNCHANGED <<source, haku, previous, litter, lock, cache, phase, acked, faults>>

SyncCollected ==
  /\ phase = "cleanup" /\ Garbage = {}
  /\ IF build.removed THEN SyncData ELSE UNCHANGED durable
  /\ Goto("report")
  /\ UNCHANGED <<source, haku, previous, data, litter, lock, cache, build, acked, faults>>

Report ==
  /\ phase = "report"
  /\ acked' = build.release
  /\ lock' = FALSE
  /\ build' = Idle /\ Goto("idle")
  /\ UNCHANGED <<source, haku, previous, data, litter, cache, durable, faults>>

-------------------------------------------------------------------------------
(* Builds that return an error: the lock is released, the segments the build *)
(* still writes are dropped with their files, and the staged snapshot is     *)
(* removed by some of the callers. What an earlier build left stays.         *)

RemovesStaged == phase \in {"verifySegments", "verify", "commit", "syncCommit"}
Dropped ==
  (IF RemovesStaged THEN {"staged"} ELSE {}) \union (IF build.open = {} THEN {} ELSE {"partial"})

Fail(removed, left) ==
  /\ litter' = (litter \ removed) \union left
  /\ lock' = FALSE
  /\ build' = Idle /\ Goto("idle")
  /\ UNCHANGED <<source, haku, previous, data, cache, durable, acked>>

(* No next sequence number: not even an unchanged build gets further.         *)
SequenceExhausted == phase = "open" /\ haku.seq >= MaxSeq /\ Fail(Dropped, {}) /\ UNCHANGED faults

SourceChanged ==
  /\ phase = "add"
  /\ \E f \in Files : NextFile(f) /\ ScannedContent(f) # Absent /\ ~EntryUsable(f) /\ ~Unedited(f)
  /\ Fail(Dropped, {}) /\ UNCHANGED faults

SegmentsMissing ==
  /\ phase = "verifySegments" /\ ~(SegmentsOf(build.release) \subseteq data)
  /\ Fail(Dropped, {}) /\ UNCHANGED faults

VerificationFails ==
  /\ phase = "verify"
  /\ \E f \in Files : NextFile(f) /\
       ~(Unedited(f) /\ CurrentContent(f) = build.release.blocks[f].content)
  /\ Fail(Dropped, {}) /\ UNCHANGED faults

Fault(kind) == kind \in Faults /\ faults < MaxFaults /\ faults' = faults + 1

(* Recovery may have swept a directory before it fails.                      *)
Swept ==
  CASE phase = "recover" /\ ~RestoresBackup -> {"staged"}
    [] phase = "recoverData" -> {"partial"}
    [] OTHER -> {}

(* Reading, writing or renaming fails.  A segment that fails while it is     *)
(* being finished is not removed.                                            *)
IoError ==
  /\ phase \notin {"idle", "syncRecovered", "syncCommit", "report"}
  /\ Fault("error")
  /\ \E swept \in SUBSET Swept, left \in SUBSET (IF build.open = {} THEN {} ELSE {"partial"}) :
       Fail(Dropped \union swept, left)

(* The lock file is created, but writing to it fails: it stays.              *)
LockError ==
  /\ phase = "idle" /\ ~lock
  /\ Fault("error")
  /\ lock' = TRUE
  /\ UNCHANGED <<source, haku, previous, data, litter, cache, durable, phase, build, acked>>

(* Synchronizing the output directory fails.                                 *)
SyncError ==
  /\ phase \in {"syncRecovered", "syncCommit"}
  /\ Fault("sync_error")
  /\ Fail(Dropped, {})

Kill ==
  /\ phase # "idle"
  /\ Fault("kill")
  /\ build' = Idle /\ Goto("idle")
  /\ UNCHANGED <<source, disk, acked>>

(* Names since the last synchronization may be kept or lost, each for itself. *)
PowerLoss ==
  /\ Fault("power")
  /\ \E out \in durable.out, kept \in SUBSET durable.maybe, c \in durable.cache :
       /\ haku' = out[1] /\ previous' = out[2]
       /\ data' = durable.sure \union kept
       /\ cache' = c
       /\ durable' = [Durable(out[1], out[2], durable.sure \union kept, c)
                        EXCEPT !.lost = durable.lost]
  /\ litter' \in SUBSET {"staged", "partial"}
  /\ lock' \in BOOLEAN
  /\ build' = Idle /\ Goto("idle")
  /\ UNCHANGED <<source, acked>>

-------------------------------------------------------------------------------
(* Outside the publisher.                                                    *)

(* The operator has confirmed that no build is running.                      *)
RemoveStaleLock ==
  /\ phase = "idle" /\ lock
  /\ lock' = FALSE
  /\ UNCHANGED <<source, haku, previous, data, litter, cache, durable, phase, build, acked, faults>>

(* A segment is deleted from data/ by hand.                                  *)
LoseSegment(s) ==
  /\ phase = "idle" /\ s \in data
  /\ Fault("loss")
  /\ data' = data \ {s}
  /\ durable' = [durable EXCEPT !.sure = @ \ {s}, !.maybe = @ \union {s}, !.lost = @ \union {s}]
  /\ UNCHANGED <<source, haku, previous, litter, lock, cache, phase, build, acked>>

Edit(f) ==
  /\ source[f] < Len(History[f])
  /\ source' = [source EXCEPT ![f] = @ + 1]
  /\ UNCHANGED <<disk, phase, build, acked, faults>>

BuildStep ==
  \/ RecoverOutput \/ SyncRecovered \/ RecoverData
  \/ \E f \in Files : ScanFile(f)
  \/ \E compact \in SUBSET SegmentsOf(haku) : OpenActive(compact)
  \/ \E f \in Files : SkipAbsent(f) \/ AddCached(f) \/ AddRead(f)
  \/ \E s \in build.open : FinishSegment(s)
  \/ Finished \/ KeepActive \/ WriteSnapshot
  \/ VerifySegments \/ (\E f \in Files : VerifySource(f)) \/ Verified
  \/ SaveCache \/ Commit \/ SyncCommit
  \/ (\E s \in data : CollectSegment(s)) \/ SyncCollected \/ Report
  \/ SequenceExhausted \/ SourceChanged \/ SegmentsMissing \/ VerificationFails

Start == \E o \in Options : StartBuild(o)

Next ==
  \/ Start \/ BuildStep
  \/ IoError \/ LockError \/ SyncError \/ Kill \/ PowerLoss
  \/ (\E s \in data : LoseSegment(s))
  \/ RemoveStaleLock \/ (\E f \in Files : Edit(f))

Spec == Init /\ [][Next]_vars

(* Builds are started again and again and run to their end, and the operator *)
(* removes stale locks.                                                      *)
FairSpec ==
  Spec /\ WF_vars(BuildStep) /\ WF_vars(Start) /\ WF_vars(RemoveStaleLock)

-------------------------------------------------------------------------------
(* Properties.                                                               *)

(* The release a runtime or the next build would find after recovery.        *)
Recoverable(h, p) == IF h = None THEN p ELSE h

(* Whatever step a build is at, fails at or is killed at, every segment of   *)
(* the active release is in data/ (garbage collection, packer.rs:332).       *)
ActiveReleaseReadable == SegmentsOf(Recoverable(haku, previous)) \subseteq data

(* What is about to be published holds, for every file, the content the file *)
(* had when it was scanned, whether it was read, taken from the old release  *)
(* or vouched for by a development cache, of whichever build (packer.rs:464). *)
PublishedContentWasScanned ==
  phase \in {"commit", "syncCommit"} =>
    \A f \in Files : build.release.blocks[f].content = ScannedContent(f)

(* Without a development cache, the files of a published release existed     *)
(* together: each is what it was at the moment the scan ended, whatever was  *)
(* edited since it was scanned (packer.rs:1561, verification after packing). *)
StrictReleaseIsOneInstant ==
  phase = "commit" /\ ~build.options.dev =>
    \A f \in Files : ScannedContent(f) # Absent =>
      build.release.blocks[f].content = History[f][build.atScan[f]]

(* A build that returns success has published what it reports and leaves     *)
(* nothing else: no temporary file, and in data/ the release's segments and  *)
(* no others, so not those of failed builds either (packer.rs:279, 332).      *)
SuccessLeavesNothingElse ==
  phase = "report" =>
    haku = build.release /\ data = SegmentsOf(haku) /\ litter = {}

(* Even where a segment of the active release has been deleted by hand, a    *)
(* build that reports a new release reports a complete one: what it reuses   *)
(* was checked, what it cannot reuse was written (packer.rs:312).            *)
NewReleaseIsComplete ==
  phase = "report" /\ build.release # build.old => SegmentsOf(haku) \subseteq data

(* Two successful builds report the same sequence number only for the same   *)
(* release, and never a smaller one than before (packer.rs:202).             *)
AcknowledgedReleasesAdvance ==
  [][acked' # acked => acked'.seq > acked.seq]_vars

(* A loss of power at any moment leaves a release, the new one or the old,   *)
(* all of whose segments are there, but for one deleted by hand              *)
(* (packer.rs:1745, the order of syncs).                                     *)
DurablyReadable ==
  \A p \in durable.out :
    SegmentsOf(Recoverable(p[1], p[2])) \subseteq durable.sure \union durable.lost

(* ... and never a release older than one that was reported as published.    *)
AcknowledgedIsDurable == \A p \in durable.out : p[1].seq >= acked.seq

(* A development cache that a build accepts describes the release it opened  *)
(* (README.md:138, "corrupt or stale caches are ignored").                   *)
AcceptedCacheDescribesActive ==
  phase = "add" /\ build.cached # NoEntries =>
    \A f \in Files : build.cached[f].content = build.old.blocks[f].content

(* Whatever an interrupted build left is removed by a later one.             *)
LeftoversAreRemoved == litter # {} ~> litter = {}

(* The publisher keeps the promise of ReleaseHistory, for a runtime that     *)
(* opens game.haku; a release whose segments are missing is no release.      *)
Broken == [seq |-> 0, tree |-> <<>>]
ActiveView ==
  IF haku = None THEN None
  ELSE IF SegmentsOf(haku) \subseteq data THEN [seq |-> haku.seq, tree |-> TreeOf(haku.blocks)]
  ELSE Broken
ReleaseLog == INSTANCE ReleaseHistory WITH
  Trees <- [Files -> Contents \union {Absent}], NoRelease <- None, active <- ActiveView
ImplementsReleaseHistory == ReleaseLog!Spec
===============================================================================
