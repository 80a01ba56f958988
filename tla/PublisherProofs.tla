--------------------------- MODULE PublisherProofs ---------------------------
(***************************************************************************)
(* Theorems about Publisher, for any files, any histories of their         *)
(* contents, any number of builds, edits and faults.                       *)
(***************************************************************************)
EXTENDS Publisher, TLAPS

-------------------------------------------------------------------------------
(* The inductive invariant, whatever goes wrong.                            *)

Opened == {"add", "finish", "compare", "verifySegments", "verify", "saveCache", "commit"}
Handled == {"finish", "compare", "verifySegments", "verify", "saveCache", "commit",
            "syncCommit", "cleanup", "report"}
Written == {"verifySegments", "verify", "commit", "syncCommit"}
Checked == {"verify", "saveCache", "commit", "syncCommit", "cleanup", "report"}
Published == {"syncCommit", "cleanup", "report"}
Phases == {"idle", "recover", "syncRecovered", "recoverData", "scan", "open", "add"} \union Handled

Shape ==
  /\ phase \in Phases
  /\ DOMAIN build = {"options", "todo", "scanned", "atScan", "old", "cached", "excluded",
                     "blocks", "open", "release", "removed"}
  /\ build.options \in [incremental : BOOLEAN, dev : BOOLEAN, floor : 1 .. MaxSeq]
  /\ build.todo \subseteq Files
  /\ DOMAIN build.blocks = Files
  /\ DOMAIN durable = {"out", "sure", "maybe", "cache", "lost"}

(* A file has been scanned at a version it had when the scan ended, or at an *)
(* earlier one.                                                              *)
VersionsOrdered ==
  /\ source \in [Files -> Nat]
  /\ build.scanned \in [Files -> Nat] /\ build.atScan \in [Files -> Nat]
  /\ \A f \in Files : /\ 1 <= build.scanned[f] /\ build.scanned[f] <= build.atScan[f]
                      /\ build.atScan[f] <= source[f] /\ source[f] <= Len(History[f])

GoodRelease(r) ==
  /\ r.seq \in 1 .. MaxSeq
  /\ DOMAIN r.blocks = Files
  /\ \A f \in Files : r.blocks[f].content \in Contents \union {Absent}

ReleasesGood ==
  /\ \A r \in {haku, previous} : r = None \/ GoodRelease(r)
  /\ \A p \in durable.out : \A r \in {p[1], p[2]} : r = None \/ GoodRelease(r)

(* Every cache there is, or that a loss of power may bring back, holds for   *)
(* each stamp the content the file had then.                                 *)
TrueEntries(e) ==
  \A f \in Files : e[f].stamp # 0 => e[f].content = History[f][e[f].stamp]

CachesTrue ==
  /\ \A c \in {cache} \union durable.cache : c = None \/ TrueEntries(c.entries)
  /\ TrueEntries(build.cached)

Placed ==
  /\ phase = "add" =>
       \A f \in Files \ build.todo : build.blocks[f].content = ScannedContent(f)
  /\ phase \in Handled =>
       \A f \in Files : build.blocks[f].content = ScannedContent(f)

(* A file that verification found unedited had not been edited since it was  *)
(* scanned, and so not during the scan.                                      *)
UneditedInScan(f) == ScannedContent(f) # Absent => build.atScan[f] = build.scanned[f]

Verification ==
  /\ phase = "verify" /\ ~build.options.dev => \A f \in Files \ build.todo : UneditedInScan(f)
  /\ phase = "commit" /\ ~build.options.dev => \A f \in Files : UneditedInScan(f)
  /\ phase = "saveCache" => build.options.dev

(* The lock keeps the active release what it was when the build opened it.   *)
OpenedIsActive == phase \in Opened => build.old = haku /\ build.old.seq < MaxSeq

NewRelease(r) ==
  r.blocks = build.blocks /\ r.seq \in 1 .. MaxSeq /\ r.seq > build.old.seq

ReleaseChosen ==
  /\ phase \in Written => NewRelease(build.release)
  /\ phase = "saveCache" =>
       NewRelease(build.release) \/ (build.release = build.old /\ build.old # None)
  /\ phase \in Published => haku = build.release /\ haku # None
  /\ phase \in Checked /\ build.release # build.old => SegmentsOf(build.release) \subseteq data

(* Which temporary files there may be, at each phase.                        *)
MayBeStaged ==
  \/ phase \in {"idle", "recover", "verifySegments", "verify", "commit"}
  \/ phase = "saveCache" /\ build.release # build.old

Tidy ==
  /\ litter \subseteq {"staged", "partial"}
  /\ "staged" \in litter => MayBeStaged
  /\ build.open # {} => phase \in {"add", "finish"}
  /\ "partial" \in litter =>
       phase \in {"idle", "recover", "syncRecovered", "recoverData"} \/ build.open # {}
  /\ phase = "report" => Garbage = {}

Inv ==
  /\ Shape /\ VersionsOrdered /\ ReleasesGood /\ CachesTrue
  /\ Placed /\ Verification /\ OpenedIsActive /\ ReleaseChosen /\ Tidy

-------------------------------------------------------------------------------
(* Operators.                                                               *)

LEMMA MaxOfTwo ==
  ASSUME NEW m \in Nat, NEW n \in Nat
  PROVE  Max({m, n}) \in {m, n} /\ Max({m, n}) >= m /\ Max({m, n}) >= n
<1>1. \E x \in {m, n} : \A y \in {m, n} : x >= y
  <2>1. CASE m >= n
    BY <2>1
  <2>2. CASE n >= m
    BY <2>2
  <2> QED
    BY <2>1, <2>2
<1> QED
  BY <1>1 DEF Max

(* Every version of a file has contents.                                     *)
LEMMA VersionHasContent ==
  ASSUME NEW f \in Files, NEW v \in Nat, 1 <= v, v <= Len(History[f])
  PROVE  History[f][v] \in Contents
<1>1. v \in DOMAIN History[f]
  BY ConstantsAssumption
<1> QED
  BY <1>1 DEF Contents

LEMMA FirstVersion ==
  ASSUME NEW f \in Files
  PROVE  Len(History[f]) \in Nat /\ 1 <= Len(History[f])
  BY ConstantsAssumption

-------------------------------------------------------------------------------
(* Steps that end a build, and steps between two builds.                    *)

Ending == build' = Idle /\ phase' = "idle" /\ source' = source
Resting == phase = "idle" /\ UNCHANGED <<source, phase, build>>

LEMMA Endings ==
  ASSUME Report \/ SequenceExhausted \/ SourceChanged \/ SegmentsMissing \/ VerificationFails
           \/ IoError \/ SyncError \/ Kill \/ PowerLoss
  PROVE  Ending
  BY DEF Report, SequenceExhausted, SourceChanged, SegmentsMissing, VerificationFails, IoError,
         SyncError, Kill, PowerLoss, Fail, Goto, Ending

LEMMA Rests ==
  ASSUME LockError \/ RemoveStaleLock \/ (\E s \in data : LoseSegment(s))
  PROVE  Resting
  BY DEF LockError, RemoveStaleLock, LoseSegment, Resting

(* The steps that matter to the build itself.                                *)
LEMMA StepKinds ==
  ASSUME [Next]_vars
  PROVE  \/ Start \/ RecoverOutput \/ SyncRecovered \/ RecoverData
         \/ (\E f \in Files : ScanFile(f))
         \/ (\E compact \in SUBSET SegmentsOf(haku) : OpenActive(compact))
         \/ (\E f \in Files : SkipAbsent(f) \/ AddCached(f) \/ AddRead(f))
         \/ (\E s \in build.open : FinishSegment(s))
         \/ Finished \/ KeepActive \/ WriteSnapshot \/ VerifySegments
         \/ (\E f \in Files : VerifySource(f)) \/ Verified
         \/ SaveCache \/ Commit \/ SyncCommit
         \/ (\E s \in data : CollectSegment(s)) \/ SyncCollected
         \/ Ending \/ Resting \/ (\E f \in Files : Edit(f)) \/ UNCHANGED vars
  BY Endings, Rests DEF Next, BuildStep

LEMMA IdleShape ==
  /\ DOMAIN Idle = {"options", "todo", "scanned", "atScan", "old", "cached", "excluded",
                    "blocks", "open", "release", "removed"}
  /\ Idle.options \in [incremental : BOOLEAN, dev : BOOLEAN, floor : 1 .. MaxSeq]
  /\ Idle.todo = {} /\ Idle.open = {}
  /\ DOMAIN Idle.blocks = Files
  /\ Idle.scanned = [f \in Files |-> 1] /\ Idle.atScan = [f \in Files |-> 1]
  /\ Idle.cached = NoEntries
  BY ConstantsAssumption DEF Idle

-------------------------------------------------------------------------------
(* Each part of the invariant is kept by every step.                        *)

LEMMA InitInv == Init => Inv
<1> SUFFICES ASSUME Init PROVE Inv
  OBVIOUS
<1>0. build = Idle /\ phase = "idle" /\ litter = {} /\ cache = None /\ haku = None
  BY DEF Init
<1>1. Shape
  BY <1>0, IdleShape DEF Init, Durable, Shape, Phases
<1>2. VersionsOrdered
  BY <1>0, IdleShape, FirstVersion DEF Init, VersionsOrdered
<1>3. ReleasesGood
  <2>1. GoodRelease(LegacyRelease)
    <3>1. LegacyRelease.seq = 1 /\ DOMAIN LegacyRelease.blocks = Files
      BY DEF LegacyRelease
    <3>2. ASSUME NEW f \in Files
          PROVE  LegacyRelease.blocks[f].content = History[f][1]
      BY DEF LegacyRelease, NoBlock
    <3>3. \A f \in Files : History[f][1] \in Contents
      BY FirstVersion, VersionHasContent
    <3>4. 1 \in 1 .. MaxSeq
      BY ConstantsAssumption
    <3> QED
      BY <3>1, <3>2, <3>3, <3>4 DEF GoodRelease
  <2> QED
    BY <2>1, <1>0 DEF Init, Durable, ReleasesGood
<1>4. CachesTrue
  BY <1>0, IdleShape DEF Init, Durable, CachesTrue, TrueEntries, NoEntries, NoEntry
<1>5. Placed /\ Verification /\ OpenedIsActive /\ ReleaseChosen /\ Tidy
  BY <1>0, IdleShape DEF Placed, Verification, OpenedIsActive, ReleaseChosen, Tidy,
     Handled, Opened, Written, Published, Checked
<1> QED
  BY <1>1, <1>2, <1>3, <1>4, <1>5 DEF Inv

(* The steps that write the output directory, data/ or the cache, or promise *)
(* that a loss of power keeps what was written.                              *)
DiskKept ==
  UNCHANGED <<haku, previous, data, cache, durable>>

LEMMA DiskWriters ==
  ASSUME [Next]_vars
  PROVE  \/ DiskKept
         \/ RecoverOutput \/ SyncRecovered \/ RecoverData
         \/ (\E s \in build.open : FinishSegment(s)) \/ Finished
         \/ SaveCache \/ Commit \/ SyncCommit
         \/ (\E s \in data : CollectSegment(s)) \/ SyncCollected
         \/ PowerLoss \/ (\E s \in data : LoseSegment(s))
<1>1. CASE Start \/ Report \/ LockError \/ RemoveStaleLock
  BY <1>1 DEF Start, StartBuild, Report, LockError, RemoveStaleLock, DiskKept
<1>2. CASE \E f \in Files : Edit(f) \/ ScanFile(f) \/ VerifySource(f)
  BY <1>2 DEF Edit, ScanFile, VerifySource, disk, DiskKept
<1>3. CASE \E f \in Files : SkipAbsent(f) \/ AddCached(f) \/ AddRead(f)
  BY <1>3 DEF SkipAbsent, AddCached, AddRead, PlaceFile, DiskKept
<1>4. CASE KeepActive \/ WriteSnapshot \/ VerifySegments \/ Verified
            \/ (\E compact \in SUBSET SegmentsOf(haku) : OpenActive(compact))
  BY <1>4 DEF KeepActive, WriteSnapshot, VerifySegments, Verified, OpenActive, disk, DiskKept
<1>5. CASE SequenceExhausted \/ SourceChanged \/ SegmentsMissing \/ VerificationFails
            \/ IoError \/ SyncError \/ Kill
  BY <1>5 DEF SequenceExhausted, SourceChanged, SegmentsMissing, VerificationFails,
     IoError, SyncError, Kill, Fail, disk, DiskKept
<1>6. CASE UNCHANGED vars
  BY <1>6 DEF vars, disk, DiskKept
<1> QED
  BY <1>1, <1>2, <1>3, <1>4, <1>5, <1>6 DEF Next, BuildStep

LEMMA DurableShape ==
  ASSUME Shape, [Next]_vars
  PROVE  DOMAIN durable' = {"out", "sure", "maybe", "cache", "lost"}
<1>0. DOMAIN durable = {"out", "sure", "maybe", "cache", "lost"}
  BY DEF Shape
<1>1. CASE RecoverOutput \/ Commit
  BY <1>0, <1>1 DEF RecoverOutput, Commit, ReplaceOut
<1>2. CASE SyncRecovered \/ SyncCommit
  BY <1>0, <1>2 DEF SyncRecovered, SyncCommit, SyncOut
<1>3. CASE RecoverData \/ Finished \/ SyncCollected
  BY <1>0, <1>3 DEF RecoverData, Finished, SyncCollected, SyncData
<1>4. CASE (\E s \in build.open : FinishSegment(s)) \/ (\E s \in data : CollectSegment(s))
  BY <1>0, <1>4 DEF FinishSegment, CollectSegment, AddName, RemoveName
<1>5. CASE SaveCache
  BY <1>0, <1>5 DEF SaveCache
<1>6. CASE PowerLoss
  BY <1>0, <1>6 DEF PowerLoss, Durable
<1>7. CASE \E s \in data : LoseSegment(s)
  BY <1>0, <1>7 DEF LoseSegment
<1>8. CASE DiskKept
  BY <1>0, <1>8 DEF DiskKept
<1> QED
  BY DiskWriters, <1>1, <1>2, <1>3, <1>4, <1>5, <1>6, <1>7, <1>8

LEMMA ShapeStep ==
  ASSUME Inv, [Next]_vars
  PROVE  Shape'
<1>0. Shape /\ DOMAIN durable' = {"out", "sure", "maybe", "cache", "lost"}
  BY DurableShape DEF Inv
<1>1. CASE Start
  BY <1>0, <1>1, IdleShape, ConstantsAssumption DEF Start, StartBuild, Goto, Shape, Phases
<1>2. CASE RecoverOutput \/ SyncRecovered \/ RecoverData
  BY <1>0, <1>2 DEF RecoverOutput, SyncRecovered, RecoverData, Goto, Shape, Phases
<1>3. CASE \E f \in Files : ScanFile(f)
  BY <1>0, <1>3 DEF ScanFile, Goto, Shape, Phases
<1>4. CASE \E compact \in SUBSET SegmentsOf(haku) : OpenActive(compact)
  BY <1>0, <1>4 DEF OpenActive, Goto, Shape, Phases
<1>5. ASSUME NEW f \in Files, NEW s, PlaceFile(f, s)
      PROVE  Shape'
  BY <1>0, <1>5 DEF PlaceFile, Goto, Shape, Phases, Handled
<1>6. CASE \E s \in build.open : FinishSegment(s)
  BY <1>0, <1>6 DEF FinishSegment, Goto, Shape, Phases
<1>7. CASE Finished \/ KeepActive \/ WriteSnapshot \/ Verified
  BY <1>0, <1>7 DEF Finished, KeepActive, WriteSnapshot, Verified, Goto, Shape, Phases, Handled
<1>8. CASE VerifySegments \/ (\E f \in Files : VerifySource(f))
  BY <1>0, <1>8 DEF VerifySegments, VerifySource, Goto, Shape, Phases, Handled
<1>9. CASE SaveCache \/ Commit \/ SyncCommit
  BY <1>0, <1>9 DEF SaveCache, Commit, SyncCommit, Goto, Shape, Phases, Handled
<1>10. CASE (\E s \in data : CollectSegment(s)) \/ SyncCollected
  BY <1>0, <1>10 DEF CollectSegment, SyncCollected, Goto, Shape, Phases, Handled
<1>11. CASE Ending
  BY <1>0, <1>11, IdleShape DEF Ending, Shape, Phases
<1>12. CASE Resting \/ (\E f \in Files : Edit(f)) \/ UNCHANGED vars
  BY <1>0, <1>12 DEF Resting, Edit, vars, Shape
<1> QED
  BY StepKinds, <1>1, <1>2, <1>3, <1>4, <1>5, <1>6, <1>7, <1>8, <1>9, <1>10, <1>11, <1>12
     DEF SkipAbsent, AddCached, AddRead

(* What a build has scanned, and where it has placed the files, changes only *)
(* while it scans and places them.                                           *)
Kept ==
  /\ source' = source
  /\ build'.options = build.options /\ build'.blocks = build.blocks
  /\ build'.scanned = build.scanned /\ build'.atScan = build.atScan

LEMMA KeptElsewhere ==
  ASSUME Shape, [Next]_vars
  PROVE  \/ Kept \/ Start \/ Ending
         \/ (\E f \in Files : ScanFile(f) \/ Edit(f))
         \/ (\E f \in Files : SkipAbsent(f) \/ AddCached(f) \/ AddRead(f))
<1>0. DOMAIN build = {"options", "todo", "scanned", "atScan", "old", "cached", "excluded",
                     "blocks", "open", "release", "removed"}
  BY DEF Shape
<1>1. CASE RecoverOutput \/ SyncRecovered \/ RecoverData
  BY <1>0, <1>1 DEF RecoverOutput, SyncRecovered, RecoverData, Kept
<1>2. CASE \E compact \in SUBSET SegmentsOf(haku) : OpenActive(compact)
  BY <1>0, <1>2 DEF OpenActive, Kept
<1>3. CASE \E s \in build.open : FinishSegment(s)
  BY <1>0, <1>3 DEF FinishSegment, Kept
<1>4. CASE Finished \/ KeepActive \/ WriteSnapshot \/ Verified
  BY <1>0, <1>4 DEF Finished, KeepActive, WriteSnapshot, Verified, Kept
<1>5. CASE VerifySegments \/ (\E f \in Files : VerifySource(f))
  BY <1>0, <1>5 DEF VerifySegments, VerifySource, Kept
<1>6. CASE SaveCache \/ Commit \/ SyncCommit
  BY <1>0, <1>6 DEF SaveCache, Commit, SyncCommit, Kept
<1>7. CASE (\E s \in data : CollectSegment(s)) \/ SyncCollected
  BY <1>0, <1>7 DEF CollectSegment, SyncCollected, Kept
<1>8. CASE Resting \/ UNCHANGED vars
  BY <1>8 DEF Resting, vars, Kept
<1> QED
  BY StepKinds, <1>1, <1>2, <1>3, <1>4, <1>5, <1>6, <1>7, <1>8

LEMMA VersionsStep ==
  ASSUME Inv, [Next]_vars
  PROVE  VersionsOrdered'
<1>0. Shape /\ VersionsOrdered
  BY DEF Inv
<1>1. CASE Kept
  BY <1>0, <1>1 DEF Kept, VersionsOrdered
<1>2. CASE Start \/ Ending
  <2>1. source' = source /\ build'.scanned = [f \in Files |-> 1] /\ build'.atScan = [f \in Files |-> 1]
    BY <1>2, IdleShape DEF Start, StartBuild, Ending
  <2> QED
    BY <1>0, <2>1 DEF VersionsOrdered
<1>3. ASSUME NEW f \in Files, ScanFile(f)
      PROVE  VersionsOrdered'
  <2>1. /\ source' = source /\ build'.atScan = source
        /\ build'.scanned = [build.scanned EXCEPT ![f] = source[f]]
    BY <1>0, <1>3 DEF ScanFile, Shape
  <2> QED
    BY <1>0, <2>1 DEF VersionsOrdered
<1>4. ASSUME NEW f \in Files, Edit(f)
      PROVE  VersionsOrdered'
  BY <1>0, <1>4, FirstVersion DEF Edit, VersionsOrdered
<1>5. ASSUME NEW f \in Files, NEW s, PlaceFile(f, s)
      PROVE  VersionsOrdered'
  <2>1. source' = source /\ build'.scanned = build.scanned /\ build'.atScan = build.atScan
    BY <1>0, <1>5 DEF PlaceFile, Shape
  <2> QED
    BY <1>0, <2>1 DEF VersionsOrdered
<1> QED
  BY <1>0, KeptElsewhere, <1>1, <1>2, <1>3, <1>4, <1>5 DEF SkipAbsent, AddCached, AddRead

(* A segment that is reused for a content holds that content.                *)
LEMMA ReusedHolds ==
  ASSUME NEW c, Reused(c) # {}
  PROVE  Pick(Reused(c)).content = c
  BY DEF Reused, Pick

(* Whether a file is skipped, taken on the word of a cache or read, what is  *)
(* placed is what the file held at the version it was scanned at.            *)
LEMMA PlacedContent ==
  ASSUME Inv, NEW f \in Files, SkipAbsent(f) \/ AddCached(f) \/ AddRead(f)
  PROVE  /\ phase = "add" /\ f \in build.todo
         /\ \E s : PlaceFile(f, s) /\ s.content = ScannedContent(f)
<1>0. VersionsOrdered /\ CachesTrue
  BY DEF Inv
<1>1. CASE SkipAbsent(f)
  <2>1. PlaceFile(f, NoBlock) /\ NoBlock.content = ScannedContent(f)
    BY <1>1 DEF SkipAbsent, NoBlock
  <2> QED
    BY <1>1, <2>1 DEF SkipAbsent, NextFile
<1>2. CASE AddCached(f)
  <2>1. build.cached[f].content = ScannedContent(f)
    BY <1>0, <1>2 DEF AddCached, EntryUsable, VersionsOrdered, CachesTrue, TrueEntries, ScannedContent
  <2>2. Pick(Reused(build.cached[f].content)).content = ScannedContent(f)
    BY <1>2, <2>1, ReusedHolds DEF AddCached, EntryUsable
  <2> QED
    BY <1>2, <2>2 DEF AddCached, NextFile
<1>3. CASE AddRead(f)
  <2>1. CurrentContent(f) = ScannedContent(f)
    BY <1>3 DEF AddRead, Unedited, CurrentContent, ScannedContent
  <2> DEFINE c == CurrentContent(f)
             s == IF Reused(c) # {} THEN Pick(Reused(c)) ELSE [id |-> FreshId, content |-> c]
  <2>2. s.content = c
    BY ReusedHolds
  <2>3. PlaceFile(f, s)
    BY <1>3 DEF AddRead
  <2> QED
    BY <1>3, <2>1, <2>2, <2>3 DEF AddRead, NextFile
<1> QED
  BY <1>1, <1>2, <1>3

LEMMA PlacedStep ==
  ASSUME Inv, [Next]_vars
  PROVE  Placed'
<1>0. Shape /\ VersionsOrdered /\ Placed
  BY DEF Inv
<1>1. ASSUME Kept, \/ phase' = phase /\ build'.todo = build.todo
                   \/ phase \in Handled /\ phase' # "add"
                   \/ phase' \notin {"add"} \union Handled
                   \/ phase' = "add" /\ build'.todo = Files
      PROVE  Placed'
  BY <1>0, <1>1 DEF Kept, Placed, ScannedContent, Handled
<1>2. CASE Start \/ Ending
  BY <1>2 DEF Start, StartBuild, Ending, Goto, Placed, Handled
<1>3. ASSUME NEW f \in Files, ScanFile(f)
      PROVE  Placed'
  BY <1>3 DEF ScanFile, Goto, Placed, Handled
<1>4. ASSUME NEW f \in Files, Edit(f)
      PROVE  Placed'
  BY <1>0, <1>4 DEF Edit, Placed, ScannedContent
<1>5. ASSUME NEW f \in Files, SkipAbsent(f) \/ AddCached(f) \/ AddRead(f)
      PROVE  Placed'
  <2>1. PICK s : PlaceFile(f, s) /\ s.content = ScannedContent(f)
    BY <1>5, PlacedContent
  <2>2. /\ phase = "add" /\ phase' = IF build.todo = {f} THEN "finish" ELSE "add"
        /\ build'.todo = build.todo \ {f} /\ build'.blocks = [build.blocks EXCEPT ![f] = s]
        /\ build'.scanned = build.scanned
    BY <1>0, <1>5, <2>1, PlacedContent DEF PlaceFile, Goto, Shape
  <2>3. \A g \in Files \ build'.todo : build'.blocks[g].content = History[g][build'.scanned[g]]
    BY <1>0, <2>1, <2>2 DEF Shape, Placed, ScannedContent
  <2> QED
    BY <2>2, <2>3 DEF Placed, ScannedContent, Handled
<1>6. CASE RecoverOutput \/ SyncRecovered \/ RecoverData
  BY <1>6 DEF RecoverOutput, SyncRecovered, RecoverData, Goto, Placed, Handled
<1>7. CASE \E compact \in SUBSET SegmentsOf(haku) : OpenActive(compact)
  BY <1>0, <1>7 DEF OpenActive, Goto, Placed, Shape, Handled
<1>8. ASSUME Kept
      PROVE  Placed'
  <2>1. CASE \E s \in build.open : FinishSegment(s)
    BY <1>0, <1>1, <1>8, <2>1 DEF FinishSegment, Shape
  <2>2. CASE Finished \/ KeepActive \/ WriteSnapshot \/ VerifySegments
              \/ (\E f \in Files : VerifySource(f)) \/ Verified
    BY <1>1, <1>8, <2>2 DEF Finished, KeepActive, WriteSnapshot, VerifySegments, VerifySource,
       Verified, Goto, Handled
  <2>3. CASE SaveCache \/ Commit \/ SyncCommit
              \/ (\E s \in data : CollectSegment(s)) \/ SyncCollected
    BY <1>1, <1>8, <2>3 DEF SaveCache, Commit, SyncCommit, CollectSegment, SyncCollected,
       Goto, Handled
  <2>4. CASE Resting \/ UNCHANGED vars
    BY <1>1, <1>8, <2>4 DEF Resting, vars
  <2> QED
    BY StepKinds, <2>1, <2>2, <2>3, <2>4, <1>2, <1>3, <1>4, <1>5, <1>6, <1>7
<1> QED
  BY <1>0, KeptElsewhere, <1>2, <1>3, <1>4, <1>5, <1>8

LEMMA VerificationStep ==
  ASSUME Inv, [Next]_vars
  PROVE  Verification'
<1>0. Shape /\ VersionsOrdered /\ Verification
  BY DEF Inv
<1>1. CASE phase' \notin {"verify", "saveCache", "commit"}
  BY <1>1 DEF Verification
<1>2. CASE VerifySegments
  <2>1. phase' = "verify" /\ build'.scanned = build.scanned /\ build'.options = build.options
    BY <1>0, <1>2 DEF VerifySegments, Goto, Shape
  <2>2. ~build.options.dev => build'.todo = {f \in Files : ScannedContent(f) # Absent}
    BY <1>0, <1>2 DEF VerifySegments, Shape
  <2> QED
    BY <2>1, <2>2 DEF Verification, UneditedInScan, ScannedContent
<1>3. ASSUME NEW f \in Files, VerifySource(f)
      PROVE  Verification'
  <2>1. /\ phase = "verify" /\ phase' = "verify" /\ build'.todo = build.todo \ {f}
        /\ build'.scanned = build.scanned /\ build'.atScan = build.atScan
        /\ build'.options = build.options
    BY <1>0, <1>3 DEF VerifySource, Shape
  <2>2. UneditedInScan(f)
    BY <1>0, <1>3 DEF VerifySource, Unedited, UneditedInScan, VersionsOrdered
  <2> QED
    BY <1>0, <2>1, <2>2 DEF Verification, UneditedInScan, ScannedContent
<1>4. CASE Verified
  BY <1>0, <1>4 DEF Verified, Goto, Shape, Verification, UneditedInScan, ScannedContent
<1>5. CASE KeepActive
  BY <1>0, <1>5 DEF KeepActive, Goto, Shape, Verification
<1>6. CASE SaveCache
  BY <1>0, <1>6 DEF SaveCache, Goto, Shape, Verification
<1>7. CASE Resting \/ (\E f \in Files : Edit(f)) \/ UNCHANGED vars
  BY <1>0, <1>7 DEF Resting, Edit, vars, Verification, UneditedInScan, ScannedContent
<1>8. CASE Start \/ Ending \/ RecoverOutput \/ SyncRecovered \/ RecoverData
            \/ (\E f \in Files : ScanFile(f))
            \/ (\E compact \in SUBSET SegmentsOf(haku) : OpenActive(compact))
  BY <1>1, <1>8 DEF Start, StartBuild, Ending, RecoverOutput, SyncRecovered, RecoverData,
     ScanFile, OpenActive, Goto
<1>9. CASE (\E f \in Files : SkipAbsent(f) \/ AddCached(f) \/ AddRead(f))
            \/ (\E s \in build.open : FinishSegment(s))
  BY <1>1, <1>9 DEF SkipAbsent, AddCached, AddRead, PlaceFile, FinishSegment, Goto
<1>10. CASE Finished \/ WriteSnapshot \/ Commit \/ SyncCommit
            \/ (\E s \in data : CollectSegment(s)) \/ SyncCollected
  BY <1>1, <1>10 DEF Finished, WriteSnapshot, Commit, SyncCommit, CollectSegment, SyncCollected, Goto
<1> QED
  BY StepKinds, <1>2, <1>3, <1>4, <1>5, <1>6, <1>7, <1>8, <1>9, <1>10

(* Only Commit and the recovery of a backup change the active release while  *)
(* a build runs.                                                             *)
LEMMA OpenedStep ==
  ASSUME Inv, [Next]_vars
  PROVE  OpenedIsActive'
<1>0. Shape /\ OpenedIsActive
  BY DEF Inv
<1>1. CASE phase' \notin Opened
  BY <1>1 DEF OpenedIsActive
<1>2. ASSUME phase \in Opened, haku' = haku, build'.old = build.old
      PROVE  OpenedIsActive'
  BY <1>0, <1>2 DEF OpenedIsActive
<1>3. CASE \E compact \in SUBSET SegmentsOf(haku) : OpenActive(compact)
  BY <1>0, <1>3 DEF OpenActive, disk, Shape, OpenedIsActive
<1>4. CASE Start \/ Ending \/ RecoverOutput \/ SyncRecovered \/ RecoverData
            \/ (\E f \in Files : ScanFile(f))
  BY <1>1, <1>4 DEF Start, StartBuild, Ending, RecoverOutput, SyncRecovered, RecoverData,
     ScanFile, Goto, Opened
<1>5. CASE (\E f \in Files : SkipAbsent(f) \/ AddCached(f) \/ AddRead(f))
            \/ (\E s \in build.open : FinishSegment(s))
  BY <1>0, <1>2, <1>5 DEF SkipAbsent, AddCached, AddRead, PlaceFile, FinishSegment, Shape, Opened
<1>6. CASE Finished \/ KeepActive \/ WriteSnapshot \/ VerifySegments
            \/ (\E f \in Files : VerifySource(f)) \/ Verified \/ SaveCache
  BY <1>0, <1>2, <1>6 DEF Finished, KeepActive, WriteSnapshot, VerifySegments, VerifySource,
     Verified, SaveCache, disk, Shape, Opened
<1>7. CASE Commit \/ SyncCommit \/ (\E s \in data : CollectSegment(s)) \/ SyncCollected
  BY <1>1, <1>7 DEF Commit, SyncCommit, CollectSegment, SyncCollected, Goto, Opened
<1>8. CASE Resting \/ (\E f \in Files : Edit(f)) \/ UNCHANGED vars
  BY <1>0, <1>1, <1>8 DEF Resting, Edit, vars, disk, OpenedIsActive, Opened
<1> QED
  BY StepKinds, <1>3, <1>4, <1>5, <1>6, <1>7, <1>8

LEMMA CommittedIsGood ==
  ASSUME Inv, Commit
  PROVE  GoodRelease(build.release)
<1>1. /\ build.release.seq \in 1 .. MaxSeq /\ build.release.blocks = build.blocks
      /\ DOMAIN build.blocks = Files
  BY DEF Inv, Commit, ReleaseChosen, NewRelease, Shape, Written
<1>2. ASSUME NEW f \in Files
      PROVE  build.blocks[f].content \in Contents
  <2>1. build.blocks[f].content = History[f][build.scanned[f]]
    BY DEF Inv, Commit, Placed, Handled, ScannedContent
  <2>2. build.scanned[f] \in Nat /\ 1 <= build.scanned[f] /\ build.scanned[f] <= Len(History[f])
    BY FirstVersion DEF Inv, VersionsOrdered
  <2> QED
    BY <2>1, <2>2, VersionHasContent
<1> QED
  BY <1>1, <1>2 DEF GoodRelease

LEMMA ReleasesStep ==
  ASSUME Inv, [Next]_vars
  PROVE  ReleasesGood'
<1>0. Shape /\ ReleasesGood
  BY DEF Inv
<1>1. CASE DiskKept
  BY <1>0, <1>1 DEF DiskKept, ReleasesGood, GoodRelease
<1>2. CASE UNCHANGED <<haku, previous>> /\ durable'.out \in {durable.out, {<<haku, previous>>}}
  BY <1>0, <1>2 DEF ReleasesGood, GoodRelease
<1>3. CASE RecoverOutput
  BY <1>0, <1>3 DEF RecoverOutput, ReplaceOut, Shape, ReleasesGood, GoodRelease
<1>4. CASE Commit
  <2>1. GoodRelease(build.release)
    BY <1>4, CommittedIsGood
  <2>2. /\ haku' = build.release /\ previous' = previous
        /\ durable'.out = durable.out \union {<<haku', previous'>>}
    BY <1>0, <1>4 DEF Commit, ReplaceOut, Shape
  <2> QED
    BY <1>0, <2>1, <2>2 DEF ReleasesGood, GoodRelease
<1>5. CASE SyncRecovered \/ SyncCommit
  BY <1>0, <1>2, <1>5 DEF SyncRecovered, SyncCommit, SyncOut, Shape
<1>6. CASE RecoverData \/ Finished \/ SyncCollected
  BY <1>0, <1>2, <1>6 DEF RecoverData, Finished, SyncCollected, SyncData, Shape
<1>7. CASE (\E s \in build.open : FinishSegment(s)) \/ (\E s \in data : CollectSegment(s))
  BY <1>0, <1>2, <1>7 DEF FinishSegment, CollectSegment, AddName, RemoveName, Shape
<1>8. CASE SaveCache
  BY <1>0, <1>2, <1>8 DEF SaveCache, Shape
<1>9. CASE PowerLoss
  <2>1. PICK out \in durable.out : haku' = out[1] /\ previous' = out[2] /\ durable'.out = {<<out[1], out[2]>>}
    BY <1>9 DEF PowerLoss, Durable
  <2> QED
    BY <1>0, <2>1 DEF ReleasesGood, GoodRelease
<1>10. CASE \E s \in data : LoseSegment(s)
  BY <1>0, <1>2, <1>10 DEF LoseSegment, Shape
<1> QED
  BY DiskWriters, <1>1, <1>3, <1>4, <1>5, <1>6, <1>7, <1>8, <1>9, <1>10

LEMMA CachesStep ==
  ASSUME Inv, [Next]_vars
  PROVE  CachesTrue'
<1>0. Shape /\ VersionsOrdered /\ CachesTrue
  BY DEF Inv
<1> DEFINE TrueCache(c) == c = None \/ TrueEntries(c.entries)
<1>1. TrueEntries(NoEntries)
  BY DEF TrueEntries, NoEntries, NoEntry
<1>2. TrueEntries(build'.cached)
  <2>1. CASE build'.cached = build.cached
    BY <1>0, <2>1 DEF CachesTrue
  <2>2. CASE \E compact \in SUBSET SegmentsOf(haku) : OpenActive(compact)
    <3>1. build'.cached = LoadedCache
      BY <1>0, <2>2 DEF OpenActive, Shape
    <3> QED
      BY <1>0, <1>1, <3>1 DEF LoadedCache, CachesTrue
  <2>3. CASE Start \/ Ending
    BY <1>1, <2>3, IdleShape DEF Start, StartBuild, Ending, Idle
  <2>4. CASE RecoverOutput \/ SyncRecovered \/ RecoverData \/ (\E f \in Files : ScanFile(f) \/ Edit(f))
    BY <1>0, <2>1, <2>4 DEF RecoverOutput, SyncRecovered, RecoverData, ScanFile, Edit, Shape
  <2>5. CASE (\E f \in Files : SkipAbsent(f) \/ AddCached(f) \/ AddRead(f))
              \/ (\E s \in build.open : FinishSegment(s)) \/ (\E s \in data : CollectSegment(s))
    BY <1>0, <2>1, <2>5 DEF SkipAbsent, AddCached, AddRead, PlaceFile, FinishSegment,
       CollectSegment, Shape
  <2>6. CASE Finished \/ KeepActive \/ WriteSnapshot \/ VerifySegments
              \/ (\E f \in Files : VerifySource(f)) \/ Verified
    BY <1>0, <2>1, <2>6 DEF Finished, KeepActive, WriteSnapshot, VerifySegments, VerifySource,
       Verified, Shape
  <2>7. CASE SaveCache \/ Commit \/ SyncCommit \/ SyncCollected \/ Resting \/ UNCHANGED vars
    BY <2>1, <2>7 DEF SaveCache, Commit, SyncCommit, SyncCollected, Resting, vars
  <2> QED
    BY StepKinds, <2>2, <2>3, <2>4, <2>5, <2>6, <2>7
<1>3. \A c \in {cache'} \union durable'.cache : TrueCache(c)
  <2>1. CASE UNCHANGED cache /\ durable'.cache \in {durable.cache, {cache, None}}
    BY <1>0, <2>1 DEF CachesTrue
  <2>2. CASE SaveCache
    <3>1. TrueEntries(cache'.entries)
      BY <1>0, <2>2 DEF SaveCache, TrueEntries, NoEntry, Inv, Placed, Handled, ScannedContent
    <3>2. durable'.cache = durable.cache \union {cache', None}
      BY <1>0, <2>2 DEF SaveCache, Shape
    <3> QED
      BY <1>0, <3>1, <3>2 DEF CachesTrue
  <2>3. CASE PowerLoss
    <3>1. cache' \in durable.cache /\ durable'.cache = {cache'}
      BY <2>3 DEF PowerLoss, Durable
    <3> QED
      BY <1>0, <3>1 DEF CachesTrue
  <2>4. CASE RecoverOutput \/ Commit
    BY <1>0, <2>1, <2>4 DEF RecoverOutput, Commit, ReplaceOut, Shape
  <2>5. CASE SyncRecovered \/ SyncCommit
    BY <1>0, <2>1, <2>5 DEF SyncRecovered, SyncCommit, SyncOut, Shape
  <2>6. CASE RecoverData \/ Finished \/ SyncCollected
    BY <1>0, <2>1, <2>6 DEF RecoverData, Finished, SyncCollected, SyncData, Shape
  <2>7. CASE (\E s \in build.open : FinishSegment(s)) \/ (\E s \in data : CollectSegment(s))
    BY <1>0, <2>1, <2>7 DEF FinishSegment, CollectSegment, AddName, RemoveName, Shape
  <2>8. CASE \E s \in data : LoseSegment(s)
    BY <1>0, <2>1, <2>8 DEF LoseSegment, Shape
  <2>9. CASE DiskKept
    BY <2>1, <2>9 DEF DiskKept
  <2> QED
    BY DiskWriters, <2>2, <2>3, <2>4, <2>5, <2>6, <2>7, <2>8, <2>9
<1> QED
  BY <1>2, <1>3 DEF CachesTrue

LEMMA ReleaseChosenStep ==
  ASSUME Inv, [Next]_vars
  PROVE  ReleaseChosen'
<1>0. Shape /\ ReleaseChosen
  BY DEF Inv
<1>1. CASE phase' \notin Written \union Checked \union {"saveCache"}
  BY <1>1 DEF ReleaseChosen, Written, Checked, Published
<1>2. CASE KeepActive
  <2>1. /\ build'.release = build.old /\ build'.old = build.old /\ phase' \in {"saveCache", "cleanup"}
        /\ build.old = haku /\ haku # None /\ haku' = haku
    BY <1>0, <1>2 DEF KeepActive, Unchanged, Goto, disk, Shape, Inv, OpenedIsActive, Opened
  <2> QED
    BY <2>1 DEF ReleaseChosen, Written, Published
<1>3. CASE WriteSnapshot
  <2>1. build.old.seq \in 0 .. MaxSeq - 1 /\ build.options.floor \in 1 .. MaxSeq
    BY <1>0, <1>3, ConstantsAssumption
       DEF WriteSnapshot, Inv, OpenedIsActive, Opened, ReleasesGood, GoodRelease, None, Shape
  <2>2. NextSequence \in 1 .. MaxSeq /\ NextSequence > build.old.seq
    <3>1. build.old.seq + 1 \in Nat /\ build.options.floor \in Nat
      BY <2>1
    <3>2. /\ NextSequence \in {build.old.seq + 1, build.options.floor}
          /\ NextSequence >= build.old.seq + 1
      BY <3>1, MaxOfTwo DEF NextSequence
    <3> QED
      BY <2>1, <3>1, <3>2, ConstantsAssumption
  <2>3. /\ phase' = "verifySegments" /\ build'.blocks = build.blocks /\ build'.old = build.old
        /\ build'.release = [seq |-> NextSequence, blocks |-> build.blocks]
    BY <1>0, <1>3 DEF WriteSnapshot, Goto, Shape
  <2> QED
    BY <2>2, <2>3 DEF ReleaseChosen, NewRelease, Published, Checked
<1>4. CASE VerifySegments
  BY <1>0, <1>4 DEF VerifySegments, Goto, disk, Shape, ReleaseChosen, NewRelease,
     Written, Published, Checked, SegmentsOf
<1>5. CASE (\E f \in Files : VerifySource(f)) \/ Verified
  BY <1>0, <1>5 DEF VerifySource, Verified, Goto, disk, Shape, ReleaseChosen, NewRelease,
     Written, Published, Checked, SegmentsOf
<1>6. CASE SaveCache
  <2>1. /\ UNCHANGED <<haku, data, build>> /\ phase = "saveCache"
        /\ phase' = IF build.release = build.old THEN "cleanup" ELSE "commit"
    BY <1>6 DEF SaveCache, Goto
  <2>2. build.old = haku
    BY <2>1 DEF Inv, OpenedIsActive, Opened
  <2> QED
    BY <1>0, <2>1, <2>2 DEF ReleaseChosen, NewRelease, Written, Published, Checked, SegmentsOf
<1>7. CASE Commit
  <2>1. /\ phase = "commit" /\ phase' = "syncCommit" /\ haku' = build.release
        /\ UNCHANGED <<data, build>>
    BY <1>7 DEF Commit, ReplaceOut, Goto
  <2>2. build.release # None
    BY <1>0, <2>1 DEF ReleaseChosen, NewRelease, Written, None
  <2> QED
    BY <1>0, <2>1, <2>2 DEF ReleaseChosen, NewRelease, Written, Published, Checked, SegmentsOf
<1>8. CASE SyncCommit \/ SyncCollected
  BY <1>0, <1>8 DEF SyncCommit, SyncCollected, Goto, ReleaseChosen, NewRelease,
     Written, Published, Checked, SegmentsOf
<1>9. CASE \E s \in data : CollectSegment(s)
  BY <1>0, <1>9 DEF CollectSegment, RemoveName, Garbage, Goto, Shape, ReleaseChosen, NewRelease,
     Written, Published, Checked, SegmentsOf
<1>10. CASE (\E f \in Files : Edit(f)) \/ UNCHANGED vars
  BY <1>0, <1>10 DEF Edit, vars, disk, ReleaseChosen, NewRelease, SegmentsOf
<1>11. CASE Start \/ Ending \/ Resting \/ RecoverOutput \/ SyncRecovered \/ RecoverData
            \/ (\E f \in Files : ScanFile(f))
            \/ (\E compact \in SUBSET SegmentsOf(haku) : OpenActive(compact))
  BY <1>1, <1>11 DEF Start, StartBuild, Ending, Resting, RecoverOutput, SyncRecovered,
     RecoverData, ScanFile, OpenActive, Goto, Written, Checked
<1>12. CASE (\E f \in Files : SkipAbsent(f) \/ AddCached(f) \/ AddRead(f))
            \/ (\E s \in build.open : FinishSegment(s)) \/ Finished
  BY <1>1, <1>12 DEF SkipAbsent, AddCached, AddRead, PlaceFile, FinishSegment, Finished, Goto,
     Written, Checked
<1> QED
  BY StepKinds, <1>2, <1>3, <1>4, <1>5, <1>6, <1>7, <1>8, <1>9, <1>10, <1>11, <1>12

LEMMA LitterKinds ==
  ASSUME Tidy, [Next]_vars
  PROVE  litter' \subseteq {"staged", "partial"}
<1>0. litter \subseteq {"staged", "partial"}
  BY DEF Tidy
<1>1. CASE Start \/ Report \/ LockError \/ RemoveStaleLock \/ (\E s \in data : LoseSegment(s))
  BY <1>0, <1>1 DEF Start, StartBuild, Report, LockError, RemoveStaleLock, LoseSegment
<1>2. CASE \E f \in Files : Edit(f) \/ ScanFile(f) \/ VerifySource(f)
  BY <1>0, <1>2 DEF Edit, ScanFile, VerifySource, disk
<1>3. CASE \E f \in Files : SkipAbsent(f) \/ AddCached(f) \/ AddRead(f)
  BY <1>0, <1>3 DEF SkipAbsent, AddCached, AddRead, PlaceFile
<1>4. CASE KeepActive \/ WriteSnapshot \/ VerifySegments \/ Verified
            \/ (\E compact \in SUBSET SegmentsOf(haku) : OpenActive(compact))
  BY <1>0, <1>4 DEF KeepActive, WriteSnapshot, VerifySegments, Verified, OpenActive, disk
<1>5. CASE SequenceExhausted \/ SourceChanged \/ SegmentsMissing \/ VerificationFails \/ SyncError
  BY <1>0, <1>5 DEF SequenceExhausted, SourceChanged, SegmentsMissing, VerificationFails, SyncError, Fail
<1>6. CASE IoError \/ Kill \/ PowerLoss
  BY <1>0, <1>6 DEF IoError, Kill, PowerLoss, Fail, disk
<1>7. CASE RecoverOutput \/ SyncRecovered \/ RecoverData \/ (\E s \in build.open : FinishSegment(s))
  BY <1>0, <1>7 DEF RecoverOutput, SyncRecovered, RecoverData, FinishSegment
<1>8. CASE Finished \/ SaveCache \/ Commit \/ SyncCommit \/ (\E s \in data : CollectSegment(s))
            \/ SyncCollected
  BY <1>0, <1>8 DEF Finished, SaveCache, Commit, SyncCommit, CollectSegment, SyncCollected
<1>9. CASE UNCHANGED vars
  BY <1>0, <1>9 DEF vars, disk
<1> QED
  BY <1>1, <1>2, <1>3, <1>4, <1>5, <1>6, <1>7, <1>8, <1>9 DEF Next, BuildStep

LEMMA TidyStep ==
  ASSUME Inv, [Next]_vars
  PROVE  Tidy'
<1>0. Shape /\ Tidy
  BY DEF Inv
<1>1. CASE Start
  BY <1>0, <1>1, IdleShape DEF Start, StartBuild, Goto, Tidy, MayBeStaged
<1>2. CASE RecoverOutput \/ SyncRecovered \/ RecoverData
  BY <1>0, <1>2 DEF RecoverOutput, SyncRecovered, RecoverData, Goto, Shape, Tidy, MayBeStaged
<1>3. CASE \E f \in Files : ScanFile(f)
  BY <1>0, <1>3 DEF ScanFile, Goto, disk, Shape, Tidy, MayBeStaged
<1>4. CASE \E compact \in SUBSET SegmentsOf(haku) : OpenActive(compact)
  BY <1>0, <1>4 DEF OpenActive, Goto, disk, Shape, Tidy, MayBeStaged
<1>5. ASSUME NEW f \in Files, NEW s, phase = "add", PlaceFile(f, s)
      PROVE  Tidy'
  BY <1>0, <1>5 DEF PlaceFile, Goto, Shape, Tidy, MayBeStaged
<1>6. ASSUME NEW s \in build.open, FinishSegment(s)
      PROVE  Tidy'
  BY <1>0, <1>6 DEF FinishSegment, Goto, Shape, Tidy, MayBeStaged
<1>7. CASE Finished \/ KeepActive
  BY <1>0, <1>7 DEF Finished, KeepActive, Goto, disk, Shape, Tidy, MayBeStaged
<1>8. CASE WriteSnapshot
  BY <1>0, <1>8 DEF WriteSnapshot, Goto, Shape, Tidy, MayBeStaged
<1>9. CASE VerifySegments \/ (\E f \in Files : VerifySource(f))
  BY <1>0, <1>9 DEF VerifySegments, VerifySource, Goto, disk, Shape, Tidy, MayBeStaged
<1>10. CASE Verified
  <2>1. NewRelease(build.release)
    BY <1>10 DEF Verified, Inv, ReleaseChosen, Written
  <2>2. build.release # build.old
    BY <2>1, <1>10 DEF NewRelease, Verified, Inv, OpenedIsActive, Opened, ReleasesGood, GoodRelease, None
  <2> QED
    BY <1>0, <1>10, <2>2 DEF Verified, Goto, disk, Tidy, MayBeStaged
<1>11. CASE SaveCache
  BY <1>0, <1>11 DEF SaveCache, Goto, Tidy, MayBeStaged
<1>12. CASE Commit \/ SyncCommit
  BY <1>0, <1>12 DEF Commit, SyncCommit, Goto, Tidy, MayBeStaged
<1>13. CASE \E s \in data : CollectSegment(s)
  BY <1>0, <1>13 DEF CollectSegment, Goto, Shape, Tidy, MayBeStaged
<1>14. CASE SyncCollected
  BY <1>0, <1>14 DEF SyncCollected, Goto, Tidy, MayBeStaged, Garbage
<1>15. CASE \E f \in Files : Edit(f)
  BY <1>0, <1>15 DEF Edit, disk, Tidy, MayBeStaged, Garbage
<1>16. CASE Ending
  <2>1. litter' \subseteq {"staged", "partial"}
    BY <1>0, LitterKinds
  <2> QED
    BY <1>16, <2>1, IdleShape DEF Ending, Tidy, MayBeStaged
<1>17. CASE Resting
  <2>1. litter' \subseteq {"staged", "partial"}
    BY <1>0, LitterKinds
  <2> QED
    BY <1>0, <1>17, <2>1 DEF Resting, Tidy, MayBeStaged
<1>18. CASE UNCHANGED vars
  BY <1>0, <1>18 DEF vars, disk, Tidy, MayBeStaged, Garbage
<1> QED
  BY StepKinds, <1>1, <1>2, <1>3, <1>4, <1>5, <1>6, <1>7, <1>8, <1>9, <1>10, <1>11, <1>12,
     <1>13, <1>14, <1>15, <1>16, <1>17, <1>18 DEF SkipAbsent, AddCached, AddRead

LEMMA StepInv == Inv /\ [Next]_vars => Inv'
<1> SUFFICES ASSUME Inv, [Next]_vars PROVE Inv'
  OBVIOUS
<1> QED
  BY ShapeStep, VersionsStep, ReleasesStep, CachesStep, PlacedStep, VerificationStep, OpenedStep,
     ReleaseChosenStep, TidyStep DEF Inv

LEMMA InvHolds == Spec => []Inv
  BY InitInv, StepInv, PTL DEF Spec

-------------------------------------------------------------------------------
(* What holds whatever goes wrong, deleted segments and lost power included. *)

(* What is about to be published holds, for every file, the content the file *)
(* had when it was scanned (packer.rs:464, the unchanged files of a cache).  *)
THEOREM PublishedAsScanned == Spec => []PublishedContentWasScanned
<1>1. Inv => PublishedContentWasScanned
  BY DEF Inv, ReleaseChosen, NewRelease, Written, Placed, Handled, PublishedContentWasScanned
<1> QED
  BY <1>1, InvHolds, PTL

(* Without a development cache the files of a published release existed      *)
(* together, at the moment the scan ended (packer.rs:1561).                  *)
THEOREM StrictIsOneInstant == Spec => []StrictReleaseIsOneInstant
<1>1. Inv => StrictReleaseIsOneInstant
  BY DEF Inv, ReleaseChosen, NewRelease, Written, Placed, Handled, Verification, UneditedInScan,
     ScannedContent, StrictReleaseIsOneInstant
<1> QED
  BY <1>1, InvHolds, PTL

(* A build that reports a new release reports a complete one, even where     *)
(* segments were deleted by hand before it (packer.rs:312).                  *)
THEOREM NewReleaseComplete == Spec => []NewReleaseIsComplete
<1>1. Inv => NewReleaseIsComplete
  BY DEF Inv, ReleaseChosen, Published, Checked, NewReleaseIsComplete
<1> QED
  BY <1>1, InvHolds, PTL

-------------------------------------------------------------------------------
(* What a loss of power may find, where no build is killed and no directory  *)
(* fails to synchronize: such a build leaves an older release that may still *)
(* be found to the next one, which then collects its segments.               *)

BuildsSync == Faults \intersect {"kill", "sync_error"} = {}

(* The release that was reported last has been replaced by larger ones only. *)
Advances(r) == acked = r \/ acked.seq < r.seq

Foundable ==
  /\ <<haku, previous>> \in durable.out
  /\ phase \notin {"syncRecovered", "syncCommit"} => durable.out = {<<haku, previous>>}

(* Until a release is committed, what it needs has been synchronized, or is  *)
(* in the release that is active.                                            *)
SegmentsSynced ==
  /\ durable.sure \subseteq data
  /\ phase \in {"compare", "verifySegments", "verify", "saveCache", "commit"} =>
       \/ durable.sure = data
       \/ Range(build.blocks) \ {NoBlock} \subseteq durable.sure \union durable.lost

AckedFoundable == acked.seq \in Nat /\ \A p \in durable.out : Advances(p[1])

DurableInv == Foundable /\ SegmentsSynced /\ DurablyReadable /\ AckedFoundable

LEMMA InitDurable == Init => DurableInv
<1> SUFFICES ASSUME Init PROVE DurableInv
  OBVIOUS
<1>1. /\ durable.out = {<<None, previous>>} /\ durable.sure = data /\ data = SegmentsOf(previous)
      /\ haku = None /\ acked = None /\ phase = "idle"
  BY DEF Init, Durable
<1> QED
  BY <1>1 DEF DurableInv, Foundable, SegmentsSynced, DurablyReadable, AckedFoundable, Advances,
     Recoverable, None

(* A build never stops where the output directory waits to be synchronized.  *)
LEMMA StopsSynchronized ==
  ASSUME BuildsSync, Shape, [Next]_vars
  PROVE  \/ phase' \in {"syncRecovered", "syncCommit"}
         \/ phase \notin {"syncRecovered", "syncCommit"}
         \/ SyncRecovered \/ SyncCommit \/ PowerLoss
<1> SUFFICES ASSUME phase \in {"syncRecovered", "syncCommit"},
                    phase' \notin {"syncRecovered", "syncCommit"}
             PROVE  SyncRecovered \/ SyncCommit \/ PowerLoss
  OBVIOUS
<1>1. ~SyncError /\ ~Kill
  BY DEF BuildsSync, SyncError, Kill, Fault
<1>2. ~Start /\ ~Report /\ ~LockError /\ ~RemoveStaleLock /\ ~(\E s \in data : LoseSegment(s))
  BY DEF Start, StartBuild, Report, LockError, RemoveStaleLock, LoseSegment
<1>3. /\ ~(\E f \in Files : Edit(f) \/ ScanFile(f) \/ VerifySource(f))
      /\ ~(\E f \in Files : SkipAbsent(f) \/ AddCached(f) \/ AddRead(f))
  BY DEF Edit, ScanFile, VerifySource, SkipAbsent, AddCached, AddRead
<1>4. /\ ~KeepActive /\ ~WriteSnapshot /\ ~VerifySegments /\ ~Verified
      /\ ~(\E compact \in SUBSET SegmentsOf(haku) : OpenActive(compact))
  BY DEF KeepActive, WriteSnapshot, VerifySegments, Verified, OpenActive
<1>5. /\ ~SequenceExhausted /\ ~SourceChanged /\ ~SegmentsMissing /\ ~VerificationFails /\ ~IoError
  BY DEF SequenceExhausted, SourceChanged, SegmentsMissing, VerificationFails, IoError
<1>6. /\ ~RecoverOutput /\ ~RecoverData /\ ~(\E s \in build.open : FinishSegment(s)) /\ ~Finished
      /\ ~SaveCache /\ ~Commit /\ ~(\E s \in data : CollectSegment(s)) /\ ~SyncCollected
  BY DEF RecoverOutput, RecoverData, FinishSegment, Finished, SaveCache, Commit, CollectSegment,
     SyncCollected
<1>7. ~UNCHANGED vars
  BY DEF vars
<1> QED
  BY <1>1, <1>2, <1>3, <1>4, <1>5, <1>6, <1>7 DEF Next, BuildStep

LEMMA FoundableStep ==
  ASSUME BuildsSync, Inv, Foundable, [Next]_vars
  PROVE  Foundable'
<1>0. Shape
  BY DEF Inv
<1>1. CASE UNCHANGED <<haku, previous>> /\ durable'.out = durable.out /\ ~(SyncRecovered \/ SyncCommit \/ PowerLoss)
  BY <1>0, <1>1, StopsSynchronized DEF Foundable
<1>2. CASE durable'.out = {<<haku', previous'>>}
  BY <1>2 DEF Foundable
<1>3. CASE RecoverOutput
  BY <1>0, <1>1, <1>3 DEF RecoverOutput, ReplaceOut, Goto, Shape, Foundable
<1>4. CASE Commit
  BY <1>0, <1>4 DEF Commit, ReplaceOut, Goto, Shape, Foundable
<1>5. CASE SyncRecovered \/ SyncCommit
  BY <1>0, <1>2, <1>5 DEF SyncRecovered, SyncCommit, SyncOut, Shape
<1>6. CASE PowerLoss
  BY <1>2, <1>6 DEF PowerLoss, Durable
<1> SUFFICES ASSUME ~RecoverOutput, ~Commit, ~SyncRecovered, ~SyncCommit, ~PowerLoss
             PROVE  Foundable'
  BY <1>3, <1>4, <1>5, <1>6
<1>7. CASE RecoverData \/ Finished \/ SyncCollected
  BY <1>0, <1>1, <1>7 DEF RecoverData, Finished, SyncCollected, SyncData, Shape
<1>8. CASE (\E s \in build.open : FinishSegment(s)) \/ (\E s \in data : CollectSegment(s))
  BY <1>0, <1>1, <1>8 DEF FinishSegment, CollectSegment, AddName, RemoveName, Shape
<1>9. CASE SaveCache
  BY <1>0, <1>1, <1>9 DEF SaveCache, Shape
<1>10. CASE \E s \in data : LoseSegment(s)
  BY <1>0, <1>1, <1>10 DEF LoseSegment, Shape
<1>11. CASE DiskKept
  BY <1>1, <1>11 DEF DiskKept
<1> QED
  BY DiskWriters, <1>7, <1>8, <1>9, <1>10, <1>11

LEMMA SegmentsSyncedStep ==
  ASSUME Inv, Foundable, DurablyReadable, SegmentsSynced, [Next]_vars
  PROVE  SegmentsSynced'
<1>0. Shape
  BY DEF Inv
<1> DEFINE Committing == {"compare", "verifySegments", "verify", "saveCache", "commit"}
<1>1. durable'.sure \subseteq data'
  <2>0. durable.sure \subseteq data
    BY DEF SegmentsSynced
  <2>1. CASE RecoverOutput \/ Commit
    BY <1>0, <2>0, <2>1 DEF RecoverOutput, Commit, ReplaceOut, Shape
  <2>2. CASE SyncRecovered \/ SyncCommit
    BY <1>0, <2>0, <2>2 DEF SyncRecovered, SyncCommit, SyncOut, Shape
  <2>3. CASE RecoverData \/ Finished \/ SyncCollected
    BY <1>0, <2>0, <2>3 DEF RecoverData, Finished, SyncCollected, SyncData, Shape
  <2>4. CASE \E s \in build.open : FinishSegment(s)
    BY <1>0, <2>0, <2>4 DEF FinishSegment, AddName, Shape
  <2>5. ASSUME NEW s \in data, CollectSegment(s)
        PROVE  durable'.sure \subseteq data'
    <3>1. durable'.sure = durable.sure \ {s} /\ data' = data \ {s}
      BY <1>0, <2>5 DEF CollectSegment, RemoveName, Shape
    <3> QED
      BY <2>0, <3>1
  <2>6. CASE SaveCache
    BY <1>0, <2>0, <2>6 DEF SaveCache, Shape
  <2>7. CASE PowerLoss
    BY <2>7 DEF PowerLoss, Durable
  <2>8. CASE \E s \in data : LoseSegment(s)
    BY <1>0, <2>0, <2>8 DEF LoseSegment, Shape
  <2>9. CASE DiskKept
    BY <2>0, <2>9 DEF DiskKept
  <2> QED
    BY DiskWriters, <2>1, <2>2, <2>3, <2>4, <2>5, <2>6, <2>7, <2>8, <2>9
<1>2. ASSUME phase' \in Committing
      PROVE  \/ durable'.sure = data'
             \/ Range(build'.blocks) \ {NoBlock} \subseteq durable'.sure \union durable'.lost
  <2>1. CASE /\ phase \in Committing /\ data' = data /\ build'.blocks = build.blocks
             /\ durable'.sure = durable.sure /\ durable'.lost = durable.lost
    BY <2>1 DEF SegmentsSynced
  <2>2. CASE Finished
    <3>1. CASE Range(build.blocks) \subseteq SegmentsOf(build.old) \union {NoBlock}
      <4>1. build.old = haku
        BY <2>2 DEF Finished, Inv, OpenedIsActive, Opened
      <4>2. SegmentsOf(haku) \subseteq durable.sure \union durable.lost
        BY DEF Foundable, DurablyReadable, Recoverable, SegmentsOf
      <4>3. UNCHANGED <<durable, build>>
        BY <2>2, <3>1 DEF Finished
      <4> QED
        BY <3>1, <4>1, <4>2, <4>3
    <3>2. CASE ~(Range(build.blocks) \subseteq SegmentsOf(build.old) \union {NoBlock})
      BY <1>0, <2>2, <3>2 DEF Finished, SyncData, Shape
    <3> QED
      BY <3>1, <3>2
  <2>3. CASE KeepActive \/ WriteSnapshot
    BY <1>0, <2>1, <2>3 DEF KeepActive, WriteSnapshot, disk, Shape
  <2>4. CASE VerifySegments \/ (\E f \in Files : VerifySource(f)) \/ Verified
    BY <1>0, <2>1, <2>4 DEF VerifySegments, VerifySource, Verified, disk, Shape
  <2>5. CASE SaveCache
    BY <1>0, <2>1, <2>5 DEF SaveCache, Shape
  <2>6. CASE (\E f \in Files : Edit(f)) \/ UNCHANGED vars
    BY <1>2, <2>1, <2>6 DEF Edit, vars, disk
  <2>7. ~Start /\ ~Ending /\ ~Resting /\ ~RecoverOutput /\ ~SyncRecovered /\ ~RecoverData
    BY <1>2 DEF Start, StartBuild, Ending, Resting, RecoverOutput, SyncRecovered, RecoverData, Goto
  <2>8. /\ ~(\E f \in Files : ScanFile(f))
        /\ ~(\E compact \in SUBSET SegmentsOf(haku) : OpenActive(compact))
        /\ ~(\E f \in Files : SkipAbsent(f) \/ AddCached(f) \/ AddRead(f))
        /\ ~(\E s \in build.open : FinishSegment(s))
    BY <1>2 DEF ScanFile, OpenActive, SkipAbsent, AddCached, AddRead, PlaceFile, FinishSegment, Goto
  <2>9. ~Commit /\ ~SyncCommit /\ ~SyncCollected /\ ~(\E s \in data : CollectSegment(s))
    BY <1>2 DEF Commit, SyncCommit, SyncCollected, CollectSegment, Goto
  <2> QED
    BY StepKinds, <2>2, <2>3, <2>4, <2>5, <2>6, <2>7, <2>8, <2>9
<1> QED
  BY <1>1, <1>2 DEF SegmentsSynced

(* Any release that may be found has its segments, but for deleted ones.     *)
LEMMA DurablyReadableStep ==
  ASSUME Inv, Foundable, DurablyReadable, SegmentsSynced, [Next]_vars
  PROVE  DurablyReadable'
<1>0. Shape
  BY DEF Inv
<1>1. CASE /\ durable'.out = durable.out
           /\ durable.sure \union durable.lost \subseteq durable'.sure \union durable'.lost
  BY <1>1 DEF DurablyReadable, SegmentsOf
<1>2. CASE RecoverOutput
  <2>1. CASE RestoresBackup
    <3>1. /\ durable'.out = durable.out \union {<<previous, None>>}
          /\ durable'.sure = durable.sure /\ durable'.lost = durable.lost
          /\ haku = None /\ previous # None
      BY <1>0, <1>2, <2>1 DEF RecoverOutput, ReplaceOut, RestoresBackup, Shape
    <3>2. SegmentsOf(previous) \subseteq durable.sure \union durable.lost
      BY <3>1 DEF Foundable, DurablyReadable, Recoverable
    <3> QED
      BY <3>1, <3>2 DEF DurablyReadable, Recoverable, SegmentsOf
  <2>2. CASE ~RestoresBackup
    BY <1>1, <1>2, <2>2 DEF RecoverOutput
  <2> QED
    BY <2>1, <2>2
<1>3. CASE Commit
  <2>1. /\ durable'.out = durable.out \union {<<build.release, previous>>}
        /\ durable'.sure = durable.sure /\ durable'.lost = durable.lost /\ phase = "commit"
    BY <1>0, <1>3 DEF Commit, ReplaceOut, Shape
  <2>2. NewRelease(build.release) /\ build.release # None /\ build.release # build.old
    BY <2>1 DEF Inv, ReleaseChosen, NewRelease, Written, None, OpenedIsActive, Opened,
       ReleasesGood, GoodRelease
  <2>3. SegmentsOf(build.release) \subseteq data
    BY <2>1, <2>2 DEF Inv, ReleaseChosen, Checked
  <2>4. SegmentsOf(build.release) = Range(build.blocks) \ {NoBlock}
    BY <2>2 DEF NewRelease, SegmentsOf
  <2>5. SegmentsOf(build.release) \subseteq durable.sure \union durable.lost
    BY <2>1, <2>3, <2>4 DEF SegmentsSynced
  <2> QED
    BY <2>1, <2>2, <2>5 DEF DurablyReadable, Recoverable, SegmentsOf
<1>4. CASE SyncRecovered \/ SyncCommit
  <2>1. /\ durable'.out = {<<haku, previous>>}
        /\ durable'.sure = durable.sure /\ durable'.lost = durable.lost
    BY <1>0, <1>4 DEF SyncRecovered, SyncCommit, SyncOut, Shape
  <2> QED
    BY <2>1 DEF Foundable, DurablyReadable, SegmentsOf
<1>5. CASE RecoverData \/ Finished \/ SyncCollected
  BY <1>0, <1>1, <1>5 DEF RecoverData, Finished, SyncCollected, SyncData, SegmentsSynced, Shape
<1>6. CASE \E s \in build.open : FinishSegment(s)
  BY <1>0, <1>1, <1>6 DEF FinishSegment, AddName, Shape
<1>7. ASSUME NEW s \in data, CollectSegment(s)
      PROVE  DurablyReadable'
  <2>1. /\ durable'.out = durable.out /\ durable'.lost = durable.lost
        /\ durable'.sure = durable.sure \ {s}
    BY <1>0, <1>7 DEF CollectSegment, RemoveName, Shape
  <2>2. durable.out = {<<haku, previous>>} /\ haku # None /\ s \notin SegmentsOf(haku)
    BY <1>7 DEF CollectSegment, Garbage, Foundable, Inv, ReleaseChosen, Published
  <2> QED
    BY <2>1, <2>2 DEF DurablyReadable, Recoverable, SegmentsOf
<1>8. CASE SaveCache
  BY <1>0, <1>1, <1>8 DEF SaveCache, Shape
<1>9. CASE PowerLoss
  <2>1. PICK out \in durable.out :
          /\ durable'.out = {<<out[1], out[2]>>}
          /\ durable.sure \subseteq durable'.sure /\ durable'.lost = durable.lost
    BY <1>9 DEF PowerLoss, Durable
  <2> QED
    BY <2>1 DEF DurablyReadable, SegmentsOf, Recoverable
<1>10. CASE \E s \in data : LoseSegment(s)
  BY <1>0, <1>1, <1>10 DEF LoseSegment, Shape
<1>11. CASE DiskKept
  BY <1>1, <1>11 DEF DiskKept
<1> QED
  BY DiskWriters, <1>2, <1>3, <1>4, <1>5, <1>6, <1>7, <1>8, <1>9, <1>10, <1>11

(* Only a build that reports success changes what was reported.              *)
LEMMA AckedKept ==
  ASSUME [Next]_vars
  PROVE  UNCHANGED acked \/ Report
<1>1. CASE Start \/ LockError \/ RemoveStaleLock \/ (\E s \in data : LoseSegment(s)) \/ UNCHANGED vars
  BY <1>1 DEF Start, StartBuild, LockError, RemoveStaleLock, LoseSegment, vars
<1>2. CASE \E f \in Files : Edit(f) \/ ScanFile(f) \/ VerifySource(f)
  BY <1>2 DEF Edit, ScanFile, VerifySource
<1>3. CASE \E f \in Files : SkipAbsent(f) \/ AddCached(f) \/ AddRead(f)
  BY <1>3 DEF SkipAbsent, AddCached, AddRead, PlaceFile
<1>4. CASE KeepActive \/ WriteSnapshot \/ VerifySegments \/ Verified
            \/ (\E compact \in SUBSET SegmentsOf(haku) : OpenActive(compact))
  BY <1>4 DEF KeepActive, WriteSnapshot, VerifySegments, Verified, OpenActive
<1>5. CASE SequenceExhausted \/ SourceChanged \/ SegmentsMissing \/ VerificationFails \/ SyncError
  BY <1>5 DEF SequenceExhausted, SourceChanged, SegmentsMissing, VerificationFails, SyncError, Fail
<1>6. CASE IoError \/ Kill \/ PowerLoss
  BY <1>6 DEF IoError, Kill, PowerLoss, Fail
<1>7. CASE RecoverOutput \/ SyncRecovered \/ RecoverData \/ (\E s \in build.open : FinishSegment(s))
  BY <1>7 DEF RecoverOutput, SyncRecovered, RecoverData, FinishSegment
<1>8. CASE Finished \/ SaveCache \/ Commit \/ SyncCommit \/ (\E s \in data : CollectSegment(s))
            \/ SyncCollected
  BY <1>8 DEF Finished, SaveCache, Commit, SyncCommit, CollectSegment, SyncCollected
<1> QED
  BY <1>1, <1>2, <1>3, <1>4, <1>5, <1>6, <1>7, <1>8 DEF Next, BuildStep

(* The active release changes by a commit, to a larger one, by the recovery  *)
(* of a backup where there was none, or by a loss of power.                  *)
LEMMA ActiveChanges ==
  ASSUME Inv, [Next]_vars
  PROVE  \/ UNCHANGED haku
         \/ Commit /\ haku' = build.release /\ haku'.seq \in Nat /\ haku'.seq > haku.seq
         \/ RecoverOutput /\ haku = None /\ haku' = previous /\ previous # None /\ GoodRelease(previous)
         \/ PowerLoss
<1>0. Shape /\ ReleasesGood
  BY DEF Inv
<1>1. CASE RecoverOutput
  BY <1>0, <1>1 DEF RecoverOutput, ReplaceOut, RestoresBackup, ReleasesGood
<1>2. CASE Commit
  BY <1>0, <1>2, CommittedIsGood DEF Commit, ReplaceOut, Inv, ReleaseChosen, NewRelease, Written,
     OpenedIsActive, Opened
<1>3. CASE SyncRecovered \/ RecoverData \/ (\E s \in build.open : FinishSegment(s)) \/ Finished
            \/ SaveCache \/ SyncCommit \/ (\E s \in data : CollectSegment(s)) \/ SyncCollected
  BY <1>3 DEF SyncRecovered, RecoverData, FinishSegment, Finished, SaveCache, SyncCommit,
     CollectSegment, SyncCollected
<1>4. CASE (\E s \in data : LoseSegment(s)) \/ DiskKept
  BY <1>4 DEF LoseSegment, DiskKept
<1> QED
  BY DiskWriters, <1>1, <1>2, <1>3, <1>4

LEMMA ReportedIsActive ==
  ASSUME Inv, Report
  PROVE  /\ phase = "report" /\ acked' = haku /\ haku' = haku /\ previous' = previous
         /\ durable' = durable /\ haku.seq \in Nat
  BY DEF Report, Inv, ReleaseChosen, Published, ReleasesGood, GoodRelease

LEMMA AckedFoundableStep ==
  ASSUME Inv, Foundable, AckedFoundable, [Next]_vars
  PROVE  AckedFoundable'
<1>0. Shape
  BY DEF Inv
<1>1. CASE Report
  <2>1. acked' = haku /\ durable'.out = {<<haku, previous>>} /\ haku.seq \in Nat
    BY <1>1, ReportedIsActive DEF Foundable
  <2> QED
    BY <2>1 DEF AckedFoundable, Advances
<1> SUFFICES ASSUME acked' = acked PROVE AckedFoundable'
  BY <1>1, AckedKept
<1>2. CASE durable'.out \subseteq durable.out
  BY <1>2 DEF AckedFoundable, Advances
<1>3. CASE RecoverOutput
  <2>1. CASE RestoresBackup
    <3>1. /\ durable'.out = durable.out \union {<<previous, None>>}
          /\ haku = None /\ previous # None
      BY <1>0, <1>3, <2>1 DEF RecoverOutput, ReplaceOut, RestoresBackup, Shape
    <3>2. acked.seq = 0 /\ acked.seq < previous.seq
      BY <3>1 DEF Foundable, AckedFoundable, Advances, None, Inv, ReleasesGood, GoodRelease
    <3> QED
      BY <3>1, <3>2 DEF AckedFoundable, Advances
  <2>2. CASE ~RestoresBackup
    BY <1>2, <1>3, <2>2 DEF RecoverOutput
  <2> QED
    BY <2>1, <2>2
<1>4. CASE Commit
  <2>1. durable'.out = durable.out \union {<<build.release, previous>>}
    BY <1>0, <1>4 DEF Commit, ReplaceOut, Shape
  <2>2. build.release.seq \in Nat /\ build.release.seq > haku.seq /\ haku.seq \in Nat
    BY <1>4, CommittedIsGood DEF Commit, Inv, ReleaseChosen, NewRelease, Written, OpenedIsActive,
       Opened, ReleasesGood, GoodRelease, None
  <2>3. acked.seq < build.release.seq
    BY <2>2 DEF Foundable, AckedFoundable, Advances
  <2> QED
    BY <2>1, <2>3 DEF AckedFoundable, Advances
<1>5. CASE SyncRecovered \/ SyncCommit
  <2>1. durable'.out = {<<haku, previous>>}
    BY <1>0, <1>5 DEF SyncRecovered, SyncCommit, SyncOut, Shape
  <2> QED
    BY <1>2, <2>1 DEF Foundable
<1>6. CASE RecoverData \/ Finished \/ SyncCollected
  BY <1>0, <1>2, <1>6 DEF RecoverData, Finished, SyncCollected, SyncData, Shape
<1>7. CASE (\E s \in build.open : FinishSegment(s)) \/ (\E s \in data : CollectSegment(s))
  BY <1>0, <1>2, <1>7 DEF FinishSegment, CollectSegment, AddName, RemoveName, Shape
<1>8. CASE SaveCache
  BY <1>0, <1>2, <1>8 DEF SaveCache, Shape
<1>9. CASE PowerLoss
  <2>1. PICK out \in durable.out : durable'.out = {<<out[1], out[2]>>}
    BY <1>9 DEF PowerLoss, Durable
  <2> QED
    BY <2>1 DEF AckedFoundable, Advances
<1>10. CASE \E s \in data : LoseSegment(s)
  BY <1>0, <1>2, <1>10 DEF LoseSegment, Shape
<1>11. CASE DiskKept
  BY <1>2, <1>11 DEF DiskKept
<1> QED
  BY DiskWriters, <1>3, <1>4, <1>5, <1>6, <1>7, <1>8, <1>9, <1>10, <1>11

LEMMA DurableHolds ==
  ASSUME BuildsSync
  PROVE  Spec => []DurableInv
<1>1. Inv /\ DurableInv /\ [Next]_vars => DurableInv'
  BY FoundableStep, SegmentsSyncedStep, DurablyReadableStep, AckedFoundableStep DEF DurableInv
<1> QED
  BY <1>1, InitDurable, InvHolds, PTL DEF Spec

(* A loss of power at any moment leaves a release all of whose segments are  *)
(* there, but for those deleted by hand (packer.rs:1745, the order of syncs).*)
THEOREM DurableReleases ==
  ASSUME BuildsSync
  PROVE  Spec => []DurablyReadable
<1>1. DurableInv => DurablyReadable
  BY DEF DurableInv
<1> QED
  BY <1>1, DurableHolds, PTL

(* ... and never a release older than one that was reported as published.    *)
THEOREM AcknowledgedSurvives ==
  ASSUME BuildsSync
  PROVE  Spec => []AcknowledgedIsDurable
<1>1. Inv /\ DurableInv => AcknowledgedIsDurable
  <2> SUFFICES ASSUME Inv, DurableInv, NEW p \in durable.out
               PROVE  p[1].seq >= acked.seq
    BY DEF AcknowledgedIsDurable
  <2>1. p[1].seq \in Nat
    BY DEF Inv, ReleasesGood, GoodRelease, None
  <2> QED
    BY <2>1 DEF DurableInv, AckedFoundable, Advances
<1> QED
  BY <1>1, DurableHolds, InvHolds, PTL

-------------------------------------------------------------------------------
(* What a runtime finds, where no segment is deleted by hand.  As long as    *)
(* builds synchronize what they rename, power may be lost as well.           *)

NothingDeleted == "loss" \notin Faults
PowerKept == "power" \notin Faults
NoneLost == durable.lost = {}

LEMMA NothingLost ==
  ASSUME NothingDeleted
  PROVE  Spec => []NoneLost
<1>1. Init => NoneLost
  BY DEF Init, Durable, NoneLost
<1>2. Inv /\ NoneLost /\ [Next]_vars => NoneLost'
  <2> USE DEF NoneLost
  <2> SUFFICES ASSUME Inv, durable.lost = {}, [Next]_vars
               PROVE  durable'.lost = {}
    OBVIOUS
  <2>0. Shape
    BY DEF Inv
  <2>1. CASE RecoverOutput \/ Commit
    BY <2>0, <2>1 DEF RecoverOutput, Commit, ReplaceOut, Shape
  <2>2. CASE SyncRecovered \/ SyncCommit
    BY <2>0, <2>2 DEF SyncRecovered, SyncCommit, SyncOut, Shape
  <2>3. CASE RecoverData \/ Finished \/ SyncCollected
    BY <2>0, <2>3 DEF RecoverData, Finished, SyncCollected, SyncData, Shape
  <2>4. CASE (\E s \in build.open : FinishSegment(s)) \/ (\E s \in data : CollectSegment(s))
    BY <2>0, <2>4 DEF FinishSegment, CollectSegment, AddName, RemoveName, Shape
  <2>5. CASE SaveCache
    BY <2>0, <2>5 DEF SaveCache, Shape
  <2>6. CASE PowerLoss
    BY <2>6 DEF PowerLoss, Durable
  <2>7. ~(\E s \in data : LoseSegment(s))
    BY DEF NothingDeleted, LoseSegment, Fault
  <2>8. CASE DiskKept
    BY <2>8 DEF DiskKept
  <2> QED
    BY DiskWriters, <2>1, <2>2, <2>3, <2>4, <2>5, <2>6, <2>7, <2>8
<1> QED
  BY <1>1, <1>2, InvHolds, PTL DEF Spec

LEMMA ReadableStep ==
  ASSUME NothingDeleted, PowerKept, Inv, ActiveReleaseReadable, [Next]_vars
  PROVE  ActiveReleaseReadable'
<1>0. ~PowerLoss /\ ~(\E s \in data : LoseSegment(s))
  BY DEF NothingDeleted, PowerKept, PowerLoss, LoseSegment, Fault
<1>1. CASE UNCHANGED <<haku, previous>> /\ data \subseteq data'
  BY <1>1 DEF ActiveReleaseReadable, Recoverable, SegmentsOf
<1>2. CASE RecoverOutput
  BY <1>2 DEF RecoverOutput, ReplaceOut, RestoresBackup, ActiveReleaseReadable, Recoverable, SegmentsOf
<1>3. CASE Commit
  <2>1. /\ build.release # None /\ build.release # build.old /\ phase = "commit"
        /\ haku' = build.release /\ data' = data
    BY <1>3, CommittedIsGood DEF Commit, ReplaceOut, Inv, ReleaseChosen, NewRelease, Written,
       OpenedIsActive, Opened, ReleasesGood, GoodRelease, None
  <2>2. SegmentsOf(build.release) \subseteq data
    BY <2>1 DEF Inv, ReleaseChosen, Checked
  <2> QED
    BY <2>1, <2>2 DEF ActiveReleaseReadable, Recoverable, SegmentsOf
<1>4. ASSUME NEW s \in data, CollectSegment(s)
      PROVE  ActiveReleaseReadable'
  <2>1. haku # None /\ s \notin SegmentsOf(haku)
    BY <1>4 DEF CollectSegment, Garbage, Inv, ReleaseChosen, Published
  <2>2. UNCHANGED <<haku, previous>> /\ data' = data \ {s}
    BY <1>4 DEF CollectSegment, RemoveName
  <2> QED
    BY <2>1, <2>2 DEF ActiveReleaseReadable, Recoverable, SegmentsOf
<1>5. CASE SyncRecovered \/ RecoverData \/ (\E s \in build.open : FinishSegment(s)) \/ Finished
            \/ SaveCache \/ SyncCommit \/ SyncCollected
  BY <1>1, <1>5 DEF SyncRecovered, RecoverData, FinishSegment, AddName, Finished, SaveCache,
     SyncCommit, SyncCollected
<1>6. CASE DiskKept
  BY <1>1, <1>6 DEF DiskKept
<1> QED
  BY DiskWriters, <1>0, <1>2, <1>3, <1>4, <1>5, <1>6

(* At any step of a build, and after it was killed or failed there, every    *)
(* segment of the active release is in data/ (packer.rs:332).                *)
THEOREM ActiveReadable ==
  ASSUME NothingDeleted, PowerKept \/ BuildsSync
  PROVE  Spec => []ActiveReleaseReadable
<1>1. ASSUME PowerKept
      PROVE  Spec => []ActiveReleaseReadable
  <2>1. Init => ActiveReleaseReadable
    BY DEF Init, ActiveReleaseReadable, Recoverable, SegmentsOf
  <2>2. Inv /\ ActiveReleaseReadable /\ [Next]_vars => ActiveReleaseReadable'
    BY <1>1, ReadableStep
  <2> QED
    BY <2>1, <2>2, InvHolds, PTL DEF Spec
<1>2. ASSUME BuildsSync
      PROVE  Spec => []ActiveReleaseReadable
  <2>1. DurableInv /\ NoneLost => ActiveReleaseReadable
    BY DEF NoneLost, DurableInv, Foundable, SegmentsSynced, DurablyReadable, ActiveReleaseReadable
  <2> QED
    BY <1>2, <2>1, DurableHolds, NothingLost, PTL
<1> QED
  BY <1>1, <1>2

(* A build that reports success leaves no temporary file and no segment but  *)
(* those of the release it reports (packer.rs:279 and 332).                  *)
THEOREM SuccessIsClean ==
  ASSUME NothingDeleted, PowerKept \/ BuildsSync
  PROVE  Spec => []SuccessLeavesNothingElse
<1>1. Inv /\ ActiveReleaseReadable => SuccessLeavesNothingElse
  BY DEF Inv, ActiveReleaseReadable, Recoverable, ReleaseChosen, Published, Tidy, MayBeStaged,
     Garbage, SuccessLeavesNothingElse
<1> QED
  BY <1>1, InvHolds, ActiveReadable, PTL

(* Two successful builds report the same sequence number only for the same   *)
(* release, and never a smaller one than before (packer.rs:202).             *)
THEOREM ReportsAdvance ==
  ASSUME PowerKept \/ BuildsSync
  PROVE  Spec => AcknowledgedReleasesAdvance
<1> DEFINE AckedActive == acked.seq \in Nat /\ Advances(haku)
<1>1. ASSUME PowerKept
      PROVE  Spec => []AckedActive
  <2>1. Init => AckedActive
    BY DEF Init, Advances, None
  <2>2. Inv /\ AckedActive /\ [Next]_vars => AckedActive'
    <3> SUFFICES ASSUME Inv, AckedActive, [Next]_vars PROVE AckedActive'
      OBVIOUS
    <3>1. ~PowerLoss
      BY <1>1 DEF PowerKept, PowerLoss, Fault
    <3>2. CASE Report
      BY <3>2, ReportedIsActive DEF Advances
    <3>3. CASE acked' = acked
      BY <3>1, <3>3, ActiveChanges DEF Advances, None, GoodRelease, Inv, ReleasesGood
    <3> QED
      BY <3>2, <3>3, AckedKept
  <2> QED
    BY <2>1, <2>2, InvHolds, PTL DEF Spec
<1>2. ASSUME BuildsSync
      PROVE  Spec => []AckedActive
  <2>1. DurableInv => AckedActive
    BY DEF DurableInv, Foundable, AckedFoundable
  <2> QED
    BY <1>2, <2>1, DurableHolds, PTL
<1>3. Inv /\ AckedActive /\ [Next]_vars => [acked' # acked => acked'.seq > acked.seq]_vars
  BY AckedKept, ReportedIsActive DEF Advances
<1>4. Spec => []AckedActive
  BY <1>1, <1>2
<1> QED
  BY <1>3, <1>4, InvHolds, PTL DEF Spec, AcknowledgedReleasesAdvance

(* What a runtime that opens the output directory then finds.                *)
CompleteView(r) == [seq |-> r.seq, tree |-> TreeOf(r.blocks)]

LEMMA ViewOfActive ==
  ASSUME ActiveReleaseReadable
  PROVE  ActiveView = IF haku = None THEN None ELSE CompleteView(haku)
  BY DEF ActiveReleaseReadable, Recoverable, ActiveView, CompleteView

LEMMA ViewOfNextActive ==
  ASSUME ActiveReleaseReadable'
  PROVE  ActiveView' = IF haku' = None THEN None ELSE CompleteView(haku')
  BY DEF ActiveReleaseReadable, Recoverable, ActiveView, CompleteView, SegmentsOf, TreeOf

LEMMA GoodIsRelease ==
  ASSUME NEW r, GoodRelease(r)
  PROVE  CompleteView(r) \in ReleaseLog!Releases
<1>1. TreeOf(r.blocks) \in [Files -> Contents \union {Absent}]
  BY DEF GoodRelease, TreeOf
<1> QED
  BY <1>1 DEF GoodRelease, CompleteView, ReleaseLog!Releases

(* The publisher keeps the promise of ReleaseHistory: whatever a runtime     *)
(* finds is replaced by a complete release with a larger sequence number, in *)
(* one step, the rename of Commit or of the recovery of a backup             *)
(* (packer.rs:1618 and 1674).                                                *)
THEOREM PublisherImplementsReleaseHistory ==
  ASSUME NothingDeleted, PowerKept
  PROVE  Spec => ImplementsReleaseHistory
<1>1. Init => ReleaseLog!Init
  BY DEF Init, ActiveView, ReleaseLog!Init
<1>2. /\ Inv /\ ActiveReleaseReadable /\ [Next]_vars /\ ActiveReleaseReadable'
      => [ReleaseLog!Next]_ActiveView
  <2> SUFFICES ASSUME Inv, ActiveReleaseReadable, [Next]_vars, ActiveReleaseReadable'
               PROVE  [ReleaseLog!Next]_ActiveView
    OBVIOUS
  <2>1. ~PowerLoss
    BY DEF PowerKept, PowerLoss, Fault
  <2>2. CASE haku' = haku
    BY <2>2, ViewOfActive, ViewOfNextActive
  <2>3. CASE Commit
    <3>1. /\ haku' = build.release /\ GoodRelease(haku') /\ haku' # None
          /\ haku # None => haku'.seq > haku.seq
      BY <2>3, CommittedIsGood DEF Commit, ReplaceOut, Inv, ReleaseChosen, NewRelease, Written,
         OpenedIsActive, Opened, GoodRelease, None
    <3>2. CompleteView(haku') \in ReleaseLog!Releases
      BY <3>1, GoodIsRelease
    <3>3. ReleaseLog!Publish(CompleteView(haku'))
      BY <3>1, ViewOfActive, ViewOfNextActive DEF CompleteView, ReleaseLog!Publish
    <3> QED
      BY <3>2, <3>3 DEF ReleaseLog!Next
  <2>4. CASE RecoverOutput /\ haku = None /\ haku' = previous /\ previous # None /\ GoodRelease(previous)
    <3>1. CompleteView(haku') \in ReleaseLog!Releases
      BY <2>4, GoodIsRelease
    <3>2. ReleaseLog!Publish(CompleteView(haku'))
      BY <2>4, ViewOfActive, ViewOfNextActive DEF ReleaseLog!Publish
    <3> QED
      BY <3>1, <3>2 DEF ReleaseLog!Next
  <2> QED
    BY ActiveChanges, <2>1, <2>2, <2>3, <2>4
<1>3. Spec => []ActiveReleaseReadable
  BY ActiveReadable
<1> QED
  BY <1>1, <1>2, <1>3, InvHolds, PTL DEF Spec, ImplementsReleaseHistory, ReleaseLog!Spec
===============================================================================
