# TLA+ models of hakutaku

hakutaku packs a game's resource directory into signed, encrypted *releases* and reads
them at run time. A release is one snapshot file, `game.haku`, and a set of
content-addressed segment files in `data/`. This directory holds TLA+ models of the parts
whose correctness depends on the order of things (the publisher's transaction, the shared
caches of the runtime, the cache algorithm, readers of an asset, the graphical publisher's
workers and the files they put in place) or on two programs agreeing about data (the
catalog), the TLC configurations that check them, and proofs for TLAPS.

## Running

    tlc -workers 2 -config MCPublisher.cfg MCPublisher     # one run of PROJECT.json
    tlapm ClockCacheProofs.tla                             # the proofs of one module

`PROJECT.json` lists the runs, the source lines each definition models (`map`), the
hazards the properties are for, and for every property a *mutant*: a definition marked
`Mutant:` in the modules, which is what the code would be with a plausible bug, and with
which TLC finds the property violated. Mutants are not part of any specification.

## The system

| component | state | operations | talks to |
|---|---|---|---|
| second-chance cache, `core/cache.rs` | slots with a reference bit, index, vacant stack, hand, byte count | `get`, `insert`, `clear` | owned by a `Package`, behind a mutex |
| package runtime, `core/package.rs`, `core/io.rs` | page, block and prefetch caches, probation queue, handle cache, a flag | `open`, `asset`, reads, prefetches, `trim`, `verify_segments` | `SegmentSource` of the host; the caches |
| cursors and read sessions, `core/package.rs` | position, current and previous block, opened segment | `read`, `seek`, `read_at` | package runtime |
| catalog, `core/format.rs` | immutable bytes | parse and validate, find a path, decode records | opened by the runtime and the publisher |
| cryptography, `core/crypto.rs` | none | derive, seal, open, sign, verify | all |
| publisher transaction, `pack/packer.rs` | output directory: `game.haku`, an old backup, `data/`, temporaries, `.hakutaku.lock`, cache file | one build from lock to report | sources, catalog, runtime (verification) |
| block placement, `pack/packer.rs` `BuildContext` | active segment per class, blocks and chunks so far, reuse index | add a file, a chunk; finish | publisher |
| compaction, `pack/packer.rs` | none | choose the segments to rewrite | publisher |
| sources, `pack/source.rs` | none; the tree belongs to the author | collect, open verified, validate | publisher |
| development cache, `pack/build_cache.rs` | one file | load, save | publisher |
| planner, `pack/planner.rs` | none | predict what a build changes | sources, catalog |
| identities, `pack/identity.rs` | key files | create, load, write without overwriting | CLI, GUI |
| command line, `cli/main.rs` | none | commands around the above | all |
| graphical publisher, `gui/main.rs` | workspace, plan, results, a busy flag, a message queue; background workers | change paths and options, scan, pack, verify, import, replace, keys | publisher, planner, identities |

What is hard in it:

- **Crashes and durability.** A build writes segments, then the snapshot that refers to
  them, then deletes segments only the old release used; errors, kills and losses of
  power come between any two steps, and names are durable only after their directory is
  synchronized.
- **Sources that change** while they are scanned, read and verified; a development cache
  that stands in for files nobody reads.
- **Concurrency.** Readers, prefetches and trims share five caches, each behind its own
  mutex, and act on what they saw after the mutex is released.
- **Long sequences.** The cache's four pieces of bookkeeping, and sequence numbers over
  full rebuilds, raised floors and failed builds, must agree over any history.

What makes each component correct:

- *Cache*: index, slots, vacant stack and byte count agree; the budget holds; no more is
  evicted than necessary; an insertion that fits is not dropped.
- *Runtime*: a hint never hides cached data; handles never pass their capacity; a block
  is admitted after two reads; `trim` releases what it found; nobody waits for ever.
- *Cursors*: a read returns the file's bytes, whatever was read, sought or failed before.
- *Catalog*: an accepted catalog cannot send the runtime out of bounds; every path is
  found, no other is.
- *Publisher*: whoever opens the directory finds nothing or one complete release, which is
  replaced in one step by one with a larger number; a release holds what was scanned; what
  was reported as published stays; leftovers go away.
- *Placement*: segments respect their target and class; a block is stored once.
- *Compaction*: within its rewrite budget.
- *Identities*: no key is ever overwritten.
- *Graphical publisher*: what it shows belongs to the workspace it shows it for; no file is
  overwritten or left half made; it does not stay disabled.

## Modules

| module | models | state and actions |
|---|---|---|
| `ByteBudget` | what an insertion under a byte budget may leave in a cache | operators only |
| `ByteBudgetCache` | abstract cache: a set of keys within a budget | `Get`, `Insert`, `Clear` |
| `ClockCache` | `cache.rs`, field by field | every slot that `evict_one` examines is a step |
| `ClockCacheProofs` | theorems about `ClockCache`, and that its steps are those of `ByteBudgetCache` | |
| `ReleaseHistory` | abstract publisher: the sequence of releases a runtime can open | `Publish` |
| `Publisher` | `pack_directory_with_progress` and all it calls that changes state | one action per file, segment, rename, deletion or sync |
| `PublisherProofs` | theorems about `Publisher`, and that its steps are those of `ReleaseHistory` | |
| `PackageReader` | the lock-protected steps of `package.rs` for concurrent threads | one action per critical section |
| `PackageReaderProofs` | theorems about `PackageReader` | |
| `Compaction` | `compaction_segments` | operators only |
| `BlockPlacement` | `BuildContext` and what a build takes over from the release and the cache before it | one action per file begun, per chunk, and per step of the end of a build |
| `BlockPlacementProofs` | theorems about `BlockPlacement` | |
| `Catalog` | what `packer.rs` writes into a snapshot and its segments, what `format.rs` and `package.rs` accept and find in it | operators only |
| `CatalogProofs` | theorems about `Catalog`: what the publisher writes, the runtime finds | |
| `SeekableFile` | abstract file: reads, reads at an offset, seeks, prefetches | `Open`, `Ask`, `Reply`, `Return` |
| `AssetReader` | a package opened, an asset looked up and read through a cursor or session | one action per block |
| `AssetReaderProofs` | theorems about `AssetReader`, and that it implements `SeekableFile` | |
| `FileJobs` | saving a key, importing, replacing, backing up, by several processes | one action per call of the file system |
| `FileJobsProofs` | theorems about `FileJobs` | |
| `Workbench` | the graphical publisher's window, workers and messages | one action per click, message received and worker's end |
| `WorkbenchProofs` | theorems about the window, and that its file operations are those of `FileJobs` | |
| `MC...` | instances for TLC | constants only |

Composition: `ClockCache` refines `ByteBudgetCache`; `PackageReader` uses `ByteBudget`,
which is what `ClockCache` is shown to obey, for its three caches; `Publisher` refines
`ReleaseHistory`; `AssetReader` refines `SeekableFile`. `BlockPlacement` applies the
operators of `Compaction`, `AssetReader` those of `Catalog`: releases are written by the
publisher's half of that module and read by the runtime's. `Workbench` extends `FileJobs`:
its workers and another process run the jobs, and `WorkbenchProofs` proves that nothing
else it does touches files. `Publisher` and
`BlockPlacement` model one build from two sides and share no state: the first has files of
one block and every fault and interleaving, the second has blocks, classes, codecs and a
history of undisturbed builds.

### ClockCache

The variables are the fields of `ClockCache` (Rust vectors are sequences, the hash map is
a function) and `pending`, which makes the loop of `insert` and `evict_one` visible: one
step per examined slot, so that a property sees the cache in the middle of a sweep. `scanned`
counts the examined slots up to the code's bound of two laps. `get` sets the bit, `clear`
empties all. A value is its length.

### Publisher

`phase` is the place in `pack_directory_with_progress`; `build` is that function's and
`BuildContext`'s local state, lost when the build ends. The other variables are the output
directory and the source tree. `durable` says which states of the names a loss of power
can leave: renames and deletions are kept or lost, each for itself, until the directory
they are in is synchronized. File contents are taken as durable when the code has synced
the file, which it does before each rename.

Builds start with a set of options (incremental or full, with or without the development
cache, with a raised floor), any number of times, one at a time (the lock). Sources are
edited at any moment. `Faults` chooses what may go wrong in a run:

| fault | meaning |
|---|---|
| `error` | reading, writing or renaming fails; the build returns an error and drops its guards: the lock, and the files of the segments it has open (`Dropped`). An error in the recovery of an earlier build drops nothing of that build's; what recovery had already swept is gone (`Swept`) |
| `sync_error` | synchronizing the output directory fails after its rename |
| `kill` | the process ends, the operating system goes on |
| `power` | the machine loses power |
| `loss` | a segment is deleted by hand between builds |

Abstractions: a file is one block and a segment one block, so that each file can be
reused, compacted or lost for itself; segments are named by numbers whose re-use stands
for fresh random content (`FreshId` takes one that no release or cache still names); a
stamp is the version of the file, which assumes that every edit changes size, time or
inode; compaction may exclude any set of segments; the order of the scan is arbitrary; the
temporary file of the development cache that a kill can leave is left out, no code
removes or reads it. `Edit` stops at the end of each file's `History`.

### PackageReader

One step per critical section, as the guards' lifetimes in the source make them: a guard
that is a temporary of an `if` condition, or of one operand of `&&` or `||`, is dropped
with it (edition 2024); the only guards bound to a variable across two effects are those
of the prefetch cache in `prefetch_block` and `trim`, and so its lock is modelled as an
owner. `populated` is read without the lock. What an insertion evicts is any choice
`ByteBudget` allows. Decoding happens outside all locks. The launcher may install a
segment at any moment; a segment that is not there ends the request.
`reads`, `admitted` and `since` only record what the properties speak of.

### BlockPlacement

`build` is `BuildContext` with the locals of the build; `release` is what the active
snapshot says (its segments with their blocks, each file's references in order, the
fingerprint), `cache` the development cache file. A chunk's identifier and length are the
chunk, so that the code's comparisons of lengths hold. A file of the model passes through
the versions of its `History`; with a version goes an access class, as the code derives it
from path and length. Which files are deferred is an option of each build. Segments get
the least free identifier, and references name it directly instead of an ordinal in a
sorted list. A chunk that the cache vouched for and that then cannot be reused leads to
the phase `"lost"`, the code's error of packer.rs:480.

Left out: faults and edits during a build (a build may fail at any of its steps and leaves
the release and, after it was saved, the new cache; the rest is `Publisher`'s), the
sequence floor, cutting files into chunks (in `Catalog`), headers, encryption. A segment's
file length, which the code compares with the fragment limit, is its payload here. The
bytes of a payload or of plaintext are counted as a set (`Stored`, `Plain`), and what the
code makes of the records of a release, in order and first come first served, is said of
them as a set (`Reusable`, `First`). `Selected` goes through the candidates from the
cheapest on, as the code does through its sorted list.

### Catalog

`WriteSnapshot(tree)` is what a full build makes of a source tree: `Built`, from `classify`
over `add_file` and `add_chunk` to the segments and records, and `Snapshot` of that, which
is `build_path_slots`, `build_pages`, `CatalogData::encode` and the header: tables as
sequences of records, with the offsets and lengths that the runtime compares. A tree is
what `source.rs` collects (`SourceTree`), with a path for each file and at most half as many
files as there are hashes (`Indexable`; `MAX_FILES` of format.rs:46 is far below that).
`Accepted` is what `Package::open`, `SnapshotHeader::parse`, `Catalog::parse` and
`validate_records` ask of it; `FindFile`, `BlockRef`, `ReferenceForOffset` and
`ReuseRecords` are the searches, with every check on the way, an error being a value of its
own (`NoEmptySlot`, `NoReference`). Loops that carry something from one step to the next
(adding files and chunks, filling slots and pages, cutting, the binary search) are recursive
functions. FastCDC and zstd are parameters (`CutAfter`, `Squeezed`), hashes are a
table with a width (`HashBits`), over which probing wraps around.

Left out: bytes and their order, availability, the limits `MAX_*`, canonical paths,
signatures and encryption (a block authenticates where it was written and nowhere else),
and the order of segments by their random identity.

### AssetReader

`asset` is an `AssetCursor` or `AssetReadSession`: its file, position, current and previous
block and opened segment. A request is handled block by block as the loop of
`read_at_buffered` does (`Serve`, `Exchange`, `Load`), each of which may fail where the code
returns an error; `Load` gives up the current block first, and does not give it back.
`asset.at` is `reference_for_offset` of every offset, computed once, since the catalog is
immutable. `recent` only records the blocks used. What a load finds in the shared caches is
`PackageReader`'s matter.

### FileJobs

`files` says of each name whose file it is and whether all of it is there. The jobs of
`save_private_file`, `import_resources`, `copy_new_file` and `replace_file` go on one call
at a time; any call may fail, also the removals that clean up (`stuck`), another program
may make a file at any moment (`Appear`), and a process may be killed with its jobs
(`Kill`). A temporary of a replacement is named after the process, and so two replacements
of one process may meet in it (`parts`); what a killed process leaves of it is dropped,
since a later process uses another name. The temporary key file has a name nobody else uses
and is left out.

### Workbench

`app` is the state of `App` that results and clicks change; a set of paths is which of them
are filled in, with a number that changes when they do, and a result carries the number of
the workspace it was asked for. `poll_messages` handles messages as long as there are any,
while workers may send more: `Receive` handles one, and `EndPoll` ends the loop and starts
the scan that an import asked for. All that the window disables
while `busy` is guarded by `Idle`; the confirmation of a replacement is not disabled in the
code, and not here. `Spawn` fails when no thread can be started. Scans, builds and
verifications are their results: what a build does is `Publisher`. The directory of assets
stays the same one when paths change. `overlapped` records that a replacement was confirmed
during other work.

## Runs

| run | checks | bounds |
|---|---|---|
| `clock_cache` | `TypeOK`, `IndexMatchesSlots`, `VacantIsExact`, `BytesAccounted`, `InsertionsEvictMinimally`, `ImplementsByteBudgetCache` | five keys of lengths 1, 2, 2, 3, 6; budget 6 |
| `publisher_faults` | `ActiveReleaseReadable`, `PublishedContentWasScanned`, `StrictReleaseIsOneInstant`, `SuccessLeavesNothingElse`, `AcknowledgedReleasesAdvance`, `ImplementsReleaseHistory` | two files with two versions each; four option sets; three sequence numbers; one error, sync error or kill |
| `publisher_power` | `DurablyReadable`, `AcknowledgedIsDurable`, `NewReleaseIsComplete` | the same with one loss of power or one deleted segment, from an empty directory or an old publisher's backup |
| `publisher_liveness` | `LeftoversAreRemoved` | one file with two versions, two errors, sync errors or kills |
| `publisher_unsynced_commit` | `DurablyReadable` is violated (finding 1) | one file, one kill |
| `publisher_stale_cache` | `AcceptedCacheDescribesActive` is violated (finding 2) | two files, one kill |
| `reader_locks` | `HandlesInOrder`, `PrefetchedNotHidden`, `AdmittedAfterTwoReads`, `TrimReleasesWhatItFound`, `EverythingReturns` | two readers and a trimmer, three requests or trims, three blocks in three segments on two pages; caches of one entry, two handles |
| `block_placement` | `ReleaseHoldsSources`, `PlacedByClass`, `SegmentsWithinTarget`, `NewBlocksShared`, `CacheNeverLosesABlock`, `CompactionSettles`, `CompactionFillsBudget` | two files with three versions each over three chunks; five releases; full, incremental and cached builds, with the second file required or deferred |
| `stored_only_once` | `StoredOnlyOnce` is violated (finding 3) | the same files, one release |
| `asset_reads` | `EveryPathIsFound`, `EveryOffsetIsFound`, `ReusePairsChunksWithBlocks`, `StreamingWindow`, `PrefetchedRange`, `RequestsAreAnswered`, `ImplementsSeekableFile` | releases of no, one, four and five files; buffers of one and four bytes, all offsets, seeks of -2, 0 and 3 from each base |
| `workbench` | `ResultsBelongUnlessOverlapped`, `AllOrNothing`, `SavedKeysStay`, `BusyMeansWork`, `ExistingFilesStay` | three jobs, the window and another process, two resources and a key path, two changes of paths |
| `workbench_late_result` | `ResultsBelongToWorkspace` is violated (finding 4) | the same |

Why the bounds are enough. *Cache*: the budget holds one large value, or up to three small
ones, so an insertion evicts none, one or several values; the largest key equals the
budget; sweeps of two laps and re-used slots occur. *Publisher*: two files are the least
with which one is read while the other is edited, one reused while the other is written,
and one segment shared (the second file takes the content of the first); each file
changes, one is deleted and comes back; `MaxSeq` is 3, which the raised floor reaches at
once, so numbers run out within the run; sequences of three successful builds and any
number of failed ones fit. A second fault multiplies the states tenfold and is only in the
liveness run. `SegmentIds` is large enough that `RoomForABuild` never refuses a build,
except in `publisher_power`: failed builds with a missing segment leave new segments behind
without bound there (that run's configuration allows the stop). *Runtime*: with one entry
per cache every insertion evicts another thread's entry; two handles and three segments do
the same for handles; one of the segments is installed late. *Placement*: one chunk compresses,
one is larger than its class's target, two fit one segment; the second file must not be
compressed, moves between access classes and may be deferred, so that each reason to
refuse a block occurs. Three fragments call for compaction and three releases leave as
many; two more show what compaction leaves behind. The rewrite budget is a single larger
block, so that it admits all candidates in some builds and not in others. `MaxQuiet` is 1:
in an instance of this size compaction is done at once whenever its budget suffices.
*Assets*: the files are empty, of one short block, of two streaming blocks and a rest, cut
by their contents, and large; the pages hold three and four records, so that blocks of one
file lie on two pages and the two kinds of page break at different places; three hashes
collide at the last slots and wrap around, and two paths that are not packed probe through
them. A longer file adds blocks between the first and the last, and more requests do not
add states, since a cursor keeps two blocks only (this instance has no bound on requests).
*Window*: three jobs are an import, and a save or replacement during it, and the scan that
follows; two changes of paths let a result be two workspaces late. A failed spawn stands
for a bound on jobs that is reached.

`publisher_power` leaves out kills and failed syncs: with them `DurablyReadable` does not
hold, which is finding 1 and has its own run. Everything it says of losses of power is
therefore said of builds that were not killed before.

### Fairness

`publisher_liveness` assumes weak fairness of a running build's steps, of starting builds
and of removing a stale lock: leftovers are removed by the *next* build, and a stale lock
is the operator's to remove (README.md:131). So the run does not check that a build gets by
a lock that an earlier one left: no code does, not even after a lock file that could not be
written (`LockError`). Two faults are the least with which a build is killed and the
recovery of the next one fails, leaving the first one's temporary files to a third. A build never gets stuck by itself:
deadlock is checked in `publisher_faults`. Nothing assumes that a build succeeds.
`reader_locks` assumes that each thread with a request goes on
(weak fairness of each thread's steps and of the trim), as a scheduler does. The mutexes
of Rust's standard library are not fair; that no strong fairness is needed is due to the
bounded number of requests. `ClockCache` needs weak fairness of a pending insertion's own
steps, since `insert` is a loop of one thread. `asset_reads` assumes weak fairness of
`Work`, the loop of a read or prefetch by the thread that called it and its return;
nothing makes the caller ask. `workbench` states no liveness: that a worker ends depends on
dialogs, disks and builds of any length, and so `BusyMeansWork` says instead that the
window is never disabled without a worker or message that will enable it. A worker that
panics would break it (it sends nothing); panics are not modelled.

## Findings

1. *A commit whose name is not durable* (`publisher_unsynced_commit`). A build is killed
   after it renamed the snapshot (packer.rs:1667) and before it synchronized the directory
   (packer.rs:1669). The next build finds no temporary to clean up, so it does not
   synchronize the output directory, takes the unchanged-source shortcut, durably deletes
   the segments of the replaced release and reports success. A loss of power may now bring
   back the old snapshot, whose segments are gone.
2. *A development cache of a release that never was* (`publisher_stale_cache`). The cache
   is saved under the new sequence number before the commit (packer.rs:323); if the commit
   does not happen, another release can get that number, and the cache is accepted for it.
   What is packaged stays right (`PublishedContentWasScanned` holds with it).
3. *Stored twice* (`stored_only_once`). The README says that identical chunks of one
   placement class are stored only once. A file whose name stands for compressed data
   refuses a block that was compressed for another (packer.rs:719), and its copy of the
   chunk is stored in the same segment again.
4. *A result of another workspace* (`workbench_late_result`). A replacement is confirmed
   while a build runs: the dialog is not disabled (main.rs:995). Whichever worker ends first
   enables the window; the paths are changed, and the other's result is then shown for the
   new ones, although README.md:69 says that changing paths clears old results. The
   shortest trace uses a replacement for which no thread could be started; one that runs and
   ends before the build does the same. Within the bounds
   of the runs this overlap is the only way (`ResultsBelongUnlessOverlapped`).

Some behaviours that no document contradicts, and that the models show: an incremental
build over a release with a missing segment fails each time and leaves what it wrote in
`data/`, until a full build; the unchanged-source shortcut does not look at the segments.
When the sequence numbers are used up, even an unchanged build is refused. When the
rewrite budget admits one fragment of each class at most (in the code: fragments of at
most 64 KiB that expand a hundredfold), each is rewritten into a fragment, and builds of
unchanged sources make releases for ever; hence the condition of `CompactionSettles`.
The index of reusable blocks keeps one block per chunk: if that one is compressed, a file
that refuses it has its copy encrypted again in every release.

## Proofs

The theorems hold for every value of the constants that the modules' `ASSUME`s allow: any
sets of keys, threads, files and jobs, any histories of edits, source trees, budgets and targets, any
number of builds and faults. Each is proved from an inductive invariant, with one lemma per
action or conjunct.

**The cache** (`ClockCacheProofs`). `TypeCorrectness`, `LookupCorrectness`, `SlotReuse` and
`BudgetRespected` are the four bookkeeping properties. None is inductive alone: the
invariant is their conjunction with what `insert` knows of a pending key (it is not
cached, it can fit, the sweep is below its bound). `EvictsMinimally` is the action property
of insertions. It needs two things about a search that is under way: `LapsSwept`, that a
slot the hand has left is not referenced, and one that it left in the second lap is vacant,
hence that two laps always find a victim; and `EvictionsNeeded`, that what was evicted so far
includes a value without whose eviction there was no room. From them follows
`ClockIsByteBudgetCache`, that every step of the clock is a step of `ByteBudgetCache` or a
stutter. Counting bytes rests on `Cardinality` of the set of individual bytes, the reason
why `ByteBudget` counts bytes as a set rather than with a sum.

**The runtime's locks** (`PackageReaderProofs`). `PopulatedFlag`: the invariant says who may
hold the prefetch cache's lock, and that a trim that is about to clear the flag has found
the cache empty and kept the lock since. `HandlesAgree`, the queue and the set of handles
agree: `QueueInv`, with lemmas about sequences that name nothing twice and their slices.
`TwoReadsPerAdmission`: `CountInv` charges each read to an admission, to one that is on its
way, or to a place on probation, so that no race admits a block on one read.
`TrimReleases`: `TrimInv` says of each cache the trim has passed that it holds only what was
put there since.

**The publisher** (`PublisherProofs`). The inductive invariant says what a build may rely on
at each of its places: files were scanned at a version not after the scan's end
(`VersionsOrdered`), every cache there is or that a loss of power may bring back is true of
its stamps (`CachesTrue`), what was placed is what was scanned, the release it opened is
still the active one (the lock), the new release has a larger number and, once verified, all
its segments, and only a build in progress has leftovers. Its consequences hold whatever
faults occur:
- `PublishedAsScanned`, `StrictIsOneInstant`, `NewReleaseComplete`.

`DurableInv` adds what the disk may come back with: until a release is committed, its new
segments have been synchronized (`SegmentsSynced`), and outside of two short phases exactly
one state of the names can be found. It needs `BuildsSync`, that no build is killed and no
synchronization of the directory fails: finding 1 is a counterexample to it without.
- `DurableReleases`, `AcknowledgedSurvives` assume `BuildsSync` alone: any losses of power,
  errors and deleted segments.
- `ActiveReadable`, `SuccessIsClean` assume that nobody deletes segments by hand, and either
  no losses of power or `BuildsSync`; `ReportsAdvance` only the latter.
- `PublisherImplementsReleaseHistory`, the refinement, assumes neither deleted segments nor
  losses of power: a release that a loss of power takes back is not a step of
  `ReleaseHistory`.

These are assumptions about `Faults`; the runs have such sets (`publisher_faults` errors,
failed syncs and kills, `publisher_power` losses of power and deletions).

**Placement** (`BlockPlacementProofs`). `SourcesHeld`, `ClassesKept` and `CacheKeepsItsWord`
rest on `PlacementInv`: every reference of the files begun so far leads to a block of its
chunk in a codec the file accepts (`Laid`), the tables of blocks to share and to reuse lead
to such blocks of the right class, new segments do not take the name of one of the release,
entries of the cache are true, and what the cache vouched for stays available up to its turn
(the reuse table does not change during a build, and the table of current blocks only
exchanges a block for one that the same file accepts). `BlocksWrittenOnce` and `TargetsKept`
rest on `SegmentsInv`: whatever was written is remembered, raw blocks as raw ones, and so a
block is only written if its file refuses the remembered codec. That a block added to a
segment keeps its payload below the target needs `Cardinality` of unions of byte sets.

`BudgetFilled` (`CompactionFillsBudget`) is about a loop inside one action, `Selected`. What
it bounds is what the code counts: the live plaintext of the selected segments, each block
once. A block shared by files that differ in class or codec by now may be written once for
each. Its
invariant, `Greedy`, says after each candidate that what was taken and what is left of the
budget make up the budget, and that every candidate passed over costs more than is left;
that a segment's cost adds to those of the others, although files share blocks, is
`RewrittenMore`.

**The catalog** (`CatalogProofs`). What the publisher writes is computed by recursive
functions, and a property of each of their values needs an induction that the library's
theorems, with their operator parameters, do not give here. The proofs carry it out as one
about sets: the set of the `n` at which the property holds has 0, and with `n` its
successor, and a least number outside of it would contradict that (`LeastOf`, `UpTo`; that
the function exists at all is shown the same way). So one invariant goes through each loop:

- *cutting*: the chunks of a file follow each other from its first byte to its last, each
  byte in one of them (`FileTiles`, `CutsAscend`, `ChunkOfByte`);
- *building*: every reference leads to a block of its segment that holds its chunk, and the
  references of a file follow those of the files before it (`AddBlockIs`, `ChunksAdded`,
  `BuiltIs`), whatever is shared, raw or compressed, and wherever segments end;
- *pages*: the records of each kind are split into pages one after the other, of which all
  but the last of the kind are full (`AddPagesIs`, `BuildPagesIs`); hence a block number, or
  a chunk's, leads to its page and its place there (`BlockRefIs`);
- *lookup*: the binary search keeps the block of the offset between its bounds, and they
  close in (`SearchStops`, `SearchIs`, `FoundAt`);
- *path slots*: probing from slot to slot reaches every slot, also where the hash wraps
  around on the way (`Reached`), not all slots are taken (`EmptySlotLeft`), and every slot
  before a file's own on its probe is (`Indexed`), so that the search neither passes it by
  nor ends early.

**Readers** (`AssetReaderProofs`). Of this follow, for any source trees, limits, hashes and
compressed lengths, and with nothing assumed of lookups: `OffsetsFound`, `PathsFound`,
`ReusePaired` (that the runtime accepts every snapshot, and that the next build pairs each
chunk with its block), since the catalog is the snapshot of a tree in every state
(`CatalogInv`). `RangePrefetched`: `PrefetchInv` says which blocks have been asked for so far,
and that the next one begins where they end. `WindowKept` and `ReadersAreFiles`: the bytes
given so far are those from where the read began (`ReadInv`), what is kept are blocks of this
file (`KeptInv`), the blocks used last are among them (`RecentInv`), through exchanges, loads
and failures. `ReadersAreFiles` is the whole of `ImplementsSeekableFile`. `ReusePaired` alone
has a hypothesis: that `Squeezed`, the length a compressor gives, is a natural number for
every one; it stands in the theorem and not among the `ASSUME`s because TLC could not
evaluate it over all of `Nat`.

**File jobs** (`FileJobsProofs`). `TypeCorrect`, `KeysStay` (`SavedKeysStay`) and `FilesStay`
(the action property `ExistingFilesStay`): the invariant says of each job what it may assume
of its names at each place (`Shape`) and which files are its own (`Owns`: a saved key is the
job's; a backup that is still copying is at work on its own begun file, so that its clean-up
removes nothing complete). `CopiesAllOrNothing` (`AllOrNothing`): `ClaimsInv` says that each
import or backup answers for the names it has copied and the one it is copying, that these
are its own files or confirmed replacements of them, that two jobs never answer for the same
name, and that a job has made nothing but what it answers for or could not remove. Neither
says that a replacement stays: a failed import removes by name what it had copied, and a
replacement that was put there meanwhile goes with it.

**The window** (`WorkbenchProofs`). `WorkbenchRunsFileJobs`: every behaviour of the window,
its workers, kills and other processes is one of `FileJobs`; hence `WorkbenchKeepsFiles`, the
file properties for the composition. `BusyHasWork` and `ResultsBelong` rest on `WindowInv`:
without overlapping work there is at most one worker or message under way, the window stays
disabled until it has been received, and so the workspace is still the one it was asked for.

Assumptions on the constants are the `ASSUME`s of the modules, which TLC evaluates: the
constants have their types, histories of files are not empty, names of resources are not
names of keys, `Others` is no job, and the like.
Type invariants are stated where proofs need them, and checked there.

Only model-checked are:
- the liveness properties `LeftoversAreRemoved`, `EverythingReturns`, `RequestsAreAnswered`,
  and the fairness in `ImplementsByteBudgetCache` (the prover does not handle fairness and
  `ENABLED`);
- `CompactionSettles`: how many builds can follow each other until compaction rests depends
  on lengths, limits and files, and `MaxQuiet` is a bound for the instance of the run;
- the findings, whose runs are counterexamples.

## Not modelled

- *Bytes*: layouts, compression and cutting algorithms, cryptography (taken as ideal), the
  limits `MAX_*` and truncated input of the parsers.
- *The planner*: it compares the sources with the active catalog and changes nothing;
  `Workbench` takes its list of files. The change classes and predicted numbers are a
  function of what `BlockPlacement` does step by step.
- *The development cache's parser*; what a loaded cache means is in `Publisher` and
  `BlockPlacement`.
- *The command line*: one process, one operation, modelled where the operation is.
- *Of the runtime*: the rollback floor and the host's callbacks of opening, signatures,
  `verify_segments`.
- *Of identities*: permissions, the temporary key file, the check that keeps keys out of
  the packaged directory; process numbers that are used again.
- *Of the window*: drawing, filters, selections that are not replacements, progress
  messages, panics of a worker. A replacement that was lost because an import removed the
  file again by name needs more jobs than the run has and is not claimed about.
- *Temporaries of killed processes* (`.part` files of replacements, of the development
  cache): nothing removes or reads them.

## Plan

1. Done: `ClockCache` with its proofs, `Publisher`, `PackageReader`, `BlockPlacement` with
   `Compaction`; `Catalog`, `AssetReader` with `SeekableFile`, `FileJobs` and `Workbench`
   with their proofs.
2. Done: proofs of all safety properties, `CompactionSettles` excepted: of the cache, the
   runtime's locks, the publisher, placement and compaction, the catalog, readers, the file
   jobs and the window.
3. Proofs still worth having: `CompactionSettles` with a bound that does not depend on the
   instance, in terms of the number of classes and of the fragments a build can leave.
4. The planner as operators against `BlockPlacement`: that what it predicts is what the
   next build of unchanged sources does.
