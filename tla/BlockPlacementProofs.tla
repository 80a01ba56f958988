-------------------------- MODULE BlockPlacementProofs --------------------------
(***************************************************************************)
(* Where blocks are placed, for every number of files, every history of    *)
(* their edits and every sequence of builds.                               *)
(***************************************************************************)
EXTENDS BlockPlacement, FiniteSetTheorems, SequenceTheorems, WellFoundedInduction, TLAPS

-------------------------------------------------------------------------------
(* The inductive invariant.                                                 *)

BlockType == [chunk : Chunks, codec : Codecs]
RefType == [segment : SegmentIds, ordinal : Nat \ {0}, offset : Nat,
            chunk : Chunks, codec : Codecs]
SegmentType == [class : Classes, blocks : Seq(BlockType)]
EntryType == [stamp : Nat, availability : Availabilities, chunks : Seq(Chunks)]

IsTable(segments) ==
  /\ DOMAIN segments \subseteq SegmentIds
  /\ \A id \in DOMAIN segments : segments[id] \in SegmentType

ReleaseType(r) ==
  /\ DOMAIN r = {"seq", "segments", "files", "fingerprint"}
  /\ r.seq \in Nat /\ IsTable(r.segments) /\ r.files \in [Files -> Seq(RefType)]

BuildType(b) ==
  /\ DOMAIN b = DOMAIN Idle
  /\ b.options \in [incremental : BOOLEAN, dev : BOOLEAN, deferred : SUBSET Files]
  /\ b.cached \in [Files -> EntryType]
  /\ b.reuse \in [Chunks \X Availabilities -> RefType \union {NoRef}]
  /\ b.current \in [Chunks \X Classes -> RefType \union {NoRef}]
  /\ IsTable(b.segments) /\ b.active \in [Classes -> SegmentIds \union {0}]
  /\ b.files \in Seq(Seq(RefType)) /\ b.chunks \in Seq(Chunks) /\ b.vouched \in BOOLEAN

PlacementType ==
  /\ source \in [Files -> Nat] /\ \A f \in Files : source[f] \in DOMAIN History[f]
  /\ ReleaseType(release) /\ BuildType(build)
  /\ cache \in [seq : Nat, entries : [Files -> EntryType]]
  /\ phase \in {"idle", "files", "lost", "saveCache", "commit", "report"}

(* A reference leads to a block with its chunk.                             *)
Leads(segments, r) ==
  /\ r.segment \in DOMAIN segments /\ r.ordinal \in DOMAIN segments[r.segment].blocks
  /\ segments[r.segment].blocks[r.ordinal] = [chunk |-> r.chunk, codec |-> r.codec]

(* The references of a file, up to where it has come.                       *)
Laid(f, refs, segments) ==
  \A i \in DOMAIN refs :
    /\ Leads(segments, refs[i]) /\ Accepts(f, refs[i])
    /\ refs[i].offset = IF i = 1 THEN 0 ELSE refs[i - 1].offset + PlainLen[refs[i - 1].chunk]

(* A release is whole, and its fingerprint tells its chunks and availability. *)
ReleaseSound(r) ==
  /\ \A f \in Files : Laid(f, r.files[f], r.segments)
  /\ r.seq > 0 => \A f \in Files :
       /\ r.fingerprint[f][2] = ChunksOf(r.files[f])
       /\ \A i \in DOMAIN r.files[f] :
            r.segments[r.files[f][i].segment].class[1] = r.fingerprint[f][1][1]

(* What an entry of the cache tells of a version of a file is so.            *)
EntriesTrue(entries) ==
  \A f \in Files :
    entries[f].stamp \in DOMAIN History[f] => entries[f].chunks = History[f][entries[f].stamp]

Tables == [id \in DOMAIN build.segments \union DOMAIN release.segments |-> Segment(id)]
Running == phase \in {"files", "saveCache", "commit"}
Incremental == build.options.incremental

(* A block that may be shared or reused, of the given chunk and class.       *)
Offered(r, segments, c, class) ==
  r # NoRef => /\ Leads(segments, r) /\ r.chunk = c
               /\ segments[r.segment].class[1] = class[1]
               /\ ~Incremental => segments[r.segment].class[2] = class[2]

FreshSegments == DOMAIN build.segments \cap DOMAIN release.segments = {}

OpenSegments ==
  \A k \in Classes : build.active[k] # 0 =>
    build.active[k] \in DOMAIN build.segments /\ build.segments[build.active[k]].class = k

CurrentOffered ==
  \A c \in Chunks, k \in Classes : Offered(build.current[<<c, k>>], Tables, c, k)

(* One that may be reused: an incremental build alone has any.              *)
FromBefore(r, segments, c, availability) ==
  /\ ~Incremental => r = NoRef
  /\ r # NoRef => Leads(segments, r) /\ r.chunk = c
                  /\ segments[r.segment].class[1] = availability

ReuseOffered ==
  \A c \in Chunks, a \in Availabilities :
    FromBefore(build.reuse[<<c, a>>], release.segments, c, a)

FilesPlaced ==
  \A f \in DOMAIN build.files :
    /\ Laid(f, build.files[f], Tables)
    /\ \A i \in DOMAIN build.files[f] :
         LET class == Tables[build.files[f][i].segment].class IN
         class[1] = Availability(f) /\ (~Incremental => class[2] = Access(f))

(* The chunks of the files so far, and those of the last that are to come.    *)
FilesRead ==
  /\ Len(build.files) <= N
  /\ \A f \in 1 .. Len(build.files) - 1 : ChunksOf(build.files[f]) = Content(f)
  /\ build.files = <<>> => build.chunks = <<>>
  /\ build.files # <<>> =>
       LET refs == build.files[File] IN
       /\ Len(refs) + Len(build.chunks) = Len(Content(File))
       /\ \A i \in DOMAIN refs : refs[i].chunk = Content(File)[i]
       /\ \A j \in DOMAIN build.chunks : build.chunks[j] = Content(File)[Len(refs) + j]

(* What the cache vouched for can be shared or reused as long as it is to come. *)
VouchedForLasts ==
  build.vouched => \A c \in Range(build.chunks) :
    Accepts(File, Current(File, c)) \/ Accepts(File, Existing(File, c))

PlacementInv ==
  /\ PlacementType
  /\ phase # "lost"
  /\ ReleaseSound(release) /\ EntriesTrue(cache.entries)
  /\ Running =>
       /\ EntriesTrue(build.cached)
       /\ FreshSegments /\ OpenSegments /\ CurrentOffered /\ ReuseOffered
       /\ FilesPlaced /\ FilesRead /\ VouchedForLasts
  /\ phase \in {"saveCache", "commit"} => Len(build.files) = N /\ build.chunks = <<>>
  /\ ReleaseHoldsSources /\ PlacedByClass

(* A block that was written is remembered, or the same in another codec.      *)
WrittenRemembered ==
  \A id \in DOMAIN build.segments :
    \A i \in DOMAIN build.segments[id].blocks :
      LET block == build.segments[id].blocks[i]
          ref == build.current[<<block.chunk, build.segments[id].class>>]
      IN ref # NoRef /\ (block.codec = "Raw" => ref.codec = "Raw")

-------------------------------------------------------------------------------
(* Least elements, and the first of some references.                        *)

(* A set of naturals that is not empty has a least element.                 *)
LEMMA LeastOf ==
  ASSUME NEW S \in SUBSET Nat, S # {}
  PROVE  \E x \in S : \A y \in S : x <= y
<1> DEFINE Less == {ss \in Nat \X Nat : ss[1] < ss[2]}
<1>0. IsWellFoundedOn(Less, Nat)
  BY NatLessThanWellFounded, Zenon DEF OpToRel
<1>1. PICK x \in S : \A y \in S : ~(<<y, x>> \in Less)
  <2> HIDE DEF Less
  <2> QED
    BY <1>0, WFMin
<1>2. ASSUME NEW y \in S
      PROVE  x <= y
  <2>1. <<y, x>> \in Nat \X Nat /\ x \in Nat /\ y \in Nat
    OBVIOUS
  <2>2. ~(<<y, x>>[1] < <<y, x>>[2])
    <3> HIDE DEF Less
    <3>1. <<y, x>> \notin Less
      BY <1>1
    <3> QED
      BY <2>1, <3>1 DEF Less
  <2> QED
    BY <2>1, <2>2
<1> QED
  BY <1>2

LEMMA MinIsIn ==
  ASSUME NEW S \in SUBSET Nat, S # {}
  PROVE  Min(S) \in S
  BY LeastOf DEF Min

(* A set of the first naturals that has 0, and the next of each of its own,  *)
(* has them all.                                                             *)
LEMMA UpTo ==
  ASSUME NEW M \in Nat, NEW S, 0 \in S, \A n \in 0 .. M - 1 : n \in S => n + 1 \in S
  PROVE  M \in S
<1> DEFINE Not == (0 .. M) \ S
<1> SUFFICES ASSUME Not # {}
             PROVE  FALSE
  OBVIOUS
<1>1. PICK x \in Not : \A y \in Not : x <= y
  <2>1. Not \in SUBSET Nat /\ Not # {}
    OBVIOUS
  <2> HIDE DEF Not
  <2> QED
    BY <2>1, LeastOf
<1>2. x # 0 /\ x \in Nat /\ x <= M
  OBVIOUS
<1>3. x - 1 \in 0 .. M - 1 /\ x - 1 \in 0 .. M /\ x - 1 \in Nat /\ ~(x <= x - 1) /\ (x - 1) + 1 = x
  BY <1>2
<1>4. x - 1 \in S
  BY <1>1, <1>3
<1> QED
  BY <1>3, <1>4

LEMMA FirstIsOne ==
  ASSUME NEW files, DOMAIN files \subseteq Nat,
         \A f \in DOMAIN files : DOMAIN files[f] \subseteq Nat,
         NEW refs \in SUBSET AllRefs(files), refs # {}
  PROVE  First(files, refs) \in refs
<1> DEFINE F == {g \in DOMAIN files : Range(files[g]) \cap refs # {}}
<1>1. F \in SUBSET Nat /\ F # {}
  BY DEF AllRefs
<1>2. Min(F) \in F
  BY <1>1, MinIsIn
<1> DEFINE f == Min(F)
           I == {i \in DOMAIN files[f] : files[f][i] \in refs}
<1>3. First(files, refs) = files[f][Min(I)]
  BY DEF First
<1>4. f \in DOMAIN files /\ Range(files[f]) \cap refs # {}
  BY <1>2
<1> HIDE DEF F, f
<1>5. I \in SUBSET Nat /\ I # {}
  BY <1>4 DEF Range
<1>6. Min(I) \in I
  BY <1>5, MinIsIn
<1> QED
  BY <1>3, <1>6

-------------------------------------------------------------------------------
(* The segments a reference may lead to.                                    *)

LEMMA TablesAre ==
  /\ DOMAIN Tables = DOMAIN build.segments \union DOMAIN release.segments
  /\ \A id \in DOMAIN build.segments : Tables[id] = build.segments[id]
  /\ \A id \in DOMAIN release.segments \ DOMAIN build.segments :
       Tables[id] = release.segments[id]
  BY DEF Tables, Segment

(* A release's blocks stay where they are.                                  *)
LEMMA LeadsToOld ==
  ASSUME FreshSegments, NEW r, Leads(release.segments, r)
  PROVE  Leads(Tables, r) /\ Tables[r.segment] = release.segments[r.segment]
  BY TablesAre DEF FreshSegments, Leads

-------------------------------------------------------------------------------
(* A build begins.                                                          *)

LEMMA FilesTyped ==
  ASSUME PlacementType, NEW f \in Files
  PROVE  /\ f \in Nat \ {0}
         /\ History[f] \in Seq(Seq(Chunks)) /\ Content(f) \in Seq(Chunks)
         /\ Availability(f) \in Availabilities /\ Access(f) \in Accesses
         /\ Class(f) \in Classes /\ Class(f)[1] = Availability(f) /\ Class(f)[2] = Access(f)
<1>1. History[f] \in Seq(Seq(Chunks)) /\ source[f] \in DOMAIN History[f]
  BY ConstantsAssumption DEF PlacementType
<1>2. Content(f) \in Seq(Chunks)
  BY <1>1 DEF Content
<1>3. Access(f) \in Range(AccessOf[f])
  BY <1>1, ConstantsAssumption DEF Access, Range
<1>4. Access(f) \in Accesses
  BY <1>3 DEF Accesses
<1>5. Availability(f) \in Availabilities
  BY DEF Availability, Availabilities
<1> QED
  BY <1>1, <1>2, <1>4, <1>5, ConstantsAssumption DEF Files, Class, Classes

LEMMA RefsOfARelease ==
  ASSUME ReleaseType(release), ReleaseSound(release), NEW r \in AllRefs(release.files)
  PROVE  r \in RefType /\ Leads(release.segments, r)
<1>1. PICK f \in Files : r \in Range(release.files[f])
  BY DEF ReleaseType, AllRefs
<1>2. PICK i \in DOMAIN release.files[f] : r = release.files[f][i]
  BY <1>1 DEF Range
<1>3. release.files[f] \in Seq(RefType)
  BY DEF ReleaseType
<1>4. Laid(f, release.files[f], release.segments)
  BY <1>1, Zenon DEF ReleaseSound
<1>5. Leads(release.segments, release.files[f][i])
  BY <1>2, <1>4, Zenon DEF Laid
<1> QED
  BY <1>2, <1>3, <1>5

LEMMA ReuseIndexIs ==
  ASSUME ReleaseType(release), ReleaseSound(release), NEW excluded, NEW c \in Chunks,
         NEW a \in Availabilities, NEW r, r = ReuseIndex(release, excluded)[<<c, a>>]
  PROVE  /\ r \in RefType \union {NoRef}
         /\ r # NoRef => Leads(release.segments, r) /\ r.chunk = c
                         /\ release.segments[r.segment].class[1] = a
<1> DEFINE refs == Reusable(release, excluded, <<c, a>>)
<1>1. r = IF refs = {} THEN NoRef ELSE First(release.files, refs)
  BY DEF ReuseIndex
<1>2. refs \in SUBSET AllRefs(release.files)
  BY DEF Reusable
<1>3. /\ DOMAIN release.files \subseteq Nat
      /\ \A f \in DOMAIN release.files : DOMAIN release.files[f] \subseteq Nat
  <2>1. DOMAIN release.files = 1 .. N /\ \A f \in 1 .. N : release.files[f] \in Seq(RefType)
    BY DEF ReleaseType, Files
  <2> QED
    BY <2>1, ConstantsAssumption
<1> HIDE DEF refs
<1>4. CASE refs # {}
  <2>1. r \in refs
    BY <1>1, <1>2, <1>3, <1>4, FirstIsOne
  <2>2. r \in AllRefs(release.files) /\ r.chunk = c /\ release.segments[r.segment].class[1] = a
    BY <2>1 DEF refs, Reusable
  <2> QED
    BY <2>2, RefsOfARelease
<1> QED
  BY <1>1, <1>4

LEMMA IdleTyped == BuildType(Idle) /\ EntriesTrue(Idle.cached)
<1>1. NoCache.entries \in [Files -> EntryType] /\ EntriesTrue(NoCache.entries)
  BY ConstantsAssumption DEF NoCache, NoEntry, EntryType, EntriesTrue, Availabilities
<1>2. IsTable(NoSegments)
  BY DEF IsTable, NoSegments
<1> QED
  BY <1>1, <1>2 DEF Idle, BuildType

LEMMA StartBuildInv ==
  ASSUME PlacementInv, NEW o \in Options, StartBuild(o)
  PROVE  PlacementInv'
<1> DEFINE excluded == build'.excluded
<1>1. /\ PlacementType /\ ReleaseSound(release) /\ EntriesTrue(cache.entries)
      /\ ReleaseType(release) /\ cache.entries \in [Files -> EntryType]
  BY DEF PlacementInv, PlacementType
<1>2. /\ phase' = "files" /\ UNCHANGED <<source, release, cache>>
      /\ DOMAIN build' = DOMAIN Idle
      /\ build'.options = o
      /\ build'.cached \in {NoCache.entries, cache.entries}
      /\ build'.reuse = IF o.incremental THEN ReuseIndex(release, excluded) ELSE Idle.reuse
      /\ build'.current = Idle.current /\ build'.segments = NoSegments
      /\ build'.active = Idle.active /\ build'.files = <<>> /\ build'.chunks = <<>>
      /\ build'.vouched = FALSE
  BY DEF StartBuild, Goto, Idle
<1>3. o \in [incremental : BOOLEAN, dev : BOOLEAN, deferred : SUBSET Files]
  BY ConstantsAssumption
<1>4. build'.cached \in [Files -> EntryType] /\ EntriesTrue(build'.cached)
  BY <1>1, <1>2, IdleTyped DEF Idle, BuildType
<1>5. ASSUME NEW c \in Chunks, NEW a \in Availabilities
      PROVE  LET r == build'.reuse[<<c, a>>] IN
             /\ r \in RefType \union {NoRef}
             /\ ~o.incremental => r = NoRef
             /\ r # NoRef => Leads(release.segments, r) /\ r.chunk = c
                             /\ release.segments[r.segment].class[1] = a
  <2>1. CASE o.incremental
    BY <1>1, <1>2, <2>1, ReuseIndexIs
  <2>2. CASE ~o.incremental
    BY <1>2, <2>2 DEF Idle
  <2> QED
    BY <1>3, <2>1, <2>2
<1>6. build'.reuse \in [Chunks \X Availabilities -> RefType \union {NoRef}]
  <2>1. DOMAIN build'.reuse = Chunks \X Availabilities
    BY <1>2 DEF ReuseIndex, Idle
  <2>2. build'.reuse = [key \in Chunks \X Availabilities |-> build'.reuse[key]]
    BY <1>2 DEF ReuseIndex, Idle
  <2>3. \A key \in Chunks \X Availabilities : build'.reuse[key] \in RefType \union {NoRef}
    BY <1>5
  <2> QED
    BY <2>2, <2>3
<1>7. BuildType(build)'
  BY <1>2, <1>3, <1>4, <1>6, IdleTyped DEF BuildType, Idle
<1>8. PlacementType'
  BY <1>1, <1>2, <1>7 DEF PlacementType, ReleaseType
<1>9. FreshSegments' /\ OpenSegments'
  BY <1>2 DEF FreshSegments, OpenSegments, NoSegments, Idle
<1>10. CurrentOffered'
  BY <1>2 DEF CurrentOffered, Offered, Idle
<1>11. ReuseOffered'
  BY <1>2, <1>5 DEF ReuseOffered, FromBefore, Incremental
<1>12. FilesPlaced' /\ FilesRead' /\ VouchedForLasts'
  BY <1>2, ConstantsAssumption DEF FilesPlaced, FilesRead, VouchedForLasts
<1>13. (ReleaseHoldsSources /\ PlacedByClass)'
  BY <1>2 DEF ReleaseHoldsSources, PlacedByClass
<1> QED
  BY <1>1, <1>2, <1>4, <1>8, <1>9, <1>10, <1>11, <1>12, <1>13
     DEF PlacementInv, ReleaseSound, EntriesTrue

-------------------------------------------------------------------------------
(* Files, one after the other.                                              *)

(* What the invariant says of a build that runs.                            *)
LEMMA BuildTyped ==
  ASSUME PlacementType
  PROVE  /\ build.files \in Seq(Seq(RefType)) /\ build.chunks \in Seq(Chunks)
         /\ Len(build.files) \in Nat /\ DOMAIN build.files = 1 .. Len(build.files)
         /\ \A f \in DOMAIN build.files : build.files[f] \in Seq(RefType)
  BY DEF PlacementType, BuildType

(* A file without chunks to come has all of its content.                    *)
LEMMA LastFileRead ==
  ASSUME PlacementType, FilesRead, build.chunks = <<>>, NEW f \in 1 .. Len(build.files)
  PROVE  f \in Files /\ ChunksOf(build.files[f]) = Content(f)
<1>1. /\ build.files \in Seq(Seq(RefType)) /\ Len(build.files) <= N
      /\ N \in Nat /\ Len(build.files) \in Nat /\ f \in Files
  BY BuildTyped, ConstantsAssumption DEF FilesRead, Files
<1>2. CASE f # Len(build.files)
  <2>1. f \in 1 .. Len(build.files) - 1
    BY <1>1, <1>2
  <2>2. \A g \in 1 .. Len(build.files) - 1 : ChunksOf(build.files[g]) = Content(g)
    BY DEF FilesRead
  <2> QED
    BY <1>1, <2>1, <2>2, Zenon
<1>3. CASE f = Len(build.files)
  <2> DEFINE refs == build.files[f]
             content == Content(f)
  <2>1. refs \in Seq(RefType) /\ content \in Seq(Chunks)
    BY <1>1, FilesTyped
  <2>2. Len(refs) = Len(content) /\ \A i \in DOMAIN refs : refs[i].chunk = content[i]
    <3>1. build.files # <<>> /\ File = f
      BY <1>1, <1>3 DEF File
    <3>2. Len(build.chunks) = 0
      OBVIOUS
    <3>3. Len(refs) + 0 = Len(content) /\ \A i \in DOMAIN refs : refs[i].chunk = content[i]
      BY <3>1, <3>2 DEF FilesRead
    <3> QED
      BY <2>1, <3>3
  <2> HIDE DEF refs, content
  <2>3. ChunksOf(refs) = content
    BY <2>1, <2>2 DEF ChunksOf
  <2> QED
    BY <1>1, <2>3 DEF refs, content
<1> QED
  BY <1>2, <1>3

(* What depends only on the release and on parts of the build that stay.    *)
LEMMA Untouched ==
  ASSUME UNCHANGED <<source, release>>, build'.segments = build.segments,
         build'.options = build.options
  PROVE  /\ Tables' = Tables /\ Incremental' = Incremental
         /\ FreshSegments' = FreshSegments
         /\ ReleaseSound(release)' = ReleaseSound(release)
         /\ \A f \in Files : /\ Availability(f)' = Availability(f)
                            /\ Access(f)' = Access(f) /\ Content(f)' = Content(f)
         /\ build'.active = build.active /\ OpenSegments => OpenSegments'
         /\ build'.current = build.current /\ CurrentOffered => CurrentOffered'
         /\ build'.reuse = build.reuse /\ ReuseOffered => ReuseOffered'
<1>1. Tables' = Tables
  BY DEF Tables, Segment
<1>2. Incremental' = Incremental
  BY DEF Incremental
<1>3. build'.current = build.current /\ CurrentOffered => CurrentOffered'
  BY <1>1, <1>2 DEF CurrentOffered, Offered
<1>4. build'.reuse = build.reuse /\ ReuseOffered => ReuseOffered'
  <2> SUFFICES ASSUME build'.reuse = build.reuse, ReuseOffered,
                      NEW c \in Chunks, NEW a \in Availabilities
               PROVE  FromBefore(build.reuse[<<c, a>>], release.segments, c, a)'
    BY DEF ReuseOffered
  <2>1. FromBefore(build.reuse[<<c, a>>], release.segments, c, a)
    BY DEF ReuseOffered
  <2> DEFINE r == build.reuse[<<c, a>>]
  <2>2. r' = r /\ release'.segments = release.segments
    OBVIOUS
  <2>3. Leads(release.segments, r)' = Leads(release.segments, r)
    BY <2>2 DEF Leads
  <2> QED
    BY <1>2, <2>1, <2>2, <2>3 DEF FromBefore
<1>5. FreshSegments' = FreshSegments
  BY DEF FreshSegments
<1>6. ReleaseSound(release)' = ReleaseSound(release)
  BY DEF ReleaseSound
<1>7. build'.active = build.active /\ OpenSegments => OpenSegments'
  BY DEF OpenSegments
<1>8. \A f \in Files : /\ Availability(f)' = Availability(f)
                      /\ Access(f)' = Access(f) /\ Content(f)' = Content(f)
  BY DEF Availability, Access, Content
<1> QED
  BY <1>1, <1>2, <1>3, <1>4, <1>5, <1>6, <1>7, <1>8

LEMMA BeginFileInv ==
  ASSUME PlacementInv, BeginFile
  PROVE  PlacementInv'
<1>0. PICK f \in Nat : f = Len(build.files) + 1
  BY BuildTyped DEF PlacementInv
<1>1. /\ PlacementType /\ Running /\ build.chunks = <<>> /\ ReleaseSound(release)
      /\ FreshSegments /\ OpenSegments /\ CurrentOffered /\ ReuseOffered
      /\ FilesPlaced /\ FilesRead /\ EntriesTrue(build.cached) /\ EntriesTrue(cache.entries)
  BY DEF PlacementInv, BeginFile, Running
<1>2. f \in Files /\ f \in Nat \ {0} /\ Len(build.files) \in Nat
  BY <1>0, <1>1, BuildTyped, ConstantsAssumption DEF BeginFile, Files
<1>3. /\ phase = "files" /\ UNCHANGED <<source, release, cache, phase>>
      /\ build' = [build EXCEPT
           !.files   = Append(build.files, <<>>),
           !.vouched = CachedEntryUsable(f),
           !.chunks  = IF CachedEntryUsable(f) THEN build.cached[f].chunks ELSE Content(f)]
  BY <1>0 DEF BeginFile
<1>4. DOMAIN build = DOMAIN Idle
  BY <1>1 DEF PlacementType, BuildType
<1>5. /\ build'.files = Append(build.files, <<>>) /\ build'.vouched = CachedEntryUsable(f)
      /\ build'.chunks = IF CachedEntryUsable(f) THEN build.cached[f].chunks ELSE Content(f)
      /\ build'.options = build.options /\ build'.cached = build.cached
      /\ build'.reuse = build.reuse /\ build'.current = build.current
      /\ build'.segments = build.segments /\ build'.active = build.active
      /\ DOMAIN build' = DOMAIN Idle
  BY <1>3, <1>4 DEF Idle
<1>6. /\ build'.chunks = Content(f) /\ Content(f) \in Seq(Chunks)
      /\ CachedEntryUsable(f) \in BOOLEAN
  <2>1. source[f] \in DOMAIN History[f] /\ Content(f) \in Seq(Chunks)
    BY <1>1, <1>2, FilesTyped DEF PlacementType
  <2>2. CachedEntryUsable(f) => build.cached[f].chunks = Content(f)
    BY <1>1, <1>2, <2>1 DEF CachedEntryUsable, EntriesTrue, Content
  <2> QED
    BY <1>5, <2>1, <2>2 DEF CachedEntryUsable
<1>7. /\ build'.files \in Seq(Seq(RefType)) /\ Len(build'.files) = f
      /\ build'.files[f] = <<>> /\ \A g \in 1 .. f - 1 : build'.files[g] = build.files[g]
  BY <1>0, <1>1, <1>2, <1>5, BuildTyped
<1>8. PlacementType'
  BY <1>1, <1>3, <1>5, <1>6, <1>7 DEF PlacementType, BuildType
<1>9. /\ FreshSegments' /\ OpenSegments' /\ CurrentOffered' /\ ReuseOffered'
      /\ EntriesTrue(build.cached)' /\ EntriesTrue(cache.entries)'
      /\ ReleaseSound(release)' /\ Tables' = Tables /\ Incremental' = Incremental
  <2>1. EntriesTrue(build.cached)' /\ EntriesTrue(cache.entries)'
    BY <1>1, <1>3, <1>5 DEF EntriesTrue
  <2> QED
    BY <1>1, <1>3, <1>5, <2>1, Untouched
<1>10. f \in 1 .. N /\ N \in Nat /\ \A g \in 1 .. f : g \in Files
  BY <1>2, ConstantsAssumption DEF Files
<1>11. FilesPlaced'
  <2>1. DOMAIN build'.files = 1 .. f /\ DOMAIN build.files = 1 .. f - 1
    BY <1>0, <1>1, <1>2, <1>7, BuildTyped
  <2> SUFFICES ASSUME NEW g \in 1 .. f
               PROVE  /\ Laid(g, build'.files[g], Tables)
                      /\ \A i \in DOMAIN build'.files[g] :
                           LET class == Tables[build'.files[g][i].segment].class IN
                           class[1] = Availability(g) /\ (~Incremental => class[2] = Access(g))
    <3>1. \A g \in 1 .. f : Availability(g)' = Availability(g) /\ Access(g)' = Access(g)
      BY <1>3, <1>5, <1>10, Untouched
    <3>2. Tables' = Tables /\ Incremental' = Incremental /\ DOMAIN build'.files = 1 .. f
      BY <1>9, <2>1
    <3> QED
      BY <3>1, <3>2 DEF FilesPlaced
  <2>2. CASE g = f
    BY <1>7, <2>2 DEF Laid
  <2>3. CASE g # f
    <3>1. g \in 1 .. f - 1 /\ build'.files[g] = build.files[g]
      BY <1>2, <1>7, <2>3
    <3> QED
      BY <1>1, <2>1, <3>1 DEF FilesPlaced
  <2> QED
    BY <2>2, <2>3
<1>12. FilesRead'
  <2>1. \A g \in 1 .. f - 1 : ChunksOf(build'.files[g]) = Content(g)
    BY <1>0, <1>1, <1>7, LastFileRead
  <2>2. Content(f)' = Content(f) /\ \A g \in 1 .. f - 1 : Content(g)' = Content(g)
    BY <1>3 DEF Content
  <2>3. File' = f /\ f <= N /\ build'.files # <<>> /\ Len(build'.files[f]) = 0
    BY <1>2, <1>7 DEF File, Files
  <2>4. ChunksOf(build'.files[f]) = <<>> /\ DOMAIN build'.files[f] = {}
    BY <1>7 DEF ChunksOf
  <2> QED
    BY <1>2, <1>6, <1>7, <2>1, <2>2, <2>3, <2>4 DEF FilesRead
<1>13. VouchedForLasts'
  <2> SUFFICES ASSUME CachedEntryUsable(f), NEW c \in Range(build'.chunks)
               PROVE  Accepts(f, Current(f, c)') \/ Accepts(f, Existing(f, c)')
    BY <1>5, <1>7 DEF VouchedForLasts, File, Accepts
  <2>1. Current(f, c)' = Current(f, c) /\ Existing(f, c)' = Existing(f, c)
    BY <1>3, <1>5 DEF Current, Existing, Class, Availability, Access
  <2>2. build'.chunks = build.cached[f].chunks
    BY <1>5
  <2> QED
    BY <2>1, <2>2 DEF CachedEntryUsable
<1>14. (ReleaseHoldsSources /\ PlacedByClass)'
  BY <1>3 DEF ReleaseHoldsSources, PlacedByClass
<1> QED
  BY <1>3, <1>8, <1>9, <1>11, <1>12, <1>13, <1>14 DEF PlacementInv, Running

-------------------------------------------------------------------------------
(* Chunks, one after the other.                                             *)

(* Segments keep their class and their blocks while blocks are added.       *)
Grows(before, after) ==
  \A id \in DOMAIN before :
    /\ id \in DOMAIN after /\ after[id].class = before[id].class
    /\ \A o \in DOMAIN before[id].blocks :
         o \in DOMAIN after[id].blocks /\ after[id].blocks[o] = before[id].blocks[o]

LEMMA LeadsStill ==
  ASSUME NEW before, NEW after, Grows(before, after), NEW r, Leads(before, r)
  PROVE  Leads(after, r) /\ after[r.segment].class = before[r.segment].class
  BY DEF Grows, Leads

(* The file whose chunks are handled, and the next of them.                 *)
LEMMA AtChunkIs ==
  ASSUME PlacementType, FilesRead, AtChunk
  PROVE  /\ File \in Files /\ File \in DOMAIN build.files /\ build.files[File] \in Seq(RefType)
         /\ File \in Nat \ {0} /\ build.files # <<>> /\ File <= N
         /\ Chunk \in Chunks /\ Chunk \in Range(build.chunks)
         /\ Chunk = build.chunks[1]
         /\ Range(Tail(build.chunks)) \subseteq Range(build.chunks)
         /\ Len(Tail(build.chunks)) = Len(build.chunks) - 1
         /\ Tail(build.chunks) \in Seq(Chunks)
         /\ \A j \in DOMAIN Tail(build.chunks) :
              j \in Nat /\ j + 1 \in DOMAIN build.chunks
              /\ Tail(build.chunks)[j] = build.chunks[j + 1]
<1>1. build.files # <<>> /\ Len(build.files) \in Nat /\ Len(build.files) <= N
  BY BuildTyped DEF FilesRead, AtChunk
<1>2. File \in Nat \ {0} /\ File <= N /\ File \in Files
  BY <1>1, BuildTyped, ConstantsAssumption DEF File, Files
<1>3. File \in DOMAIN build.files /\ build.files[File] \in Seq(RefType)
  BY <1>2, BuildTyped DEF File
<1>4. PICK chunks \in Seq(Chunks) : chunks = build.chunks /\ chunks # <<>>
  BY BuildTyped DEF AtChunk
<1>5. /\ Head(chunks) = chunks[1] /\ chunks[1] \in Chunks /\ 1 \in DOMAIN chunks
      /\ Tail(chunks) \in Seq(Chunks) /\ Len(Tail(chunks)) = Len(chunks) - 1
      /\ Len(chunks) \in Nat /\ DOMAIN chunks = 1 .. Len(chunks)
      /\ DOMAIN Tail(chunks) = 1 .. Len(chunks) - 1
  BY <1>4
<1>6. \A j \in DOMAIN Tail(chunks) :
        j \in Nat /\ j + 1 \in DOMAIN chunks /\ Tail(chunks)[j] = chunks[j + 1]
  BY <1>4, <1>5
<1>7. Range(Tail(chunks)) \subseteq Range(chunks) /\ chunks[1] \in Range(chunks)
  BY <1>5, <1>6 DEF Range
<1> QED
  BY <1>1, <1>2, <1>3, <1>4, <1>5, <1>6, <1>7 DEF Chunk

(* A reference is placed behind the ones before it.                         *)
LEMMA AtNextOffsetIs ==
  ASSUME PlacementType, FilesRead, AtChunk, NEW r \in RefType, NEW ref, ref = AtNextOffset(r)
  PROVE  /\ ref \in RefType /\ ref # NoRef
         /\ ref.segment = r.segment /\ ref.ordinal = r.ordinal
         /\ ref.chunk = r.chunk /\ ref.codec = r.codec
         /\ ref.offset = IF build.files[File] = <<>> THEN 0
                         ELSE Last(build.files[File]).offset
                                + PlainLen[Last(build.files[File]).chunk]
<1>1. PICK refs \in Seq(RefType) : refs = build.files[File]
  BY AtChunkIs
<1> DEFINE offset == IF refs = <<>> THEN 0 ELSE Last(refs).offset + PlainLen[Last(refs).chunk]
<1>2. offset \in Nat
  <2> SUFFICES ASSUME refs # <<>> PROVE offset \in Nat
    OBVIOUS
  <2>1. Last(refs) \in RefType
    BY DEF Last
  <2>2. Last(refs).offset \in Nat /\ PlainLen[Last(refs).chunk] \in Nat
    BY <2>1, ConstantsAssumption DEF RefType
  <2> QED
    BY <2>2
<1>3. ref = [r EXCEPT !.offset = offset]
  BY <1>1 DEF AtNextOffset
<1> HIDE DEF offset
<1>4. /\ ref \in RefType
      /\ ref.segment = r.segment /\ ref.ordinal = r.ordinal
      /\ ref.chunk = r.chunk /\ ref.codec = r.codec /\ ref.offset = offset
  BY <1>2, <1>3 DEF RefType
<1>5. ref # NoRef
  BY <1>4, ConstantsAssumption DEF RefType, NoRef
<1> QED
  BY <1>1, <1>4, <1>5 DEF offset

(* The last file takes a block that leads where it should.                  *)
LEMMA TakesInv ==
  ASSUME PlacementType, FilesPlaced, FilesRead, AtChunk,
         UNCHANGED <<source, release>>, build'.options = build.options,
         NEW f, f = File, NEW c, c = Chunk, NEW r \in RefType,
         Grows(Tables, Tables'), Leads(Tables', r), r.chunk = c, Accepts(f, r),
         Tables'[r.segment].class[1] = Availability(f),
         ~Incremental => Tables'[r.segment].class[2] = Access(f),
         NEW ref, ref = AtNextOffset(r),
         build'.files = [build.files EXCEPT ![f] = Append(build.files[f], ref)],
         build'.chunks = Tail(build.chunks)
  PROVE  /\ build'.files \in Seq(Seq(RefType)) /\ build'.chunks \in Seq(Chunks)
         /\ File' = f /\ FilesPlaced' /\ FilesRead'
<1>1. PICK refs \in Seq(RefType) : refs = build.files[f]
  BY AtChunkIs
<1>2. /\ f \in Files /\ f \in DOMAIN build.files /\ f \in Nat \ {0} /\ Len(build.files) = f
      /\ DOMAIN build.files = 1 .. f /\ build.files # <<>> /\ f <= N
      /\ build.files \in Seq(Seq(RefType)) /\ \A g \in 1 .. f : g \in Files
  <2>1. /\ f \in Files /\ f \in DOMAIN build.files /\ f \in Nat \ {0} /\ Len(build.files) = f
        /\ DOMAIN build.files = 1 .. f /\ build.files # <<>> /\ f <= N
        /\ build.files \in Seq(Seq(RefType))
    BY AtChunkIs, BuildTyped DEF File
  <2> QED
    BY <2>1, ConstantsAssumption DEF Files
<1>3. /\ ref \in RefType /\ ref # NoRef /\ ref.segment = r.segment /\ ref.ordinal = r.ordinal
      /\ ref.chunk = r.chunk /\ ref.codec = r.codec
      /\ ref.offset = IF refs = <<>> THEN 0 ELSE Last(refs).offset + PlainLen[Last(refs).chunk]
  BY <1>1, AtNextOffsetIs
<1>4. PICK more \in Seq(RefType) :
        /\ more = Append(refs, ref) /\ Len(more) = Len(refs) + 1
        /\ DOMAIN more = 1 .. Len(refs) + 1 /\ Len(refs) \in Nat /\ DOMAIN refs = 1 .. Len(refs)
        /\ more[Len(refs) + 1] = ref /\ \A i \in 1 .. Len(refs) : more[i] = refs[i]
  <2> DEFINE s == Append(refs, ref)
  <2>1. /\ s \in Seq(RefType) /\ Len(s) = Len(refs) + 1 /\ s[Len(refs) + 1] = ref
        /\ \A i \in 1 .. Len(refs) : s[i] = refs[i]
    BY <1>3, AppendProperties
  <2>2. DOMAIN s = 1 .. Len(refs) + 1 /\ Len(refs) \in Nat /\ DOMAIN refs = 1 .. Len(refs)
    BY <2>1
  <2> QED
    BY <2>1, <2>2
<1>5. build'.files = [build.files EXCEPT ![f] = more]
  BY <1>1, <1>4
<1>6. /\ build'.files \in Seq(Seq(RefType)) /\ Len(build'.files) = f
      /\ DOMAIN build'.files = 1 .. f /\ build'.files[f] = more /\ build'.files # <<>>
      /\ \A g \in 1 .. f - 1 : g # f /\ build'.files[g] = build.files[g]
  <2>1. /\ build'.files \in Seq(Seq(RefType)) /\ Len(build'.files) = f
    BY <1>2, <1>4, <1>5
  <2>2. build'.files[f] = more /\ \A g \in 1 .. f - 1 : g # f /\ build'.files[g] = build.files[g]
    BY <1>2, <1>5
  <2> QED
    BY <1>2, <2>1, <2>2
<1>7. build'.chunks \in Seq(Chunks) /\ File' = f
  BY <1>6, AtChunkIs DEF File
<1>8. /\ Incremental' = Incremental
      /\ \A g \in Files : Availability(g)' = Availability(g) /\ Access(g)' = Access(g)
                          /\ Content(g)' = Content(g)
  BY DEF Incremental, Availability, Access, Content
<1>9. Laid(f, more, Tables')
  <2>1. Laid(f, refs, Tables)
    BY <1>1, <1>2 DEF FilesPlaced
  <2> SUFFICES ASSUME NEW i \in DOMAIN more
               PROVE  /\ Leads(Tables', more[i]) /\ Accepts(f, more[i])
                      /\ more[i].offset = IF i = 1 THEN 0
                                          ELSE more[i - 1].offset + PlainLen[more[i - 1].chunk]
    BY DEF Laid
  <2>2. CASE i \in 1 .. Len(refs)
    <3>1. i \in DOMAIN refs /\ more[i] = refs[i] /\ (i # 1 => more[i - 1] = refs[i - 1])
      BY <1>4, <2>2
    <3>2. Leads(Tables, refs[i]) /\ Accepts(f, refs[i])
          /\ refs[i].offset = IF i = 1 THEN 0 ELSE refs[i - 1].offset + PlainLen[refs[i - 1].chunk]
      BY <2>1, <3>1 DEF Laid
    <3> QED
      BY <3>1, <3>2, LeadsStill
  <2>3. CASE i = Len(refs) + 1
    <3>1. more[i] = ref /\ (i = 1 <=> refs = <<>>)
      BY <1>4, <2>3
    <3>2. refs # <<>> => more[i - 1] = Last(refs)
      <4>1. i - 1 = Len(refs) /\ (refs # <<>> => Len(refs) \in 1 .. Len(refs))
        BY <1>4, <2>3
      <4> QED
        BY <1>4, <4>1 DEF Last
    <3>3. Leads(Tables', ref) /\ Accepts(f, ref)
      BY <1>3 DEF Leads, Accepts
    <3> QED
      BY <1>3, <3>1, <3>2, <3>3
  <2> QED
    BY <1>4, <2>2, <2>3
<1>10. FilesPlaced'
  <2>1. ASSUME NEW g \in 1 .. f, NEW i \in DOMAIN build'.files[g]
        PROVE  LET class == Tables'[build'.files[g][i].segment].class IN
               class[1] = Availability(g) /\ (~Incremental => class[2] = Access(g))
    <3>1. CASE g = f /\ i = Len(refs) + 1
      <4>1. build'.files[g][i] = ref
        BY <1>4, <1>6, <3>1
      <4> QED
        BY <1>3, <3>1, <4>1
    <3>2. CASE ~(g = f /\ i = Len(refs) + 1)
      <4>1. i \in DOMAIN build.files[g] /\ build'.files[g][i] = build.files[g][i]
        BY <1>1, <1>2, <1>4, <1>6, <3>2
      <4>2. /\ Leads(Tables, build.files[g][i])
            /\ LET class == Tables[build.files[g][i].segment].class IN
               class[1] = Availability(g) /\ (~Incremental => class[2] = Access(g))
        BY <1>2, <4>1 DEF FilesPlaced, Laid
      <4>3. Tables'[build.files[g][i].segment].class = Tables[build.files[g][i].segment].class
        BY <4>2, LeadsStill
      <4> QED
        BY <4>1, <4>2, <4>3
    <3> QED
      BY <3>1, <3>2
  <2>2. ASSUME NEW g \in 1 .. f
        PROVE  Laid(g, build'.files[g], Tables')
    <3>1. CASE g = f
      BY <1>6, <1>9, <3>1
    <3>2. CASE g # f
      <4>1. build'.files[g] = build.files[g] /\ Laid(g, build.files[g], Tables)
        BY <1>2, <1>6, <3>2 DEF FilesPlaced
      <4>2. \A i \in DOMAIN build.files[g] : Leads(Tables', build.files[g][i])
        BY <4>1, LeadsStill DEF Laid
      <4> QED
        BY <4>1, <4>2 DEF Laid
    <3> QED
      BY <3>1, <3>2
  <2> SUFFICES ASSUME NEW g \in 1 .. f
               PROVE  /\ Laid(g, build.files[g], Tables)'
                      /\ \A i \in DOMAIN build'.files[g] :
                           LET class == Tables'[build'.files[g][i].segment].class IN
                           class[1] = Availability(g)'
                           /\ (~Incremental' => class[2] = Access(g)')
    BY <1>6 DEF FilesPlaced
  <2>3. Availability(g)' = Availability(g) /\ Access(g)' = Access(g)
    BY <1>2, <1>8
  <2>4. Laid(g, build.files[g], Tables)'
    BY <2>2 DEF Laid, Leads, Accepts
  <2> QED
    BY <1>8, <2>1, <2>3, <2>4
<1>11. FilesRead'
  <2>1. /\ Len(refs) + Len(build.chunks) = Len(Content(f))
        /\ \A i \in DOMAIN refs : refs[i].chunk = Content(f)[i]
        /\ \A j \in DOMAIN build.chunks : build.chunks[j] = Content(f)[Len(refs) + j]
        /\ \A g \in 1 .. f - 1 : ChunksOf(build.files[g]) = Content(g)
    BY <1>1, <1>2 DEF FilesRead
  <2>2. Len(build.chunks) \in Nat /\ build.chunks # <<>> /\ 1 \in DOMAIN build.chunks
    BY BuildTyped DEF AtChunk
  <2>3. /\ Len(build'.chunks) = Len(build.chunks) - 1
        /\ c = build.chunks[1]
        /\ \A j \in DOMAIN build'.chunks :
             j \in Nat /\ j + 1 \in DOMAIN build.chunks /\ build'.chunks[j] = build.chunks[j + 1]
    BY AtChunkIs
  <2>4. Len(more) + Len(build'.chunks) = Len(Content(f))
    <3>1. Len(more) = Len(refs) + 1 /\ Len(refs) \in Nat
      BY <1>4
    <3>2. Len(build'.chunks) = Len(build.chunks) - 1 /\ Len(build.chunks) \in Nat
      BY <2>2, <2>3
    <3>3. Len(refs) + Len(build.chunks) = Len(Content(f))
      BY <2>1
    <3>4. \A a, b \in Nat : (a + 1) + (b - 1) = a + b
      OBVIOUS
    <3> QED
      BY <3>1, <3>2, <3>3, <3>4
  <2>5. ASSUME NEW i \in DOMAIN more
        PROVE  more[i].chunk = Content(f)[i]
    <3>1. CASE i \in 1 .. Len(refs)
      BY <1>4, <2>1, <3>1
    <3>2. CASE i = Len(refs) + 1
      BY <1>3, <1>4, <2>1, <2>2, <2>3, <3>2
    <3> QED
      BY <1>4, <3>1, <3>2
  <2>6. ASSUME NEW j \in DOMAIN build'.chunks
        PROVE  build'.chunks[j] = Content(f)[Len(more) + j]
    <3>1. j \in Nat /\ j + 1 \in DOMAIN build.chunks /\ build'.chunks[j] = build.chunks[j + 1]
      BY <2>3
    <3>2. build.chunks[j + 1] = Content(f)[Len(refs) + (j + 1)]
      BY <2>1, <3>1
    <3>3. Len(refs) + (j + 1) = Len(more) + j
      BY <1>4, <3>1
    <3> QED
      BY <3>1, <3>2, <3>3
  <2>7. \A g \in 1 .. f - 1 : g \in Files /\ ChunksOf(build'.files[g]) = Content(g)
    BY <1>2, <1>6, <2>1
  <2>8. Content(f)' = Content(f) /\ \A g \in 1 .. f - 1 : Content(g)' = Content(g)
    BY <1>2, <1>8, <2>7
  <2>9. N' = N /\ File' = f /\ Len(build'.files) = f /\ build'.files[f] = more
    BY <1>6, <1>7
  <2>10. (\A g \in 1 .. Len(build.files) - 1 : ChunksOf(build.files[g]) = Content(g))'
    BY <2>7, <2>8, <2>9 DEF ChunksOf
  <2>11. build'.files[File'] = more /\ Content(File)' = Content(f)
    BY <2>8, <2>9
  <2>12. (LET taken == build.files[File] IN
          /\ Len(taken) + Len(build.chunks) = Len(Content(File))
          /\ \A i \in DOMAIN taken : taken[i].chunk = Content(File)[i]
          /\ \A j \in DOMAIN build.chunks : build.chunks[j] = Content(File)[Len(taken) + j])'
    BY <2>4, <2>5, <2>6, <2>11
  <2> QED
    BY <1>2, <1>6, <2>9, <2>10, <2>12 DEF FilesRead
<1> QED
  BY <1>6, <1>7, <1>10, <1>11

(* What the invariant says of a build at a chunk of its last file.          *)
LEMMA AtChunkInv ==
  ASSUME PlacementInv, AtChunk
  PROVE  /\ PlacementType /\ ReleaseSound(release) /\ EntriesTrue(cache.entries)
         /\ EntriesTrue(build.cached)
         /\ FreshSegments /\ OpenSegments /\ CurrentOffered /\ ReuseOffered
         /\ FilesPlaced /\ FilesRead /\ VouchedForLasts
         /\ phase = "files" /\ DOMAIN build = DOMAIN Idle
         /\ Chunk \in Chunks /\ File \in Files /\ Class(File) \in Classes
         /\ Class(File)[1] = Availability(File) /\ Class(File)[2] = Access(File)
         /\ Availability(File) \in Availabilities
         /\ Current(File, Chunk) \in RefType \union {NoRef}
         /\ Existing(File, Chunk) \in RefType \union {NoRef}
<1>1. /\ PlacementType /\ ReleaseSound(release) /\ EntriesTrue(cache.entries)
      /\ EntriesTrue(build.cached)
      /\ FreshSegments /\ OpenSegments /\ CurrentOffered /\ ReuseOffered
      /\ FilesPlaced /\ FilesRead /\ VouchedForLasts /\ phase = "files"
  BY DEF PlacementInv, AtChunk, Running
<1>2. Chunk \in Chunks /\ File \in Files
  BY <1>1, AtChunkIs
<1>3. /\ Class(File) \in Classes
      /\ Class(File)[1] = Availability(File) /\ Class(File)[2] = Access(File)
      /\ Availability(File) \in Availabilities
  BY <1>1, <1>2, FilesTyped
<1>4. /\ Current(File, Chunk) \in RefType \union {NoRef}
      /\ Existing(File, Chunk) \in RefType \union {NoRef}
      /\ DOMAIN build = DOMAIN Idle
  BY <1>1, <1>2, <1>3 DEF PlacementType, BuildType, Current, Existing
<1> QED
  BY <1>1, <1>2, <1>3, <1>4

LEMMA ShareBlockInv ==
  ASSUME PlacementInv, ShareBlock
  PROVE  PlacementInv'
<1>1. AtChunk /\ Accepts(File, Current(File, Chunk))
  BY DEF ShareBlock
<1> PICK f \in Files, c \in Chunks, r \in RefType :
      f = File /\ c = Chunk /\ r = Current(f, c)
  BY <1>1, AtChunkInv DEF Accepts
<1> PICK ref : ref = AtNextOffset(r)
  OBVIOUS
<1>2. /\ UNCHANGED <<source, release, cache, phase>>
      /\ DOMAIN build' = DOMAIN Idle
      /\ build'.files = [build.files EXCEPT ![f] = Append(build.files[f], ref)]
      /\ build'.chunks = Tail(build.chunks) /\ build'.vouched = build.vouched
      /\ build'.options = build.options /\ build'.cached = build.cached
      /\ build'.reuse = build.reuse /\ build'.current = build.current
      /\ build'.segments = build.segments /\ build'.active = build.active
  BY <1>1, AtChunkInv DEF ShareBlock, Idle
<1>3. /\ Offered(r, Tables, c, Class(f)) /\ r # NoRef /\ Accepts(f, r)
      /\ Class(f)[1] = Availability(f) /\ Class(f)[2] = Access(f)
  BY <1>1, AtChunkInv DEF CurrentOffered, Current, Accepts
<1>4. Tables' = Tables /\ Grows(Tables, Tables')
  BY <1>2, Untouched DEF Grows
<1>5. /\ build'.files \in Seq(Seq(RefType)) /\ build'.chunks \in Seq(Chunks)
      /\ File' = f /\ FilesPlaced' /\ FilesRead'
  BY <1>1, <1>2, <1>3, <1>4, TakesInv, AtChunkInv DEF Offered
<1>6. PlacementType'
  BY <1>1, <1>2, <1>5, AtChunkInv DEF PlacementType, BuildType
<1>7. /\ FreshSegments' /\ OpenSegments' /\ CurrentOffered' /\ ReuseOffered'
      /\ ReleaseSound(release)' /\ EntriesTrue(build.cached)' /\ EntriesTrue(cache.entries)'
  <2>1. EntriesTrue(build.cached)' /\ EntriesTrue(cache.entries)'
    BY <1>1, <1>2, AtChunkInv DEF EntriesTrue
  <2> QED
    BY <1>1, <1>2, <2>1, Untouched, AtChunkInv
<1>8. VouchedForLasts'
  <2> SUFFICES ASSUME build.vouched, NEW d \in Range(build'.chunks)
               PROVE  Accepts(f, Current(f, d)') \/ Accepts(f, Existing(f, d)')
    BY <1>2, <1>5 DEF VouchedForLasts, Accepts
  <2>1. Current(f, d)' = Current(f, d) /\ Existing(f, d)' = Existing(f, d)
    BY <1>2 DEF Current, Existing, Class, Availability, Access
  <2>2. d \in Range(build.chunks)
    BY <1>1, <1>2, AtChunkInv, AtChunkIs
  <2> QED
    BY <1>1, <2>1, <2>2, AtChunkInv DEF VouchedForLasts
<1>9. (ReleaseHoldsSources /\ PlacedByClass)'
  BY <1>1, <1>2, AtChunkInv DEF ReleaseHoldsSources, PlacedByClass
<1> QED
  BY <1>1, <1>2, <1>5, <1>6, <1>7, <1>8, <1>9, AtChunkInv DEF PlacementInv, Running

LEMMA ReuseBlockInv ==
  ASSUME PlacementInv, ReuseBlock
  PROVE  PlacementInv'
<1>1. AtChunk /\ Accepts(File, Existing(File, Chunk))
  BY DEF ReuseBlock
<1> PICK f \in Files, c \in Chunks, k \in Classes, r \in RefType :
      f = File /\ c = Chunk /\ k = Class(f) /\ r = Existing(f, c)
  BY <1>1, AtChunkInv DEF Accepts
<1> PICK ref : ref = AtNextOffset(r)
  OBVIOUS
<1>2. /\ UNCHANGED <<source, release, cache, phase>>
      /\ DOMAIN build' = DOMAIN Idle
      /\ build'.files = [build.files EXCEPT ![f] = Append(build.files[f], ref)]
      /\ build'.chunks = Tail(build.chunks) /\ build'.vouched = build.vouched
      /\ build'.options = build.options /\ build'.cached = build.cached
      /\ build'.reuse = build.reuse /\ build'.current = [build.current EXCEPT ![<<c, k>>] = ref]
      /\ build'.segments = build.segments /\ build'.active = build.active
  BY <1>1, AtChunkInv DEF ReuseBlock, Idle, Key
<1>3. /\ Leads(Tables, r) /\ Tables[r.segment].class[1] = k[1] /\ r.chunk = c
      /\ r # NoRef /\ Accepts(f, r) /\ Incremental
      /\ k[1] = Availability(f) /\ k[2] = Access(f)
  <2>1. FromBefore(r, release.segments, c, Availability(f)) /\ r # NoRef
    BY <1>1, AtChunkInv DEF ReuseOffered, Existing, Accepts
  <2>2. Leads(release.segments, r) /\ r.chunk = c /\ Incremental
        /\ release.segments[r.segment].class[1] = Availability(f)
    BY <2>1 DEF FromBefore
  <2>3. Leads(Tables, r) /\ Tables[r.segment] = release.segments[r.segment]
    BY <1>1, <2>2, LeadsToOld, AtChunkInv
  <2> QED
    BY <1>1, <2>1, <2>2, <2>3, AtChunkInv
<1>4. Tables' = Tables /\ Grows(Tables, Tables')
  BY <1>2, Untouched DEF Grows
<1>5. /\ build'.files \in Seq(Seq(RefType)) /\ build'.chunks \in Seq(Chunks)
      /\ File' = f /\ FilesPlaced' /\ FilesRead'
  BY <1>1, <1>2, <1>3, <1>4, TakesInv, AtChunkInv
<1>6. /\ ref \in RefType /\ ref # NoRef /\ ref.segment = r.segment /\ ref.ordinal = r.ordinal
      /\ ref.chunk = c /\ ref.codec = r.codec
  BY <1>1, <1>3, AtNextOffsetIs, AtChunkInv
<1>7. PlacementType'
  <2>1. build'.current \in [Chunks \X Classes -> RefType \union {NoRef}]
    BY <1>1, <1>2, <1>6, AtChunkInv DEF PlacementType, BuildType
  <2> QED
    BY <1>1, <1>2, <1>5, <2>1, AtChunkInv DEF PlacementType, BuildType
<1>8. /\ FreshSegments' /\ OpenSegments' /\ ReuseOffered' /\ Incremental' = Incremental
      /\ ReleaseSound(release)' /\ EntriesTrue(build.cached)' /\ EntriesTrue(cache.entries)'
  <2>1. EntriesTrue(build.cached)' /\ EntriesTrue(cache.entries)'
    BY <1>1, <1>2, AtChunkInv DEF EntriesTrue
  <2> QED
    BY <1>1, <1>2, <2>1, Untouched, AtChunkInv
<1>9. CurrentOffered'
  <2> SUFFICES ASSUME NEW d \in Chunks, NEW l \in Classes
               PROVE  Offered(build'.current[<<d, l>>], Tables, d, l)
    BY <1>4, <1>8 DEF CurrentOffered, Offered
  <2>1. CASE d = c /\ l = k
    <3>1. build'.current[<<d, l>>] = ref
      BY <1>1, <1>2, <2>1, AtChunkInv DEF PlacementType, BuildType
    <3>2. Leads(Tables, ref)
      BY <1>3, <1>6 DEF Leads
    <3> QED
      BY <1>3, <1>6, <2>1, <3>1, <3>2 DEF Offered
  <2>2. CASE ~(d = c /\ l = k)
    <3>1. build'.current[<<d, l>>] = build.current[<<d, l>>]
      BY <1>1, <1>2, <2>2, AtChunkInv DEF PlacementType, BuildType
    <3> QED
      BY <1>1, <3>1, AtChunkInv DEF CurrentOffered
  <2> QED
    BY <2>1, <2>2
<1>10. VouchedForLasts'
  <2> SUFFICES ASSUME build.vouched, NEW d \in Range(build'.chunks)
               PROVE  Accepts(f, Current(f, d)') \/ Accepts(f, Existing(f, d)')
    BY <1>2, <1>5 DEF VouchedForLasts, Accepts
  <2>1. /\ Current(f, d)' = build'.current[<<d, k>>] /\ Existing(f, d)' = Existing(f, d)
        /\ Current(f, d) = build.current[<<d, k>>]
    BY <1>2 DEF Current, Existing, Class, Availability, Access
  <2>2. d \in Range(build.chunks) /\ d \in Chunks
    BY <1>1, <1>2, AtChunkInv, AtChunkIs, BuildTyped DEF Range
  <2>3. CASE d = c
    <3>1. build'.current[<<d, k>>] = ref
      BY <1>1, <1>2, <2>3, AtChunkInv DEF PlacementType, BuildType
    <3> QED
      BY <1>3, <1>6, <2>1, <3>1 DEF Accepts
  <2>4. CASE d # c
    <3>1. build'.current[<<d, k>>] = build.current[<<d, k>>]
      BY <1>1, <1>2, <2>2, <2>4, AtChunkInv DEF PlacementType, BuildType
    <3> QED
      BY <1>1, <2>1, <2>2, <3>1, AtChunkInv DEF VouchedForLasts
  <2> QED
    BY <2>3, <2>4
<1>11. (ReleaseHoldsSources /\ PlacedByClass)'
  BY <1>1, <1>2, AtChunkInv DEF ReleaseHoldsSources, PlacedByClass
<1> QED
  BY <1>1, <1>2, <1>5, <1>7, <1>8, <1>9, <1>10, <1>11, AtChunkInv DEF PlacementInv, Running

(* A block comes to a new segment, or behind the blocks of the open one.     *)
Writes(f, c, k, id, block, blocks, r, ref) ==
  /\ f = File /\ c = Chunk /\ k = Class(f) /\ block = Encoded(f, c)
  /\ r = [segment |-> id, ordinal |-> Len(blocks) + 1, offset |-> 0, chunk |-> c,
          codec |-> block.codec]
  /\ ref = AtNextOffset(r)
  /\ \/ blocks = <<>> /\ id \notin DOMAIN Tables
     \/ /\ id \in DOMAIN build.segments /\ HasRoom(id, block)
        /\ build.segments[id] = [class |-> k, blocks |-> blocks]
  /\ AtChunk /\ UNCHANGED <<source, release, cache, phase>>
  /\ DOMAIN build' = DOMAIN Idle
  /\ build'.files = [build.files EXCEPT ![f] = Append(build.files[f], ref)]
  /\ build'.chunks = Tail(build.chunks)
  /\ build'.vouched = build.vouched /\ build'.options = build.options
  /\ build'.cached = build.cached /\ build'.reuse = build.reuse /\ build'.excluded = build.excluded
  /\ build'.segments = Written(id, [class |-> k, blocks |-> Append(blocks, block)])
  /\ build'.active = [build.active EXCEPT ![k] = id]
  /\ build'.current = [build.current EXCEPT ![<<c, k>>] = ref]
  /\ ~Accepts(f, Current(f, c))

(* What the cache vouched for is never missed, so that a block is written.   *)
LEMMA WriteBlockIs ==
  ASSUME PlacementInv, WriteBlock
  PROVE  \E f \in Files, c \in Chunks, k \in Classes, id \in SegmentIds, block \in BlockType,
            blocks \in Seq(BlockType), r \in RefType : \E ref :
           Writes(f, c, k, id, block, blocks, r, ref)
<1>1. /\ AtChunk
      /\ ~Accepts(File, Current(File, Chunk)) /\ ~Accepts(File, Existing(File, Chunk))
  BY DEF WriteBlock
<1>2. build.vouched = FALSE
  <2>1. build.vouched \in BOOLEAN /\ VouchedForLasts /\ Chunk \in Range(build.chunks)
    BY <1>1, AtChunkInv, AtChunkIs DEF PlacementType, BuildType
  <2> QED
    BY <1>1, <2>1 DEF VouchedForLasts
<1> PICK f \in Files, c \in Chunks, k \in Classes : f = File /\ c = Chunk /\ k = Class(f)
  BY <1>1, AtChunkInv
<1>3. PICK block \in BlockType : block = Encoded(f, c) /\ block.chunk = c
  <2>1. Encoded(f, c) \in BlockType /\ Encoded(f, c).chunk = c
    BY DEF Encoded, BlockType, Codecs
  <2> QED
    BY <2>1
<1>4. PICK open : open = build.active[k]
  OBVIOUS
<1> DEFINE stays == open # 0 /\ HasRoom(open, block)
<1>5. stays => /\ open \in DOMAIN build.segments /\ build.segments[open] \in SegmentType
               /\ build.segments[open].class = k /\ open \in SegmentIds
  BY <1>1, <1>4, AtChunkInv DEF OpenSegments, PlacementType, BuildType, IsTable
<1>6. PICK id : id = IF stays THEN open ELSE Min(FreshIds)
  OBVIOUS
<1>7. PICK blocks : blocks = IF stays THEN build.segments[id].blocks ELSE <<>>
  OBVIOUS
<1>8. PICK r : r = [segment |-> id, ordinal |-> Len(blocks) + 1, offset |-> 0, chunk |-> c,
                    codec |-> block.codec]
  OBVIOUS
<1>9. PICK ref : ref = AtNextOffset(r)
  OBVIOUS
<1>10. /\ stays \/ FreshIds # {}
       /\ build' = [build EXCEPT
            !.chunks = Tail(build.chunks),
            !.segments = Written(id, [class |-> k, blocks |-> Append(blocks, block)]),
            !.active = [build.active EXCEPT ![k] = id],
            !.files = [build.files EXCEPT ![f] = Append(build.files[f], ref)],
            !.current = [build.current EXCEPT ![<<c, k>>] = ref]]
       /\ UNCHANGED <<source, release, cache, phase>>
  <2> DEFINE theBlock == Encoded(File, Chunk)
             theOpen == build.active[Class(File)]
             theStays == theOpen # 0 /\ HasRoom(theOpen, theBlock)
             theId == IF theStays THEN theOpen ELSE Min(FreshIds)
             theBlocks == IF theStays THEN build.segments[theId].blocks ELSE <<>>
             theRef == AtNextOffset([segment |-> theId, ordinal |-> Len(theBlocks) + 1,
                                     offset |-> 0, chunk |-> Chunk, codec |-> theBlock.codec])
  <2>1. /\ theStays \/ FreshIds # {}
        /\ build' = [build EXCEPT
             !.chunks = Tail(@),
             !.segments = Written(theId, [class |-> Class(File),
                                          blocks |-> Append(theBlocks, theBlock)]),
             !.active[Class(File)] = theId,
             !.files[File] = Append(@, theRef),
             !.current = Remembered(theRef)]
        /\ UNCHANGED <<source, release, cache, phase>>
    BY <1>2 DEF WriteBlock
  <2>2. theBlock = block /\ theOpen = open
    BY <1>3, <1>4
  <2>3. theStays <=> stays
    BY <2>2
  <2>4. theId = id
    BY <1>6, <2>2, <2>3
  <2>5. theBlocks = blocks
    BY <1>7, <2>3, <2>4
  <2>6. theRef = ref
    BY <1>8, <1>9, <2>2, <2>4, <2>5
  <2>7. Remembered(ref) = [build.current EXCEPT ![<<c, k>>] = ref]
    BY DEF Remembered, Key
  <2> HIDE DEF theBlock, theOpen, theStays, theId, theBlocks, theRef, stays
  <2> QED
    BY <2>1, <2>2, <2>3, <2>4, <2>5, <2>6, <2>7
<1>11. id \in SegmentIds /\ (~stays => id \notin DOMAIN Tables)
  <2>1. CASE stays
    BY <1>5, <1>6, <2>1
  <2>2. CASE ~stays
    <3>1. FreshIds \in SUBSET Nat /\ FreshIds # {}
      BY <1>10, <2>2, ConstantsAssumption DEF FreshIds
    <3>2. Min(FreshIds) \in FreshIds
      BY <3>1, MinIsIn
    <3> QED
      BY <1>6, <2>2, <3>2, TablesAre DEF FreshIds
  <2> QED
    BY <2>1, <2>2
<1>12. blocks \in Seq(BlockType) /\ (stays => build.segments[id] = [class |-> k, blocks |-> blocks])
  <2>1. CASE stays
    BY <1>5, <1>6, <1>7, <2>1 DEF SegmentType
  <2>2. CASE ~stays
    BY <1>7, <2>2
  <2> QED
    BY <2>1, <2>2
<1>13. r \in RefType
  BY <1>3, <1>8, <1>11, <1>12 DEF RefType, BlockType
<1>14. (blocks = <<>> /\ id \notin DOMAIN Tables)
       \/ (/\ id \in DOMAIN build.segments /\ HasRoom(id, block)
           /\ build.segments[id] = [class |-> k, blocks |-> blocks])
  BY <1>5, <1>6, <1>7, <1>11, <1>12
<1>15. /\ DOMAIN build' = DOMAIN Idle
       /\ build'.files = [build.files EXCEPT ![f] = Append(build.files[f], ref)]
       /\ build'.chunks = Tail(build.chunks)
       /\ build'.vouched = build.vouched /\ build'.options = build.options
       /\ build'.cached = build.cached /\ build'.reuse = build.reuse /\ build'.excluded = build.excluded
       /\ build'.segments = Written(id, [class |-> k, blocks |-> Append(blocks, block)])
       /\ build'.active = [build.active EXCEPT ![k] = id]
       /\ build'.current = [build.current EXCEPT ![<<c, k>>] = ref]
  BY <1>1, <1>10, AtChunkInv DEF Idle
<1>16. ~Accepts(f, Current(f, c))
  BY <1>1
<1> HIDE DEF stays
<1>17. Writes(f, c, k, id, block, blocks, r, ref)
  BY <1>1, <1>3, <1>8, <1>9, <1>10, <1>14, <1>15, <1>16 DEF Writes
<1> QED
  BY <1>11, <1>12, <1>13, <1>17

(* The segments after a block was written.                                  *)
LEMMA WritesInto ==
  ASSUME PlacementInv, NEW f \in Files, NEW c \in Chunks, NEW k \in Classes,
         NEW id \in SegmentIds, NEW block \in BlockType, NEW blocks \in Seq(BlockType),
         NEW r \in RefType, NEW ref, Writes(f, c, k, id, block, blocks, r, ref)
  PROVE  /\ DOMAIN build'.segments = DOMAIN build.segments \union {id}
         /\ build'.segments[id] = [class |-> k, blocks |-> Append(blocks, block)]
         /\ \A other \in DOMAIN build.segments \ {id} :
              build'.segments[other] = build.segments[other]
         /\ IsTable(build'.segments) /\ FreshSegments' /\ OpenSegments'
         /\ Grows(Tables, Tables') /\ Tables'[id].class = Class(f)
         /\ Leads(Tables', r) /\ Accepts(f, r)
<1>1. /\ AtChunk /\ release' = release
      /\ build'.segments = Written(id, [class |-> k, blocks |-> Append(blocks, block)])
      /\ build'.active = [build.active EXCEPT ![k] = id]
      /\ \/ blocks = <<>> /\ id \notin DOMAIN Tables
         \/ /\ id \in DOMAIN build.segments
            /\ build.segments[id] = [class |-> k, blocks |-> blocks]
  BY DEF Writes
<1>2. FreshSegments /\ OpenSegments /\ PlacementType
  BY <1>1, AtChunkInv
<1>3. PICK more \in Seq(BlockType) :
        /\ more = Append(blocks, block) /\ Len(more) = Len(blocks) + 1
        /\ DOMAIN more = 1 .. Len(blocks) + 1 /\ Len(blocks) \in Nat
        /\ DOMAIN blocks = 1 .. Len(blocks)
        /\ more[Len(blocks) + 1] = block /\ \A i \in 1 .. Len(blocks) : more[i] = blocks[i]
  <2> DEFINE s == Append(blocks, block)
  <2>1. /\ s \in Seq(BlockType) /\ Len(s) = Len(blocks) + 1 /\ s[Len(blocks) + 1] = block
        /\ \A i \in 1 .. Len(blocks) : s[i] = blocks[i]
    BY AppendProperties
  <2>2. DOMAIN s = 1 .. Len(blocks) + 1 /\ Len(blocks) \in Nat /\ DOMAIN blocks = 1 .. Len(blocks)
    BY <2>1
  <2> QED
    BY <2>1, <2>2
<1>4. PICK segment : segment = [class |-> k, blocks |-> more]
  OBVIOUS
<1>5. /\ DOMAIN build'.segments = DOMAIN build.segments \union {id}
      /\ build'.segments[id] = segment
      /\ \A other \in DOMAIN build.segments \ {id} :
           build'.segments[other] = build.segments[other]
  BY <1>1, <1>3, <1>4 DEF Written
<1>6. IsTable(build'.segments)
  <2>1. IsTable(build.segments)
    BY <1>2 DEF PlacementType, BuildType
  <2>2. segment \in SegmentType
    BY <1>4 DEF SegmentType
  <2> QED
    BY <1>5, <2>1, <2>2 DEF IsTable
<1>7. id \notin DOMAIN release.segments
  BY <1>1, <1>2, TablesAre DEF FreshSegments
<1>8. FreshSegments'
  BY <1>1, <1>2, <1>5, <1>7 DEF FreshSegments
<1>9. /\ DOMAIN Tables = DOMAIN build.segments \union DOMAIN release.segments
      /\ DOMAIN Tables' = DOMAIN Tables \union {id} /\ Tables'[id] = segment
      /\ \A other \in DOMAIN Tables \ {id} : Tables'[other] = Tables[other]
  <2>1. /\ DOMAIN Tables' = DOMAIN build'.segments \union DOMAIN release'.segments
        /\ \A x \in DOMAIN build'.segments : Tables'[x] = build'.segments[x]
        /\ \A x \in DOMAIN release'.segments \ DOMAIN build'.segments :
             Tables'[x] = release'.segments[x]
    BY DEF Tables, Segment
  <2> QED
    BY <1>1, <1>5, <2>1, TablesAre
<1>10. id \in DOMAIN Tables => Tables[id] = [class |-> k, blocks |-> blocks]
  BY <1>1, TablesAre
<1>11. Grows(Tables, Tables')
  BY <1>3, <1>4, <1>9, <1>10 DEF Grows
<1>12. OpenSegments'
  <2> SUFFICES ASSUME NEW l \in Classes, build'.active[l] # 0
               PROVE  /\ build'.active[l] \in DOMAIN build'.segments
                      /\ build'.segments[build'.active[l]].class = l
    BY DEF OpenSegments
  <2>1. build.active \in [Classes -> SegmentIds \union {0}]
    BY <1>2 DEF PlacementType, BuildType
  <2>2. CASE l = k
    BY <1>1, <1>4, <1>5, <2>1, <2>2
  <2>3. CASE l # k
    <3>1. /\ build'.active[l] = build.active[l] /\ build.active[l] \in DOMAIN build.segments
          /\ build.segments[build.active[l]].class = l
      BY <1>1, <1>2, <2>1, <2>3 DEF OpenSegments
    <3>2. build.active[l] # id
      BY <1>1, <2>3, <3>1, TablesAre
    <3> QED
      BY <1>5, <3>1, <3>2
  <2> QED
    BY <2>2, <2>3
<1>13. /\ r.segment = id /\ r.ordinal = Len(blocks) + 1 /\ r.chunk = c /\ r.codec = block.codec
       /\ block = Encoded(f, c) /\ k = Class(f)
  BY DEF Writes
<1>14. block = [chunk |-> c, codec |-> block.codec]
  BY <1>13 DEF Encoded
<1>15. Leads(Tables', r)
  <2>1. Tables'[id].blocks = more /\ id \in DOMAIN Tables'
    BY <1>4, <1>9
  <2>2. Len(blocks) + 1 \in DOMAIN more
    BY <1>3
  <2> QED
    BY <1>3, <1>13, <1>14, <2>1, <2>2 DEF Leads
<1>16. Accepts(f, r)
  <2>1. r # NoRef
    BY <1>13, ConstantsAssumption DEF NoRef
  <2>2. PolicyOf[f] # "Auto" => block.codec = "Raw"
    BY <1>13 DEF Encoded
  <2> QED
    BY <1>13, <2>1, <2>2 DEF Accepts
<1> QED
  BY <1>3, <1>4, <1>5, <1>6, <1>8, <1>9, <1>11, <1>12, <1>13, <1>15, <1>16

LEMMA WriteBlockInv ==
  ASSUME PlacementInv, WriteBlock
  PROVE  PlacementInv'
<1> PICK f \in Files, c \in Chunks, k \in Classes, id \in SegmentIds, block \in BlockType,
         blocks \in Seq(BlockType), r \in RefType :
           \E ref : Writes(f, c, k, id, block, blocks, r, ref)
  BY WriteBlockIs
<1> PICK ref : Writes(f, c, k, id, block, blocks, r, ref)
  OBVIOUS
<1>1. AtChunk
  BY DEF Writes
<1>2. /\ UNCHANGED <<source, release, cache, phase>>
      /\ DOMAIN build' = DOMAIN Idle
      /\ f = File /\ c = Chunk /\ k = Class(f) /\ ref = AtNextOffset(r) /\ r.segment = id
      /\ build'.files = [build.files EXCEPT ![f] = Append(build.files[f], ref)]
      /\ build'.chunks = Tail(build.chunks) /\ build'.vouched = build.vouched
      /\ build'.options = build.options /\ build'.cached = build.cached
      /\ build'.reuse = build.reuse /\ build'.current = [build.current EXCEPT ![<<c, k>>] = ref]
      /\ build'.active = [build.active EXCEPT ![k] = id]
  BY DEF Writes
<1>3. /\ Grows(Tables, Tables') /\ Tables'[id].class = k
      /\ Leads(Tables', r) /\ Accepts(f, r) /\ r.chunk = c
      /\ IsTable(build'.segments) /\ FreshSegments' /\ OpenSegments'
  <2>1. /\ Grows(Tables, Tables') /\ Tables'[id].class = Class(f)
        /\ Leads(Tables', r) /\ Accepts(f, r)
        /\ IsTable(build'.segments) /\ FreshSegments' /\ OpenSegments'
    BY WritesInto
  <2> QED
    BY <1>2, <2>1 DEF Writes
<1>4. k[1] = Availability(f) /\ k[2] = Access(f)
  BY <1>1, <1>2, AtChunkInv
<1>5. /\ build'.files \in Seq(Seq(RefType)) /\ build'.chunks \in Seq(Chunks)
      /\ File' = f /\ FilesPlaced' /\ FilesRead'
  BY <1>1, <1>2, <1>3, <1>4, TakesInv, AtChunkInv
<1>6. /\ ref \in RefType /\ ref # NoRef /\ ref.segment = r.segment /\ ref.ordinal = r.ordinal
      /\ ref.chunk = c /\ ref.codec = r.codec
  BY <1>1, <1>2, <1>3, AtNextOffsetIs, AtChunkInv
<1>7. PlacementType'
  <2>1. build'.current \in [Chunks \X Classes -> RefType \union {NoRef}]
    BY <1>1, <1>2, <1>6, AtChunkInv DEF PlacementType, BuildType
  <2>2. build'.active \in [Classes -> SegmentIds \union {0}]
    BY <1>1, <1>2, AtChunkInv DEF PlacementType, BuildType
  <2> QED
    BY <1>1, <1>2, <1>3, <1>5, <2>1, <2>2, AtChunkInv DEF PlacementType, BuildType
<1>8. Incremental' = Incremental
  BY <1>2 DEF Incremental
<1>9. ReuseOffered'
  <2> SUFFICES ASSUME NEW d \in Chunks, NEW a \in Availabilities
               PROVE  FromBefore(build.reuse[<<d, a>>], release.segments, d, a)'
    BY DEF ReuseOffered
  <2>1. FromBefore(build.reuse[<<d, a>>], release.segments, d, a)
    BY <1>1, AtChunkInv DEF ReuseOffered
  <2> DEFINE q == build.reuse[<<d, a>>]
  <2>2. q' = q /\ release'.segments = release.segments
    BY <1>2
  <2>3. Leads(release.segments, q)' = Leads(release.segments, q)
    BY <2>2 DEF Leads
  <2> QED
    BY <1>8, <2>1, <2>2, <2>3 DEF FromBefore
<1>10. ReleaseSound(release)' /\ EntriesTrue(build.cached)' /\ EntriesTrue(cache.entries)'
  <2>1. ReleaseSound(release) /\ EntriesTrue(build.cached) /\ EntriesTrue(cache.entries)
    BY <1>1, AtChunkInv
  <2>2. release' = release /\ build'.cached = build.cached /\ cache' = cache
    BY <1>2
  <2>3. ReleaseSound(release)'
    BY <2>1, <2>2 DEF ReleaseSound
  <2> QED
    BY <2>1, <2>2, <2>3 DEF EntriesTrue
<1>11. CurrentOffered'
  <2> SUFFICES ASSUME NEW d \in Chunks, NEW l \in Classes
               PROVE  Offered(build'.current[<<d, l>>], Tables', d, l)
    BY <1>8 DEF CurrentOffered, Offered
  <2>1. CASE d = c /\ l = k
    <3>1. build'.current[<<d, l>>] = ref
      BY <1>1, <1>2, <2>1, AtChunkInv DEF PlacementType, BuildType
    <3>2. Leads(Tables', ref) /\ Tables'[ref.segment].class = k
      BY <1>2, <1>3, <1>6 DEF Leads
    <3> QED
      BY <1>6, <2>1, <3>1, <3>2 DEF Offered
  <2>2. CASE ~(d = c /\ l = k)
    <3>1. build'.current[<<d, l>>] = build.current[<<d, l>>]
      BY <1>1, <1>2, <2>2, AtChunkInv DEF PlacementType, BuildType
    <3>2. Offered(build.current[<<d, l>>], Tables, d, l)
      BY <1>1, AtChunkInv DEF CurrentOffered
    <3> QED
      BY <1>3, <3>1, <3>2, LeadsStill DEF Offered
  <2> QED
    BY <2>1, <2>2
<1>12. VouchedForLasts'
  <2>1. build.vouched = FALSE
    <3>1. build.vouched \in BOOLEAN /\ VouchedForLasts /\ Chunk \in Range(build.chunks)
      BY <1>1, AtChunkInv, AtChunkIs DEF PlacementType, BuildType
    <3>2. ~Accepts(File, Current(File, Chunk)) /\ ~Accepts(File, Existing(File, Chunk))
      BY DEF WriteBlock
    <3> QED
      BY <3>1, <3>2 DEF VouchedForLasts
  <2> QED
    BY <1>2, <2>1 DEF VouchedForLasts
<1>13. (ReleaseHoldsSources /\ PlacedByClass)'
  BY <1>1, <1>2, AtChunkInv DEF ReleaseHoldsSources, PlacedByClass
<1> QED
  BY <1>1, <1>2, <1>3, <1>5, <1>7, <1>9, <1>10, <1>11, <1>12, <1>13, AtChunkInv
     DEF PlacementInv, Running

(* A release that lays every file's chunks holds the sources.                 *)
Holds(f, content, refs, segments) ==
  /\ \A i \in DOMAIN refs :
       /\ refs[i].segment \in DOMAIN segments
       /\ refs[i].ordinal \in DOMAIN segments[refs[i].segment].blocks
       /\ segments[refs[i].segment].blocks[refs[i].ordinal]
            = [chunk |-> refs[i].chunk, codec |-> refs[i].codec]
  /\ ChunksOf(refs) = content
  /\ \A i \in DOMAIN refs :
       /\ Accepts(f, refs[i])
       /\ refs[i].offset =
            IF i = 1 THEN 0 ELSE refs[i - 1].offset + PlainLen[refs[i - 1].chunk]

LEMMA LaidHolds ==
  ASSUME NEW f, NEW content, NEW refs, NEW segments,
         Laid(f, refs, segments), ChunksOf(refs) = content
  PROVE  Holds(f, content, refs, segments)
<1> SUFFICES ASSUME NEW i \in DOMAIN refs
             PROVE  /\ refs[i].segment \in DOMAIN segments
                    /\ refs[i].ordinal \in DOMAIN segments[refs[i].segment].blocks
                    /\ segments[refs[i].segment].blocks[refs[i].ordinal]
                         = [chunk |-> refs[i].chunk, codec |-> refs[i].codec]
                    /\ Accepts(f, refs[i])
                    /\ refs[i].offset =
                         IF i = 1 THEN 0 ELSE refs[i - 1].offset + PlainLen[refs[i - 1].chunk]
  BY Zenon DEF Holds
<1>1. /\ Leads(segments, refs[i]) /\ Accepts(f, refs[i])
      /\ refs[i].offset =
           IF i = 1 THEN 0 ELSE refs[i - 1].offset + PlainLen[refs[i - 1].chunk]
  BY Zenon DEF Laid
<1> QED
  BY <1>1, Zenon DEF Leads

LEMMA HoldsNext ==
  ASSUME source' = source, NEW files, NEW segments,
         release'.files = files, release'.segments = segments,
         \A f \in Files : Laid(f, files[f], segments) /\ ChunksOf(files[f]) = Content(f)
  PROVE  ReleaseHoldsSources'
<1>1. ASSUME NEW f \in Files
      PROVE  Holds(f, Content(f)', release'.files[f], release'.segments)
  <2>1. Holds(f, Content(f), files[f], segments)
    BY LaidHolds
  <2>2. Content(f)' = Content(f)
    BY DEF Content
  <2> QED
    BY <2>1, <2>2
<1>2. (\A f \in Files : Holds(f, Content(f)', release'.files[f], release'.segments))
        => ReleaseHoldsSources'
  BY Zenon DEF Holds, ReleaseHoldsSources, ChunksOf, Accepts
<1> QED
  BY <1>1, <1>2

LEMMA HoldsStill ==
  ASSUME ReleaseHoldsSources, UNCHANGED <<source, release, phase>>
  PROVE  ReleaseHoldsSources'
<1>1. CASE phase = "report"
  <2>1. ASSUME NEW f \in Files
        PROVE  Laid(f, release.files[f], release.segments)
               /\ ChunksOf(release.files[f]) = Content(f)
    BY <1>1 DEF ReleaseHoldsSources, Laid, Leads
  <2> QED
    BY <2>1, HoldsNext
<1>2. CASE phase # "report"
  BY <1>2 DEF ReleaseHoldsSources
<1> QED
  BY <1>1, <1>2

-------------------------------------------------------------------------------
(* The end of a build.                                                      *)

(* When every file was handled.                                             *)
LEMMA AllRead ==
  ASSUME PlacementType, FilesRead, Len(build.files) = N, build.chunks = <<>>
  PROVE  /\ DOMAIN build.files = Files /\ build.files \in [Files -> Seq(RefType)]
         /\ \A f \in Files : ChunksOf(build.files[f]) = Content(f)
<1>1. /\ DOMAIN build.files = Files /\ build.files \in Seq(Seq(RefType))
      /\ \A f \in Files : build.files[f] \in Seq(RefType)
  BY BuildTyped DEF Files
<1>2. build.files = [f \in Files |-> build.files[f]]
  BY <1>1
<1>3. build.files \in [Files -> Seq(RefType)]
  BY <1>1, <1>2
<1>4. \A f \in Files : ChunksOf(build.files[f]) = Content(f)
  BY LastFileRead DEF Files
<1> QED
  BY <1>1, <1>3, <1>4

(* The cache that a build saves tells what it found.                        *)
LEMMA NewCacheTrue ==
  ASSUME PlacementType, FilesRead, Len(build.files) = N, build.chunks = <<>>, NEW seq \in Nat
  PROVE  /\ NewCache(seq) \in [seq : Nat, entries : [Files -> EntryType]]
         /\ EntriesTrue(NewCache(seq).entries)
<1> DEFINE e == [f \in Files |-> [stamp |-> source[f], availability |-> Availability(f),
                                  chunks |-> ChunksOf(build.files[f])]]
<1>1. NewCache(seq) = [seq |-> seq, entries |-> e]
  BY DEF NewCache
<1>2. ASSUME NEW f \in Files
      PROVE  e[f] \in EntryType /\ e[f].stamp = source[f] /\ e[f].chunks = Content(f)
  <2>1. /\ source[f] \in Nat /\ Availability(f) \in Availabilities /\ Content(f) \in Seq(Chunks)
        /\ ChunksOf(build.files[f]) = Content(f)
    BY FilesTyped, AllRead DEF PlacementType
  <2> QED
    BY <2>1 DEF EntryType
<1>3. EntriesTrue(e)
  BY <1>2 DEF EntriesTrue, Content
<1>4. e \in [Files -> EntryType]
  BY <1>2
<1> HIDE DEF e
<1> QED
  BY <1>1, <1>3, <1>4

LEMMA KeepReleaseInv ==
  ASSUME PlacementInv, KeepRelease
  PROVE  PlacementInv'
<1>1. /\ PlacementType /\ FilesRead /\ Len(build.files) = N /\ build.chunks = <<>>
      /\ ReleaseSound(release) /\ EntriesTrue(cache.entries) /\ release.seq \in Nat
      /\ release.seq > 0 /\ Fingerprint = release.fingerprint /\ build.options.incremental
  BY DEF KeepRelease, Handled, Unchanged, SameSource, PlacementInv, Running,
         PlacementType, ReleaseType
<1>2. /\ UNCHANGED <<source, release, build>> /\ phase' = "report"
      /\ cache' \in {NewCache(release.seq), cache}
  BY DEF KeepRelease, Goto
<1>3. cache' \in [seq : Nat, entries : [Files -> EntryType]] /\ EntriesTrue(cache'.entries)
  BY <1>1, <1>2, NewCacheTrue DEF PlacementType
<1>4. PlacementType'
  BY <1>1, <1>2, <1>3 DEF PlacementType, BuildType, ReleaseType
<1>5. ASSUME NEW f \in Files
      PROVE  /\ ChunksOf(release.files[f]) = Content(f) /\ Laid(f, release.files[f], release.segments)
             /\ \A i \in DOMAIN release.files[f] :
                  release.segments[release.files[f][i].segment].class[1] = Availability(f)
  <2>1. Fingerprint[f] = <<Class(f), Content(f)>>
    BY <1>1, AllRead DEF Fingerprint
  <2>2. release.fingerprint[f][2] = Content(f) /\ release.fingerprint[f][1][1] = Availability(f)
    BY <1>1, <2>1, FilesTyped
  <2> QED
    BY <1>1, <2>2 DEF ReleaseSound
<1>6. ReleaseHoldsSources'
  BY <1>2, <1>5, HoldsNext
<1>7. PlacedByClass'
  <2> SUFFICES ASSUME NEW f \in Files, NEW r \in Range(release.files[f])
               PROVE  release.segments[r.segment].class[1] = Availability(f)
    BY <1>1, <1>2 DEF PlacedByClass, Availability
  <2> QED
    BY <1>5 DEF Range
<1>8. ReleaseSound(release)'
  BY <1>1, <1>2 DEF ReleaseSound
<1> QED
  BY <1>2, <1>3, <1>4, <1>6, <1>7, <1>8 DEF PlacementInv, Running, EntriesTrue

(* The build while only the cache is written.                               *)
LEMMA BuildStays ==
  ASSUME UNCHANGED <<source, release, build>>
  PROVE  /\ FilesPlaced' = FilesPlaced /\ FilesRead' = FilesRead
         /\ VouchedForLasts' = VouchedForLasts
<1>1. FilesPlaced' = FilesPlaced
  BY DEF FilesPlaced, Tables, Segment, Laid, Leads, Accepts, Incremental, Availability, Access
<1>2. FilesRead' = FilesRead
  BY DEF FilesRead, ChunksOf, Content, File
<1>3. VouchedForLasts' = VouchedForLasts
  BY DEF VouchedForLasts, File, Accepts, Current, Existing, Class, Availability, Access
<1> QED
  BY <1>1, <1>2, <1>3

LEMMA StageInv ==
  ASSUME PlacementInv, Stage
  PROVE  PlacementInv'
<1>1. /\ UNCHANGED <<source, release, cache, build>> /\ phase = "files"
      /\ phase' \in {"saveCache", "commit"} /\ Len(build.files) = N /\ build.chunks = <<>>
  BY DEF Stage, Handled, Goto
<1>2. /\ PlacementType /\ ReleaseSound(release) /\ EntriesTrue(cache.entries)
      /\ EntriesTrue(build.cached) /\ FreshSegments /\ OpenSegments /\ CurrentOffered
      /\ ReuseOffered /\ FilesPlaced /\ FilesRead /\ VouchedForLasts
  BY <1>1 DEF PlacementInv, Running
<1>3. /\ PlacementType' /\ EntriesTrue(cache.entries)' /\ EntriesTrue(build.cached)'
  BY <1>1, <1>2 DEF PlacementType, BuildType, ReleaseType, EntriesTrue
<1>4. FilesPlaced' /\ FilesRead' /\ VouchedForLasts'
  BY <1>1, <1>2, BuildStays
<1>5. (ReleaseHoldsSources /\ PlacedByClass)'
  BY <1>1 DEF ReleaseHoldsSources, PlacedByClass
<1> QED
  BY <1>1, <1>2, <1>3, <1>4, <1>5, Untouched DEF PlacementInv, Running

LEMMA SaveCacheInv ==
  ASSUME PlacementInv, SaveCache
  PROVE  PlacementInv'
<1>1. /\ UNCHANGED <<source, release, build>> /\ phase = "saveCache" /\ phase' = "commit"
      /\ cache' = NewCache(release.seq + 1)
  BY DEF SaveCache, Goto
<1>2. /\ PlacementType /\ ReleaseSound(release)
      /\ EntriesTrue(build.cached) /\ FreshSegments /\ OpenSegments /\ CurrentOffered
      /\ ReuseOffered /\ FilesPlaced /\ FilesRead /\ VouchedForLasts
      /\ Len(build.files) = N /\ build.chunks = <<>>
  BY <1>1 DEF PlacementInv, Running
<1>3. cache' \in [seq : Nat, entries : [Files -> EntryType]] /\ EntriesTrue(cache'.entries)
  <2>1. release.seq + 1 \in Nat
    BY <1>2 DEF PlacementType, ReleaseType
  <2> QED
    BY <1>1, <1>2, <2>1, NewCacheTrue
<1>4. /\ PlacementType' /\ EntriesTrue(cache.entries)' /\ EntriesTrue(build.cached)'
  BY <1>1, <1>2, <1>3 DEF PlacementType, BuildType, ReleaseType, EntriesTrue
<1>5. FilesPlaced' /\ FilesRead' /\ VouchedForLasts'
  BY <1>1, <1>2, BuildStays
<1>6. (ReleaseHoldsSources /\ PlacedByClass)'
  BY <1>1 DEF ReleaseHoldsSources, PlacedByClass
<1> QED
  BY <1>1, <1>2, <1>4, <1>5, <1>6, Untouched DEF PlacementInv, Running

(* The segments a release lists are those its files use and the new ones.    *)
LEMMA CommitInv ==
  ASSUME PlacementInv, Commit
  PROVE  PlacementInv'
<1>1. /\ UNCHANGED <<source, cache, build>> /\ phase = "commit" /\ phase' = "report"
      /\ release' = [seq |-> release.seq + 1, segments |-> Retained,
                     files |-> build.files, fingerprint |-> Fingerprint]
  BY DEF Commit, Goto
<1>2. /\ PlacementType /\ EntriesTrue(cache.entries) /\ FilesPlaced /\ FilesRead
      /\ Len(build.files) = N /\ build.chunks = <<>>
  BY <1>1 DEF PlacementInv, Running
<1>3. /\ DOMAIN build.files = Files /\ build.files \in [Files -> Seq(RefType)]
      /\ \A f \in Files : ChunksOf(build.files[f]) = Content(f)
  BY <1>2, AllRead
<1>4. PICK files : files = build.files
  OBVIOUS
<1>5. PICK tables : tables = Tables
  OBVIOUS
<1>6. IsTable(build.segments) /\ IsTable(release.segments)
  BY <1>2 DEF PlacementType, BuildType, ReleaseType
<1>7. ASSUME NEW f \in Files, NEW i \in DOMAIN files[f]
      PROVE  /\ Leads(tables, files[f][i]) /\ Leads(Retained, files[f][i])
             /\ Retained[files[f][i].segment] = tables[files[f][i].segment]
  <2>1. Leads(tables, files[f][i])
    BY <1>2, <1>3, <1>4, <1>5 DEF FilesPlaced, Laid
  <2>2. files[f][i] \in AllRefs(build.files)
    BY <1>3, <1>4 DEF AllRefs, Range
  <2>3. files[f][i].segment \in DOMAIN Retained
    BY <2>2 DEF Retained
  <2>4. Retained[files[f][i].segment] = tables[files[f][i].segment]
    BY <1>5, <2>1, <2>3 DEF Retained, Tables, Leads
  <2> QED
    BY <2>1, <2>3, <2>4 DEF Leads
<1>8. IsTable(Retained)
  <2>1. ASSUME NEW id \in DOMAIN Retained
        PROVE  id \in DOMAIN tables /\ Retained[id] = tables[id]
    <3>1. CASE id \in DOMAIN build.segments
      BY <1>5, <3>1, TablesAre DEF Retained, Segment
    <3>2. CASE id \notin DOMAIN build.segments
      <4>1. PICK r \in AllRefs(build.files) : id = r.segment
        BY <3>2 DEF Retained
      <4>2. PICK f \in Files : r \in Range(files[f])
        BY <1>3, <1>4, <4>1 DEF AllRefs
      <4>3. PICK i \in DOMAIN files[f] : r = files[f][i]
        BY <4>2 DEF Range
      <4> QED
        BY <1>7, <4>1, <4>3 DEF Leads
    <3> QED
      BY <3>1, <3>2
  <2>2. IsTable(tables)
    BY <1>5, <1>6, TablesAre DEF IsTable
  <2> QED
    BY <2>1, <2>2 DEF IsTable
<1>9. /\ release'.seq = release.seq + 1 /\ release'.segments = Retained
      /\ release'.files = files /\ release'.fingerprint = Fingerprint
      /\ DOMAIN release' = {"seq", "segments", "files", "fingerprint"}
      /\ \A f \in Files : Fingerprint[f] = <<Class(f), ChunksOf(files[f])>>
                          /\ Class(f)[1] = Availability(f)
  BY <1>1, <1>2, <1>3, <1>4, FilesTyped DEF Fingerprint
<1>10. ReleaseType(release)'
  BY <1>2, <1>3, <1>4, <1>8, <1>9 DEF ReleaseType, PlacementType
<1>11. ASSUME NEW f \in Files
       PROVE  /\ Laid(f, files[f], Retained)
              /\ \A i \in DOMAIN files[f] :
                   LET class == Retained[files[f][i].segment].class IN
                   class[1] = Availability(f) /\ (~Incremental => class[2] = Access(f))
  <2>1. /\ Laid(f, files[f], tables)
        /\ \A i \in DOMAIN files[f] :
             LET class == tables[files[f][i].segment].class IN
             class[1] = Availability(f) /\ (~Incremental => class[2] = Access(f))
    BY <1>2, <1>3, <1>4, <1>5 DEF FilesPlaced
  <2> QED
    BY <1>7, <2>1 DEF Laid
<1>12. ReleaseSound(release')
  BY <1>9, <1>11 DEF ReleaseSound
<1>13. ReleaseHoldsSources'
  <2>1. \A f \in Files : ChunksOf(files[f]) = Content(f)
    BY <1>3, <1>4
  <2>2. source' = source
    BY <1>1
  <2> QED
    BY <1>9, <1>11, <2>1, <2>2, HoldsNext
<1>14. PlacedByClass'
  <2> SUFFICES ASSUME NEW f \in Files, NEW r \in Range(files[f])
               PROVE  LET class == Retained[r.segment].class IN
                      class[1] = Availability(f) /\ (~Incremental => class[2] = Access(f))
    BY <1>1, <1>9 DEF PlacedByClass, Availability, Access, Incremental
  <2> QED
    BY <1>11 DEF Range
<1>15. PlacementType'
  BY <1>1, <1>2, <1>10 DEF PlacementType, BuildType
<1>16. EntriesTrue(cache.entries)' /\ ReleaseSound(release)'
  <2>1. EntriesTrue(cache.entries)'
    BY <1>1, <1>2 DEF EntriesTrue
  <2>2. ReleaseSound(release)' = ReleaseSound(release')
    BY DEF ReleaseSound, Laid, Leads, Accepts, ChunksOf
  <2> QED
    BY <1>12, <2>1, <2>2
<1> QED
  BY <1>1, <1>13, <1>14, <1>15, <1>16 DEF PlacementInv, Running

(* A build is over, by its end or by a failure.                             *)
LEMMA BuildEnds ==
  ASSUME PlacementInv, phase' = "idle", build' = Idle, UNCHANGED <<source, release, cache>>
  PROVE  PlacementInv'
<1>1. PlacementType /\ ReleaseSound(release) /\ EntriesTrue(cache.entries)
  BY DEF PlacementInv
<1>2. PlacementType'
  BY <1>1, IdleTyped DEF PlacementType, ReleaseType
<1>3. EntriesTrue(cache.entries)' /\ ReleaseSound(release)'
  BY <1>1 DEF EntriesTrue, ReleaseSound
<1> QED
  BY <1>2, <1>3 DEF PlacementInv, Running, ReleaseHoldsSources, PlacedByClass

LEMMA EditInv ==
  ASSUME PlacementInv, NEW f \in Files, Edit(f)
  PROVE  PlacementInv'
<1>1. /\ phase = "idle" /\ UNCHANGED <<release, cache, phase, build>>
      /\ source' = [source EXCEPT ![f] = source[f] + 1] /\ source[f] < Len(History[f])
  BY DEF Edit
<1>2. PlacementType /\ ReleaseSound(release) /\ EntriesTrue(cache.entries)
  BY DEF PlacementInv
<1>3. /\ source' \in [Files -> Nat] /\ \A g \in Files : source'[g] \in DOMAIN History[g]
  <2>1. source[f] \in DOMAIN History[f] /\ History[f] \in Seq(Seq(Chunks))
    BY <1>2, ConstantsAssumption DEF PlacementType
  <2>2. source[f] \in Nat \ {0} /\ source[f] + 1 \in DOMAIN History[f]
    BY <1>1, <2>1
  <2> QED
    BY <1>1, <1>2, <2>2 DEF PlacementType
<1>4. PlacementType'
  BY <1>1, <1>2, <1>3 DEF PlacementType, ReleaseType, BuildType
<1>5. EntriesTrue(cache.entries)' /\ ReleaseSound(release)'
  BY <1>1, <1>2 DEF EntriesTrue, ReleaseSound
<1> QED
  BY <1>1, <1>4, <1>5 DEF PlacementInv, Running, ReleaseHoldsSources, PlacedByClass

-------------------------------------------------------------------------------
(* The theorems.                                                            *)

LEMMA PlacementInitially ==
  ASSUME Init
  PROVE  PlacementInv
<1>1. /\ source = [f \in Files |-> 1] /\ release = NoRelease /\ cache = NoCache
      /\ phase = "idle" /\ build = Idle
  BY DEF Init
<1>2. \A f \in Files : source[f] \in Nat /\ source[f] \in DOMAIN History[f]
  <2> TAKE f \in Files
  <2>1. History[f] \in Seq(Seq(Chunks)) /\ History[f] # <<>>
    BY ConstantsAssumption
  <2>2. 1 \in DOMAIN History[f]
    BY <2>1
  <2> QED
    BY <1>1, <2>2
<1>3. ReleaseType(release) /\ ReleaseSound(release)
  <2>1. /\ DOMAIN release = {"seq", "segments", "files", "fingerprint"}
        /\ release.seq = 0 /\ release.segments = <<>> /\ release.files = [f \in Files |-> <<>>]
    BY <1>1 DEF NoRelease, NoSegments
  <2>2. <<>> \in Seq(RefType) /\ DOMAIN <<>> = {}
    OBVIOUS
  <2>3. release.files \in [Files -> Seq(RefType)] /\ IsTable(release.segments)
    BY <2>1, <2>2 DEF IsTable
  <2>4. ReleaseSound(release)
    BY <2>1, <2>2 DEF ReleaseSound, Laid
  <2> QED
    BY <2>1, <2>3, <2>4 DEF ReleaseType
<1>4. cache \in [seq : Nat, entries : [Files -> EntryType]] /\ EntriesTrue(cache.entries)
  BY <1>1, IdleTyped DEF NoCache, Idle, BuildType
<1>5. PlacementType
  BY <1>1, <1>2, <1>3, <1>4, IdleTyped DEF PlacementType
<1> QED
  BY <1>1, <1>3, <1>4, <1>5 DEF PlacementInv, Running, ReleaseHoldsSources, PlacedByClass

LEMMA PlacementStep ==
  ASSUME PlacementInv, [Next]_vars
  PROVE  PlacementInv'
<1>1. ASSUME NEW o \in Options, StartBuild(o)
      PROVE  PlacementInv'
  BY <1>1, StartBuildInv
<1>2. CASE BeginFile
  BY <1>2, BeginFileInv
<1>3. CASE ShareBlock
  BY <1>3, ShareBlockInv
<1>4. CASE ReuseBlock
  BY <1>4, ReuseBlockInv
<1>5. CASE WriteBlock
  BY <1>5, WriteBlockInv
<1>6. CASE KeepRelease
  BY <1>6, KeepReleaseInv
<1>7. CASE Stage
  BY <1>7, StageInv
<1>8. CASE SaveCache
  BY <1>8, SaveCacheInv
<1>9. CASE Commit
  BY <1>9, CommitInv
<1>10. CASE Report \/ Fail
  BY <1>10, BuildEnds DEF Report, Fail, Goto
<1>11. ASSUME NEW f \in Files, Edit(f)
       PROVE  PlacementInv'
  BY <1>11, EditInv
<1>12. CASE UNCHANGED vars
  <2>1. UNCHANGED <<source, release, cache, phase, build>>
    BY <1>12 DEF vars
  <2>2. PlacementType'
    BY <2>1 DEF PlacementInv, PlacementType, ReleaseType, BuildType
  <2>3. ReleaseSound(release)' /\ EntriesTrue(cache.entries)'
    BY <2>1 DEF PlacementInv, ReleaseSound, EntriesTrue
  <2>4. (ReleaseHoldsSources /\ PlacedByClass)'
    <3>1. ReleaseHoldsSources /\ PlacedByClass
      BY DEF PlacementInv
    <3>2. ReleaseHoldsSources'
      BY <2>1, <3>1, HoldsStill
    <3>3. PlacedByClass'
      BY <2>1, <3>1, Zenon DEF PlacedByClass, Availability, Access
    <3> QED
      BY <3>2, <3>3
  <2>5. ASSUME Running
        PROVE  (/\ EntriesTrue(build.cached)
                /\ FreshSegments /\ OpenSegments /\ CurrentOffered /\ ReuseOffered
                /\ FilesPlaced /\ FilesRead /\ VouchedForLasts)'
    <3>1. /\ EntriesTrue(build.cached)
          /\ FreshSegments /\ OpenSegments /\ CurrentOffered /\ ReuseOffered
          /\ FilesPlaced /\ FilesRead /\ VouchedForLasts
      BY <2>5 DEF PlacementInv
    <3>2. EntriesTrue(build.cached)'
      BY <2>1, <3>1 DEF EntriesTrue
    <3> QED
      BY <2>1, <3>1, <3>2, Untouched, BuildStays
  <2> QED
    BY <2>1, <2>2, <2>3, <2>4, <2>5 DEF PlacementInv, Running
<1> QED
  BY <1>1, <1>2, <1>3, <1>4, <1>5, <1>6, <1>7, <1>8, <1>9, <1>10, <1>11, <1>12 DEF Next, Done

LEMMA PlacementAlways == Spec => []PlacementInv
<1>1. Init => PlacementInv
  BY PlacementInitially
<1>2. PlacementInv /\ [Next]_vars => PlacementInv'
  BY PlacementStep
<1> QED
  BY <1>1, <1>2, PTL DEF Spec

(* Whatever add_file shared, reused, wrote or took from the cache, a release  *)
(* holds the chunks of each file in their order, in codecs the file allows,   *)
(* and each of its references leads to a block with its chunk.                *)
THEOREM SourcesHeld == Spec => []ReleaseHoldsSources
<1>1. PlacementInv => ReleaseHoldsSources
  BY DEF PlacementInv
<1> QED
  BY <1>1, PlacementAlways, PTL

(* The blocks of a file are in segments of its availability and, after a full *)
(* build, of its access class, whatever the builds before were asked for.     *)
THEOREM ClassesKept == Spec => []PlacedByClass
<1>1. PlacementInv => PlacedByClass
  BY DEF PlacementInv
<1> QED
  BY <1>1, PlacementAlways, PTL

(* cached_entry_usable promises no block that add_chunk then fails to find,   *)
(* although blocks are placed in between.                                     *)
THEOREM CacheKeepsItsWord == Spec => []CacheNeverLosesABlock
<1>1. PlacementInv => CacheNeverLosesABlock
  BY DEF PlacementInv, CacheNeverLosesABlock
<1> QED
  BY <1>1, PlacementAlways, PTL

-------------------------------------------------------------------------------
(* The segments that a build writes.                                        *)

(* The blocks of a segment and their encrypted bytes, the payload.           *)
BytesOf(blocks) == Bytes([o \in DOMAIN blocks |-> StoredOf(blocks[o])], DOMAIN blocks)

SegmentsInv ==
  /\ WrittenRemembered /\ NewBlocksShared /\ SegmentsWithinTarget
  /\ \A id \in DOMAIN build.segments : IsFiniteSet(BytesOf(build.segments[id].blocks))

LEMMA BytesOfOne ==
  ASSUME NEW k, NEW m \in Nat
  PROVE  IsFiniteSet({k} \X (1 .. m)) /\ Cardinality({k} \X (1 .. m)) = m
<1>1. IsFiniteSet({k}) /\ Cardinality({k}) = 1
  BY FS_Singleton
<1>2. IsFiniteSet(1 .. m) /\ Cardinality(1 .. m) = m
  BY FS_Interval
<1>3. /\ IsFiniteSet({k} \X (1 .. m))
      /\ Cardinality({k} \X (1 .. m)) = Cardinality({k}) * Cardinality(1 .. m)
  BY <1>1, <1>2, FS_Product, Zenon
<1>4. Cardinality({k}) * Cardinality(1 .. m) = 1 * m
  BY <1>1, <1>2, Zenon
<1>5. 1 * m = m
  OBVIOUS
<1> QED
  BY <1>3, <1>4, <1>5, Zenon

LEMMA BytesMore ==
  ASSUME NEW l, NEW m, NEW S, NEW k, k \notin S, \A o \in S : m[o] = l[o],
         m[k] \in Nat, IsFiniteSet(Bytes(l, S))
  PROVE  /\ IsFiniteSet(Bytes(m, S \union {k}))
         /\ Cardinality(Bytes(m, S \union {k})) - Cardinality(Bytes(l, S)) = m[k]
<1> PICK n \in Nat : n = m[k]
  OBVIOUS
<1> DEFINE B == Bytes(l, S)
           K == {k} \X (1 .. n)
<1>1. IsFiniteSet(K) /\ Cardinality(K) = n
  BY BytesOfOne
<1>2. Bytes(m, S \union {k}) = B \union K
  <2>1. Bytes(m, S) = Bytes(l, S)
    BY DEF Bytes
  <2>2. Bytes(m, S \union {k}) = Bytes(m, S) \union K
    BY DEF Bytes
  <2> QED
    BY <2>1, <2>2
<1>3. B \cap K = {}
  BY DEF Bytes
<1>4. Cardinality(B \cap K) = 0 /\ Cardinality(B) \in Nat
  BY <1>3, FS_EmptySet, FS_CardinalityType
<1>5. /\ IsFiniteSet(B \union K)
      /\ Cardinality(B \union K) = Cardinality(B) + Cardinality(K) - Cardinality(B \cap K)
  BY <1>1, FS_Union
<1> HIDE DEF B, K
<1>6. Cardinality(B \union K) - Cardinality(B) = n
  BY <1>1, <1>4, <1>5
<1> QED
  BY <1>2, <1>5, <1>6 DEF B

(* One block more adds its encrypted bytes to the payload.                  *)
LEMMA PayloadOfMore ==
  ASSUME NEW blocks \in Seq(BlockType), NEW block \in BlockType, IsFiniteSet(BytesOf(blocks))
  PROVE  /\ IsFiniteSet(BytesOf(Append(blocks, block)))
         /\ Cardinality(BytesOf(Append(blocks, block))) - Cardinality(BytesOf(blocks))
              = StoredOf(block)
<1>0. PICK S, k, more, before, after :
      /\ S = DOMAIN blocks /\ k = Len(blocks) + 1 /\ more = Append(blocks, block)
      /\ before = [o \in DOMAIN blocks |-> StoredOf(blocks[o])]
      /\ after = [o \in DOMAIN more |-> StoredOf(more[o])]
  OBVIOUS
<1>1. k \notin S /\ DOMAIN more = S \union {k} /\ more[k] = block
      /\ \A o \in S : more[o] = blocks[o]
  <2>1. /\ more \in Seq(BlockType) /\ Len(more) = Len(blocks) + 1
        /\ more[Len(blocks) + 1] = block /\ \A i \in 1 .. Len(blocks) : more[i] = blocks[i]
    BY <1>0, AppendProperties
  <2>2. /\ DOMAIN more = 1 .. Len(blocks) + 1 /\ Len(blocks) \in Nat
        /\ DOMAIN blocks = 1 .. Len(blocks)
    BY <2>1
  <2> QED
    BY <1>0, <2>1, <2>2
<1>2. after[k] = StoredOf(block) /\ \A o \in S : after[o] = before[o]
  BY <1>0, <1>1
<1>3. StoredOf(block) \in Nat
  BY ConstantsAssumption DEF StoredOf, BlockType
<1>4. BytesOf(blocks) = Bytes(before, S) /\ BytesOf(more) = Bytes(after, S \union {k})
  BY <1>0, <1>1 DEF BytesOf
<1>5. /\ k \notin S /\ after[k] \in Nat /\ IsFiniteSet(Bytes(before, S))
      /\ \A o \in S : after[o] = before[o]
  BY <1>1, <1>2, <1>3, <1>4
<1>6. /\ IsFiniteSet(Bytes(after, S \union {k}))
      /\ Cardinality(Bytes(after, S \union {k})) - Cardinality(Bytes(before, S)) = after[k]
  BY <1>5, BytesMore
<1> QED
  BY <1>0, <1>2, <1>4, <1>6

(* An empty segment has no bytes.                                           *)
LEMMA NoBytes == IsFiniteSet(BytesOf(<<>>))
<1>1. BytesOf(<<>>) = {}
  BY DEF BytesOf, Bytes
<1> QED
  BY <1>1, FS_EmptySet

LEMMA SegmentsStay ==
  ASSUME SegmentsInv, build'.segments = build.segments, build'.current = build.current
  PROVE  SegmentsInv'
  BY DEF SegmentsInv, WrittenRemembered, NewBlocksShared, SegmentsWithinTarget

LEMMA SegmentsGone ==
  ASSUME build'.segments = NoSegments
  PROVE  SegmentsInv'
<1>1. DOMAIN build'.segments = {}
  BY DEF NoSegments
<1> QED
  BY <1>1 DEF SegmentsInv, WrittenRemembered, NewBlocksShared, SegmentsWithinTarget

(* A block is reused only where no block was written that could be shared.   *)
LEMMA ReuseBlockSegments ==
  ASSUME PlacementInv, SegmentsInv, ReuseBlock
  PROVE  SegmentsInv'
<1>1. AtChunk /\ ~Accepts(File, Current(File, Chunk)) /\ Accepts(File, Existing(File, Chunk))
  BY DEF ReuseBlock
<1> PICK f \in Files, c \in Chunks, k \in Classes, r \in RefType :
      f = File /\ c = Chunk /\ k = Class(f) /\ r = Existing(f, c)
  BY <1>1, AtChunkInv DEF Accepts
<1>2. PICK ref :
        f = File /\ c = Chunk /\ k = Class(f) /\ r = Existing(f, c) /\ ref = AtNextOffset(r)
  OBVIOUS
<1>3. /\ build'.segments = build.segments
      /\ build'.current = [build.current EXCEPT ![<<c, k>>] = ref]
      /\ build.current \in [Chunks \X Classes -> RefType \union {NoRef}]
  BY <1>1, <1>2, AtChunkInv DEF ReuseBlock, Idle, Key, PlacementType, BuildType
<1>4. ref \in RefType /\ ref # NoRef /\ ref.codec = r.codec /\ Accepts(f, r)
  BY <1>1, <1>2, AtNextOffsetIs, AtChunkInv
<1>5. IsTable(build.segments)
  BY <1>1, AtChunkInv DEF PlacementType, BuildType
<1>6. ASSUME NEW id \in DOMAIN build.segments, NEW i \in DOMAIN build.segments[id].blocks
      PROVE  LET block == build.segments[id].blocks[i]
                 remembered == build'.current[<<block.chunk, build.segments[id].class>>]
             IN remembered # NoRef /\ (block.codec = "Raw" => remembered.codec = "Raw")
  <2>1. PICK block \in BlockType, l \in Classes :
          block = build.segments[id].blocks[i] /\ l = build.segments[id].class
    BY <1>5 DEF IsTable, SegmentType
  <2>2. /\ build.current[<<block.chunk, l>>] # NoRef
        /\ block.codec = "Raw" => build.current[<<block.chunk, l>>].codec = "Raw"
    BY <2>1 DEF SegmentsInv, WrittenRemembered
  <2>3. CASE block.chunk = c /\ l = k
    <3>1. build'.current[<<block.chunk, l>>] = ref
      BY <1>3, <2>3
    <3>2. block.codec # "Raw"
      BY <1>1, <1>2, <2>2, <2>3 DEF Current, Accepts
    <3> QED
      BY <1>4, <2>1, <3>1, <3>2
  <2>4. CASE ~(block.chunk = c /\ l = k)
    <3>1. build'.current[<<block.chunk, l>>] = build.current[<<block.chunk, l>>]
      BY <1>3, <2>1, <2>4 DEF BlockType
    <3> QED
      BY <2>1, <2>2, <3>1
  <2> QED
    BY <2>3, <2>4
<1>7. WrittenRemembered'
  BY <1>3, <1>6 DEF WrittenRemembered
<1> QED
  BY <1>3, <1>7 DEF SegmentsInv, NewBlocksShared, SegmentsWithinTarget

(* A block is written only when no block of its class and codec holds its    *)
(* chunk; and behind others only when the payload stays within the target.   *)
LEMMA WriteBlockSegments ==
  ASSUME PlacementInv, SegmentsInv, WriteBlock
  PROVE  SegmentsInv'
<1>0. PICK f \in Files, c \in Chunks, k \in Classes, id \in SegmentIds, block \in BlockType,
           blocks \in Seq(BlockType), r \in RefType :
             \E ref : Writes(f, c, k, id, block, blocks, r, ref)
  BY WriteBlockIs
<1>1. PICK ref : Writes(f, c, k, id, block, blocks, r, ref)
  BY <1>0
<1>2. /\ AtChunk /\ f = File /\ c = Chunk /\ k = Class(f) /\ ref = AtNextOffset(r)
      /\ block = Encoded(f, c) /\ r.codec = block.codec /\ r.chunk = c
      /\ build'.current = [build.current EXCEPT ![<<c, k>>] = ref]
      /\ ~Accepts(f, Current(f, c))
      /\ \/ blocks = <<>> /\ id \notin DOMAIN Tables
         \/ /\ id \in DOMAIN build.segments /\ HasRoom(id, block)
            /\ build.segments[id] = [class |-> k, blocks |-> blocks]
  BY <1>1 DEF Writes
<1>3. /\ DOMAIN build'.segments = DOMAIN build.segments \union {id}
      /\ build'.segments[id] = [class |-> k, blocks |-> Append(blocks, block)]
      /\ \A other \in DOMAIN build.segments \ {id} :
           build'.segments[other] = build.segments[other]
  BY <1>1, WritesInto
<1>4. /\ IsTable(build.segments)
      /\ build.current \in [Chunks \X Classes -> RefType \union {NoRef}]
  BY <1>2, AtChunkInv DEF PlacementType, BuildType
<1>5. /\ ref \in RefType /\ ref # NoRef /\ ref.codec = block.codec
  BY <1>2, AtNextOffsetIs, AtChunkInv
<1>6. PICK n \in Nat : n = Len(blocks)
  OBVIOUS
<1>7. PICK more \in Seq(BlockType) :
        /\ more = Append(blocks, block) /\ DOMAIN more = 1 .. n + 1 /\ DOMAIN blocks = 1 .. n
        /\ Len(more) = n + 1
        /\ more[n + 1] = block /\ \A i \in 1 .. n : more[i] = blocks[i]
  <2> DEFINE s == Append(blocks, block)
  <2>1. /\ s \in Seq(BlockType) /\ Len(s) = Len(blocks) + 1 /\ s[Len(blocks) + 1] = block
        /\ \A i \in 1 .. Len(blocks) : s[i] = blocks[i]
    BY AppendProperties
  <2>2. DOMAIN s = 1 .. Len(blocks) + 1 /\ DOMAIN blocks = 1 .. Len(blocks)
    BY <2>1
  <2> QED
    BY <1>6, <2>1, <2>2
<1>8. n # 0 => id \in DOMAIN build.segments /\ build.segments[id] = [class |-> k, blocks |-> blocks]
  BY <1>2, <1>6
\* Where each block of the segments is from.
<1>9. ASSUME NEW a \in DOMAIN build'.segments, NEW i \in DOMAIN build'.segments[a].blocks
      PROVE  \/ /\ a \in DOMAIN build.segments /\ i \in DOMAIN build.segments[a].blocks
                /\ build'.segments[a].class = build.segments[a].class
                /\ build'.segments[a].blocks[i] = build.segments[a].blocks[i]
             \/ /\ a = id /\ i = n + 1
                /\ build'.segments[a].class = k /\ build'.segments[a].blocks[i] = block
  <2>1. CASE a # id
    BY <1>3, <2>1
  <2>2. CASE a = id /\ i # n + 1
    <3>1. i \in 1 .. n /\ n # 0
      BY <1>3, <1>6, <1>7, <2>2
    <3>2. build.segments[id].class = k /\ build.segments[id].blocks = blocks
          /\ id \in DOMAIN build.segments
      BY <1>8, <3>1
    <3>3. build'.segments[id].class = k /\ build'.segments[id].blocks = more
      BY <1>3, <1>7
    <3> QED
      BY <1>7, <2>2, <3>1, <3>2, <3>3
  <2>3. CASE a = id /\ i = n + 1
    BY <1>3, <1>7, <2>3
  <2> QED
    BY <2>1, <2>2, <2>3
\* No block of the class and codec holds the chunk.
<1>10. ASSUME NEW a \in DOMAIN build.segments, NEW i \in DOMAIN build.segments[a].blocks,
              build.segments[a].class = k, build.segments[a].blocks[i].chunk = c
       PROVE  build.segments[a].blocks[i].codec # "Raw" /\ block.codec = "Raw"
  <2>1. /\ build.current[<<c, k>>] # NoRef
        /\ build.segments[a].blocks[i].codec = "Raw" => build.current[<<c, k>>].codec = "Raw"
    BY <1>10 DEF SegmentsInv, WrittenRemembered
  <2>2. PolicyOf[f] # "Auto" /\ build.current[<<c, k>>].codec # "Raw"
    BY <1>2, <2>1 DEF Accepts, Current
  <2> QED
    BY <1>2, <2>1, <2>2 DEF Encoded
<1>11. block.chunk = c
  BY <1>2 DEF Encoded
<1>12. NewBlocksShared'
  <2> SUFFICES ASSUME NEW a \in DOMAIN build'.segments, NEW i \in DOMAIN build'.segments[a].blocks,
                      NEW b \in DOMAIN build'.segments, NEW j \in DOMAIN build'.segments[b].blocks,
                      build'.segments[a].class = build'.segments[b].class,
                      build'.segments[a].blocks[i] = build'.segments[b].blocks[j]
               PROVE  a = b /\ i = j
    BY DEF NewBlocksShared
  <2> DEFINE Old(x, y) == /\ x \in DOMAIN build.segments /\ y \in DOMAIN build.segments[x].blocks
                          /\ build'.segments[x].class = build.segments[x].class
                          /\ build'.segments[x].blocks[y] = build.segments[x].blocks[y]
             New(x, y) == /\ x = id /\ y = n + 1
                          /\ build'.segments[x].class = k /\ build'.segments[x].blocks[y] = block
  <2>1. (Old(a, i) \/ New(a, i)) /\ (Old(b, j) \/ New(b, j))
    BY <1>9
  <2>2. CASE Old(a, i) /\ Old(b, j)
    <3>1. /\ a \in DOMAIN build.segments /\ i \in DOMAIN build.segments[a].blocks
          /\ b \in DOMAIN build.segments /\ j \in DOMAIN build.segments[b].blocks
      BY <2>2
    <3>2. /\ build.segments[a].class = build.segments[b].class
          /\ build.segments[a].blocks[i] = build.segments[b].blocks[j]
      BY <2>2
    <3>3. NewBlocksShared
      BY DEF SegmentsInv
    <3> QED
      BY <3>1, <3>2, <3>3 DEF NewBlocksShared
  <2>3. CASE New(a, i) /\ New(b, j)
    BY <2>3
  <2>4. ASSUME NEW x, NEW y, Old(x, y), build'.segments[x].class = k,
               build'.segments[x].blocks[y] = block
        PROVE  FALSE
    BY <1>10, <1>11, <2>4
  <2>5. CASE Old(a, i) /\ New(b, j)
    BY <2>4, <2>5
  <2>6. CASE New(a, i) /\ Old(b, j)
    BY <2>4, <2>6
  <2> QED
    BY <2>1, <2>2, <2>3, <2>5, <2>6
<1>13. WrittenRemembered'
  <2> SUFFICES ASSUME NEW a \in DOMAIN build'.segments, NEW i \in DOMAIN build'.segments[a].blocks
               PROVE  LET that == build'.segments[a].blocks[i]
                          remembered == build'.current[<<that.chunk, build'.segments[a].class>>]
                      IN remembered # NoRef /\ (that.codec = "Raw" => remembered.codec = "Raw")
    BY DEF WrittenRemembered
  <2>1. CASE a = id /\ i = n + 1
    <3>1. build'.segments[a].blocks[i] = block /\ build'.segments[a].class = k
      BY <1>3, <1>7, <2>1
    <3>2. build'.current[<<c, k>>] = ref
      BY <1>2, <1>4
    <3> QED
      BY <1>5, <1>11, <3>1, <3>2
  <2>2. CASE ~(a = id /\ i = n + 1)
    <3>1. /\ a \in DOMAIN build.segments /\ i \in DOMAIN build.segments[a].blocks
          /\ build'.segments[a].class = build.segments[a].class
          /\ build'.segments[a].blocks[i] = build.segments[a].blocks[i]
      BY <1>9, <2>2
    <3>2. PICK that \in BlockType, l \in Classes :
            that = build.segments[a].blocks[i] /\ l = build.segments[a].class
      BY <1>4, <3>1 DEF IsTable, SegmentType
    <3>3. /\ build.current[<<that.chunk, l>>] # NoRef
          /\ that.codec = "Raw" => build.current[<<that.chunk, l>>].codec = "Raw"
      BY <3>1, <3>2 DEF SegmentsInv, WrittenRemembered
    <3>4. CASE that.chunk = c /\ l = k
      <4>1. that.codec # "Raw"
        BY <1>10, <3>1, <3>2, <3>4
      <4>2. build'.current[<<that.chunk, l>>] = ref
        BY <1>2, <1>4, <3>4
      <4> QED
        BY <1>5, <3>1, <3>2, <4>1, <4>2
    <3>5. CASE ~(that.chunk = c /\ l = k)
      <4>1. build'.current[<<that.chunk, l>>] = build.current[<<that.chunk, l>>]
        BY <1>2, <1>4, <3>2, <3>5 DEF BlockType
      <4> QED
        BY <3>1, <3>2, <3>3, <4>1
    <3> QED
      BY <3>4, <3>5
  <2> QED
    BY <2>1, <2>2
<1>14. IsFiniteSet(BytesOf(blocks))
  BY <1>2, NoBytes DEF SegmentsInv
<1>15. /\ IsFiniteSet(BytesOf(more))
       /\ Cardinality(BytesOf(more)) - Cardinality(BytesOf(blocks)) = StoredOf(block)
  BY <1>7, <1>14, PayloadOfMore
<1>16. Cardinality(BytesOf(more)) <= Target[k[2]] \/ Len(more) = 1
  <2>1. CASE n = 0
    BY <1>7, <2>1
  <2>2. CASE n # 0
    <3>1. HasRoom(id, block) /\ build.segments[id] = [class |-> k, blocks |-> blocks]
      BY <1>2, <1>6, <2>2
    <3>2. Payload(build.segments[id]) = Cardinality(BytesOf(blocks))
      BY <3>1 DEF Payload, Stored, BytesOf
    <3>3. Cardinality(BytesOf(blocks)) + StoredOf(block) <= Target[k[2]]
      BY <3>1, <3>2 DEF HasRoom
    <3>4. /\ Cardinality(BytesOf(blocks)) \in Nat /\ Cardinality(BytesOf(more)) \in Nat
      BY <1>14, <1>15, FS_CardinalityType
    <3> QED
      BY <1>15, <3>3, <3>4
  <2> QED
    BY <2>1, <2>2
<1>17. SegmentsWithinTarget'
  <2> SUFFICES ASSUME NEW a \in DOMAIN build'.segments
               PROVE  \/ Payload(build'.segments[a]) <= Target[build'.segments[a].class[2]]
                      \/ Len(build'.segments[a].blocks) = 1
    BY DEF SegmentsWithinTarget
  <2>1. CASE a = id
    <3>1. build'.segments[a] = [class |-> k, blocks |-> more]
      BY <1>3, <1>7, <2>1
    <3>2. Payload(build'.segments[a]) = Cardinality(BytesOf(more))
      BY <3>1 DEF Payload, Stored, BytesOf
    <3> QED
      BY <1>16, <3>1, <3>2
  <2>2. CASE a # id
    <3>1. a \in DOMAIN build.segments /\ build'.segments[a] = build.segments[a]
      BY <1>3, <2>2
    <3> QED
      BY <3>1 DEF SegmentsInv, SegmentsWithinTarget
  <2> QED
    BY <2>1, <2>2
<1>18. ASSUME NEW a \in DOMAIN build'.segments
       PROVE  IsFiniteSet(BytesOf(build'.segments[a].blocks))
  <2>1. CASE a = id
    <3>1. build'.segments[a].blocks = more
      BY <1>3, <1>7, <2>1
    <3> QED
      BY <1>15, <3>1
  <2>2. CASE a # id
    <3>1. a \in DOMAIN build.segments /\ build'.segments[a].blocks = build.segments[a].blocks
      BY <1>3, <2>2
    <3> QED
      BY <3>1 DEF SegmentsInv
  <2> QED
    BY <2>1, <2>2
<1>19. (\A a \in DOMAIN build.segments : IsFiniteSet(BytesOf(build.segments[a].blocks)))'
  BY <1>18
<1> QED
  BY <1>12, <1>13, <1>17, <1>19 DEF SegmentsInv

LEMMA SegmentsAlways == Spec => []SegmentsInv
<1>1. Init => PlacementInv /\ SegmentsInv
  <2> SUFFICES ASSUME Init PROVE PlacementInv /\ SegmentsInv
    OBVIOUS
  <2>1. DOMAIN build.segments = {}
    BY DEF Init, Idle, NoSegments
  <2> QED
    BY <2>1, PlacementInitially
       DEF SegmentsInv, WrittenRemembered, NewBlocksShared, SegmentsWithinTarget
<1>2. PlacementInv /\ SegmentsInv /\ [Next]_vars => PlacementInv' /\ SegmentsInv'
  <2> SUFFICES ASSUME PlacementInv, SegmentsInv, [Next]_vars
               PROVE  SegmentsInv'
    BY PlacementStep
  <2>1. DOMAIN build = DOMAIN Idle
    BY DEF PlacementInv, PlacementType, BuildType
  <2>2. ASSUME NEW o \in Options, StartBuild(o)
        PROVE  SegmentsInv'
    BY <2>2, SegmentsGone DEF StartBuild, Idle
  <2>3. CASE BeginFile \/ ShareBlock
    <3>1. build'.segments = build.segments /\ build'.current = build.current
      BY <2>1, <2>3 DEF BeginFile, ShareBlock, Idle
    <3> QED
      BY <3>1, SegmentsStay
  <2>4. CASE ReuseBlock
    BY <2>4, ReuseBlockSegments
  <2>5. CASE WriteBlock
    BY <2>5, WriteBlockSegments
  <2>6. CASE KeepRelease \/ Stage \/ SaveCache \/ Commit
    BY <2>6, SegmentsStay DEF KeepRelease, Stage, SaveCache, Commit
  <2>7. CASE Report \/ Fail
    BY <2>7, SegmentsGone DEF Report, Fail, Idle
  <2>8. CASE (\E f \in Files : Edit(f)) \/ UNCHANGED vars
    BY <2>8, SegmentsStay DEF Edit, vars
  <2> QED
    BY <2>2, <2>3, <2>4, <2>5, <2>6, <2>7, <2>8 DEF Next, Done
<1> QED
  BY <1>1, <1>2, PTL DEF Spec

(* add_chunk writes no chunk twice for one class and codec in a build.        *)
THEOREM BlocksWrittenOnce == Spec => []NewBlocksShared
<1>1. SegmentsInv => NewBlocksShared
  BY DEF SegmentsInv
<1> QED
  BY <1>1, SegmentsAlways, PTL

(* add_chunk lets no segment of more than one block pass its class's target.  *)
THEOREM TargetsKept == Spec => []SegmentsWithinTarget
<1>1. SegmentsInv => SegmentsWithinTarget
  BY DEF SegmentsInv
<1> QED
  BY <1>1, SegmentsAlways, PTL
-------------------------------------------------------------------------------
(* What compaction takes.                                                   *)

BytesIn(refs, ids) == Bytes([block \in BlocksIn(refs, ids) |-> PlainOf(block)], BlocksIn(refs, ids))

(* The references of a whole release: finitely many, each to its block.       *)
Lead(refs, segments) ==
  /\ IsFiniteSet(refs) /\ IsTable(segments)
  /\ \A r \in refs : r \in RefType /\ Leads(segments, r)

LEMMA RefsLead ==
  ASSUME ReleaseType(release), ReleaseSound(release)
  PROVE  Lead(AllRefs(release.files), release.segments)
<1>1. \A r \in AllRefs(release.files) : r \in RefType /\ Leads(release.segments, r)
  BY RefsOfARelease
<1>2. IsTable(release.segments) /\ release.files \in [Files -> Seq(RefType)]
  BY DEF ReleaseType
<1>3. \A f \in Files : IsFiniteSet(Range(release.files[f]))
  <2> TAKE f \in Files
  <2> DEFINE q == release.files[f]
  <2>1. q \in Seq(RefType) /\ DOMAIN q = 1 .. Len(q) /\ Len(q) \in Nat
    BY <1>2
  <2>2. q \in Surjection(1 .. Len(q), Range(q))
    BY <2>1 DEF Surjection, Range
  <2>3. IsFiniteSet(1 .. Len(q))
    BY <2>1, FS_Interval
  <2> QED
    BY <2>2, <2>3, FS_Surjection
<1>4. IsFiniteSet(AllRefs(release.files))
  <2> DEFINE all == {Range(release.files[f]) : f \in Files}
  <2>1. IsFiniteSet(all)
    <3>1. IsFiniteSet(Files)
      BY ConstantsAssumption, FS_Interval DEF Files
    <3>2. [f \in Files |-> Range(release.files[f])] \in Surjection(Files, all)
      BY DEF Surjection
    <3> QED
      BY <3>1, <3>2, FS_Surjection
  <2>2. AllRefs(release.files) = UNION all
    BY <1>2 DEF AllRefs
  <2>3. \A R \in all : IsFiniteSet(R)
    BY <1>3
  <2> HIDE DEF all
  <2> QED
    BY <2>1, <2>2, <2>3, FS_UNION
<1> QED
  BY <1>1, <1>2, <1>4 DEF Lead

(* Bytes of finitely many things of some lengths.                            *)
LEMMA BytesFinite ==
  ASSUME NEW S, IsFiniteSet(S), NEW len, \A x \in S : len[x] \in Nat
  PROVE  IsFiniteSet(Bytes(len, S))
<1> DEFINE all == {{x} \X (1 .. len[x]) : x \in S}
<1>1. IsFiniteSet(all)
  <2>1. [x \in S |-> {x} \X (1 .. len[x])] \in Surjection(S, all)
    BY DEF Surjection
  <2> QED
    BY <2>1, FS_Surjection
<1>2. \A B \in all : IsFiniteSet(B)
  <2> TAKE B \in all
  <2>1. PICK x \in S : B = {x} \X (1 .. len[x])
    OBVIOUS
  <2>2. len[x] \in Nat
    OBVIOUS
  <2> HIDE DEF all
  <2> QED
    BY <2>1, <2>2, BytesOfOne
<1>3. Bytes(len, S) = UNION all
  BY DEF Bytes
<1> HIDE DEF all
<1> QED
  BY <1>1, <1>2, <1>3, FS_UNION

LEMMA BlocksAre ==
  ASSUME NEW refs, NEW segments, Lead(refs, segments), NEW ids
  PROVE  /\ IsFiniteSet(BlocksIn(refs, ids))
         /\ \A block \in BlocksIn(refs, ids) :
              block.segment \in ids /\ PlainOf(block) \in Nat
<1> DEFINE some == {q \in refs : q.segment \in ids}
<1>1. IsFiniteSet(some)
  BY FS_Subset DEF Lead
<1>2. [r \in some |-> [r EXCEPT !.offset = 0]] \in Surjection(some, BlocksIn(refs, ids))
  BY DEF Surjection, BlocksIn
<1>3. IsFiniteSet(BlocksIn(refs, ids))
  BY <1>1, <1>2, FS_Surjection
<1>4. ASSUME NEW block \in BlocksIn(refs, ids)
      PROVE  block.segment \in ids /\ PlainOf(block) \in Nat
  <2>1. PICK r \in some : block = [r EXCEPT !.offset = 0]
    BY DEF BlocksIn
  <2>2. r \in RefType
    BY DEF Lead
  <2>3. block.segment = r.segment /\ block.chunk = r.chunk /\ r.chunk \in Chunks
    BY <2>1, <2>2 DEF RefType
  <2> QED
    BY <2>3, ConstantsAssumption DEF PlainOf
<1> QED
  BY <1>3, <1>4

LEMMA BytesInAre ==
  ASSUME NEW refs, NEW segments, Lead(refs, segments), NEW ids
  PROVE  IsFiniteSet(BytesIn(refs, ids)) /\ Rewritten(refs, ids) \in Nat
         /\ Rewritten(refs, ids) = Cardinality(BytesIn(refs, ids))
<1> DEFINE S == BlocksIn(refs, ids)
           len == [block \in S |-> PlainOf(block)]
<1>1. IsFiniteSet(S) /\ \A x \in S : len[x] \in Nat
  BY BlocksAre
<1>2. BytesIn(refs, ids) = Bytes(len, S)
  BY DEF BytesIn
<1> HIDE DEF S, len
<1>3. IsFiniteSet(Bytes(len, S))
  BY <1>1, BytesFinite
<1>4. Rewritten(refs, ids) = Cardinality(BytesIn(refs, ids))
  BY DEF Rewritten, BytesIn
<1> QED
  BY <1>2, <1>3, <1>4, FS_CardinalityType

(* One segment more adds what it holds.                                      *)
LEMMA RewrittenMore ==
  ASSUME NEW refs, NEW segments, Lead(refs, segments), NEW ids, NEW id, id \notin ids
  PROVE  Rewritten(refs, ids \union {id}) = Rewritten(refs, ids) + Rewritten(refs, {id})
<1> DEFINE A == BytesIn(refs, ids)
           B == BytesIn(refs, {id})
           C == BytesIn(refs, ids \union {id})
<1>1. /\ IsFiniteSet(A) /\ Cardinality(A) \in Nat /\ Rewritten(refs, ids) = Cardinality(A)
      /\ IsFiniteSet(B) /\ Cardinality(B) \in Nat /\ Rewritten(refs, {id}) = Cardinality(B)
      /\ Rewritten(refs, ids \union {id}) = Cardinality(C)
  BY BytesInAre
<1>2. BlocksIn(refs, ids \union {id}) = BlocksIn(refs, ids) \union BlocksIn(refs, {id})
  BY DEF BlocksIn
<1>3. C = A \union B
  BY <1>2 DEF BytesIn, Bytes
<1>4. A \cap B = {}
  <2>1. \A block \in BlocksIn(refs, ids) : block \notin BlocksIn(refs, {id})
    BY BlocksAre
  <2> QED
    BY <2>1 DEF BytesIn, Bytes
<1> HIDE DEF A, B, C
<1>5. Cardinality(A \union B) = Cardinality(A) + Cardinality(B) - Cardinality(A \cap B)
  BY <1>1, FS_Union
<1>6. Cardinality(A \cap B) = 0
  BY <1>4, FS_EmptySet
<1> QED
  BY <1>1, <1>3, <1>5, <1>6

(* What a segment's references cost is what rewriting it costs.               *)
LEMMA PlainIs ==
  ASSUME NEW refs, NEW segments, Lead(refs, segments), NEW id \in DOMAIN segments
  PROVE  Plain(segments[id], Referenced(refs, id)) = Rewritten(refs, {id})
<1> DEFINE O == Referenced(refs, id)
           blocks == segments[id].blocks
           len == [o \in O |-> PlainOf(blocks[o])]
           Block(o) == [segment |-> id, ordinal |-> o, offset |-> 0,
                        chunk |-> blocks[o].chunk, codec |-> blocks[o].codec]
           S == BlocksIn(refs, {id})
           plain == [block \in S |-> PlainOf(block)]
<1>1. \A r \in refs : r.segment = id =>
        [r EXCEPT !.offset = 0] = Block(r.ordinal) /\ r.ordinal \in O
  <2> TAKE r \in refs
  <2> HAVE r.segment = id
  <2>1. r \in RefType /\ blocks[r.ordinal] = [chunk |-> r.chunk, codec |-> r.codec]
    BY DEF Lead, Leads
  <2>2. r.ordinal \in O
    BY DEF Referenced
  <2>3. blocks[r.ordinal].chunk = r.chunk /\ blocks[r.ordinal].codec = r.codec
    BY <2>1
  <2>4. r = [segment |-> id, ordinal |-> r.ordinal, offset |-> r.offset,
             chunk |-> r.chunk, codec |-> r.codec]
    BY <2>1 DEF RefType
  <2>5. [r EXCEPT !.offset = 0] = [segment |-> id, ordinal |-> r.ordinal, offset |-> 0,
                                   chunk |-> r.chunk, codec |-> r.codec]
    BY <2>4
  <2> QED
    BY <2>2, <2>3, <2>5
<1>2. S = {Block(o) : o \in O}
  <2>1. ASSUME NEW b \in S PROVE b \in {Block(o) : o \in O}
    <3>1. PICK r \in refs : r.segment = id /\ b = [r EXCEPT !.offset = 0]
      BY DEF BlocksIn
    <3> QED
      BY <1>1, <3>1
  <2>2. ASSUME NEW o \in O PROVE Block(o) \in S
    <3>1. PICK r \in refs : r.segment = id /\ r.ordinal = o
      BY DEF Referenced
    <3>2. [r EXCEPT !.offset = 0] = Block(o)
      BY <1>1, <3>1
    <3> HIDE DEF Block
    <3> QED
      BY <3>1, <3>2 DEF BlocksIn
  <2> HIDE DEF S, Block
  <2> QED
    BY <2>1, <2>2
<1>3. \A o \in O : PlainOf(Block(o)) = PlainOf(blocks[o])
  BY DEF PlainOf
<1> DEFINE X == Bytes(len, O)
           Y == Bytes(plain, S)
           move == [x \in Y |-> <<x[1].ordinal, x[2]>>]
<1>5. \A x : x \in X <=> \E o \in O : \E i \in 1 .. PlainOf(blocks[o]) : x = <<o, i>>
  BY DEF Bytes
<1>6. \A y : y \in Y <=> \E o \in O : \E i \in 1 .. PlainOf(blocks[o]) : y = <<Block(o), i>>
  <2>1. \A y : y \in Y <=> \E b \in S : \E i \in 1 .. PlainOf(b) : y = <<b, i>>
    BY DEF Bytes
  <2> HIDE DEF Y, S, Block
  <2> QED
    BY <1>2, <1>3, <2>1
<1>7. move \in Bijection(Y, X)
  <2>1. \A o \in O : Block(o).ordinal = o
    OBVIOUS
  <2> HIDE DEF X, Y, Block, O
  <2>2. move \in [Y -> X]
    BY <1>5, <1>6, <2>1
  <2>3. \A y, z \in Y : move[y] = move[z] => y = z
    BY <1>6, <2>1
  <2>4. ASSUME NEW x \in X
        PROVE  \E y \in Y : move[y] = x
    <3>1. PICK o \in O : \E i \in 1 .. PlainOf(blocks[o]) : x = <<o, i>>
      BY <1>5
    <3>2. PICK i \in 1 .. PlainOf(blocks[o]) : x = <<o, i>>
      BY <3>1
    <3>3. <<Block(o), i>> \in Y
      BY <1>6, <3>2
    <3>4. move[<<Block(o), i>>] = x
      BY <2>1, <3>2, <3>3
    <3> QED
      BY <3>3, <3>4
  <2>5. move \in Injection(Y, X)
    <3> HIDE DEF move
    <3> QED
      BY <2>2, <2>3 DEF Injection, IsInjective
  <2>6. move \in Surjection(Y, X)
    <3> HIDE DEF move
    <3> QED
      BY <2>2, <2>4 DEF Surjection
  <2> QED
    BY <2>5, <2>6 DEF Bijection
<1>8. Y = BytesIn(refs, {id}) /\ Plain(segments[id], O) = Cardinality(X)
  BY DEF BytesIn, Plain
<1> HIDE DEF X, Y, move
<1>9. IsFiniteSet(Y) /\ Rewritten(refs, {id}) = Cardinality(Y)
  BY <1>8, BytesInAre
<1>10. ExistsBijection(Y, X)
  BY <1>7 DEF ExistsBijection
<1>11. Cardinality(X) = Cardinality(Y)
  BY <1>9, <1>10, FS_Bijection
<1> QED
  BY <1>8, <1>9, <1>11

(* What is left to look at, what was taken and what it costs, when n of the   *)
(* candidates have been looked at.                                           *)
Costs(refs, candidates, plain) ==
  /\ candidates \in SUBSET Nat /\ IsFiniteSet(candidates)
  /\ \A id \in candidates : plain[id] \in Nat /\ plain[id] = Rewritten(refs, {id})

Greedy(acc, n, refs, candidates, plain) ==
  /\ DOMAIN acc = {"left", "selected", "remaining"}
  /\ acc.left \in SUBSET candidates /\ Cardinality(acc.left) = Cardinality(candidates) - n
  /\ acc.selected \in SUBSET candidates /\ acc.selected \cap acc.left = {}
  /\ acc.remaining \in Nat /\ Rewritten(refs, acc.selected) + acc.remaining = RewriteBudget
  /\ \A id \in candidates \ (acc.left \union acc.selected) : plain[id] > acc.remaining

LEMMA CheapestIsOne ==
  ASSUME NEW ids \in SUBSET Nat, ids # {}, NEW plain, \A id \in ids : plain[id] \in Nat
  PROVE  Cheapest(ids, plain) \in ids
<1> DEFINE costs == {plain[other] : other \in ids}
           cheap == {id \in ids : plain[id] = Min(costs)}
<1>1. costs \in SUBSET Nat /\ costs # {}
  OBVIOUS
<1>2. Min(costs) \in costs
  <2> HIDE DEF costs
  <2> QED
    BY <1>1, MinIsIn
<1>3. cheap \in SUBSET Nat /\ cheap # {}
  BY <1>2
<1>4. Cheapest(ids, plain) = Min(cheap)
  BY DEF Cheapest
<1>5. Min(cheap) \in cheap
  <2> HIDE DEF cheap
  <2> QED
    BY <1>3, MinIsIn
<1> QED
  BY <1>4, <1>5

LEMMA GreedyStep ==
  ASSUME NEW refs, NEW segments, Lead(refs, segments), NEW candidates, NEW plain,
         Costs(refs, candidates, plain), NEW n \in 0 .. Cardinality(candidates) - 1,
         NEW acc, Greedy(acc, n, refs, candidates, plain)
  PROVE  Greedy(TakeCheapest(acc, plain), n + 1, refs, candidates, plain)
<1> DEFINE id == Cheapest(acc.left, plain)
           next == TakeCheapest(acc, plain)
<1>1. /\ IsFiniteSet(candidates) /\ Cardinality(candidates) \in Nat
      /\ IsFiniteSet(acc.left) /\ Cardinality(acc.left) \in Nat
      /\ Cardinality(acc.left) = Cardinality(candidates) - n
  BY FS_Subset, FS_CardinalityType DEF Greedy, Costs
<1>2. acc.left # {}
  <2>1. Cardinality(acc.left) # 0
    BY <1>1
  <2> QED
    BY <2>1, FS_EmptySet
<1>3. id \in acc.left
  BY <1>2, CheapestIsOne DEF Greedy, Costs
<1>4. id \in candidates /\ id \notin acc.selected
      /\ plain[id] \in Nat /\ plain[id] = Rewritten(refs, {id})
  BY <1>3 DEF Greedy, Costs
<1>5. next = Taken(acc, id, plain)
  BY DEF TakeCheapest
<1> HIDE DEF id, next
<1>6. Cardinality(acc.left \ {id}) = Cardinality(candidates) - (n + 1)
  <2>1. Cardinality(acc.left \ {id}) = Cardinality(acc.left) - 1
    BY <1>1, <1>3, FS_RemoveElement
  <2>2. n \in Int
    BY <1>1
  <2> QED
    BY <1>1, <2>1, <2>2
<1>7. CASE plain[id] <= acc.remaining
  <2>1. next = [left |-> acc.left \ {id}, selected |-> acc.selected \union {id},
                remaining |-> acc.remaining - plain[id]]
    BY <1>5, <1>7 DEF Taken
  <2>2. /\ Rewritten(refs, acc.selected) \in Nat
        /\ Rewritten(refs, acc.selected \union {id}) = Rewritten(refs, acc.selected) + plain[id]
    BY <1>4, RewrittenMore, BytesInAre
  <2>3. /\ acc.remaining \in Nat /\ Rewritten(refs, acc.selected) + acc.remaining = RewriteBudget
        /\ acc.left \in SUBSET candidates /\ acc.selected \in SUBSET candidates
        /\ acc.selected \cap acc.left = {}
        /\ \A other \in candidates \ (acc.left \union acc.selected) : plain[other] > acc.remaining
    BY DEF Greedy
  <2>4. DOMAIN next = {"left", "selected", "remaining"} /\ next.left = acc.left \ {id}
        /\ next.selected = acc.selected \union {id} /\ next.remaining = acc.remaining - plain[id]
    BY <2>1
  <2>5. next.remaining \in Nat /\ Rewritten(refs, next.selected) + next.remaining = RewriteBudget
    BY <1>4, <1>7, <2>2, <2>3, <2>4
  <2>6. next.left \in SUBSET candidates /\ next.selected \in SUBSET candidates
        /\ next.selected \cap next.left = {}
    BY <1>3, <1>4, <2>3, <2>4
  <2>7. ASSUME NEW other \in candidates \ (next.left \union next.selected)
        PROVE  plain[other] > next.remaining
    <3>1. other \in candidates \ (acc.left \union acc.selected)
      BY <2>4
    <3>2. plain[other] > acc.remaining /\ plain[other] \in Nat
      BY <2>3, <3>1 DEF Costs
    <3> QED
      BY <1>4, <2>3, <2>4, <3>2
  <2>8. Cardinality(next.left) = Cardinality(candidates) - (n + 1)
    BY <1>6, <2>4
  <2>9. Greedy(next, n + 1, refs, candidates, plain)
    BY <2>4, <2>5, <2>6, <2>7, <2>8, Zenon DEF Greedy
  <2> QED
    BY <2>9 DEF next
<1>8. CASE ~(plain[id] <= acc.remaining)
  <2>1. next = [acc EXCEPT !.left = acc.left \ {id}]
    BY <1>5, <1>8 DEF Taken
  <2>2. /\ DOMAIN acc = {"left", "selected", "remaining"}
        /\ acc.remaining \in Nat /\ Rewritten(refs, acc.selected) + acc.remaining = RewriteBudget
        /\ acc.left \in SUBSET candidates /\ acc.selected \in SUBSET candidates
        /\ acc.selected \cap acc.left = {}
        /\ \A other \in candidates \ (acc.left \union acc.selected) : plain[other] > acc.remaining
    BY DEF Greedy
  <2>3. DOMAIN next = {"left", "selected", "remaining"} /\ next.left = acc.left \ {id}
        /\ next.selected = acc.selected /\ next.remaining = acc.remaining
    BY <2>1, <2>2
  <2>4. plain[id] > acc.remaining
    BY <1>4, <1>8, <2>2
  <2>5. ASSUME NEW other \in candidates \ (next.left \union next.selected)
        PROVE  plain[other] > next.remaining
    <3>1. other = id \/ other \in candidates \ (acc.left \union acc.selected)
      BY <2>3
    <3> QED
      BY <2>2, <2>3, <2>4, <3>1
  <2>6. next.left \in SUBSET candidates /\ next.selected \cap next.left = {}
    BY <2>2, <2>3
  <2>7. Cardinality(next.left) = Cardinality(candidates) - (n + 1)
    BY <1>6, <2>3
  <2>8. /\ next.selected \in SUBSET candidates /\ next.remaining \in Nat
        /\ Rewritten(refs, next.selected) + next.remaining = RewriteBudget
    BY <2>2, <2>3
  <2>9. Greedy(next, n + 1, refs, candidates, plain)
    BY <2>3, <2>5, <2>6, <2>7, <2>8, Zenon DEF Greedy
  <2> QED
    BY <2>9 DEF next
<1> QED
  BY <1>7, <1>8 DEF next

IsAfter(f, candidates, plain, M) ==
  f = [n \in 0 .. M |->
         IF n = 0 THEN [left |-> candidates, selected |-> {}, remaining |-> RewriteBudget]
         ELSE TakeCheapest(f[n - 1], plain)]

LEMMA AfterExists ==
  ASSUME NEW candidates, NEW plain, NEW M \in Nat
  PROVE  \E f : IsAfter(f, candidates, plain, M)
<1> DEFINE S == {m \in Nat : \E f : IsAfter(f, candidates, plain, m)}
           start == [left |-> candidates, selected |-> {}, remaining |-> RewriteBudget]
<1>1. 0 \in S
  <2>1. IsAfter([m \in 0 .. 0 |-> start], candidates, plain, 0)
    BY DEF IsAfter
  <2> QED
    BY <2>1
<1>2. ASSUME NEW m \in 0 .. M - 1, m \in S
      PROVE  m + 1 \in S
  <2>1. PICK f : IsAfter(f, candidates, plain, m)
    BY <1>2
  <2> DEFINE g == [i \in 0 .. m + 1 |-> IF i = m + 1 THEN TakeCheapest(f[m], plain) ELSE f[i]]
  <2>2. m \in Nat
    OBVIOUS
  <2>3. \A i \in 0 .. m : f[i] = IF i = 0 THEN start ELSE TakeCheapest(f[i - 1], plain)
    BY <2>1, Zenon DEF IsAfter
  <2>4. \A i \in 0 .. m : g[i] = f[i]
    BY <2>2
  <2>5. g[m + 1] = TakeCheapest(f[m], plain) /\ m + 1 # 0 /\ (m + 1) - 1 = m
    BY <2>2
  <2>6. DOMAIN g = 0 .. m + 1
    OBVIOUS
  <2>7. g = [i \in DOMAIN g |-> g[i]]
    OBVIOUS
  <2> HIDE DEF g, start
  <2>8. ASSUME NEW i \in 0 .. m + 1
        PROVE  g[i] = IF i = 0 THEN start ELSE TakeCheapest(g[i - 1], plain)
    <3>1. CASE i = 0
      <4>1. 0 \in 0 .. m
        BY <2>2
      <4> QED
        BY <2>3, <2>4, <3>1, <4>1
    <3>2. CASE i \in 1 .. m
      <4>1. i \in 0 .. m /\ i - 1 \in 0 .. m /\ i # 0
        BY <2>2, <3>2
      <4> QED
        BY <2>3, <2>4, <4>1
    <3>3. CASE i = m + 1
      <4>1. m \in 0 .. m
        BY <2>2
      <4> QED
        BY <2>4, <2>5, <3>3, <4>1
    <3> QED
      BY <2>2, <3>1, <3>2, <3>3
  <2>9. g = [i \in 0 .. m + 1 |-> IF i = 0 THEN start ELSE TakeCheapest(g[i - 1], plain)]
    BY <2>6, <2>7, <2>8
  <2>10. IsAfter(g, candidates, plain, m + 1)
    BY <2>9 DEF IsAfter, start
  <2> QED
    BY <2>2, <2>10
<1> HIDE DEF S
<1>3. M \in S
  BY <1>1, <1>2, UpTo
<1> QED
  BY <1>3 DEF S

(* What is taken fits the budget, and nothing that is left out would.          *)
LEMMA SelectedIs ==
  ASSUME NEW refs, NEW segments, Lead(refs, segments), NEW candidates, NEW plain,
         Costs(refs, candidates, plain), NEW selected, selected = Selected(candidates, plain)
  PROVE  /\ Rewritten(refs, selected) <= RewriteBudget
         /\ \A id \in candidates \ selected :
              Rewritten(refs, selected \union {id}) > RewriteBudget
<1> DEFINE M == Cardinality(candidates)
           f == CHOOSE g : IsAfter(g, candidates, plain, M)
           S == {n \in 0 .. M : Greedy(f[n], n, refs, candidates, plain)}
           start == [left |-> candidates, selected |-> {}, remaining |-> RewriteBudget]
<1>1. M \in Nat /\ IsFiniteSet(candidates) /\ candidates \in SUBSET Nat
  BY FS_CardinalityType DEF Costs
<1>2. selected = f[M].selected
  BY DEF Selected, IsAfter
<1>3. IsAfter(f, candidates, plain, M)
  <2> HIDE DEF M
  <2> QED
    BY <1>1, AfterExists
<1> HIDE DEF M, f
<1>4. f[0] = start /\ \A n \in 1 .. M : f[n] = TakeCheapest(f[n - 1], plain)
  <2>1. 0 \in 0 .. M /\ \A n \in 1 .. M : n \in 0 .. M /\ n # 0
    BY <1>1
  <2> QED
    BY <1>3, <2>1 DEF IsAfter
<1>5. 0 \in S
  <2>1. Rewritten(refs, {}) = 0
    <3>1. BytesIn(refs, {}) = {}
      BY DEF BytesIn, Bytes, BlocksIn
    <3> QED
      BY <3>1, BytesInAre, FS_EmptySet
  <2>2. RewriteBudget \in Nat
    BY ConstantsAssumption
  <2>3. Greedy(start, 0, refs, candidates, plain)
    BY <1>1, <2>1, <2>2 DEF Greedy, M
  <2> QED
    BY <1>1, <1>4, <2>3
<1>6. ASSUME NEW n \in 0 .. M - 1, n \in S
      PROVE  n + 1 \in S
  <2>1. n + 1 \in 1 .. M /\ (n + 1) - 1 = n /\ n + 1 \in 0 .. M
    BY <1>1
  <2>2. Greedy(f[n], n, refs, candidates, plain) /\ f[n + 1] = TakeCheapest(f[n], plain)
    BY <1>4, <1>6, <2>1
  <2>3. Greedy(TakeCheapest(f[n], plain), n + 1, refs, candidates, plain)
    <3>1. n \in 0 .. Cardinality(candidates) - 1
      BY DEF M
    <3> QED
      BY <2>2, <3>1, GreedyStep
  <2> QED
    BY <2>1, <2>2, <2>3
<1> HIDE DEF S
<1>7. M \in S
  BY <1>1, <1>5, <1>6, UpTo
<1> DEFINE acc == f[M]
<1>8. Greedy(acc, M, refs, candidates, plain)
  BY <1>7 DEF S
<1> HIDE DEF acc
<1>9. acc.left = {}
  <2>1. IsFiniteSet(acc.left)
    BY <1>1, <1>8, FS_Subset DEF Greedy
  <2>2. Cardinality(acc.left) = 0
    BY <1>1, <1>8 DEF Greedy, M
  <2> QED
    BY <2>1, <2>2, FS_EmptySet
<1>10. /\ acc.remaining \in Nat /\ Rewritten(refs, selected) + acc.remaining = RewriteBudget
       /\ \A id \in candidates \ selected : plain[id] > acc.remaining
  <2>1. selected = acc.selected
    BY <1>2 DEF acc
  <2> QED
    BY <1>8, <1>9, <2>1 DEF Greedy
<1>11. Rewritten(refs, selected) \in Nat
  BY BytesInAre
<1>12. ASSUME NEW id \in candidates \ selected
       PROVE  Rewritten(refs, selected \union {id}) > RewriteBudget
  <2>1. Rewritten(refs, selected \union {id}) = Rewritten(refs, selected) + plain[id]
    <3>1. id \in candidates /\ id \notin selected /\ plain[id] = Rewritten(refs, {id})
      BY <1>12 DEF Costs
    <3> QED
      BY <3>1, RewrittenMore
  <2>2. plain[id] \in Nat /\ plain[id] > acc.remaining
    BY <1>10, <1>12 DEF Costs
  <2> QED
    BY <1>10, <1>11, <2>1, <2>2
<1> QED
  BY <1>10, <1>11, <1>12

LEMMA CompactionIs ==
  ASSUME ReleaseType(release), ReleaseSound(release),
         NEW refs, refs = AllRefs(release.files),
         NEW excluded, excluded = CompactionSegments(release.segments, refs)
  PROVE  /\ Rewritten(refs, excluded) <= RewriteBudget
         /\ \A id \in Candidates(release.segments, refs) \ excluded :
              Rewritten(refs, excluded \union {id}) > RewriteBudget
<1> DEFINE segments == release.segments
           candidates == Candidates(segments, refs)
           plain == [id \in DOMAIN segments |-> Plain(segments[id], Referenced(refs, id))]
<1>1. Lead(refs, segments)
  BY RefsLead
<1>2. excluded = Selected(candidates, plain)
  BY DEF CompactionSegments
<1>3. candidates \in SUBSET DOMAIN segments
  BY DEF Candidates, Fragments
<1>4. DOMAIN segments \subseteq SegmentIds
  BY DEF ReleaseType, IsTable
<1>5. candidates \in SUBSET Nat /\ IsFiniteSet(candidates)
  <2> HIDE DEF candidates
  <2>1. candidates \in SUBSET SegmentIds
    BY <1>3, <1>4
  <2> QED
    BY <2>1, FS_Subset, ConstantsAssumption
<1>6. \A id \in candidates : plain[id] \in Nat /\ plain[id] = Rewritten(refs, {id})
  <2> TAKE id \in candidates
  <2>1. id \in DOMAIN segments
    BY <1>3
  <2>2. Plain(segments[id], Referenced(refs, id)) = Rewritten(refs, {id})
    <3> HIDE DEF segments
    <3> QED
      BY <1>1, <2>1, PlainIs
  <2>3. Rewritten(refs, {id}) \in Nat
    <3> HIDE DEF segments
    <3> QED
      BY <1>1, BytesInAre
  <2> HIDE DEF segments, candidates
  <2> QED
    BY <2>1, <2>2, <2>3
<1>7. Costs(refs, candidates, plain)
  BY <1>5, <1>6 DEF Costs
<1> HIDE DEF candidates, plain, segments
<1>8. /\ Rewritten(refs, excluded) <= RewriteBudget
      /\ \A id \in candidates \ excluded : Rewritten(refs, excluded \union {id}) > RewriteBudget
  BY <1>1, <1>2, <1>7, SelectedIs
<1> QED
  BY <1>8 DEF candidates, segments

(* compaction_segments selects no more live bytes than the budget, and leaves *)
(* out nothing that would still fit (packer.rs:1249).                        *)
THEOREM BudgetFilled == Spec => []CompactionFillsBudget
<1>1. Init => CompactionFillsBudget
  BY DEF Init, CompactionFillsBudget
<1>2. PlacementInv /\ CompactionFillsBudget /\ [Next]_vars => CompactionFillsBudget'
  <2> SUFFICES ASSUME PlacementInv, CompactionFillsBudget, [Next]_vars
               PROVE  CompactionFillsBudget'
    OBVIOUS
  <2>1. ReleaseType(release) /\ ReleaseSound(release) /\ DOMAIN build = DOMAIN Idle
        /\ build.files \in Seq(Seq(RefType))
    BY DEF PlacementInv, PlacementType, BuildType
  <2>2. ASSUME NEW o \in Options, StartBuild(o)
        PROVE  CompactionFillsBudget'
    <3> DEFINE refs == AllRefs(release.files)
    <3>1. /\ build'.options = o /\ release' = release
          /\ o.incremental => build'.excluded = CompactionSegments(release.segments, refs)
      BY <2>2 DEF StartBuild, Idle
    <3>2. o.incremental =>
            /\ Rewritten(refs, build'.excluded) <= RewriteBudget
            /\ \A id \in Candidates(release.segments, refs) \ build'.excluded :
                 Rewritten(refs, build'.excluded \union {id}) > RewriteBudget
      <4> SUFFICES ASSUME o.incremental
                   PROVE  /\ Rewritten(refs, build'.excluded) <= RewriteBudget
                          /\ \A id \in Candidates(release.segments, refs) \ build'.excluded :
                               Rewritten(refs, build'.excluded \union {id}) > RewriteBudget
        OBVIOUS
      <4> HIDE DEF refs
      <4>1. refs = AllRefs(release.files)
        BY DEF refs
      <4> QED
        BY <2>1, <3>1, <4>1, CompactionIs
    <3> QED
      BY <3>1, <3>2 DEF CompactionFillsBudget
  <2>3. CASE BeginFile
    <3>1. build'.files = Append(build.files, <<>>)
      BY <2>1, <2>3 DEF BeginFile, Idle
    <3>2. build'.files # <<>>
      BY <2>1, <3>1
    <3> QED
      BY <3>2 DEF CompactionFillsBudget
  <2>4. CASE ShareBlock \/ ReuseBlock \/ WriteBlock
    <3>1. /\ build'.options = build.options /\ build'.excluded = build.excluded
          /\ DOMAIN build'.files = DOMAIN build.files
          /\ release' = release
          /\ phase' \in {phase, "lost"}
      <4>1. CASE ShareBlock
        <5>1. /\ build' = [build EXCEPT
                   !.chunks = Tail(build.chunks),
                   !.files = [build.files EXCEPT ![File] =
                                Append(build.files[File], AtNextOffset(Current(File, Chunk)))]]
              /\ UNCHANGED <<release, phase>>
          BY <4>1 DEF ShareBlock
        <5> QED
          BY <2>1, <5>1 DEF Idle
      <4>2. CASE ReuseBlock
        BY <2>1, <4>2 DEF ReuseBlock, Idle
      <4>3. CASE WriteBlock
        <5>1. PICK f \in Files, c \in Chunks, k \in Classes, id \in SegmentIds, block \in BlockType,
                   blocks \in Seq(BlockType), r \in RefType : \E ref :
                     Writes(f, c, k, id, block, blocks, r, ref)
          BY <2>1, <4>3, WriteBlockIs
        <5> QED
          BY <4>3, <5>1 DEF Writes
      <4> QED
        BY <2>4, <4>1, <4>2, <4>3
    <3>2. build'.files = <<>> => build.files = <<>>
      <4> SUFFICES ASSUME build'.files = <<>>
                   PROVE  build.files = <<>>
        OBVIOUS
      <4>1. DOMAIN build.files = {}
        BY <3>1
      <4>2. DOMAIN build.files = 1 .. Len(build.files) /\ Len(build.files) \in Nat
        BY BuildTyped DEF PlacementInv
      <4>3. Len(build.files) = 0
        <5>1. PICK m \in Nat : m = Len(build.files)
          BY <4>2, Zenon
        <5>2. 1 .. m = {}
          BY <4>1, <4>2, <5>1, Zenon
        <5>3. m # 0 => 1 \in 1 .. m
          OBVIOUS
        <5> QED
          BY <5>1, <5>2, <5>3, Zenon
      <4> QED
        BY <2>1, <4>3, EmptySeq
    <3>3. ASSUME build'.options.incremental, phase' = "files", build'.files = <<>>
          PROVE  LET refs == AllRefs(release.files) IN
                 /\ Rewritten(refs, build.excluded) <= RewriteBudget
                 /\ \A id \in Candidates(release.segments, refs) \ build.excluded :
                      Rewritten(refs, build.excluded \union {id}) > RewriteBudget
      <4>1. build.options.incremental /\ phase = "files" /\ build.files = <<>>
        BY <3>1, <3>2, <3>3
      <4> QED
        BY <4>1, Zenon DEF CompactionFillsBudget
    <3> QED
      BY <3>1, <3>3 DEF CompactionFillsBudget
  <2>5. CASE KeepRelease \/ Stage \/ SaveCache \/ Commit \/ Report \/ Fail
    BY <2>5 DEF KeepRelease, Stage, SaveCache, Commit, Report, Fail, Goto, CompactionFillsBudget
  <2>6. CASE (\E f \in Files : Edit(f)) \/ UNCHANGED vars
    BY <2>6 DEF Edit, vars, CompactionFillsBudget
  <2> QED
    BY <2>2, <2>3, <2>4, <2>5, <2>6 DEF Next, Done
<1> QED
  BY <1>1, <1>2, PlacementAlways, PTL DEF Spec
===============================================================================
