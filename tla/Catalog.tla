------------------------------- MODULE Catalog -------------------------------
(***************************************************************************)
(* What the publisher writes into a snapshot and its segments (packer.rs,  *)
(* core/format.rs), and what the runtime makes of it (core/format.rs,      *)
(* core/package.rs): operators only.                                       *)
(*                                                                         *)
(* Tables count from 1, so that index i of the code is i + 1 here and 0    *)
(* stands for EMPTY_PATH_SLOT.  A record is a TLA+ record, and a table a   *)
(* sequence: offsets into the catalog's bytes are left out, the offsets    *)
(* of pages and blocks are kept.  A file of a source tree is its path,     *)
(* what its extension says of it, and its bytes; files are in the order of *)
(* their paths.                                                            *)
(***************************************************************************)
EXTENDS Integers, SequencesExt

CONSTANTS
  Hash,                 \* the keyed hash of each path that is asked for
  HashBits,             \* its width (32 in the code)
  PathLength,           \* the length of each path
  BlocksPerMapPage, ReusePerPage,
  HotFileLimit, ContentDefinedLimit, ShortAudioLimit,
  AudioBlock, StreamBlock, BulkBlock,
  SegmentTarget,        \* the payload at which a segment is full
  CompressionSavings,   \* what compressing must save at least
  CutAfter,             \* external: bytes after which FastCDC ends a chunk
  Squeezed(_)           \* external: the length zstd compresses a length to

Paths == DOMAIN Hash

Power2[k \in 0 .. HashBits] == IF k = 0 THEN 1 ELSE 2 * Power2[k - 1]

ASSUME CatalogAssumption ==
  /\ HashBits \in Nat /\ \A p \in Paths : Hash[p] \in 0 .. Power2[HashBits] - 1
  /\ \A p \in Paths : PathLength[p] \in Nat \ {0}
  /\ {BlocksPerMapPage, ReusePerPage, AudioBlock, StreamBlock, BulkBlock} \subseteq Nat \ {0}
  /\ {HotFileLimit, ContentDefinedLimit, ShortAudioLimit} \subseteq Nat
  /\ {SegmentTarget, CompressionSavings} \subseteq Nat

(* A source tree, which is a list of files, and what it has as the files of    *)
(* one directory, at most MAX_FILES: different paths, and slots for all.      *)
SourceFile(file) == file.path \in Paths /\ file.bytes \in Seq(Nat)
SourceTree(t) == Len(t) \in Nat /\ DOMAIN t = 1 .. Len(t) /\ \A f \in 1 .. Len(t) : SourceFile(t[f])
Indexable(t) ==
  /\ \A f, g \in 1 .. Len(t) : t[f].path = t[g].path => f = g
  /\ 2 * Len(t) <= Power2[HashBits]

HeaderSize == [Snapshot |-> 256, Segment |-> 128, Catalog |-> 64, Page |-> 16]
RecordSize == [Segment |-> 96, File |-> 32, Slot |-> 8, Page |-> 64, BlockMap |-> 48, Reuse |-> 32]
RecordsPerPage == [BlockMap |-> BlocksPerMapPage, Reuse |-> ReusePerPage]
TagSize == 16

DivCeil(n, d) == (n + d - 1) \div d
SumOf(seq) ==
  LET sum[n \in 0 .. Len(seq)] == IF n = 0 THEN 0 ELSE sum[n - 1] + seq[n]
  IN sum[Len(seq)]
Pieces(seq, n) ==
  [p \in 1 .. DivCeil(Len(seq), n) |-> SubSeq(seq, (p - 1) * n + 1, Min({p * n, Len(seq)}))]

(* A byte of a path is the path and which of its bytes it is.                *)
PathBytes(path) == [i \in 1 .. PathLength[path] |-> <<path, i>>]

-------------------------------------------------------------------------------
(* The publisher: the class of a file and how it is cut into blocks.        *)

Fixed(len, access) == [layout |-> "Fixed", fixed |-> len, access |-> access]

Layout(file) ==
  LET len == Len(file.bytes) IN
  CASE file.kind = "video" -> Fixed(StreamBlock, "Streaming")
    [] file.kind = "music" -> Fixed(AudioBlock, "Streaming")
    [] file.kind = "audio" ->
         Fixed(AudioBlock, IF len > ShortAudioLimit THEN "Streaming" ELSE "Transient")
    [] OTHER ->
         IF len <= HotFileLimit THEN Fixed(Max({len, 1}), "Hot")
         ELSE IF len <= ContentDefinedLimit
         THEN [layout |-> "ContentDefined", fixed |-> 0, access |-> "Normal"]
         ELSE Fixed(BulkBlock, "Normal")

Classify(file) ==
  LET cut == Layout(file) IN
  [compression |-> IF file.compressed THEN "Raw" ELSE "Auto",
   layout |-> cut.layout, fixed |-> cut.fixed, access |-> cut.access]

Accepts(compression, codec) == compression = "Auto" \/ codec = "Raw"

(* cuts[n] is where the chunks of the first n bytes begin and end.           *)
ContentDefinedChunks(bytes) ==
  LET cuts[n \in 0 .. Len(bytes)] ==
        IF n = 0 THEN <<0>>
        ELSE IF bytes[n] \in CutAfter \/ n = Len(bytes) THEN Append(cuts[n - 1], n)
        ELSE cuts[n - 1]
      all == cuts[Len(bytes)]
  IN [c \in 1 .. Len(all) - 1 |-> SubSeq(bytes, all[c] + 1, all[c + 1])]

ChunksOf(file) ==
  IF Classify(file).layout = "Fixed" THEN Pieces(file.bytes, Classify(file).fixed)
  ELSE ContentDefinedChunks(file.bytes)

CompressBytes(len) ==
  IF Squeezed(len) \in 0 .. len - CompressionSavings - 1
  THEN [codec |-> "Zstd", stored |-> Squeezed(len) + TagSize]
  ELSE [codec |-> "Raw", stored |-> len + TagSize]

CompressBlock(len, compression) ==
  IF compression = "Auto" THEN CompressBytes(len) ELSE [codec |-> "Raw", stored |-> len + TagSize]

-------------------------------------------------------------------------------
(* The publisher: blocks and segments.                                      *)

Payload(blocks) == SumOf([b \in DOMAIN blocks |-> blocks[b].stored])

WriteBlock(blocks, bytes, encoded) ==
  Append(blocks, [bytes |-> bytes, codec |-> encoded.codec, stored |-> encoded.stored,
                  physical |-> HeaderSize.Segment + Payload(blocks)])

(* The segments with one for a block of the class: the last one of the class *)
(* as long as the block fits, or a new one.                                  *)
WithRoom(segments, access, stored) ==
  LET last == SelectLastInSeq(segments, LAMBDA s : s.access = access)
  IN IF last # 0 /\ Payload(segments[last].blocks) + stored <= SegmentTarget
     THEN [all |-> segments, at |-> last]
     ELSE [all |-> Append(segments, [access |-> access, blocks |-> <<>>]), at |-> Len(segments) + 1]

(* pending is every block reference so far, with its chunk.                  *)
AddBlock(out, logical, bytes, class) ==
  LET encoded == CompressBlock(Len(bytes), class.compression)
      room    == WithRoom(out.segments, class.access, encoded.stored)
      blocks  == WriteBlock(room.all[room.at].blocks, bytes, encoded)
  IN [out EXCEPT !.segments = [room.all EXCEPT ![room.at].blocks = blocks],
                 !.pending = Append(@,
                   [chunk |-> bytes, access |-> class.access, logical |-> logical,
                    segment |-> room.at, block |-> Len(blocks), physical |-> Last(blocks).physical,
                    stored |-> encoded.stored, plain |-> Len(bytes), codec |-> encoded.codec])]

(* The last block of the chunk in this class is used again, unless the file  *)
(* must not be compressed and the block is.                                  *)
AddChunk(out, logical, bytes, class) ==
  LET known == SelectLastInSeq(out.pending, LAMBDA p : p.chunk = bytes /\ p.access = class.access)
  IN IF known # 0 /\ Accepts(class.compression, out.pending[known].codec)
     THEN [out EXCEPT !.pending = Append(@, [out.pending[known] EXCEPT !.logical = logical])]
     ELSE AddBlock(out, logical, bytes, class)

AddFile(out, file) ==
  LET class  == Classify(file)
      chunks == ChunksOf(file)
      Start(c) == SumOf([i \in 1 .. c - 1 |-> Len(chunks[i])])
      added[c \in 0 .. Len(chunks)] ==
        IF c = 0 THEN out ELSE AddChunk(added[c - 1], Start(c), chunks[c], class)
  IN [added[Len(chunks)] EXCEPT !.paths = Append(@, file.path), !.pool = @ \o PathBytes(file.path),
       !.files = Append(@,
         [pathAt |-> Len(out.pool), pathLen |-> PathLength[file.path],
          layout |-> class.layout, access |-> class.access, len |-> Len(file.bytes),
          first |-> Len(out.pending) + 1, count |-> Len(chunks), fixed |-> class.fixed])]

-------------------------------------------------------------------------------
(* The publisher: the path index and the pages.                             *)

(* The slots in the order in which a hash is looked for among n of them.      *)
Probes(hash, n) == [p \in 1 .. n |-> (((hash + p - 1) % (Power2[HashBits])) % n) + 1]

EmptySlot == [hash |-> 0, file |-> 0]

(* Mutant: as many slots as files.                                           *)
SlotCountTight(files) == Min({n \in {Power2[k] : k \in 0 .. HashBits} : n >= Max({files, 1})})

SlotCount(files) == Min({n \in {Power2[k] : k \in 0 .. HashBits} : n >= Max({2 * files, 1})})

BuildPathSlots(paths) ==
  LET n == SlotCount(Len(paths))
      Place(slots, f) ==
        LET probes == Probes(Hash[paths[f]], n)
            free   == probes[SelectInSeq(probes, LAMBDA s : slots[s] = EmptySlot)]
        IN [slots EXCEPT ![free] = [hash |-> Hash[paths[f]], file |-> f]]
      placed[f \in 0 .. Len(paths)] ==
        IF f = 0 THEN [s \in 1 .. n |-> EmptySlot] ELSE Place(placed[f - 1], f)
  IN placed[Len(paths)]

EncodePage(kind, first, records) ==
  [kind |-> kind, first |-> first, records |-> records,
   plain |-> HeaderSize.Page + Len(records) * RecordSize[kind]]

EncryptPage(pages, page) ==
  LET encoded == CompressBytes(page.plain) IN
  Append(pages,
    [kind |-> page.kind, first |-> page.first, records |-> page.records, plain |-> page.plain,
     nonce |-> Len(pages) + 1, codec |-> encoded.codec, stored |-> encoded.stored,
     offset |-> IF pages = <<>> THEN 0 ELSE Last(pages).offset + Last(pages).stored])

AddPages(pages, kind, all, capacity) ==
  LET pieces == Pieces(all, capacity)
      made[p \in 0 .. Len(pieces)] ==
        IF p = 0 THEN pages
        ELSE EncryptPage(made[p - 1], EncodePage(kind, (p - 1) * capacity + 1, pieces[p]))
  IN made[Len(pieces)]

(* Mutant: pages of both kinds hold as many records.                         *)
BuildPagesAlike(refs, chunks) ==
  AddPages(AddPages(<<>>, "BlockMap", refs, BlocksPerMapPage), "Reuse", chunks, BlocksPerMapPage)

BuildPages(refs, chunks) ==
  AddPages(AddPages(<<>>, "BlockMap", refs, BlocksPerMapPage), "Reuse", chunks, ReusePerPage)

-------------------------------------------------------------------------------
(* The publisher: segment files, the catalog and the snapshot.              *)

(* A segment file and what the catalog records of it, header and record; the *)
(* order of segments, which is that of their identities, is that in which    *)
(* they were begun here.                                                     *)
Finish(blocks) ==
  LET about == [count |-> Len(blocks), payload |-> Payload(blocks),
                len |-> HeaderSize.Segment + Payload(blocks)]
  IN [blocks |-> blocks, header |-> about, record |-> about]

(* Where the tables of a catalog begin, and where it ends.                   *)
TableEnd(start, count, kind) == start + count * RecordSize[kind]

EncodeCatalog(segments, files, slots, pool, pages) ==
  LET filesAt == TableEnd(HeaderSize.Catalog, segments, "Segment")
      slotsAt == TableEnd(filesAt, files, "File")
      poolAt  == TableEnd(slotsAt, slots, "Slot")
      pagesAt == poolAt + pool
  IN [tables |-> [segments |-> HeaderSize.Catalog, files |-> filesAt, slots |-> slotsAt,
                  pool |-> poolAt, pages |-> pagesAt],
      size |-> TableEnd(pagesAt, pages, "Page")]

SnapshotHeader(size, pages) ==
  LET stored == Squeezed(size) + TagSize IN
  [plain |-> size, stored |-> stored, region |-> HeaderSize.Snapshot + stored, pages |-> pages]

SnapshotLength(header, pages) ==
  header.region + SumOf([p \in DOMAIN pages |-> pages[p].stored])

(* What a full build of a source tree has made when every file is added.     *)
NothingBuilt ==
  [segments |-> <<>>, pending |-> <<>>, files |-> <<>>, paths |-> <<>>, pool |-> <<>>]

Built(tree) ==
  LET built[f \in 0 .. Len(tree)] ==
        IF f = 0 THEN NothingBuilt ELSE AddFile(built[f - 1], tree[f])
  IN built[Len(tree)]

BlockRefs(pending) ==
  [r \in DOMAIN pending |->
     [logical |-> pending[r].logical, segment |-> pending[r].segment, block |-> pending[r].block,
      physical |-> pending[r].physical, stored |-> pending[r].stored, plain |-> pending[r].plain,
      codec |-> pending[r].codec]]

(* The snapshot of a source tree, with its segments.                         *)
Assembled(out, segments, slots, pages) ==
  LET Count(kind) == Cardinality({p \in DOMAIN pages : pages[p].kind = kind})
      encoded == EncodeCatalog(Len(segments), Len(out.files), Len(slots), Len(out.pool), Len(pages))
      header  == SnapshotHeader(encoded.size, Count("BlockMap") + Count("Reuse"))
  IN [segments |-> segments, files |-> out.files, slots |-> slots, pool |-> out.pool,
      pages |-> pages, blocks |-> Len(out.pending),
      mapPages |-> Count("BlockMap"), reusePages |-> Count("Reuse"),
      tables |-> encoded.tables, header |-> header, length |-> SnapshotLength(header, pages)]

Snapshot(out) ==
  Assembled(out, [s \in DOMAIN out.segments |-> Finish(out.segments[s].blocks)],
            BuildPathSlots(out.paths),
            BuildPages(BlockRefs(out.pending), [r \in DOMAIN out.pending |-> out.pending[r].chunk]))

WriteSnapshot(tree) == Snapshot(Built(tree))

-------------------------------------------------------------------------------
(* The runtime: which catalogs it accepts.                                  *)

EncodedLengthCanonical(r) ==
  IF r.codec = "Raw" THEN r.stored = r.plain + TagSize
  ELSE r.stored \in TagSize .. r.plain + TagSize - 1

HeaderAccepted(header) ==
  header.stored >= TagSize /\ header.plain > 0 /\ header.region = HeaderSize.Snapshot + header.stored

CountsAccepted(cat) ==
  /\ \E k \in 0 .. HashBits : Len(cat.slots) = Power2[k]
  /\ cat.mapPages + cat.reusePages = Len(cat.pages)

TablesAccepted(cat) ==
  LET t == cat.tables IN
  /\ t.segments = HeaderSize.Catalog
  /\ t.files - t.segments = Len(cat.segments) * RecordSize.Segment
  /\ t.slots - t.files = Len(cat.files) * RecordSize.File
  /\ t.pool - t.slots = Len(cat.slots) * RecordSize.Slot
  /\ t.pages - t.pool = Len(cat.pool)
  /\ cat.header.plain - t.pages = Len(cat.pages) * RecordSize.Page

PagesCover(cat) ==
  /\ cat.mapPages = DivCeil(cat.blocks, BlocksPerMapPage)
  /\ cat.reusePages = DivCeil(cat.blocks, ReusePerPage)

SegmentAccepted(record) == record.len = HeaderSize.Segment + record.payload

(* FileRecord::parse by itself, and against the rest of the catalog.         *)
FileParsed(file) ==
  /\ file.layout = "Fixed" /\ file.len > 0 => file.fixed # 0
  /\ file.layout = "ContentDefined" => file.fixed = 0

FileAccepted(cat, file) ==
  /\ FileParsed(file)
  /\ file.pathLen # 0 /\ file.pathAt + file.pathLen <= Len(cat.pool)
  /\ file.first + file.count - 1 <= cat.blocks

SlotAccepted(cat, slot) == slot.file <= Len(cat.files)

(* PageRecord::parse by itself, and against the rest of the catalog.         *)
PageParsed(page) == page.stored >= TagSize /\ page.plain > 0 /\ EncodedLengthCanonical(page)

PageAccepted(cat, i) ==
  LET page  == cat.pages[i]
      local == IF i <= cat.mapPages THEN i - 1 ELSE i - 1 - cat.mapPages
      left  == cat.blocks - local * RecordsPerPage[page.kind]
  IN /\ PageParsed(page)
     /\ page.kind = (IF i <= cat.mapPages THEN "BlockMap" ELSE "Reuse")
     /\ page.nonce = i
     /\ page.plain =
          HeaderSize.Page + Max({Min({left, RecordsPerPage[page.kind]}), 0}) * RecordSize[page.kind]
     /\ page.offset = SumOf([p \in 1 .. i - 1 |-> cat.pages[p].stored])

RecordsAccepted(cat) ==
  /\ PagesCover(cat)
  /\ \A s \in DOMAIN cat.segments : SegmentAccepted(cat.segments[s].record)
  /\ \A f \in DOMAIN cat.files : FileAccepted(cat, cat.files[f])
  /\ \A s \in DOMAIN cat.slots : SlotAccepted(cat, cat.slots[s])
  /\ \A i \in DOMAIN cat.pages : PageAccepted(cat, i)

(* The snapshot is as long as its header and its last page say.              *)
LengthAccepted(cat) ==
  /\ cat.mapPages + cat.reusePages = cat.header.pages
  /\ cat.length = cat.header.region +
       (IF cat.pages = <<>> THEN 0 ELSE Last(cat.pages).offset + Last(cat.pages).stored)

(* What Package::open asks of a snapshot, but for the limits of sizes.       *)
Accepted(cat) ==
  /\ HeaderAccepted(cat.header)
  /\ CountsAccepted(cat) /\ TablesAccepted(cat) /\ RecordsAccepted(cat)
  /\ LengthAccepted(cat)

-------------------------------------------------------------------------------
(* The runtime: finding a file, a block, the block of an offset.            *)

NoEmptySlot == -1

PathOf(cat, file) == SubSeq(cat.pool, file.pathAt + 1, file.pathAt + file.pathLen)

IsEntryOf(cat, slot, path) ==
  slot.hash = Hash[path] /\ PathOf(cat, cat.files[slot.file]) = PathBytes(path)

(* The number of a file, 0 when there is none, or the error.                 *)
FindFile(cat, path) ==
  LET probes == Probes(Hash[path], Len(cat.slots))
      stop == SelectInSeq(probes, LAMBDA s :
                cat.slots[s].file = 0 \/ IsEntryOf(cat, cat.slots[s], path))
  IN IF stop = 0 THEN NoEmptySlot ELSE cat.slots[probes[stop]].file

NoReference == [plain |-> 0]
NoPage == [records |-> <<>>]

(* The page with a number, if it is of this kind and begins where it should.  *)
PageOpens(page, first) == page.first = first /\ page.records # <<>>

LoadPage(cat, i, kind, first) ==
  IF cat.pages[i].kind = kind /\ PageOpens(cat.pages[i], first) THEN cat.pages[i] ELSE NoPage

BlockRefAccepted(ref) == ref.plain > 0 /\ EncodedLengthCanonical(ref)

(* The block reference with a global number.                                 *)
BlockRef(cat, g) ==
  LET page  == (g - 1) \div BlocksPerMapPage + 1
      before == (page - 1) * BlocksPerMapPage
  IN IF g > cat.blocks \/ page > cat.mapPages THEN NoReference
     ELSE LET records == LoadPage(cat, page, "BlockMap", before + 1).records IN
          IF g - before <= Len(records) /\ BlockRefAccepted(records[g - before])
          THEN records[g - before] ELSE NoReference

(* The blocks a later build may reuse, each with its chunk.                  *)
ReuseRecords(cat) ==
  FlattenSeq([p \in 1 .. cat.reusePages |->
    LET first   == (p - 1) * ReusePerPage + 1
        records == LoadPage(cat, cat.mapPages + p, "Reuse", first).records
    IN [l \in DOMAIN records |-> [chunk |-> records[l], block |-> BlockRef(cat, first + l - 1)]]])

(* Mutant: the search stops at the first block that starts at the offset.     *)
StartsAtOrBeforeStrict(cat, file, i, offset) ==
  BlockRef(cat, file.first + i).logical < offset

StartsAtOrBefore(cat, file, i, offset) ==
  BlockRef(cat, file.first + i).logical <= offset

(* Which of a file's blocks holds an offset, from 0.                         *)
LocalIndex(cat, file, offset) ==
  IF file.layout = "Fixed" THEN (IF file.fixed = 0 THEN 0 ELSE offset \div file.fixed)
  ELSE LET search[part \in (0 .. file.count) \X (0 .. file.count)] ==
             LET low  == part[1]
                 high == part[2]
                 mid  == low + (high - low) \div 2
             IN IF low >= high THEN low
                ELSE IF StartsAtOrBefore(cat, file, mid, offset) THEN search[<<mid + 1, high>>]
                ELSE search[<<low, mid>>]
       IN Max({search[<<0, file.count>>] - 1, 0})

Covers(ref, offset) == ref.logical <= offset /\ offset < ref.logical + ref.plain

ReferenceForOffset(cat, file, offset) ==
  LET local == LocalIndex(cat, file, offset)
      ref   == BlockRef(cat, file.first + local)
  IN IF local < file.count /\ ref # NoReference /\ Covers(ref, offset)
     THEN ref ELSE NoReference

(* A segment is opened if its file and header are what the catalog says.      *)
SegmentOpens(segment) ==
  /\ HeaderSize.Segment + Payload(segment.blocks) = segment.record.len
  /\ SegmentAccepted(segment.header)
  /\ segment.header = segment.record

(* What a block becomes when it is decoded has the length that is expected.   *)
Decodes(block, ref) ==
  /\ ref.codec = "Raw" => ref.stored - TagSize = ref.plain
  /\ Len(block.bytes) = ref.plain

(* Reading a reference from its segment: other bytes than those that were     *)
(* written for it do not authenticate.                                       *)
InSegment(cat, ref) ==
  /\ ref.segment \in DOMAIN cat.segments
  /\ LET segment == cat.segments[ref.segment] IN
     /\ ref.block <= segment.record.count
     /\ ref.physical >= HeaderSize.Segment /\ ref.physical + ref.stored <= segment.record.len
     /\ SegmentOpens(segment)
     /\ LET block == segment.blocks[ref.block] IN
          /\ <<ref.physical, ref.stored, ref.codec>> = <<block.physical, block.stored, block.codec>>
          /\ Decodes(block, ref)

BlockBytes(cat, ref) == cat.segments[ref.segment].blocks[ref.block].bytes
===============================================================================
