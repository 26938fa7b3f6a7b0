------------------------------- MODULE Region -------------------------------
(***************************************************************************)
(* The class Region of region_file.cpp: a region file held in memory, with *)
(* pending writes and removes per slot, a cache of decompressed payloads,  *)
(* the views that callers hold into that cache, and save_to_bytes, one     *)
(* slot per step.  The library is single threaded: no other operation runs *)
(* while a save does, which `packing.active` in the guards says.           *)
(*                                                                         *)
(* A call that returns an error before it has changed anything is a        *)
(* stuttering step: its early returns are the guards below.                *)
(*                                                                         *)
(* A definition whose name extends that of the next one (FillsAlways,      *)
(* SaveFailSkips, ...) is that one with a slip a change to the code could  *)
(* make; no action uses it.                                                *)
(***************************************************************************)
EXTENDS RegionFormat

CONSTANTS
  Coords,       \* the chunk coordinates callers use
  Writes,       \* the <<payload, codec, timestamp>> callers write
  Files,        \* the region files a program may open
  Absent        \* in the abstract view: no chunk, no saved file

VARIABLES
  bytes,        \* bytes_: the file as opened
  cache,        \* cache_: per slot the decompressed payload, Empty when none
  overrides,    \* overrides_: per slot the pending write or remove
  views,        \* the slots a caller holds an intact chunk_view of
  packing,      \* save_to_bytes in progress: the next slot, the file so far
  saved         \* the last file a save produced, if there is one

vars == <<bytes, cache, overrides, views, packing, saved>>

ASSUME InputAssumption ==
  /\ \A f \in Files : IsImage(f)
  /\ Coords \subseteq Int \X Int
  /\ Writes \subseteq Payloads \X Codecs \X Timestamps

-----------------------------------------------------------------------------
(* Entries of overrides_.                                                  *)

NoOverride ==
  [present |-> FALSE, compressed |-> NoBlock, timestamp |-> 0,
   codec |-> "None"]

Removed == [NoOverride EXCEPT !.present = TRUE]

ChunkEntry ==
  [present : BOOLEAN, compressed : Block \cup {NoBlock},
   timestamp : Timestamps, codec : Codecs]

NotSaved == [some |-> FALSE, file |-> EmptyFile]
NotSaving == [active |-> FALSE, k |-> 0, file |-> EmptyFile]

-----------------------------------------------------------------------------
(* Queries.                                                                *)

removed(s) == overrides[s].present /\ overrides[s].compressed = NoBlock

has_chunk(s) ==
  IF overrides[s].present THEN ~ removed(s)
  ELSE Populated(bytes, s)

chunk_timestamp(s) ==
  IF overrides[s].present THEN overrides[s].timestamp ELSE bytes.ts[s]

\* What decompressing the slot's current source yields, the cache aside.
decoded(s) ==
  IF ~ overrides[s].present THEN read_original(bytes, s)
  ELSE IF removed(s) THEN "RegionInvalidChunk"
  ELSE inflate(overrides[s].codec, overrides[s].compressed.data)

\* chunk_raw's answer: a removed slot is refused first, then the cache wins.
chunk_raw(s) ==
  IF ~ removed(s) /\ cache[s] # Empty THEN cache[s] ELSE decoded(s)

\* The read has to decompress, succeeds, and so assigns cache_[s].
FillsUnchecked(s) == cache[s] = Empty
FillsAlways(s) == decoded(s) \in Payloads
Fills(s) == cache[s] = Empty /\ decoded(s) \in Payloads

\* Assigning or clearing cache_[s] takes the bytes away from the views of s.
CacheAfterRead(s) ==
  IF Fills(s) THEN [cache EXCEPT ![s] = decoded(s)] ELSE cache

ViewsAfterRead(s) == IF Fills(s) THEN views \ {s} ELSE views

-----------------------------------------------------------------------------
(* Reads.                                                                  *)

\* chunk_raw, and chunk_value, which decodes a copy of its answer.
ChunkRaw(c) ==
  LET s == chunk_index(c) IN
  /\ ~ packing.active
  /\ cache' = CacheAfterRead(s)
  /\ views' = ViewsAfterRead(s)
  /\ UNCHANGED <<bytes, overrides, packing, saved>>

\* chunk_view: chunk_raw, then a View that borrows cache_[s].
ChunkView(c) ==
  LET s == chunk_index(c) IN
  /\ ~ packing.active
  /\ cache' = CacheAfterRead(s)
  /\ views' = ViewsAfterRead(s)
                \cup (IF chunk_raw(s) \in Parses THEN {s} ELSE {})
  /\ UNCHANGED <<bytes, overrides, packing, saved>>

-----------------------------------------------------------------------------
(* Writes.                                                                 *)

ClearCacheNot(s) == UNCHANGED <<cache, views>>
ClearCache(s) ==
  /\ cache' = [cache EXCEPT ![s] = Empty]
  /\ views' = views \ {s}

WriteChunkBytesDefaultCodec(c, p, codec, t) ==
  LET s == chunk_index(c) IN
  /\ ~ packing.active
  /\ PackedSize[codec][p] <= kLengthMax
  /\ overrides' = [overrides EXCEPT ![s] =
                     [present    |-> TRUE,
                      compressed |-> make_chunk_block(p, codec),
                      timestamp  |-> t,
                      codec      |-> "Zlib"]]
  /\ ClearCache(s)
  /\ UNCHANGED <<bytes, packing, saved>>
\* write_chunk_bytes.  write_chunk is this with a payload `encode` built.
\* A payload above the length field's range is refused with nothing changed.
WriteChunkBytes(c, p, codec, t) ==
  LET s == chunk_index(c) IN
  /\ ~ packing.active
  /\ PackedSize[codec][p] <= kLengthMax
  /\ overrides' = [overrides EXCEPT ![s] =
                     [present    |-> TRUE,
                      compressed |-> make_chunk_block(p, codec),
                      timestamp  |-> t,
                      codec      |-> codec]]
  /\ ClearCache(s)
  /\ UNCHANGED <<bytes, packing, saved>>

RemoveChunkResurrects(c) ==
  LET s == chunk_index(c) IN
  /\ ~ packing.active
  /\ overrides' = [overrides EXCEPT ![s] = NoOverride]
  /\ ClearCache(s)
  /\ UNCHANGED <<bytes, packing, saved>>
RemoveChunk(c) ==
  LET s == chunk_index(c) IN
  /\ ~ packing.active
  /\ overrides' = [overrides EXCEPT ![s] = Removed]
  /\ ClearCache(s)
  /\ UNCHANGED <<bytes, packing, saved>>

-----------------------------------------------------------------------------
(* save_to_bytes: slots in row-major order, which is the order of their    *)
(* indices, each block appended at the end of the file built so far.       *)

source_block(s) ==
  IF overrides[s].present THEN overrides[s].compressed ELSE BlockAt(bytes, s)

\* An untouched slot is copied from the opened file, if its block is whole.
Copyable(s) ==
  ~ overrides[s].present => HeaderInside(bytes, s, 4) /\ Whole(bytes, s)

sectors_neededDown(block) == BlockBytes(block) \div kSector
sectors_needed(block) == (BlockBytes(block) + kSector - 1) \div kSector

sector_offset(f) == f.size \div kSector

TableHolds(f, block) ==
  /\ sector_offset(f) <= kMaxOffset
  /\ sectors_needed(block) <= kMaxCount

append_blockUnstamped(f, s, block, t) ==
  LET off == sector_offset(f)
      cnt == sectors_needed(block) IN
  [size |-> f.size + cnt * kSector,
   loc  |-> [f.loc EXCEPT ![s] = [off |-> off % (kMaxOffset + 1),
                                  cnt |-> cnt % (kMaxCount + 1)]],
   ts   |-> f.ts,
   at   |-> [o \in DOMAIN f.at \cup {off} |->
               IF o = off THEN block ELSE f.at[o]]]
append_blockUnpadded(f, s, block, t) ==
  LET off == sector_offset(f)
      cnt == sectors_needed(block) IN
  [size |-> f.size + BlockBytes(block),
   loc  |-> [f.loc EXCEPT ![s] = [off |-> off % (kMaxOffset + 1),
                                  cnt |-> cnt % (kMaxCount + 1)]],
   ts   |-> [f.ts EXCEPT ![s] = t],
   at   |-> [o \in DOMAIN f.at \cup {off} |->
               IF o = off THEN block ELSE f.at[o]]]
append_block(f, s, block, t) ==
  LET off == sector_offset(f)
      cnt == sectors_needed(block) IN
  [size |-> f.size + cnt * kSector,
   loc  |-> [f.loc EXCEPT ![s] = [off |-> off % (kMaxOffset + 1),
                                  cnt |-> cnt % (kMaxCount + 1)]],
   ts   |-> [f.ts EXCEPT ![s] = t],
   at   |-> [o \in DOMAIN f.at \cup {off} |->
               IF o = off THEN block ELSE f.at[o]]]

SaveBegin ==
  /\ ~ packing.active
  /\ packing' = [active |-> TRUE, k |-> 0, file |-> EmptyFile]
  /\ UNCHANGED <<bytes, cache, overrides, views, saved>>

SaveSkip ==
  /\ packing.active /\ packing.k \in Slots
  /\ ~ has_chunk(packing.k)
  /\ packing' = [active |-> TRUE, k |-> packing.k + 1, file |-> packing.file]
  /\ UNCHANGED <<bytes, cache, overrides, views, saved>>

SaveAppend ==
  /\ packing.active /\ packing.k \in Slots
  /\ LET s == packing.k IN
     /\ has_chunk(s)
     /\ Copyable(s)
     /\ TableHolds(packing.file, source_block(s))
     /\ packing' = [active |-> TRUE, k |-> s + 1,
                    file   |-> append_block(packing.file, s, source_block(s),
                                            chunk_timestamp(s))]
  /\ UNCHANGED <<bytes, cache, overrides, views, saved>>

SaveFailSkips ==
  /\ packing.active /\ packing.k \in Slots
  /\ LET s == packing.k IN
     /\ has_chunk(s)
     /\ Copyable(s) => ~ TableHolds(packing.file, source_block(s))
  /\ packing' = [active |-> TRUE, k |-> packing.k + 1, file |-> packing.file]
  /\ UNCHANGED <<bytes, cache, overrides, views, saved>>
\* One chunk that is damaged or too large fails the whole save.
SaveFail ==
  /\ packing.active /\ packing.k \in Slots
  /\ LET s == packing.k IN
     /\ has_chunk(s)
     /\ Copyable(s) => ~ TableHolds(packing.file, source_block(s))
  /\ packing' = NotSaving
  /\ UNCHANGED <<bytes, cache, overrides, views, saved>>

SaveDone ==
  /\ packing.active /\ packing.k \notin Slots
  /\ saved' = [some |-> TRUE, file |-> packing.file]
  /\ packing' = NotSaving
  /\ UNCHANGED <<bytes, cache, overrides, views>>

SaveStep == SaveSkip \/ SaveAppend \/ SaveFail \/ SaveDone

-----------------------------------------------------------------------------
(* create, open_from_bytes, and a new Region opened on the saved file.     *)

Loaded(f) ==
  /\ bytes = f
  /\ cache = [s \in Slots |-> Empty]
  /\ overrides = [s \in Slots |-> NoOverride]
  /\ views = {}

Init ==
  /\ \E f \in Files \cup {EmptyFile} : Loaded(f)
  /\ packing = NotSaving
  /\ saved = NotSaved

Reopen ==
  /\ ~ packing.active
  /\ saved.some
  /\ bytes' = saved.file
  /\ cache' = [s \in Slots |-> Empty]
  /\ overrides' = [s \in Slots |-> NoOverride]
  /\ views' = {}
  /\ UNCHANGED <<packing, saved>>

Next ==
  \/ \E c \in Coords : ChunkRaw(c)
  \/ \E c \in Coords : ChunkView(c)
  \/ \E c \in Coords, w \in Writes : WriteChunkBytes(c, w[1], w[2], w[3])
  \/ \E c \in Coords : RemoveChunk(c)
  \/ SaveBegin
  \/ SaveSkip
  \/ SaveAppend
  \/ SaveFail
  \/ SaveDone
  \/ Reopen

Spec == Init /\ [][Next]_vars

-----------------------------------------------------------------------------
(* Properties.                                                             *)

TypeOK ==
  /\ IsImage(bytes)
  /\ cache \in [Slots -> Payloads]
  /\ overrides \in [Slots -> ChunkEntry]
  /\ views \subseteq Slots
  /\ packing.active \in BOOLEAN
  /\ packing.k \in 0 .. (kSize * kSize)
  /\ packing = [active |-> packing.active, k |-> packing.k,
                file |-> packing.file]
  /\ IsImage(packing.file)
  /\ saved = [some |-> saved.some, file |-> saved.file]
  /\ saved.some \in BOOLEAN
  /\ IsImage(saved.file)

\* A pending write's block is what make_chunk_block built for its codec.
BlocksMade ==
  \A s \in Slots : overrides[s].present /\ ~ removed(s) =>
    \E p \in Payloads :
      overrides[s].compressed = make_chunk_block(p, overrides[s].codec)

\* A payload in cache_ is what decompressing the slot's present source would
\* give: every write and remove invalidates it, no failed read leaves one.
CacheCoherent ==
  \A s \in Slots : cache[s] # Empty => decoded(s) = cache[s]

\* A view that no assignment or clear() of its buffer has taken shows the
\* present contents of its slot.
LiveViewCurrent ==
  \A s \in views : /\ cache[s] \in Parses
                   /\ has_chunk(s)
                   /\ decoded(s) = cache[s]

\* Reads and saves, of this slot or of others, never take the bytes away
\* from a view a caller still holds; only writes, removes and closing do.
ViewsSurviveReads ==
  [][(\E c \in Coords : ChunkRaw(c) \/ ChunkView(c)) \/ SaveBegin \/ SaveStep
       => views \subseteq views']_vars

\* A file built by save_to_bytes: every block lies inside the file, is
\* covered by its sector count, and ends before the next slot's starts.
Layout(f) ==
  \A s \in Slots : Populated(f, s) =>
    /\ f.loc[s].off + f.loc[s].cnt <= sector_offset(f)
    /\ BlockBytes(BlockAt(f, s)) <= f.loc[s].cnt * kSector
    /\ \A t \in Slots : s < t /\ Populated(f, t)
                          => f.loc[s].off + f.loc[s].cnt <= f.loc[t].off

\* The layout holds of the file under construction and of the saved one.
SavedLayout == Layout(packing.file) /\ Layout(saved.file)

\* What the file under construction holds when slots below k are done: a
\* populated slot is carried over, block and timestamp, to a place of its own;
\* every other slot has no entry.
Carried(f, s) ==
  /\ Copyable(s)
  /\ f.loc[s].off \in DOMAIN f.at
  /\ f.loc[s].off >= 2 /\ f.loc[s].cnt > 0
  /\ f.loc[s].off + f.loc[s].cnt <= sector_offset(f)
  /\ BlockAt(f, s) = source_block(s)
  /\ BlockBytes(source_block(s)) <= f.loc[s].cnt * kSector
  /\ f.ts[s] = chunk_timestamp(s)

PackedUpTo(f, k) ==
  /\ f.size = kSector * sector_offset(f)
  /\ sector_offset(f) \in 2 .. (2 + kMaxCount * k)
  /\ \A o \in DOMAIN f.at : o < sector_offset(f)
  /\ \A s \in Slots : IF s < k /\ has_chunk(s) THEN Carried(f, s)
                      ELSE f.loc[s] = NoLocation
  /\ \A s, t \in Slots :
       s < t /\ t < k /\ has_chunk(s) /\ has_chunk(t)
         => f.loc[s].off + f.loc[s].cnt <= f.loc[t].off

\* The inductive invariant of the save loop; the state between saves is the
\* loop's start.
PackInv ==
  /\ PackedUpTo(packing.file, packing.k)
  /\ packing.active \/ packing = NotSaving

\* The 24-bit sector offset cannot run out, so the first half of
\* save_to_bytes's LengthOverflow check never fires: a save is refused only
\* for a chunk of its own.
OffsetFits ==
  /\ sector_offset(packing.file) <= 2 + kMaxCount * packing.k
  /\ sector_offset(packing.file) <= kMaxOffset

-----------------------------------------------------------------------------
(* What a doc or a comment says and the code does not do: not invariants.  *)

\* "Encode nv ..., and install it at (cx, cz)" (region.hpp:52-53): a chunk
\* that write_chunk has accepted can be read while it is in the slot.
WrittenChunkReads ==
  \A s \in Slots : overrides[s].present /\ ~ removed(s)
                     => chunk_raw(s) = overrides[s].compressed.data.raw

-----------------------------------------------------------------------------
(* The abstract Region this one implements.                                *)

Chunks == [raw : Payloads \cup Errors, ts : Timestamps]

ASSUME AbsentAssumption ==
  Absent \notin Chunks \cup [Slots -> Chunks \cup {Absent}]

Contents ==
  [s \in Slots |-> IF has_chunk(s)
                   THEN [raw |-> chunk_raw(s), ts |-> chunk_timestamp(s)]
                   ELSE Absent]

OnDisk(f) ==
  [s \in Slots |-> IF Populated(f, s)
                   THEN [raw |-> read_original(f, s), ts |-> f.ts[s]]
                   ELSE Absent]

Abstract == INSTANCE RegionSpec
  WITH contents <- Contents,
       disk     <- IF saved.some THEN OnDisk(saved.file) ELSE Absent

\* A Region behaves as the map of RegionSpec: each read answers from the last
\* write, a removed chunk stays removed, and reopening a saved file gives the
\* chunks and timestamps that were there when it was saved.
ImplementsRegionSpec == Abstract!Spec

=============================================================================
